SPECIFICATION Spec
CONSTANTS
    a = a
    b = b
    Id <- MCId
    MaxHeight = 2
    PruneAfter = 1
    Overlap = TRUE
    MaxRewrites = 2
    MaxCrashes = 1
    MaxFlips = 0
SYMMETRY Symmetry
INVARIANT
    ReplaceIsAtomic
