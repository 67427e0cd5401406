SPECIFICATION Spec
CONSTANTS
    a = a
    b = b
    Id <- MCId
    MaxHeight = 2
    PruneAfter = 1
    Overlap = FALSE
    MaxRewrites = 3
    MaxCrashes = 1
    MaxFlips = 1
SYMMETRY Symmetry
INVARIANTS
    TypeOK
    CrashKeepsTheChain
    ReadsSeeTheChain
    RecentBodiesAreKept
    AdoptedIndexIsRight
    CorruptionIsLocal
    StartLosesOnlyTheTail
PROPERTIES
    IsChainStore
