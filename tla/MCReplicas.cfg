SPECIFICATION Spec
CONSTANTS
    Node = {a, b}
    Hash <- MCHash
    Genesis = 0
    Prev <- MCPrev
    Mined <- MCHash
    Offered <- MCOffered
    MaxOrphans = 3
SYMMETRY Symmetry
INVARIANTS
    OrderDoesNotMatter
    MoreIsNotWorse
