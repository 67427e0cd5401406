SPECIFICATION MCSpec
CONSTANTS
    Node = {a, b}
    Genesis = 0
    Hash <- MCHash
    Prev <- MCPrev
    Mined <- MCMined
    Tx <- MCTx
    MaxSize = 1
    MaxOrphans = 2
    MaxCount = 1
    MaxFlight = 0
    PruneAfter = 2
    MaxLost = 1
    MaxRestarts <- NoRestart
SYMMETRY Symmetry
INVARIANTS
    MinesTheTip
    SeenCovers
    ConfirmedOnce
CHECK_DEADLOCK FALSE
