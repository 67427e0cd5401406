SPECIFICATION MCFairSpec
CONSTANTS
    n1 = n1
    n2 = n2
    Node <- MCNode
    Genesis = 0
    Hash <- MCHash
    Prev <- MCPrev
    Mined <- MCMined
    Tx <- MCTx
    MaxSize = 1
    MaxOrphans = 2
    MaxCount = 1
    MaxFlight = 3
    PruneAfter = 3
    MaxLost = 1
    MaxRestarts <- NoRestart
PROPERTIES
    CatchesUp
CHECK_DEADLOCK FALSE
