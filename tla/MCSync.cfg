SPECIFICATION MCFairSpec
CONSTANTS
    n1 = n1
    n2 = n2
    Node <- MCNode
    Genesis = 0
    Hash <- MCHash
    Prev <- MCPrev
    Mined <- MCMined
    Tx <- MCTx
    MaxSize = 1
    MaxOrphans = 1
    MaxCount = 1
    MaxFlight = 1
    PruneAfter = 3
    MaxLost = 1
    MaxRestarts <- OneRestart
INVARIANTS
    TypeOK
PROPERTIES
    NodesAreBestChains
    CatchesUpUnlessCut
CHECK_DEADLOCK FALSE
