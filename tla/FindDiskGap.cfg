SPECIFICATION FaultySpec
CONSTANTS
    Hash <- MCHash
    Genesis = 0
    Prev <- MCPrev
    Mined <- MCHash
    Offered <- MCOffered
    MaxOrphans = 1
    PruneAfter = 9
    MaxRestarts = 1
    MaxFaults = 1
INVARIANT
    EveryBlockConnects
