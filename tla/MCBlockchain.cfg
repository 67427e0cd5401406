SPECIFICATION Spec
CONSTANTS
    Hash <- MCHash
    Genesis = 0
    Prev <- MCPrev
    Mined <- MCMined
    Offered <- MCOffered
    MaxOrphans = 2
    PruneAfter = 2
    MaxRestarts = 2
INVARIANTS
    TypeOK
    MainIsLinked
    TipIsBest
    TreeIsConnected
    OrphansWait
    DiskIsMain
PROPERTIES
    TipOnlyImproves
    ResultIsTheDifference
    IsBestChain
    AddBlockIsFunction
