SPECIFICATION Spec
CONSTANTS
    Worker = {w1, w2}
    MaxTips = 1
    MaxCalls = 1
    MaxBlocks = 2
INVARIANTS
    MinesTheTip
    PauseHasAWaker
    FewBlocksWait
PROPERTIES
    PauseEnds
    StaleSearchEnds
    StopEnds
