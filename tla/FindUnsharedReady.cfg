SPECIFICATION FairSpec
CONSTANTS
    Member = {a, b}
    MaxLate = 1
PROPERTIES
    EverybodyStarts
CHECK_DEADLOCK FALSE
