SPECIFICATION FairSpec
CONSTANTS
    Member = {a, b}
    MaxLate = 1
INVARIANTS
    TypeOK
    WonIsRecorded
    AheadOnlyAsWinner
PROPERTIES
    WinsUnlessLateOrSilent
CHECK_DEADLOCK FALSE
