SPECIFICATION FairSpec
CONSTANTS
    Files = {1, 2, 3}
    Contents = {1, 2, 3}
    Refused = {3}
    MaxOutputFiles = 2
    None = None
    Torn = Torn
    Initial <- Left
    MaxAttempts = 3
    MaxWrites = 1
    MaxQuick = 1
    MaxFaults = 3
INVARIANTS
    SealedWhole OneResult UploadsAccounted
PROPERTIES
    SealFaithful Exported
CHECK_DEADLOCK FALSE
