SPECIFICATION FairSpec
CONSTANTS
    ann = ann
    ben = ben
    Roster <- TwoBots
    Pass = Pass
    Sync = Sync
    Scenarios <- Troubles
PROPERTY RotationReaches
CHECK_DEADLOCK FALSE
