SPECIFICATION FairSpec
CONSTANTS
    ann = ann
    ben = ben
    Roster <- TwoBots
    Pass = Pass
    Sync = Sync
    Scenarios <- Troubles
INVARIANTS TypeOK CoreCanLogIn NoFalseAlarm
PROPERTIES CredentialsAgree BotsLogIn BotsAreMarked
CHECK_DEADLOCK FALSE
