SPECIFICATION FairSpec
CONSTANTS
    Lead = Lead
    Pass = Pass
    b1 = b1
    b2 = b2
    ext = ext
    Bots <- TwoBots
    Externals <- NoExternals
    MaxFailures = 0
    MaxRestarts = 1
PROPERTY VerifiedAreCaughtUp
CHECK_DEADLOCK FALSE
