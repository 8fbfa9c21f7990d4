SPECIFICATION FairSpec
CONSTANTS
    Lead = Lead
    Pass = Pass
    b1 = b1
    b2 = b2
    ext = ext
    Bots <- OneBot
    Externals <- OneExternal
    MaxFailures = 1
    MaxRestarts = 1
INVARIANTS TypeOK EndsComplete
PROPERTIES EventProvisions StarReachesAll PassCatchesUp
CHECK_DEADLOCK FALSE
