SPECIFICATION FairSpec
CONSTANTS
    Steps <- PairSteps
    Invokers = {}
    NetLimits <- MCNetLimits
    Threads <- TwoThreads
    ChatThreads <- OneChat
    Rosters <- PowerRosters
    Claims <- PairClaims
    CallIds = {1, 2, 3, 4, 5, 6}
    MaxRuns = 2
CHECK_DEADLOCK FALSE
INVARIANT
    PendingCovered

    
    
