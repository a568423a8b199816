SPECIFICATION Spec
CONSTANTS
    Steps <- OneStep
    Invokers = {}
    NetLimits <- MCNetLimits
    Threads <- OneThread
    ChatThreads <- OneChat
    Rosters <- PowerRosters
    Claims <- OneStepClaims
    CallIds = {1, 2, 3, 4}
    MaxRuns = 4
CHECK_DEADLOCK FALSE
INVARIANT
    QueuedOnlyWhenFull
