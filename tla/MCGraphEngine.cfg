SPECIFICATION Spec
CONSTANTS
    Steps <- LongSteps
    Invokers = {}
    NetLimits <- MCNetLimits
    Threads <- OneThread
    ChatThreads <- OneChat
    Rosters <- GuildRosters
    Claims <- LongClaims
    CallIds = {1, 2, 3, 4, 5}
    MaxRuns = 5
CHECK_DEADLOCK FALSE
INVARIANTS
    TypeOK
    SkipsEnd
PROPERTY
    ApprovedByConsent
