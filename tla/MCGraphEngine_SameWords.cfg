SPECIFICATION Spec
CONSTANTS
    Steps <- SameWordsSteps
    Invokers = {}
    NetLimits <- MCNetLimits
    Threads <- OneThread
    ChatThreads <- OneChat
    Rosters <- PowerRosters
    Claims <- SameWordsClaims
    CallIds = {1, 2}
    MaxRuns = 1
CHECK_DEADLOCK FALSE
PROPERTY
    ApprovedByConsent
