SPECIFICATION Spec
CONSTANTS
    Threads <- MCThreads
    NoSink = NoSink
    MaxEvents = 1
    MaxRuns = 2
CHECK_DEADLOCK FALSE
INVARIANT
    NothingLost
