SPECIFICATION ThreadsSpec
CONSTANTS
    Threads <- MCThreads
    NoSink = NoSink
    MaxEvents = 4
    MaxRuns = 3
    Workers <- MCWorkers
    Resumers <- MCResumers
    Sigs <- MCSigs
    MaxCards = 5
    CardIds <- MCCardIds
CHECK_DEADLOCK FALSE
INVARIANTS
    CardsOnce
    AtMostTwice
    
    OpenCovered
    NoPhantomSkips
