SPECIFICATION BusSpec
CONSTANTS
    a1 = a1
    a2 = a2
    ob = ob
    m1 = m1
    m2 = m2
    m3 = m3
    Conns <- MCConns
    Sids <- MCSids
    SidOf <- MCSidOf
    Msgs <- MCMsgs
    Calls = {"k1"}
    NoConn = NoConn
    REPLAY_MAX = 2
    REPLAY_WINDOW = 1
    MaxDelay = 1
    TickSize = 2
    MaxNow = 2
    Leaving = {a1}
    Twice = {m1}
    Taps <- MCTaps
    LegacyRows <- MCLegacyRows
    MaxFails = 1
    SessionIds = {"A", "B"}
    Sockets = {"a1", "a2", "b1"}
    SessionOf <- MCSessionOf
    CallIds = {"k1", "k2"}
SYMMETRY MCSymmetry
CHECK_DEADLOCK FALSE
INVARIANTS
    NoGap
    HandshakeFirst
    LiveOnce
    RecentKept
    OpenCardsReoffered
    AnsweredNotReoffered
    OneRowEach
    
