SPECIFICATION Spec
CONSTANTS
    a1 = a1
    a2 = a2
    ob = ob
    m1 = m1
    m2 = m2
    m3 = m3
    Conns <- MCConns
    Sids <- MCSids
    SidOf <- MCSidOf
    Msgs = {m1}
    Calls = {}
    NoConn = NoConn
    REPLAY_MAX = 2
    REPLAY_WINDOW = 0
    MaxDelay = 1
    TickSize = 1
    MaxNow = 0
    Leaving = {a1}
    Twice = {m1}
CHECK_DEADLOCK FALSE
PROPERTY
    ServedWhileConnected
