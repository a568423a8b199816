SPECIFICATION GateSpec
CONSTANTS
    Workers <- MCWorkers
    Resumers <- MCResumers
    Sigs <- MCSigs
    CardIds = {c1, c2, c3, c4, c5}
SYMMETRY Symmetric
CHECK_DEADLOCK FALSE
INVARIANT
    AtMostThreePending
