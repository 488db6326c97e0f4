SPECIFICATION FairSpec
CONSTANTS
    Pairs = {1, 2, 3, 4, 5, 6, 7}
    Conns = {11, 12}
    None = 0
    Faults = {"cut", "restart", "stop", "lost", "save"}
    FaultBound = 2
INVARIANTS TypeOK OneReader TokensKept
PROPERTY Reconnects
CHECK_DEADLOCK FALSE
