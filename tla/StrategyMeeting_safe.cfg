SPECIFICATION Spec
CONSTANTS
    Nodes = {n1, n2}
    Decisions = {"cancel"}
    MeetingBound = 2
    Faults = {"loss", "restart"}
    FaultBound = 1
INVARIANTS
    TypeOK
    OneInCharge
    
PROPERTY SessionOver
CHECK_DEADLOCK FALSE
