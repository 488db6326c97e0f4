SPECIFICATION FairSpec
CONSTANTS
    Nodes = {n1, n2}
    Decisions = {"keep"}
    MeetingBound = 2
    Faults = {}
    FaultBound = 0
PROPERTIES
    MeetingEnds
    
CHECK_DEADLOCK FALSE
