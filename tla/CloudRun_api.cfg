SPECIFICATION FairSpec
CONSTANTS
    TaskCount = 2
    MaxAgents = 2
    Paths = {"agent", "direct"}
    Client = "api"
    CallBound = 2
    PostBound = 2
    Faults = {"save", "crash", "repeat", "drop"}
    FaultBound = 1
    setup = setup
    review = review
    rework = rework
    skeleton = skeleton
    merge = merge
INVARIANTS TypeOK  RunKept
 
CHECK_DEADLOCK FALSE
