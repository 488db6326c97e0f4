SPECIFICATION FairSpec
CONSTANTS
    TaskCount = 2
    MaxAgents = 2
    Paths = {"agent", "skeleton", "direct"}
    Client = "httppoll"
    CallBound = 2
    PostBound = 1
    Faults = {}
    FaultBound = 0
    setup = setup
    review = review
    rework = rework
    skeleton = skeleton
    merge = merge
PROPERTY TasksFollow
CHECK_DEADLOCK FALSE
