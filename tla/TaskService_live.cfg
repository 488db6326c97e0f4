\* One task, two agents started, every spawn succeeds: what eventually happens.
SPECIFICATION FairSpec
CONSTANTS
    TaskBound = 1
    AgentBound = 2
    MaxTasks = 1
    MaxAgents = 2
    Kinds = {"task", "review"}
    Sizes = {1, 2}
    RetryLimit = 1
    StartMayFail = FALSE

    
PROPERTIES
    SlotFreed
CHECK_DEADLOCK FALSE
