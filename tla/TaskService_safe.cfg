\* Every kind of task, every command, three agents started, spawns that fail.
SPECIFICATION Spec
CONSTANTS
    TaskBound = 1
    AgentBound = 3
    MaxTasks = 1
    MaxAgents = 2
    Kinds = {"proposal", "task", "review"}
    Sizes = {1, 2}
    RetryLimit = 1
    StartMayFail = TRUE
INVARIANTS
    TypeOK
    ProcessIsKnown
    NoOrphan
    DoneIsReported
PROPERTIES
    TerminalOnlyForced
    
CHECK_DEADLOCK FALSE
