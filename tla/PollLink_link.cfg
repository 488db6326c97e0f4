SPECIFICATION FairSpec
CONSTANTS
    Events = {"a", "b", "c"}
    Critical = {"a", "b"}
    Commands = {1}
    None = None
    Cap = 1
    MaxFailures = 3
    MaxRestarts = 1
INVARIANTS TypeOK QueueOrder Recorded
PROPERTIES EventsKept CommandsKept AllArrives
CHECK_DEADLOCK FALSE
