SPECIFICATION FairSpec
CONSTANTS
    Tasks = {a, b, c}
    Planned = {a, b}
    Milestone = milestone
    Main = main
    None = none
    Cap = 1
    Faults = {"add", "conflict"}
    FaultBound = 1
    DecisionBound = 1
INVARIANTS TypeOK ReportedIsIn 
PROPERTIES  InOrder Answered
CHECK_DEADLOCK FALSE
