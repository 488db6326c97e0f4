SPECIFICATION FairSpec
CONSTANTS
    p = p
    m = m
    t = t
    u = u
    x = x
    Proposal = p
    Milestones = {m}
    Tasks = {t, u}
    Parent <- OneParent
    Stray = x
    Paths = {"agent", "skeleton", "direct"}
    MaxAgents = 1
    MaxReviewCycles = 2
    Late = {t}
    Redoable = {m}
    Faults = {"reject", "timeout", "fail", "add"}
    FaultBound = 1
INVARIANTS TypeOK   
PROPERTY Finishes
CHECK_DEADLOCK FALSE
