SPECIFICATION Spec
CONSTANTS
    p = p
    m = m
    t = t
    u = u
    x = x
    Proposal = p
    Milestones = {m}
    Tasks = {t, u}
    Parent <- OneParent
    Stray = x
    Paths = {"agent", "skeleton", "direct"}
    MaxAgents = 1
    MaxReviewCycles = 1
    Late = {}
    Redoable = {}
    Faults = {"fail", "overlap"}
    FaultBound = 1
INVARIANT MergedIsDone
CHECK_DEADLOCK FALSE
