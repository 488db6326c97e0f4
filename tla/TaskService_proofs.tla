------------------------- MODULE TaskService_proofs -------------------------
(***************************************************************************)
(* Theorems about TaskService, for any number of tasks and agents, any     *)
(* limits, and spawns that may fail.                                       *)
(***************************************************************************)
EXTENDS TaskService, FiniteSetTheorems, TLAPS

\* A transition never leaves the task statuses.
LEMMA TransitionType ==
    ASSUME NEW s \in TaskStatus, NEW target \in TaskStatus
    PROVE  TransitionTask(s, target) \in TaskStatus
  BY DEF TransitionTask

\* The part of TypeOK about the variables StartAgents changes.
StartVarsType ==
    /\ born \in 0 .. AgentBound
    /\ agent \in [Agents -> AgentStatus]
    /\ owner \in [Agents -> Tasks \cup {0}]
    /\ proc \in [Agents -> ProcStatus]
    /\ ids \in [Tasks -> SUBSET Agents]

\* The agents that startAgentLocked adds keep every variable in its type.
LEMMA StartType ==
    ASSUME TypeOK, NEW t \in Tasks, NEW m \in Nat,
           NEW pool \in [Agents -> AgentStatus],
           NEW procs \in [Agents -> ProcStatus],
           NEW list \in SUBSET Agents,
           StartAgents(t, m, pool, procs, list)
    PROVE  StartVarsType'
  <1>1. born \in Nat /\ AgentBound \in Nat
    BY BoundsAssumption DEF TypeOK
  <1>2. Fresh(m) \subseteq Agents
    BY <1>1 DEF Fresh, Agents, StartAgents
  <1>3. born' \in 0 .. AgentBound
    BY <1>1 DEF StartAgents
  <1>4. agent' \in [Agents -> AgentStatus] /\ proc' \in [Agents -> ProcStatus]
    BY DEF StartAgents, AgentStatus, ProcStatus
  <1>5. owner' \in [Agents -> Tasks \cup {0}]
    BY DEF StartAgents, TypeOK
  <1>6. ids' \in [Tasks -> SUBSET Agents]
    BY <1>2 DEF StartAgents, TypeOK
  <1>7. QED
    BY <1>3, <1>4, <1>5, <1>6 DEF StartVarsType

\* Stop requests keep the type of stopping.
LEMMA StopType ==
    ASSUME TypeOK, NEW S
    PROVE  StopRequested(S) \in [Agents -> StopPhase]
  BY DEF TypeOK, StopRequested, StopPhase

\* What a watcher writes to the shared variables is well typed.
LEMMA WatcherValues ==
    ASSUME TypeOK, NEW a \in Agents
    PROVE  /\ Without(a) \in [Agents -> AgentStatus]
           /\ Reaped(a) \in [Agents -> ProcStatus]
           /\ Idle(a) \in [Agents -> StopPhase]
           /\ Reported(owner[a], "failed") \in [Tasks -> SUBSET Outcome]
           /\ Reported(owner[a], "completed") \in [Tasks -> SUBSET Outcome]
           /\ Reported(owner[a], "reviewed") \in [Tasks -> SUBSET Outcome]
           /\ [status EXCEPT ![owner[a]] = TransitionTask(@, "done")]
                 \in [Tasks -> TaskStatus \cup {"absent", "creating"}]
  <1>1. Without(a) \in [Agents -> AgentStatus]
    BY DEF TypeOK, Without, AgentStatus
  <1>2. Reaped(a) \in [Agents -> ProcStatus]
    BY DEF TypeOK, Reaped, ProcStatus
  <1>3. Idle(a) \in [Agents -> StopPhase]
    BY DEF TypeOK, Idle, StopPhase
  <1>4. ASSUME NEW o \in Outcome
        PROVE  Reported(owner[a], o) \in [Tasks -> SUBSET Outcome]
    BY DEF TypeOK, Reported
  <1>5. {"failed", "completed", "reviewed"} \subseteq Outcome
    BY DEF Outcome
  <1>6. [status EXCEPT ![owner[a]] = TransitionTask(@, "done")]
          \in [Tasks -> TaskStatus \cup {"absent", "creating"}]
    BY DEF TypeOK, TransitionTask, TaskStatus
  <1>7. QED
    BY <1>1, <1>2, <1>3, <1>4, <1>5, <1>6

\* A watcher's step keeps the types.
LEMMA WatcherType ==
    ASSUME TypeOK, NEW a \in Agents, Watcher(a)
    PROVE  TypeOK'
  <1> USE WatcherValues
  <1>1. CASE AgentFailed(a)
    BY <1>1 DEF AgentFailed, Remove, TypeOK, taskVars, guardVars
  <1>2. ASSUME NEW m \in 0 .. 1, ProposalFailed(a, m) PROVE TypeOK'
    <2> DEFINE t == owner[a]
    <2>1. /\ status' = status /\ kind' = kind /\ asked' = asked
          /\ worktree' = worktree /\ merging' = merging
          /\ stopping' = Idle(a) /\ report' = Reported(t, "failed")
      BY <1>2 DEF ProposalFailed
    <2>2. CASE MayRetry /\ StartAgents(t, m, Without(a), Reaped(a), {})
               /\ retries' = (IF m = 1 THEN retries + 1 ELSE 0) /\ guard' = (guard /\ m = 1)
      <3>1. born' \in 0 .. AgentBound
        BY <2>2, BoundsAssumption DEF StartAgents, TypeOK
      <3>2. agent' \in [Agents -> AgentStatus] /\ proc' \in [Agents -> ProcStatus]
        BY <2>2 DEF StartAgents, AgentStatus, ProcStatus
      <3>3. Fresh(m) \subseteq Agents
        BY <2>2, BoundsAssumption DEF StartAgents, Fresh, Agents, TypeOK
      <3>4. ids' \in [Tasks -> SUBSET Agents]
        BY <2>2, <3>3 DEF StartAgents, TypeOK
      <3>5. owner' \in [Agents -> Tasks \cup {0}]
        BY <2>2 DEF StartAgents, TypeOK
      <3>6. guard' \in BOOLEAN
        BY <2>2
      <3>7. retries' \in 0 .. RetryLimit
        BY <2>2, BoundsAssumption DEF MayRetry, TypeOK
      <3>8. QED
        BY <2>1, <3>1, <3>2, <3>4, <3>5, <3>6, <3>7 DEF TypeOK
    <2>3. CASE agent' = Without(a) /\ proc' = Reaped(a) /\ guard' = FALSE
               /\ retries' = 0 /\ UNCHANGED <<born, owner, ids>>
      <3>1. retries' \in 0 .. RetryLimit
        BY <2>3, BoundsAssumption
      <3>2. guard' \in BOOLEAN
        BY <2>3
      <3>3. QED
        BY <2>1, <2>3, <3>1, <3>2 DEF TypeOK
    <2>4. QED
      BY <1>2, <2>2, <2>3 DEF ProposalFailed
  <1>3. CASE ReviewDone(a)
    BY <1>3 DEF ReviewDone, Remove, TypeOK, TaskStatus, guardVars
  <1>4. CASE ProposalDone(a)
    <2>1. retries' \in 0 .. RetryLimit
      BY <1>4, BoundsAssumption DEF ProposalDone
    <2>2. guard' \in BOOLEAN
      BY <1>4 DEF ProposalDone
    <2>3. QED
      BY <1>4, <2>1, <2>2 DEF ProposalDone, Remove, TypeOK
  <1>5. CASE TaskDone(a)
    BY <1>5 DEF TaskDone, TypeOK, AgentStatus, guardVars
  <1>6. CASE MergeSucceeded(a)
    BY <1>6 DEF MergeSucceeded, Remove, TypeOK, guardVars
  <1>7. CASE MergeFailed(a)
    BY <1>7 DEF MergeFailed, Remove, TypeOK, TaskStatus, guardVars
  <1>8. QED
    BY <1>1, <1>2, <1>3, <1>4, <1>5, <1>6, <1>7 DEF Watcher

\* A stopper's step keeps the types, and so do StopAgent and ProcessExit.
LEMMA StopperType ==
    ASSUME TypeOK, NEW a \in Agents,
           Stopper(a) \/ StopAgent(a) \/ ProcessExit(a)
    PROVE  TypeOK'
  <1>1. CASE StopSignal(a)
    BY <1>1 DEF StopSignal, TypeOK, StopPhase, taskVars, guardVars
  <1>2. CASE StopFinish(a)
    BY <1>2 DEF StopFinish, TypeOK, StopPhase, AgentStatus, ProcStatus, taskVars, guardVars
  <1>3. CASE StopAgent(a)
    BY <1>3, StopType DEF StopAgent, TypeOK, taskVars, guardVars
  <1>4. CASE ProcessExit(a)
    BY <1>4 DEF ProcessExit, TypeOK, ProcStatus, taskVars, guardVars
  <1>5. QED
    BY <1>1, <1>2, <1>3, <1>4 DEF Stopper

\* A command's step keeps the types.
LEMMA CommandType ==
    ASSUME TypeOK, Command
    PROVE  TypeOK'
  <1> USE StopType
  <1>1. PICK t \in Tasks :
          \/ \E n \in Sizes : ScaleDown(t, n)
          \/ \E n \in Sizes, m \in 0 .. AgentBound : ScaleUp(t, n, m)
          \/ \E mode \in {"graceful", "hard", "cancel"} : StopTask(t, mode)
          \/ PauseTask(t)
          \/ ResumeAgents(t)
          \/ \E m \in 0 .. AgentBound : ResumeAnew(t, m)
          \/ \E m \in 0 .. AgentBound : ResetTask(t, m)
    BY DEF Command
  <1>2. agent \in [Agents -> AgentStatus] /\ proc \in [Agents -> ProcStatus]
        /\ ids[t] \in SUBSET Agents
    BY DEF TypeOK
  <1>3. ASSUME NEW s \in TaskStatus \cup {"absent", "creating"}
        PROVE  [status EXCEPT ![t] = s] \in [Tasks -> TaskStatus \cup {"absent", "creating"}]
    BY DEF TypeOK
  <1>4. ASSUME NEW s \in TaskStatus \cup {"absent", "creating"}, NEW target \in TaskStatus
        PROVE  TransitionTask(s, target) \in TaskStatus \cup {"absent", "creating"}
    BY DEF TransitionTask
  <1>5. {"running", "scaling", "paused", "stopped", "cancelled", "resetting"}
          \subseteq TaskStatus
    BY DEF TaskStatus
  <1>6. status[t] \in TaskStatus \cup {"absent", "creating"}
    BY DEF TypeOK
  <1>7. ASSUME NEW n \in Sizes, ScaleDown(t, n) PROVE TypeOK'
    <2>1. status' \in [Tasks -> TaskStatus \cup {"absent", "creating"}]
      BY <1>3, <1>4, <1>5, <1>6, <1>7 DEF ScaleDown
    <2>2. ids' \in [Tasks -> SUBSET Agents]
      BY <1>7 DEF ScaleDown, TypeOK
    <2>3. QED
      BY <1>7, <2>1, <2>2 DEF ScaleDown, NoStart, TypeOK, guardVars
  <1>8. ASSUME NEW n \in Sizes, NEW m \in 0 .. AgentBound, ScaleUp(t, n, m) PROVE TypeOK'
    <2>1. status' \in [Tasks -> TaskStatus \cup {"absent", "creating"}]
      BY <1>3, <1>4, <1>5, <1>6, <1>8 DEF ScaleUp
    <2>2. StartAgents(t, m, agent, proc, ids[t])
      BY <1>8 DEF ScaleUp
    <2>3. StartVarsType'
      BY <1>2, <2>2, StartType DEF TypeOK
    <2>4. QED
      BY <1>8, <2>1, <2>3 DEF ScaleUp, StartVarsType, TypeOK, guardVars
  <1>9. ASSUME NEW mode \in {"graceful", "hard", "cancel"}, StopTask(t, mode) PROVE TypeOK'
    <2>1. status' \in [Tasks -> TaskStatus \cup {"absent", "creating"}]
      BY <1>3, <1>4, <1>5, <1>6, <1>9 DEF StopTask
    <2>2. QED
      BY <1>9, <2>1 DEF StopTask, NoStart, TypeOK, guardVars
  <1>10. CASE PauseTask(t)
    <2>1. status' \in [Tasks -> TaskStatus \cup {"absent", "creating"}]
      BY <1>3, <1>4, <1>5, <1>6, <1>10 DEF PauseTask
    <2>2. QED
      BY <1>10, <2>1 DEF PauseTask, ProcStatus, TypeOK, guardVars
  <1>11. CASE ResumeAgents(t)
    <2>1. status' \in [Tasks -> TaskStatus \cup {"absent", "creating"}]
      BY <1>3, <1>5, <1>11 DEF ResumeAgents
    <2>2. QED
      BY <1>11, <2>1 DEF ResumeAgents, ProcStatus, TypeOK, guardVars
  <1>12. ASSUME NEW m \in 0 .. AgentBound, ResumeAnew(t, m) PROVE TypeOK'
    <2>1. status' \in [Tasks -> TaskStatus \cup {"absent", "creating"}]
      BY <1>3, <1>5, <1>6, <1>12 DEF ResumeAnew
    <2>2. StartAgents(t, m, agent, proc, {})
      BY <1>12 DEF ResumeAnew
    <2>3. StartVarsType'
      BY <1>2, <2>2, StartType DEF TypeOK
    <2>4. QED
      BY <1>12, <2>1, <2>3 DEF ResumeAnew, StartVarsType, TypeOK, guardVars
  <1>13. ASSUME NEW m \in 0 .. AgentBound, ResetTask(t, m) PROVE TypeOK'
    <2>1. status' \in [Tasks -> TaskStatus \cup {"absent", "creating"}]
      BY <1>3, <1>4, <1>5, <1>6, <1>13 DEF ResetTask
    <2>2. StartAgents(t, m, agent, proc, {})
      BY <1>13 DEF ResetTask
    <2>3. StartVarsType'
      BY <1>2, <2>2, StartType DEF TypeOK
    <2>4. QED
      BY <1>13, <2>1, <2>3 DEF ResetTask, StartVarsType, TypeOK, guardVars
  <1>14. QED
    BY <1>1, <1>7, <1>8, <1>9, <1>10, <1>11, <1>12, <1>13

\* A step of CreateTask keeps the types.
LEMMA CreateType ==
    ASSUME TypeOK, Create
    PROVE  TypeOK'
  <1>1. {"creating", "running"} \subseteq TaskStatus \cup {"absent", "creating"}
    BY DEF TaskStatus
  <1>2. agent \in [Agents -> AgentStatus] /\ proc \in [Agents -> ProcStatus]
    BY DEF TypeOK
  <1>3. ASSUME NEW n \in Sizes, CreateRejected(n) PROVE TypeOK'
    BY <1>3 DEF CreateRejected, TypeOK, taskVars, agentVars
  <1>4. ASSUME NEW t \in Tasks, NEW n \in Sizes, NEW k \in Kinds, CreateBegin(t, k, n)
        PROVE  TypeOK'
    <2>1. k \in NodeTypes /\ n \in Nat
      BY InputAssumption
    <2>2. guard' \in BOOLEAN
      BY <1>4 DEF CreateBegin
    <2>3. QED
      BY <1>1, <1>4, <2>1, <2>2 DEF CreateBegin, TypeOK, agentVars
  <1>5. ASSUME NEW t \in Tasks, NEW wt \in BOOLEAN, NEW m \in 0 .. AgentBound,
               CreateFinish(t, wt, m)
        PROVE  TypeOK'
    <2>1. StartAgents(t, m, agent, proc, {})
      BY <1>5 DEF CreateFinish
    <2>2. status' \in [Tasks -> TaskStatus \cup {"absent", "creating"}]
      BY <1>1, <1>5 DEF CreateFinish, TypeOK
    <2>3. worktree' \in [Tasks -> BOOLEAN]
      BY <1>5 DEF CreateFinish, TypeOK
    <2>4. StartVarsType'
      BY <1>2, <2>1, StartType DEF TypeOK
    <2>5. QED
      BY <1>5, <2>1, <2>2, <2>3, <2>4 DEF CreateFinish, StartVarsType, TypeOK, guardVars
  <1>6. ASSUME NEW t \in Tasks, NEW n \in Sizes, NEW wt \in BOOLEAN,
               NEW m \in 0 .. AgentBound, CreateReview(t, n, wt, m)
        PROVE  TypeOK'
    <2>1. StartAgents(t, m, agent, proc, {})
      BY <1>6 DEF CreateReview
    <2>2. "review" \in NodeTypes
      BY DEF NodeTypes
    <2>3. status' \in [Tasks -> TaskStatus \cup {"absent", "creating"}]
      BY <1>1, <1>6 DEF CreateReview, TypeOK
    <2>4. StartVarsType'
      BY <1>2, <2>1, StartType DEF TypeOK
    <2>5. QED
      BY <1>6, <2>1, <2>2, <2>3, <2>4 DEF CreateReview, StartVarsType, TypeOK, guardVars
  <1>7. QED
    BY <1>3, <1>4, <1>5, <1>6 DEF Create

\* The initial state is well typed.
LEMMA InitType ==
    ASSUME Init
    PROVE  TypeOK
  <1>1. born \in 0 .. AgentBound /\ retries \in 0 .. RetryLimit
    BY BoundsAssumption DEF Init
  <1>2. guard \in BOOLEAN
    BY DEF Init
  <1>3. kind \in [Tasks -> NodeTypes] /\ agent \in [Agents -> AgentStatus]
        /\ proc \in [Agents -> ProcStatus] /\ stopping \in [Agents -> StopPhase]
    BY DEF Init, NodeTypes, AgentStatus, ProcStatus, StopPhase
  <1>4. QED
    BY <1>1, <1>2, <1>3 DEF Init, TypeOK

\* Every variable keeps its type.
THEOREM TypeCorrect == Spec => []TypeOK
  <1>1. Init => TypeOK
    BY InitType
  <1>2. TypeOK /\ [Next]_vars => TypeOK'
    <2> SUFFICES ASSUME TypeOK, [Next]_vars PROVE TypeOK'
      OBVIOUS
    <2>1. CASE Next
      BY <2>1, CreateType, CommandType, WatcherType, StopperType DEF Next
    <2>2. CASE UNCHANGED vars
      BY <2>2 DEF vars, taskVars, agentVars, guardVars, TypeOK
    <2>3. QED
      BY <2>1, <2>2
  <1>3. QED
    BY <1>1, <1>2, PTL DEF Spec

---------------------------------------------------------------------------
(***************************************************************************)
(* The inductive invariant.  ProcessIsKnown and NoOrphan are inductive     *)
(* only together with what the agent map holds: numbers handed out, and    *)
(* tasks of the map.  DoneIsReported needs that an agent whose watcher is  *)
(* in MergeBack is still in the map, so that its owner cannot change.      *)
(***************************************************************************)
AgentMapOK ==
    \A a \in Agents :
        /\ agent[a] # "none" => a <= born /\ owner[a] \in TasksInMap
        /\ a \in merging => agent[a] = "stopped"

IInv == TypeOK /\ AgentMapOK /\ ProcessIsKnown /\ NoOrphan /\ DoneIsReported

\* What startAgentLocked does to each agent and to each AgentIDs.
LEMMA StartFacts ==
    ASSUME TypeOK, NEW t \in Tasks, NEW m \in Nat, NEW pool, NEW procs, NEW list,
           StartAgents(t, m, pool, procs, list)
    PROVE  /\ \A b \in Agents :
                 \/ /\ b > born /\ b <= born'
                    /\ agent'[b] = "running" /\ owner'[b] = t
                    /\ proc'[b] = "working" /\ b \in ids'[t]
                 \/ /\ agent'[b] = pool[b] /\ owner'[b] = owner[b]
                    /\ proc'[b] = procs[b]
           /\ \A u \in Tasks : u # t => ids'[u] = ids[u]
           /\ list \subseteq ids'[t]
           /\ born' >= born
           /\ \A b \in Agents : b <= born =>
                 agent'[b] = pool[b] /\ owner'[b] = owner[b] /\ proc'[b] = procs[b]
  BY DEF StartAgents, Fresh, TypeOK, Agents

\* A step that keeps every task of the map in it, with its kind.
TasksStay ==
    \A u \in Tasks : InMap(u) => status'[u] \in TaskStatus /\ kind'[u] = kind[u]

\* A step that does not touch the agent map, the processes and AgentIDs
\* and forgets no stop request keeps what is said of agents.
LEMMA QuietStep ==
    ASSUME IInv, TasksStay, UNCHANGED <<agent, owner, merging, born, ids>>,
           \A b \in Agents : proc'[b] \in {"working", "interrupted"} => Live(b),
           \A b \in Agents : stopping[b] # "none" => stopping'[b] # "none"
    PROVE  AgentMapOK' /\ ProcessIsKnown' /\ NoOrphan'
  BY DEF IInv, AgentMapOK, ProcessIsKnown, NoOrphan, Live, TasksInMap, InMap, TasksStay, TypeOK

\* A step that starts agents for a task of the map, and keeps or stops the
\* live agents the task had listed.
LEMMA StartStep ==
    ASSUME IInv, TasksStay, NEW t \in Tasks, NEW m \in Nat, NEW list,
           StartAgents(t, m, agent, proc, list),
           status'[t] \in TaskStatus, merging' = merging,
           \A b \in Agents : stopping[b] # "none" => stopping'[b] # "none",
           \A b \in Agents : Live(b) /\ owner[b] = t /\ b \in ids[t] =>
                b \in list \/ stopping'[b] # "none"
    PROVE  AgentMapOK' /\ ProcessIsKnown' /\ NoOrphan'
  <1>1. TypeOK
    BY DEF IInv
  <1> DEFINE New(b) == /\ b > born /\ b <= born'
                       /\ agent'[b] = "running" /\ owner'[b] = t
                       /\ proc'[b] = "working" /\ b \in ids'[t]
             Old(b) == agent'[b] = agent[b] /\ owner'[b] = owner[b] /\ proc'[b] = proc[b]
  <1>2. /\ \A b \in Agents : New(b) \/ Old(b)
        /\ \A u \in Tasks : u # t => ids'[u] = ids[u]
        /\ list \subseteq ids'[t]
        /\ born' >= born
        /\ \A b \in Agents : b <= born => Old(b)
    BY <1>1, StartFacts
  <1>3. born \in Int /\ born' \in Int
    BY <1>1, BoundsAssumption DEF TypeOK, StartAgents
  <1>4. SUFFICES ASSUME NEW b \in Agents
        PROVE  /\ agent'[b] # "none" => b <= born' /\ owner'[b] \in TasksInMap'
               /\ b \in merging' => agent'[b] = "stopped"
               /\ Live(b)' => agent'[b] = "running" /\ owner'[b] \in TasksInMap'
               /\ Live(b)' /\ kind'[owner'[b]] # "proposal" =>
                    b \in ids'[owner'[b]] \/ stopping'[b] # "none"
    BY DEF AgentMapOK, ProcessIsKnown, NoOrphan
  <1>5. CASE New(b)
    <2>1. b \notin merging'
      BY <1>3, <1>5 DEF IInv, AgentMapOK, Agents
    <2>2. QED
      BY <1>5, <2>1 DEF TasksInMap, InMap
  <1>6. CASE Old(b)
    <2>1. agent[b] # "none" => b <= born /\ owner[b] \in TasksInMap
      BY DEF IInv, AgentMapOK
    <2>2. \A u \in TasksInMap : u \in TasksInMap' /\ kind'[u] = kind[u]
      BY DEF TasksStay, TasksInMap, InMap
    <2>3. agent'[b] # "none" => b <= born' /\ owner'[b] \in TasksInMap'
      BY <1>2, <1>3, <1>6, <2>1, <2>2 DEF Agents
    <2>4. b \in merging' => agent'[b] = "stopped"
      BY <1>6 DEF IInv, AgentMapOK
    <2>5. Live(b)' => Live(b) /\ owner[b] \in TasksInMap /\ agent'[b] = "running"
      BY <1>6 DEF IInv, ProcessIsKnown, Live
    <2>6. Live(b)' /\ kind'[owner'[b]] # "proposal" =>
             b \in ids'[owner'[b]] \/ stopping'[b] # "none"
      <3> SUFFICES ASSUME Live(b)', kind'[owner'[b]] # "proposal", stopping'[b] = "none"
                   PROVE  b \in ids'[owner'[b]]
        OBVIOUS
      <3>1. Live(b) /\ kind[owner[b]] # "proposal" /\ owner[b] \in Tasks
        BY <1>6, <2>2, <2>5 DEF TasksInMap
      <3>2. b \in ids[owner[b]]
        BY <3>1 DEF IInv, NoOrphan
      <3>3. CASE owner[b] = t
        BY <1>2, <1>6, <3>1, <3>2, <3>3
      <3>4. CASE owner[b] # t
        BY <1>2, <1>6, <3>1, <3>2, <3>4
      <3>5. QED
        BY <3>3, <3>4
    <2>7. QED
      BY <1>6, <2>2, <2>3, <2>4, <2>5, <2>6
  <1>7. QED
    BY <1>2, <1>5, <1>6

\* A step that takes an ended agent out of the map, and nothing else.
LEMMA RemoveStep ==
    ASSUME IInv, TasksStay, NEW a \in Agents, ~Live(a), Remove(a),
           UNCHANGED <<owner, born, ids>>,
           merging' \subseteq merging, a \notin merging'
    PROVE  AgentMapOK' /\ ProcessIsKnown' /\ NoOrphan'
  <1>1. \A b \in Agents : b # a =>
            agent'[b] = agent[b] /\ proc'[b] = proc[b] /\ stopping'[b] = stopping[b]
    BY DEF Remove, Without, Reaped, Idle, IInv, TypeOK
  <1>2. agent'[a] = "none" /\ proc'[a] = "gone"
    BY DEF Remove, Without, Reaped, IInv, TypeOK
  <1>3. \A u \in TasksInMap : u \in TasksInMap' /\ kind'[u] = kind[u]
    BY DEF TasksStay, TasksInMap, InMap
  <1>4. QED
    BY <1>1, <1>2, <1>3
    DEF IInv, AgentMapOK, ProcessIsKnown, NoOrphan, Live

\* A stop request is never withdrawn by another, and it reaches all of S.
LEMMA StopFacts ==
    ASSUME NEW S
    PROVE  \A b \in Agents :
             /\ stopping[b] # "none" => StopRequested(S)[b] # "none"
             /\ b \in S => StopRequested(S)[b] # "none"
  BY DEF StopRequested

\* The agents keep their properties under a command, ...
LEMMA CommandInv ==
    ASSUME IInv, Command
    PROVE  AgentMapOK' /\ ProcessIsKnown' /\ NoOrphan'
  <1> USE StopFacts
  <1>1. PICK t \in Tasks :
          \/ \E n \in Sizes : ScaleDown(t, n)
          \/ \E n \in Sizes, m \in 0 .. AgentBound : ScaleUp(t, n, m)
          \/ \E mode \in {"graceful", "hard", "cancel"} : StopTask(t, mode)
          \/ PauseTask(t)
          \/ ResumeAgents(t)
          \/ \E m \in 0 .. AgentBound : ResumeAnew(t, m)
          \/ \E m \in 0 .. AgentBound : ResetTask(t, m)
    BY DEF Command
  <1>2. TypeOK /\ (\A b \in Agents : Live(b) => b \in AgentsInMap)
    BY DEF IInv, ProcessIsKnown, AgentsInMap
  <1>3. ASSUME NEW s, kind' = kind, status' = [status EXCEPT ![t] = s], s \in TaskStatus
        PROVE  TasksStay /\ status'[t] \in TaskStatus
    BY <1>2, <1>3 DEF TasksStay, InMap, TypeOK
  <1>4. ASSUME NEW s \in TaskStatus, NEW target \in TaskStatus
        PROVE  TransitionTask(s, target) \in TaskStatus
    BY TransitionType
  <1>5. {"running", "scaling", "paused", "stopped", "cancelled", "resetting"}
          \subseteq TaskStatus
    BY DEF TaskStatus
  <1>6. ASSUME NEW n \in Sizes, ScaleDown(t, n)
        PROVE  AgentMapOK' /\ ProcessIsKnown' /\ NoOrphan'
    <2> DEFINE dropped == {a \in ids[t] : Cardinality({b \in ids[t] : b < a}) >= n}
    <2>1. /\ UNCHANGED <<agent, owner, proc, merging, born, kind>>
          /\ ids' = [ids EXCEPT ![t] = @ \ dropped]
          /\ stopping' = StopRequested(dropped \cap AgentsInMap)
      BY <1>6 DEF ScaleDown, NoStart
    <2> HIDE DEF dropped
    <2>2. TasksStay
      BY <1>3, <1>4, <1>5, <1>6 DEF ScaleDown, InMap
    <2>3. \A b \in Agents, u \in Tasks : Live(b) /\ b \in ids[u] /\ b \notin ids'[u] =>
             stopping'[b] # "none"
      BY <1>2, <2>1 DEF TypeOK
    <2>4. \A u \in TasksInMap : u \in TasksInMap' /\ kind'[u] = kind[u]
      BY <2>2 DEF TasksStay, TasksInMap, InMap
    <2>5. \A b \in Agents : (Live(b)' <=> Live(b)) /\ (stopping[b] # "none" => stopping'[b] # "none")
      BY <2>1 DEF Live
    <2>6. TasksInMap \subseteq Tasks
      BY DEF TasksInMap
    <2>7. QED
      BY <2>1, <2>3, <2>4, <2>5, <2>6 DEF IInv, AgentMapOK, ProcessIsKnown, NoOrphan
  <1>7. ASSUME NEW n \in Sizes, NEW m \in 0 .. AgentBound, ScaleUp(t, n, m)
        PROVE  AgentMapOK' /\ ProcessIsKnown' /\ NoOrphan'
    <2>1. TasksStay /\ status'[t] \in TaskStatus
      BY <1>3, <1>4, <1>5, <1>7 DEF ScaleUp, InMap
    <2>2. StartAgents(t, m, agent, proc, ids[t]) /\ UNCHANGED <<merging, stopping>>
      BY <1>7 DEF ScaleUp
    <2>3. QED
      BY <2>1, <2>2, StartStep
  <1>8. ASSUME NEW mode \in {"graceful", "hard", "cancel"}, StopTask(t, mode)
        PROVE  AgentMapOK' /\ ProcessIsKnown' /\ NoOrphan'
    <2>1. TasksStay
      BY <1>3, <1>4, <1>5, <1>8 DEF StopTask, InMap
    <2>2. /\ UNCHANGED <<agent, owner, proc, merging, born, ids>>
          /\ stopping' = StopRequested(Listed(t))
      BY <1>8 DEF StopTask, NoStart
    <2>3. QED
      BY <2>1, <2>2, QuietStep DEF Live
  <1>9. CASE PauseTask(t)
    <2>1. InMap(t) /\ TasksStay
      BY <1>3, <1>4, <1>5, <1>9 DEF PauseTask, InMap
    <2>2. UNCHANGED <<agent, owner, merging, born, ids, stopping>>
      BY <1>9 DEF PauseTask
    <2>3. \A b \in Agents : proc'[b] \in {"working", "interrupted"} => Live(b)
      BY <1>9 DEF PauseTask, Live
    <2>4. QED
      BY <2>1, <2>2, <2>3, QuietStep
  <1>10. CASE ResumeAgents(t)
    <2>1. TasksStay
      BY <1>3, <1>5, <1>10 DEF ResumeAgents
    <2>2. UNCHANGED <<agent, owner, merging, born, ids, stopping>>
      BY <1>10 DEF ResumeAgents
    <2>3. \A b \in Agents : proc'[b] \in {"working", "interrupted"} => Live(b)
      BY <1>10 DEF ResumeAgents, Live
    <2>4. QED
      BY <2>1, <2>2, <2>3, QuietStep
  <1>11. ASSUME NEW m \in 0 .. AgentBound, ResumeAnew(t, m)
         PROVE  AgentMapOK' /\ ProcessIsKnown' /\ NoOrphan'
    <2>1. TasksStay /\ status'[t] \in TaskStatus
      BY <1>3, <1>5, <1>11 DEF ResumeAnew
    <2>2. StartAgents(t, m, agent, proc, {}) /\ UNCHANGED <<merging, stopping>>
      BY <1>11 DEF ResumeAnew
    <2>3. \A b \in Agents : b \in ids[t] => ~Live(b)
      BY <1>2, <1>11 DEF ResumeAnew, Listed
    <2>4. QED
      BY <2>1, <2>2, <2>3, StartStep
  <1>12. ASSUME NEW m \in 0 .. AgentBound, ResetTask(t, m)
         PROVE  AgentMapOK' /\ ProcessIsKnown' /\ NoOrphan'
    <2>1. TasksStay /\ status'[t] \in TaskStatus
      BY <1>3, <1>4, <1>5, <1>12 DEF ResetTask, InMap
    <2>2. /\ StartAgents(t, m, agent, proc, {})
          /\ merging' = merging /\ stopping' = StopRequested(Listed(t))
      BY <1>12 DEF ResetTask
    <2>3. \A b \in Agents : Live(b) /\ b \in ids[t] => stopping'[b] # "none"
      BY <1>2, <2>2 DEF Listed
    <2>4. QED
      BY <2>1, <2>2, <2>3, StartStep
  <1>13. QED
    BY <1>1, <1>6, <1>7, <1>8, <1>9, <1>10, <1>11, <1>12


\* ... under CreateTask, ...
LEMMA CreateInv ==
    ASSUME IInv, Create
    PROVE  AgentMapOK' /\ ProcessIsKnown' /\ NoOrphan'
  <1>1. TypeOK /\ (\A b \in Agents : Live(b) => owner[b] \in TasksInMap)
    BY DEF IInv, ProcessIsKnown
  <1>2. "absent" \notin TaskStatus /\ "creating" \notin TaskStatus /\ "running" \in TaskStatus
    BY DEF TaskStatus
  <1>3. ASSUME NEW n \in Sizes, CreateRejected(n)
        PROVE  AgentMapOK' /\ ProcessIsKnown' /\ NoOrphan'
    <2>1. TasksStay /\ UNCHANGED <<agent, owner, proc, merging, born, ids, stopping>>
      BY <1>3 DEF CreateRejected, taskVars, agentVars, TasksStay, InMap
    <2>2. QED
      BY <2>1, QuietStep DEF Live
  <1>4. ASSUME NEW t \in Tasks, NEW n \in Sizes, NEW k \in Kinds, CreateBegin(t, k, n)
        PROVE  AgentMapOK' /\ ProcessIsKnown' /\ NoOrphan'
    <2>1. TasksStay
      BY <1>1, <1>2, <1>4 DEF CreateBegin, IsNext, TasksStay, InMap, TypeOK
    <2>2. UNCHANGED <<agent, owner, proc, merging, born, ids, stopping>>
      BY <1>4 DEF CreateBegin, agentVars
    <2>3. QED
      BY <2>1, <2>2, QuietStep DEF Live
  <1>5. ASSUME NEW t \in Tasks, NEW wt \in BOOLEAN, NEW m \in 0 .. AgentBound,
               CreateFinish(t, wt, m)
        PROVE  AgentMapOK' /\ ProcessIsKnown' /\ NoOrphan'
    <2>1. TasksStay /\ status'[t] \in TaskStatus
      BY <1>1, <1>2, <1>5 DEF CreateFinish, TasksStay, InMap, TypeOK
    <2>2. StartAgents(t, m, agent, proc, {}) /\ UNCHANGED <<merging, stopping>>
      BY <1>5 DEF CreateFinish
    <2>3. t \notin TasksInMap
      BY <1>2, <1>5 DEF CreateFinish, TasksInMap, InMap
    <2>4. QED
      BY <1>1, <2>1, <2>2, <2>3, StartStep
  <1>6. ASSUME NEW t \in Tasks, NEW n \in Sizes, NEW wt \in BOOLEAN,
               NEW m \in 0 .. AgentBound, CreateReview(t, n, wt, m)
        PROVE  AgentMapOK' /\ ProcessIsKnown' /\ NoOrphan'
    <2>1. TasksStay /\ status'[t] \in TaskStatus
      BY <1>1, <1>2, <1>6 DEF CreateReview, IsNext, TasksStay, InMap, TypeOK
    <2>2. StartAgents(t, m, agent, proc, {}) /\ UNCHANGED <<merging, stopping>>
      BY <1>6 DEF CreateReview
    <2>3. t \notin TasksInMap
      BY <1>2, <1>6 DEF CreateReview, IsNext, TasksInMap, InMap
    <2>4. QED
      BY <1>1, <2>1, <2>2, <2>3, StartStep
  <1>7. QED
    BY <1>3, <1>4, <1>5, <1>6 DEF Create

\* ... under the stoppers and the processes themselves, ...
LEMMA StopperInv ==
    ASSUME IInv, NEW a \in Agents,
           Stopper(a) \/ StopAgent(a) \/ ProcessExit(a)
    PROVE  AgentMapOK' /\ ProcessIsKnown' /\ NoOrphan'
  <1>1. TypeOK
    BY DEF IInv
  <1>2. CASE StopSignal(a)
    <2>1. /\ TasksStay /\ UNCHANGED <<agent, owner, proc, merging, born, ids, kind>>
          /\ TasksInMap' = TasksInMap
      BY <1>2 DEF StopSignal, taskVars, TasksStay, InMap, TasksInMap
    <2>2. \A b \in Agents : Live(b) /\ stopping[b] # "none" => stopping'[b] # "none"
      BY <1>1, <1>2 DEF StopSignal, TypeOK, Live
    <2>3. QED
      BY <2>1, <2>2 DEF IInv, AgentMapOK, ProcessIsKnown, NoOrphan, Live
  <1>3. CASE StopFinish(a)
    <2>1. /\ UNCHANGED <<owner, merging, born, ids, kind>>
          /\ TasksInMap' = TasksInMap
      BY <1>3 DEF StopFinish, taskVars, InMap, TasksInMap
    <2>2. \A b \in Agents : b # a =>
            agent'[b] = agent[b] /\ proc'[b] = proc[b] /\ stopping'[b] = stopping[b]
      BY <1>1, <1>3 DEF StopFinish, TypeOK
    <2>3. /\ proc'[a] \notin {"working", "interrupted"}
          /\ agent'[a] # "none" <=> agent[a] # "none"
          /\ agent[a] = "stopped" => agent'[a] = "stopped"
      BY <1>1, <1>3 DEF StopFinish, TypeOK, Live
    <2>4. QED
      BY <2>1, <2>2, <2>3 DEF IInv, AgentMapOK, ProcessIsKnown, NoOrphan, Live
  <1>4. CASE StopAgent(a)
    <2>1. TasksStay /\ UNCHANGED <<agent, owner, proc, merging, born, ids>>
      BY <1>4 DEF StopAgent, taskVars, TasksStay, InMap
    <2>2. \A b \in Agents : stopping[b] # "none" => stopping'[b] # "none"
      BY <1>4, StopFacts DEF StopAgent
    <2>3. QED
      BY <2>1, <2>2, QuietStep DEF Live
  <1>5. CASE ProcessExit(a)
    <2>1. TasksStay /\ UNCHANGED <<agent, owner, stopping, merging, born, ids>>
      BY <1>5 DEF ProcessExit, taskVars, TasksStay, InMap
    <2>2. \A b \in Agents : proc'[b] \in {"working", "interrupted"} => Live(b)
      BY <1>1, <1>5 DEF ProcessExit, TypeOK, Live
    <2>3. QED
      BY <2>1, <2>2, QuietStep
  <1>6. QED
    BY <1>2, <1>3, <1>4, <1>5 DEF Stopper

\* A task of the map stays in it when its status is moved to "done", or
\* forced to another task status; its kind stays too.
LEMMA StatusStep ==
    ASSUME TypeOK, NEW t, NEW s, kind' = kind, status' = [status EXCEPT ![t] = s],
           s \in TaskStatus \/ s = status[t]
    PROVE  TasksStay
  BY DEF TasksStay, InMap, TypeOK

\* ... and under the watchers.
LEMMA WatcherInv ==
    ASSUME IInv, NEW a \in Agents, Watcher(a)
    PROVE  AgentMapOK' /\ ProcessIsKnown' /\ NoOrphan'
  <1> DEFINE t == owner[a]
  <1>1. TypeOK
    BY DEF IInv
  <1>2. {"done", "error"} \subseteq TaskStatus
    BY DEF TaskStatus
  <1>3. TransitionTask(status[t], "done") \in TaskStatus
        \/ TransitionTask(status[t], "done") = status[t]
    BY <1>2 DEF TransitionTask
  <1>4. a \in merging => ~Live(a)
    BY DEF IInv, AgentMapOK, ProcessIsKnown
  <1>5. CASE AgentFailed(a)
    <2>1. /\ TasksStay /\ Remove(a) /\ ~Live(a) /\ a \notin merging
          /\ UNCHANGED <<owner, born, ids, merging>>
      BY <1>5 DEF AgentFailed, Waited, taskVars, TasksStay, InMap
    <2>2. QED
      BY <2>1, RemoveStep
  <1>6. CASE ReviewDone(a)
    <2>1. /\ Remove(a) /\ ~Live(a) /\ a \notin merging
          /\ UNCHANGED <<owner, born, ids, merging, kind>>
          /\ status' = [status EXCEPT ![t] = "done"]
      BY <1>6 DEF ReviewDone, Waited
    <2>2. TasksStay
      BY <1>1, <1>2, <2>1, StatusStep
    <2>3. QED
      BY <2>1, <2>2, RemoveStep
  <1>7. CASE ProposalDone(a)
    <2>1. /\ Remove(a) /\ ~Live(a) /\ a \notin merging
          /\ UNCHANGED <<owner, born, ids, merging, kind>>
          /\ status' = [status EXCEPT ![t] = TransitionTask(@, "done")]
      BY <1>7 DEF ProposalDone, Waited
    <2>2. TasksStay
      BY <1>1, <1>3, <2>1 DEF TasksStay, InMap, TypeOK
    <2>3. QED
      BY <2>1, <2>2, RemoveStep
  <1>8. CASE TaskDone(a)
    <2>1. /\ ~Live(a) /\ agent[a] # "none"
          /\ agent' = [agent EXCEPT ![a] = "stopped"]
          /\ merging' = merging \cup {a}
          /\ UNCHANGED <<owner, proc, stopping, born, ids, kind>>
          /\ status' = [status EXCEPT ![t] = TransitionTask(@, "done")]
      BY <1>8 DEF TaskDone, Waited
    <2>2. TasksStay
      BY <1>1, <1>3, <2>1 DEF TasksStay, InMap, TypeOK
    <2>3. \A u \in TasksInMap : u \in TasksInMap'
      BY <2>2 DEF TasksStay, TasksInMap, InMap
    <2>4. agent'[a] = "stopped" /\ (\A b \in Agents : b # a => agent'[b] = agent[b])
      BY <1>1, <2>1 DEF TypeOK
    <2>5. QED
      BY <2>1, <2>3, <2>4 DEF IInv, AgentMapOK, ProcessIsKnown, NoOrphan, Live
  <1>9. CASE MergeSucceeded(a)
    <2>1. /\ Remove(a) /\ TasksStay /\ merging' = merging \ {a} /\ a \in merging
          /\ UNCHANGED <<owner, born, ids>>
      BY <1>9 DEF MergeSucceeded, TasksStay, InMap
    <2>2. QED
      BY <1>4, <2>1, RemoveStep
  <1>10. CASE MergeFailed(a)
    <2>1. /\ Remove(a) /\ merging' = merging \ {a} /\ a \in merging
          /\ UNCHANGED <<owner, born, ids, kind>>
          /\ status' = [status EXCEPT ![t] = "error"]
      BY <1>10 DEF MergeFailed
    <2>2. TasksStay
      BY <1>1, <1>2, <2>1, StatusStep
    <2>3. QED
      BY <1>4, <2>1, <2>2, RemoveStep
  <1>11. ASSUME NEW m \in 0 .. 1, ProposalFailed(a, m)
         PROVE  AgentMapOK' /\ ProcessIsKnown' /\ NoOrphan'
    <2>1. /\ TasksStay /\ UNCHANGED <<kind, merging>> /\ TasksInMap' = TasksInMap
          /\ ~Live(a) /\ agent[a] # "none" /\ a \notin merging
          /\ kind[t] = "proposal" /\ stopping' = Idle(a)
      BY <1>11 DEF ProposalFailed, Waited, TasksStay, InMap, TasksInMap
    <2>2. t \in TasksInMap /\ t \in Tasks /\ a <= born
      BY <2>1 DEF IInv, AgentMapOK, TasksInMap
    <2>3. \A b \in Agents : b # a => stopping'[b] = stopping[b]
      BY <1>1, <2>1 DEF Idle, TypeOK
    <2>4. CASE StartAgents(t, m, Without(a), Reaped(a), {})
      <3>1. /\ \A b \in Agents :
                  \/ /\ b > born /\ b <= born'
                     /\ agent'[b] = "running" /\ owner'[b] = t
                     /\ proc'[b] = "working"
                  \/ /\ agent'[b] = Without(a)[b] /\ owner'[b] = owner[b]
                     /\ proc'[b] = Reaped(a)[b]
            /\ \A u \in Tasks : u # t => ids'[u] = ids[u]
            /\ born' >= born
            /\ \A b \in Agents : b <= born =>
                  /\ agent'[b] = Without(a)[b] /\ owner'[b] = owner[b]
                  /\ proc'[b] = Reaped(a)[b]
        BY <1>1, <2>2, <2>4, StartFacts
      <3>2. born \in Int /\ born' \in Int
        BY <1>1, <2>4, BoundsAssumption DEF TypeOK, StartAgents
      <3>3. agent'[a] = "none" /\ proc'[a] = "gone"
        <4>1. agent'[a] = Without(a)[a] /\ proc'[a] = Reaped(a)[a]
          BY <2>2, <3>1
        <4>2. Without(a)[a] = "none" /\ Reaped(a)[a] = "gone"
          BY <1>1 DEF Without, Reaped, TypeOK
        <4>3. QED
          BY <4>1, <4>2
      <3>4. SUFFICES ASSUME NEW b \in Agents, b # a
            PROVE  /\ agent'[b] # "none" => b <= born' /\ owner'[b] \in TasksInMap
                   /\ b \in merging => agent'[b] = "stopped"
                   /\ Live(b)' => agent'[b] = "running" /\ owner'[b] \in TasksInMap
                   /\ Live(b)' /\ kind[owner'[b]] # "proposal" =>
                        b \in ids'[owner'[b]] \/ stopping'[b] # "none"
        BY <2>1, <3>3 DEF AgentMapOK, ProcessIsKnown, NoOrphan, Live
      <3>5. CASE b > born
        <4>1. agent[b] = "none" /\ b \notin merging /\ ~Live(b)
          BY <3>2, <3>5 DEF IInv, AgentMapOK, ProcessIsKnown, Agents
        <4>2. Without(a)[b] = agent[b] /\ Reaped(a)[b] = proc[b]
          BY <1>1, <3>4 DEF Without, Reaped, TypeOK
        <4>3. QED
          BY <2>1, <2>2, <3>1, <4>1, <4>2 DEF Live
      <3>6. CASE b <= born
        <4>1. agent'[b] = agent[b] /\ owner'[b] = owner[b] /\ proc'[b] = proc[b]
          BY <1>1, <3>1, <3>4, <3>6 DEF Without, Reaped, TypeOK
        <4>2. b <= born'
          BY <3>1, <3>2, <3>6 DEF Agents
        <4>3. Live(b)' => Live(b)
          BY <4>1 DEF Live
        <4>4. Live(b) => agent[b] = "running" /\ owner[b] \in TasksInMap
          BY DEF IInv, ProcessIsKnown
        <4>5. /\ agent[b] # "none" => owner[b] \in TasksInMap
              /\ b \in merging => agent[b] = "stopped"
          BY DEF IInv, AgentMapOK
        <4>6. ASSUME Live(b), kind[owner[b]] # "proposal", stopping'[b] = "none"
              PROVE  b \in ids'[owner[b]]
          <5>1. b \in ids[owner[b]]
            BY <2>3, <3>4, <4>6 DEF IInv, NoOrphan
          <5>2. owner[b] \in Tasks /\ owner[b] # t
            BY <2>1, <4>4, <4>6 DEF TasksInMap
          <5>3. QED
            BY <3>1, <5>1, <5>2
        <4>7. QED
          BY <2>1, <4>1, <4>2, <4>3, <4>4, <4>5, <4>6
      <3>7. QED
        BY <3>2, <3>5, <3>6 DEF Agents
    <2>5. CASE agent' = Without(a) /\ proc' = Reaped(a) /\ UNCHANGED <<born, owner, ids>>
      BY <2>1, <2>5, RemoveStep DEF Remove
    <2>6. QED
      BY <1>11, <2>4, <2>5 DEF ProposalFailed
  <1>12. QED
    BY <1>5, <1>6, <1>7, <1>8, <1>9, <1>10, <1>11 DEF Watcher


---------------------------------------------------------------------------
\* A step that makes no task done, keeps every outcome and ends no merge.
LEMMA DoneStep ==
    ASSUME IInv, \A u \in Tasks : status'[u] = "done" => status[u] = "done",
           merging' = merging, \A b \in merging : owner'[b] = owner[b],
           \A u \in Tasks : report[u] \subseteq report'[u]
    PROVE  DoneIsReported'
  BY DEF IInv, DoneIsReported

\* Agents in MergeBack keep their owner when others are started.
LEMMA MergingStay ==
    ASSUME IInv, NEW t \in Tasks, NEW m \in Nat, NEW pool, NEW procs, NEW list,
           StartAgents(t, m, pool, procs, list)
    PROVE  \A b \in merging : owner'[b] = owner[b]
  <1>1. \A b \in merging : b \in Agents /\ b <= born
    BY DEF IInv, AgentMapOK, TypeOK
  <1>2. QED
    BY <1>1, StartFacts DEF IInv

\* A move along the table yields "done" only if that was asked for.
LEMMA NotDone ==
    ASSUME NEW s, NEW target, target # "done"
    PROVE  TransitionTask(s, target) = "done" => s = "done"
  BY DEF TransitionTask

\* Neither CreateTask nor a command makes a task done.
LEMMA CommandDone ==
    ASSUME IInv, Create \/ Command
    PROVE  DoneIsReported'
  <1>1. TypeOK
    BY DEF IInv
  <1>2. ASSUME NEW t \in Tasks, NEW s, status' = [status EXCEPT ![t] = s],
               s = "done" => status[t] = "done"
        PROVE  \A u \in Tasks : status'[u] = "done" => status[u] = "done"
    BY <1>1, <1>2 DEF TypeOK
  <1>3. CASE Create
    <2>1. ASSUME NEW n \in Sizes, CreateRejected(n) PROVE DoneIsReported'
      BY <2>1, DoneStep DEF CreateRejected, taskVars, agentVars
    <2>2. ASSUME NEW t \in Tasks, NEW n \in Sizes, NEW k \in Kinds, CreateBegin(t, k, n)
          PROVE  DoneIsReported'
      BY <1>2, <2>2, DoneStep DEF CreateBegin, agentVars
    <2>3. ASSUME NEW t \in Tasks, NEW wt \in BOOLEAN, NEW m \in 0 .. AgentBound,
                 CreateFinish(t, wt, m)
          PROVE  DoneIsReported'
      <3>1. \A b \in merging : owner'[b] = owner[b]
        BY <2>3, MergingStay DEF CreateFinish
      <3>2. QED
        BY <1>2, <2>3, <3>1, DoneStep DEF CreateFinish
    <2>4. ASSUME NEW t \in Tasks, NEW n \in Sizes, NEW wt \in BOOLEAN,
                 NEW m \in 0 .. AgentBound, CreateReview(t, n, wt, m)
          PROVE  DoneIsReported'
      <3>1. \A b \in merging : owner'[b] = owner[b]
        BY <2>4, MergingStay DEF CreateReview
      <3>2. QED
        BY <1>2, <2>4, <3>1, DoneStep DEF CreateReview
    <2>5. QED
      BY <1>3, <2>1, <2>2, <2>3, <2>4 DEF Create
  <1>4. ASSUME NEW t \in Tasks,
               \/ \E n \in Sizes : ScaleDown(t, n)
               \/ \E n \in Sizes, m \in 0 .. AgentBound : ScaleUp(t, n, m)
               \/ \E mode \in {"graceful", "hard", "cancel"} : StopTask(t, mode)
               \/ PauseTask(t)
               \/ ResumeAgents(t)
               \/ \E m \in 0 .. AgentBound : ResumeAnew(t, m)
               \/ \E m \in 0 .. AgentBound : ResetTask(t, m)
        PROVE  DoneIsReported'
    <2>1. ASSUME NEW n \in Sizes, ScaleDown(t, n) PROVE DoneIsReported'
      <3>1. \A u \in Tasks : status'[u] = "done" => status[u] = "done"
        BY <1>2, <2>1, NotDone DEF ScaleDown
      <3>2. QED
        BY <2>1, <3>1, DoneStep DEF ScaleDown, NoStart
    <2>2. ASSUME NEW n \in Sizes, NEW m \in 0 .. AgentBound, ScaleUp(t, n, m)
          PROVE  DoneIsReported'
      <3>1. \A b \in merging : owner'[b] = owner[b]
        BY <2>2, MergingStay DEF ScaleUp
      <3>2. \A u \in Tasks : status'[u] = "done" => status[u] = "done"
        BY <1>2, <2>2, NotDone DEF ScaleUp
      <3>3. QED
        BY <2>2, <3>1, <3>2, DoneStep DEF ScaleUp
    <2>3. ASSUME NEW mode \in {"graceful", "hard", "cancel"}, StopTask(t, mode)
          PROVE  DoneIsReported'
      <3>1. \A u \in Tasks : status'[u] = "done" => status[u] = "done"
        BY <1>2, <2>3, NotDone DEF StopTask
      <3>2. QED
        BY <2>3, <3>1, DoneStep DEF StopTask, NoStart
    <2>4. CASE PauseTask(t)
      <3>1. \A u \in Tasks : status'[u] = "done" => status[u] = "done"
        BY <1>2, <2>4, NotDone DEF PauseTask
      <3>2. QED
        BY <2>4, <3>1, DoneStep DEF PauseTask
    <2>5. CASE ResumeAgents(t)
      <3>1. \A u \in Tasks : status'[u] = "done" => status[u] = "done"
        BY <1>2, <2>5 DEF ResumeAgents
      <3>2. QED
        BY <2>5, <3>1, DoneStep DEF ResumeAgents
    <2>6. ASSUME NEW m \in 0 .. AgentBound, ResumeAnew(t, m) PROVE DoneIsReported'
      <3>1. \A b \in merging : owner'[b] = owner[b]
        BY <2>6, MergingStay DEF ResumeAnew
      <3>2. \A u \in Tasks : status'[u] = "done" => status[u] = "done"
        BY <1>2, <2>6 DEF ResumeAnew
      <3>3. QED
        BY <2>6, <3>1, <3>2, DoneStep DEF ResumeAnew
    <2>7. ASSUME NEW m \in 0 .. AgentBound, ResetTask(t, m) PROVE DoneIsReported'
      <3>1. \A b \in merging : owner'[b] = owner[b]
        BY <2>7, MergingStay DEF ResetTask
      <3>2. \A u \in Tasks : status'[u] = "done" => status[u] = "done"
        BY <1>2, <2>7, NotDone DEF ResetTask
      <3>3. QED
        BY <2>7, <3>1, <3>2, DoneStep DEF ResetTask
    <2>8. QED
      BY <1>4, <2>1, <2>2, <2>3, <2>4, <2>5, <2>6, <2>7
  <1>5. QED
    BY <1>3, <1>4 DEF Command

\* A watcher makes a task done and reports it, or leaves a merge under way.
LEMMA WatcherDone ==
    ASSUME IInv, NEW a \in Agents, Watcher(a)
    PROVE  DoneIsReported'
  <1> DEFINE t == owner[a]
  <1>1. TypeOK /\ (\A b \in merging : b \in Agents)
    BY DEF IInv, TypeOK
  <1>2. agent[a] # "none" => t \in Tasks
    BY DEF IInv, AgentMapOK, TasksInMap
  <1>3. a \in merging => t \in Tasks
    BY <1>2 DEF IInv, AgentMapOK
  <1>4. ASSUME NEW o, t \in Tasks
        PROVE  /\ \A u \in Tasks : report[u] \subseteq Reported(t, o)[u]
               /\ o \in Reported(t, o)[t]
    BY <1>1, <1>4 DEF Reported, TypeOK
  <1>5. CASE AgentFailed(a)
    BY <1>2, <1>4, <1>5, DoneStep DEF AgentFailed, Waited, taskVars
  <1>6. ASSUME NEW m \in 0 .. 1, ProposalFailed(a, m) PROVE DoneIsReported'
    <2>1. t \in Tasks /\ status' = status /\ merging' = merging
          /\ report' = Reported(t, "failed")
      BY <1>2, <1>6 DEF ProposalFailed, Waited
    <2>2. StartAgents(t, m, Without(a), Reaped(a), {}) \/ UNCHANGED owner
      BY <1>6 DEF ProposalFailed
    <2>3. \A b \in merging : owner'[b] = owner[b]
      BY <2>1, <2>2, MergingStay
    <2>4. QED
      BY <1>4, <2>1, <2>3, DoneStep
  <1>7. CASE ReviewDone(a)
    <2>1. /\ t \in Tasks /\ UNCHANGED <<owner, merging>>
          /\ report' = Reported(t, "reviewed")
          /\ status' = [status EXCEPT ![t] = "done"]
      BY <1>2, <1>7 DEF ReviewDone, Waited
    <2>2. \A u \in Tasks : u # t => status'[u] = status[u]
      BY <1>1, <2>1 DEF TypeOK
    <2>3. QED
      BY <1>4, <2>1, <2>2 DEF IInv, DoneIsReported
  <1>8. CASE ProposalDone(a)
    <2>1. /\ t \in Tasks /\ UNCHANGED <<owner, merging>>
          /\ report' = Reported(t, "completed")
          /\ status' = [status EXCEPT ![t] = TransitionTask(@, "done")]
      BY <1>2, <1>8 DEF ProposalDone, Waited
    <2>2. \A u \in Tasks : u # t => status'[u] = status[u]
      BY <1>1, <2>1 DEF TypeOK
    <2>3. QED
      BY <1>4, <2>1, <2>2 DEF IInv, DoneIsReported
  <1>9. CASE TaskDone(a)
    <2>1. /\ t \in Tasks /\ UNCHANGED <<owner, report>> /\ merging' = merging \cup {a}
          /\ status' = [status EXCEPT ![t] = TransitionTask(@, "done")]
      BY <1>2, <1>9 DEF TaskDone, Waited
    <2>2. \A u \in Tasks : u # t => status'[u] = status[u]
      BY <1>1, <2>1 DEF TypeOK
    <2>3. QED
      BY <2>1, <2>2 DEF IInv, DoneIsReported
  <1>10. CASE MergeSucceeded(a)
    <2>1. /\ t \in Tasks /\ UNCHANGED <<owner, status>> /\ merging' = merging \ {a}
          /\ report' = Reported(t, "completed")
      BY <1>3, <1>10 DEF MergeSucceeded
    <2>2. QED
      BY <1>4, <2>1 DEF IInv, DoneIsReported
  <1>11. CASE MergeFailed(a)
    <2>1. /\ t \in Tasks /\ UNCHANGED owner /\ merging' = merging \ {a}
          /\ report' = Reported(t, "failed")
          /\ status' = [status EXCEPT ![t] = "error"]
      BY <1>3, <1>11 DEF MergeFailed
    <2>2. status'[t] = "error" /\ (\A u \in Tasks : u # t => status'[u] = status[u])
      BY <1>1, <2>1 DEF TypeOK
    <2>3. QED
      BY <1>4, <2>1, <2>2 DEF IInv, DoneIsReported
  <1>12. QED
    BY <1>5, <1>6, <1>7, <1>8, <1>9, <1>10, <1>11 DEF Watcher

\* The strengthened invariant holds in every reachable state.
THEOREM Inductive == Spec => []IInv
  <1>1. Init => IInv
    <2> SUFFICES ASSUME Init PROVE AgentMapOK /\ ProcessIsKnown /\ NoOrphan /\ DoneIsReported
      BY InitType DEF IInv
    <2>1. \A a \in Agents : agent[a] = "none" /\ ~Live(a) /\ a \notin merging
      BY DEF Init, Live
    <2>2. \A t \in Tasks : status[t] # "done"
      BY DEF Init
    <2>3. QED
      BY <2>1, <2>2 DEF AgentMapOK, ProcessIsKnown, NoOrphan, DoneIsReported
  <1>2. IInv /\ TypeOK' /\ [Next]_vars => IInv'
    <2> SUFFICES ASSUME IInv, TypeOK', [Next]_vars PROVE IInv'
      OBVIOUS
    <2>1. CASE Create
      BY <2>1, CreateInv, CommandDone DEF IInv
    <2>2. CASE Command
      BY <2>2, CommandInv, CommandDone DEF IInv
    <2>3. ASSUME NEW a \in Agents, Watcher(a) PROVE IInv'
      BY <2>3, WatcherInv, WatcherDone DEF IInv
    <2>4. ASSUME NEW a \in Agents, Stopper(a) \/ StopAgent(a) \/ ProcessExit(a) PROVE IInv'
      <3>1. UNCHANGED <<status, owner, merging, report>>
        BY <2>4 DEF Stopper, StopSignal, StopFinish, StopAgent, ProcessExit, taskVars
      <3>2. QED
        BY <2>4, <3>1, StopperInv, DoneStep DEF IInv
    <2>5. CASE UNCHANGED vars
      BY <2>5 DEF vars, taskVars, agentVars, guardVars, IInv, AgentMapOK, ProcessIsKnown,
                  NoOrphan, DoneIsReported, Live, TasksInMap, InMap
    <2>6. QED
      BY <2>1, <2>2, <2>3, <2>4, <2>5 DEF Next
  <1>3. QED
    BY <1>1, <1>2, TypeCorrect, PTL DEF Spec


\* A live process is known to the proxy, with a task of the map to its name.
THEOREM ProcessKnown == Spec => []ProcessIsKnown
  BY Inductive, PTL DEF IInv

\* A live process of a task that is no proposal can be reached through its
\* task's AgentIDs, or is already being stopped.
THEOREM NoOrphans == Spec => []NoOrphan
  BY Inductive, PTL DEF IInv

\* A done task has been reported, or is about to be.
THEOREM DoneReported == Spec => []DoneIsReported
  BY Inductive, PTL DEF IInv

---------------------------------------------------------------------------
\* A move along the table to "stopped" or "cancelled" was asked for.
LEMMA NotStopped ==
    ASSUME NEW s, NEW target, target \notin {"stopped", "cancelled"}
    PROVE  TransitionTask(s, target) \in {"stopped", "cancelled"} =>
              TransitionTask(s, target) = s
  BY DEF TransitionTask

\* Only StopTask makes a task stopped or cancelled.
LEMMA StoppedByStop ==
    ASSUME IInv, Next,
           NEW t \in Tasks, status'[t] \in {"stopped", "cancelled"}, status'[t] # status[t]
    PROVE  \E mode \in {"graceful", "hard", "cancel"} : StopTask(t, mode)
  <1>1. TypeOK
    BY DEF IInv
  <1>2. ASSUME NEW u, NEW s, status' = [status EXCEPT ![u] = s],
               s \in {"stopped", "cancelled"} => s = status[u]
        PROVE  FALSE
    BY <1>1, <1>2 DEF TypeOK
  <1>3. ASSUME Create PROVE FALSE
    BY <1>2, <1>3 DEF Create, CreateRejected, CreateBegin, CreateFinish, CreateReview, taskVars
  <1>4. CASE Command
    <2>1. PICK u \in Tasks :
            \/ \E n \in Sizes : ScaleDown(u, n)
            \/ \E n \in Sizes, m \in 0 .. AgentBound : ScaleUp(u, n, m)
            \/ \E mode \in {"graceful", "hard", "cancel"} : StopTask(u, mode)
            \/ PauseTask(u)
            \/ ResumeAgents(u)
            \/ \E m \in 0 .. AgentBound : ResumeAnew(u, m)
            \/ \E m \in 0 .. AgentBound : ResetTask(u, m)
      BY <1>4 DEF Command
    <2>2. ASSUME NEW n \in Sizes, ScaleDown(u, n) PROVE FALSE
      <3>1. LET s == TransitionTask(TransitionTask(status[u], "scaling"), "running")
            IN  s \in {"stopped", "cancelled"} => s = status[u]
        BY DEF TransitionTask
      <3>2. QED
        BY <1>2, <2>2, <3>1 DEF ScaleDown
    <2>3. ASSUME NEW n \in Sizes, NEW m \in 0 .. AgentBound, ScaleUp(u, n, m) PROVE FALSE
      <3>1. LET scaling == TransitionTask(status[u], "scaling")
                s == IF m = n - Cardinality(ids[u])
                     THEN TransitionTask(scaling, "running") ELSE scaling
            IN  s \in {"stopped", "cancelled"} => s = status[u]
        BY DEF TransitionTask
      <3>2. QED
        BY <1>2, <2>3, <3>1 DEF ScaleUp
    <2>4. ASSUME PauseTask(u) PROVE FALSE
      BY <1>2, <2>4, NotStopped DEF PauseTask
    <2>5. ASSUME ResumeAgents(u) PROVE FALSE
      BY <1>2, <2>5 DEF ResumeAgents
    <2>6. ASSUME NEW m \in 0 .. AgentBound, ResumeAnew(u, m) PROVE FALSE
      BY <1>2, <2>6 DEF ResumeAnew
    <2>7. ASSUME NEW m \in 0 .. AgentBound, ResetTask(u, m) PROVE FALSE
      BY <1>2, <2>7, NotStopped DEF ResetTask
    <2>8. PICK mode \in {"graceful", "hard", "cancel"} : StopTask(u, mode)
      BY <2>1, <2>2, <2>3, <2>4, <2>5, <2>6, <2>7
    <2>9. u = t
      BY <1>1, <2>8 DEF StopTask, TypeOK
    <2>10. QED
      BY <2>8, <2>9
  <1>5. ASSUME NEW a \in Agents,
               StopAgent(a) \/ ProcessExit(a) \/ Stopper(a) \/ Watcher(a)
        PROVE  FALSE
    <2>1. CASE Watcher(a)
      <3>1. CASE AgentFailed(a) \/ (\E m \in 0 .. 1 : ProposalFailed(a, m)) \/ MergeSucceeded(a)
        BY <3>1 DEF AgentFailed, ProposalFailed, MergeSucceeded, taskVars
      <3>2. CASE ReviewDone(a)
        BY <1>2, <3>2 DEF ReviewDone
      <3>3. CASE ProposalDone(a)
        BY <1>2, <3>3, NotStopped DEF ProposalDone
      <3>4. CASE TaskDone(a)
        BY <1>2, <3>4, NotStopped DEF TaskDone
      <3>5. CASE MergeFailed(a)
        BY <1>2, <3>5 DEF MergeFailed
      <3>6. QED
        BY <2>1, <3>1, <3>2, <3>3, <3>4, <3>5 DEF Watcher
    <2>2. CASE StopAgent(a) \/ ProcessExit(a) \/ Stopper(a)
      BY <2>2 DEF StopAgent, ProcessExit, Stopper, StopSignal, StopFinish, taskVars
    <2>3. QED
      BY <1>5, <2>1, <2>2
  <1>6. QED
    BY <1>3, <1>4, <1>5 DEF Next

\* When a task that is no proposal is stopped or cancelled, the order
\* reaches every process that works for it.
THEOREM StopReachesEveryAgent == Spec => StopReachesAll
  <1>1. ASSUME IInv, Next PROVE StopReaches
    <2> SUFFICES ASSUME NEW t \in Tasks, kind[t] # "proposal",
                        status'[t] \in {"stopped", "cancelled"}, status'[t] # status[t],
                        NEW a \in AgentsOf(t), Live(a)
                 PROVE  stopping'[a] # "none"
      BY DEF StopReaches
    <2>1. PICK mode \in {"graceful", "hard", "cancel"} : StopTask(t, mode)
      BY <1>1, StoppedByStop
    <2>2. a \in Agents /\ owner[a] = t /\ agent[a] # "none"
      BY DEF AgentsOf, AgentsInMap
    <2>3. a \in ids[t] \/ stopping[a] # "none"
      BY <1>1, <2>2 DEF IInv, NoOrphan
    <2>4. a \in Listed(t) \/ stopping[a] # "none"
      BY <2>2, <2>3 DEF Listed, AgentsInMap
    <2>5. stopping' = StopRequested(Listed(t))
      BY <2>1 DEF StopTask
    <2>6. QED
      BY <2>2, <2>4, <2>5, StopFacts
  <1>2. IInv /\ [Next]_vars => [StopReaches]_vars
    BY <1>1
  <1>3. QED
    BY <1>2, Inductive, PTL DEF Spec, StopReachesAll

---------------------------------------------------------------------------
(***************************************************************************)
(* Terminal statuses.                                                      *)
(***************************************************************************)
\* The table has no way out of done or cancelled.
LEMMA NoWayOut ==
    ASSUME NEW s \in {"done", "cancelled"}, NEW target
    PROVE  TransitionTask(s, target) = s
  BY DEF TransitionTask, taskTransitions

\* A start that succeeds gives its task an agent that was not there before.
LEMMA StartGivesAgent ==
    ASSUME TypeOK, NEW t \in Tasks, NEW m \in Nat, m > 0, NEW pool, NEW procs, NEW list,
           StartAgents(t, m, pool, procs, list)
    PROVE  ids'[t] \cap (born + 1 .. AgentBound) # {}
  <1>1. born \in Nat /\ AgentBound \in Nat /\ born + m <= AgentBound
    BY BoundsAssumption DEF TypeOK, StartAgents
  <1>2. born + 1 \in Fresh(m) /\ born + 1 \in born + 1 .. AgentBound
    BY <1>1 DEF Fresh
  <1>3. ids'[t] = list \cup Fresh(m)
    BY DEF StartAgents, TypeOK
  <1>4. QED
    BY <1>2, <1>3

\* ResetTask wants at least one agent.
LEMMA ResetWantsOne ==
    ASSUME TypeOK, NEW t \in Tasks
    PROVE  AtLeastOne(Cardinality(ids[t])) \in Nat \ {0}
  <1>1. IsFiniteSet(Agents)
    BY FS_Interval, BoundsAssumption DEF Agents
  <1>2. ids[t] \subseteq Agents
    BY DEF TypeOK
  <1>3. Cardinality(ids[t]) \in Nat
    BY <1>1, <1>2, FS_Subset, FS_CardinalityType
  <1>4. QED
    BY <1>3 DEF AtLeastOne

\* A command leaves done and cancelled alone, except for a reset.
LEMMA CommandLeaves ==
    ASSUME TypeOK, Command PROVE TerminalLeave
  <1> SUFFICES ASSUME NEW t \in Tasks, status[t] \in {"done", "cancelled"},
                      status'[t] # status[t]
               PROVE  status'[t] = "running" /\ ids'[t] \cap (born + 1 .. AgentBound) # {}
    BY DEF TerminalLeave
  <1>1. PICK u \in Tasks :
            \/ \E n \in Sizes : ScaleDown(u, n)
            \/ \E n \in Sizes, m \in 0 .. AgentBound : ScaleUp(u, n, m)
            \/ \E mode \in {"graceful", "hard", "cancel"} : StopTask(u, mode)
            \/ PauseTask(u)
            \/ ResumeAgents(u)
            \/ \E m \in 0 .. AgentBound : ResumeAnew(u, m)
            \/ \E m \in 0 .. AgentBound : ResetTask(u, m)
    BY DEF Command
  <1>2. ASSUME NEW n \in Sizes, ScaleDown(u, n) PROVE FALSE
    BY <1>2, NoWayOut DEF ScaleDown, TypeOK
  <1>3. ASSUME NEW n \in Sizes, NEW m \in 0 .. AgentBound, ScaleUp(u, n, m) PROVE FALSE
    BY <1>3, NoWayOut DEF ScaleUp, TypeOK
  <1>4. ASSUME NEW mode \in {"graceful", "hard", "cancel"}, StopTask(u, mode) PROVE FALSE
    BY <1>4, NoWayOut DEF StopTask, TypeOK
  <1>5. ASSUME PauseTask(u) PROVE FALSE
    BY <1>5, NoWayOut DEF PauseTask, TypeOK
  <1>6. ASSUME ResumeAgents(u) \/ \E m \in 0 .. AgentBound : ResumeAnew(u, m) PROVE FALSE
    BY <1>6 DEF ResumeAgents, ResumeAnew, TypeOK
  <1>7. PICK m \in 0 .. AgentBound : ResetTask(u, m)
    BY <1>1, <1>2, <1>3, <1>4, <1>5, <1>6
  <1>8. u = t /\ m = AtLeastOne(Cardinality(ids[t])) /\ status'[t] = "running"
    BY <1>7, NoWayOut DEF ResetTask, TypeOK
  <1>9. m \in Nat /\ m > 0
    BY <1>8, ResetWantsOne
  <1>10. QED
    BY <1>7, <1>8, <1>9, StartGivesAgent DEF ResetTask

\* No pause, resume, scaling, stop or late exit takes a task out of done or
\* cancelled (TerminalOnlyForced): only a reset, a merge that failed and the
\* end of a review do.
THEOREM TerminalOnlyByForce == Spec => TerminalOnlyForced
  <1>1. ASSUME IInv, Next PROVE TerminalLeave
    <2>0. TypeOK
      BY <1>1 DEF IInv
    <2>1. CASE Command
      BY <2>0, <2>1, CommandLeaves
    <2>2. CASE Create
      <3>1. \A t \in Tasks : status'[t] # status[t] => status[t] \in {"absent", "creating"}
        BY <2>0, <2>2 DEF Create, CreateRejected, CreateBegin, CreateFinish, CreateReview,
                          IsNext, TypeOK, taskVars
      <3>2. QED
        BY <3>1 DEF TerminalLeave
    <2>3. ASSUME NEW a \in Agents, Watcher(a) PROVE TerminalLeave
      <3> SUFFICES ASSUME NEW t \in Tasks, status[t] \in {"done", "cancelled"},
                          status'[t] # status[t]
                   PROVE  \/ status'[t] = "error" /\ \E b \in merging \ merging' : owner[b] = t
                          \/ kind[t] = "review" /\ status'[t] = "done"
        BY DEF TerminalLeave
      <3>1. CASE AgentFailed(a) \/ (\E m \in 0 .. 1 : ProposalFailed(a, m)) \/ MergeSucceeded(a)
        BY <3>1 DEF AgentFailed, ProposalFailed, MergeSucceeded, taskVars
      <3>2. CASE ReviewDone(a)
        BY <2>0, <3>2 DEF ReviewDone, TypeOK
      <3>3. CASE ProposalDone(a)
        BY <2>0, <3>3, NoWayOut DEF ProposalDone, TypeOK
      <3>4. CASE TaskDone(a)
        BY <2>0, <3>4, NoWayOut DEF TaskDone, TypeOK
      <3>5. CASE MergeFailed(a)
        BY <2>0, <3>5 DEF MergeFailed, TypeOK
      <3>6. QED
        BY <2>3, <3>1, <3>2, <3>3, <3>4, <3>5 DEF Watcher
    <2>4. ASSUME NEW a \in Agents, StopAgent(a) \/ ProcessExit(a) \/ Stopper(a)
          PROVE  TerminalLeave
      BY <2>4 DEF StopAgent, ProcessExit, Stopper, StopSignal, StopFinish, taskVars,
                  TerminalLeave
    <2>5. QED
      BY <1>1, <2>1, <2>2, <2>3, <2>4 DEF Next
  <1>2. IInv /\ [Next]_vars => [TerminalLeave]_vars
    BY <1>1
  <1>3. QED
    BY <1>2, Inductive, PTL DEF Spec, TerminalOnlyForced

---------------------------------------------------------------------------
(***************************************************************************)
(* Paused tasks.  A spawn that fails leaves a paused task paused although  *)
(* some of its agents were started, so the theorem is about spawns that    *)
(* succeed, as the run is.                                                 *)
(***************************************************************************)
\* Agent b works for a paused task that is no proposal.
WorksPaused(b) == /\ proc[b] = "working"
                  /\ kind[owner[b]] # "proposal"
                  /\ status[owner[b]] = "paused"

\* Who works for a paused task did so before or is being stopped.
LEMMA QuietKept ==
    ASSUME PausedIsQuiet,
           \A b \in Agents : WorksPaused(b)' =>
              \/ stopping'[b] # "none"
              \/ WorksPaused(b) /\ (stopping[b] # "none" => stopping'[b] # "none")
    PROVE  PausedIsQuiet'
  BY DEF PausedIsQuiet, WorksPaused

\* The table's way to "running", by "scaling" or not, does not end in "paused".
LEMMA NotPaused ==
    ASSUME NEW s \in TaskStatus
    PROVE  /\ TransitionTask(s, "running") # "paused"
           /\ TransitionTask(TransitionTask(s, "scaling"), "running") # "paused"
           /\ TransitionTask(s, "done") = "paused" => s = "paused"
  BY DEF TransitionTask, taskTransitions, TaskStatus

\* A task lists only agents that were started for it.
ListedIsOwned == \A t \in Tasks : \A b \in ids[t] : b <= born /\ owner[b] = t

LEMMA ListedStart ==
    ASSUME TypeOK, ListedIsOwned, NEW t \in Tasks, NEW m \in Nat, NEW pool, NEW procs,
           NEW list \in SUBSET ids[t], StartAgents(t, m, pool, procs, list)
    PROVE  ListedIsOwned'
  <1>1. born \in Nat /\ born' = born + m
    BY BoundsAssumption DEF TypeOK, StartAgents
  <1>2. Fresh(m) \subseteq Agents /\ \A b \in Fresh(m) : b > born /\ b <= born'
    BY <1>1, BoundsAssumption DEF Fresh, Agents, StartAgents
  <1>3. SUFFICES ASSUME NEW u \in Tasks, NEW b \in ids'[u]
                 PROVE  b <= born' /\ owner'[b] = u
    BY DEF ListedIsOwned
  <1>4. ids' = [ids EXCEPT ![t] = list \cup Fresh(m)]
    BY DEF StartAgents
  <1>5. CASE b \in ids[u]
    <2>1. b \in Agents /\ b <= born /\ owner[b] = u
      BY <1>5 DEF ListedIsOwned, TypeOK
    <2>2. b \notin Fresh(m) /\ b <= born'
      BY <1>1, <1>2, <2>1 DEF Agents
    <2>3. QED
      BY <2>1, <2>2 DEF StartAgents
  <1>6. CASE b \notin ids[u]
    <2>1. u = t /\ b \in Fresh(m)
      BY <1>4, <1>6 DEF TypeOK
    <2>2. QED
      BY <1>2, <2>1 DEF StartAgents
  <1>7. QED
    BY <1>5, <1>6

LEMMA ListedStep == ASSUME IInv, ListedIsOwned, Next PROVE ListedIsOwned'
  <1>0. TypeOK
    BY DEF IInv
  <1>1. ASSUME UNCHANGED <<born, owner>>, \A t \in Tasks : ids'[t] \subseteq ids[t]
        PROVE  ListedIsOwned'
    BY <1>1 DEF ListedIsOwned
  <1>2. CASE Create
    <2>1. CASE UNCHANGED <<born, owner, ids>>
      BY <1>1, <2>1
    <2>2. ASSUME NEW t \in Tasks, NEW m \in 0 .. AgentBound, StartAgents(t, m, agent, proc, {})
          PROVE  ListedIsOwned'
      BY <1>0, <2>2, ListedStart
    <2>3. QED
      BY <1>2, <2>1, <2>2 DEF Create, CreateRejected, CreateBegin, CreateFinish, CreateReview,
                              taskVars, agentVars
  <1>3. CASE Command
    <2>1. PICK t \in Tasks :
            \/ \E n \in Sizes : ScaleDown(t, n)
            \/ \E n \in Sizes, m \in 0 .. AgentBound : ScaleUp(t, n, m)
            \/ \E mode \in {"graceful", "hard", "cancel"} : StopTask(t, mode)
            \/ PauseTask(t)
            \/ ResumeAgents(t)
            \/ \E m \in 0 .. AgentBound : ResumeAnew(t, m)
            \/ \E m \in 0 .. AgentBound : ResetTask(t, m)
      BY <1>3 DEF Command
    <2>2. ASSUME NEW m \in 0 .. AgentBound,
                 StartAgents(t, m, agent, proc, {}) \/ StartAgents(t, m, agent, proc, ids[t])
          PROVE  ListedIsOwned'
      BY <1>0, <2>2, ListedStart
    <2>3. ASSUME NEW n \in Sizes, ScaleDown(t, n) PROVE ListedIsOwned'
      BY <1>0, <1>1, <2>3 DEF ScaleDown, NoStart, TypeOK
    <2>4. ASSUME NEW n \in Sizes, NEW m \in 0 .. AgentBound, ScaleUp(t, n, m)
          PROVE  ListedIsOwned'
      BY <2>2, <2>4 DEF ScaleUp
    <2>5. ASSUME NEW m \in 0 .. AgentBound, ResumeAnew(t, m) \/ ResetTask(t, m)
          PROVE  ListedIsOwned'
      BY <2>2, <2>5 DEF ResumeAnew, ResetTask
    <2>6. ASSUME NEW mode \in {"graceful", "hard", "cancel"}, StopTask(t, mode)
          PROVE  ListedIsOwned'
      BY <1>1, <2>6 DEF StopTask, NoStart
    <2>7. CASE PauseTask(t) \/ ResumeAgents(t)
      BY <1>1, <2>7 DEF PauseTask, ResumeAgents
    <2>8. QED
      BY <2>1, <2>3, <2>4, <2>5, <2>6, <2>7
  <1>4. ASSUME NEW a \in Agents, StopAgent(a) \/ ProcessExit(a) \/ Stopper(a)
        PROVE  ListedIsOwned'
    BY <1>1, <1>4 DEF StopAgent, ProcessExit, Stopper, StopSignal, StopFinish, taskVars
  <1>5. ASSUME NEW a \in Agents, NEW m \in 0 .. 1, ProposalFailed(a, m)
        PROVE  ListedIsOwned'
    <2>1. CASE UNCHANGED <<born, owner, ids>>
      BY <1>1, <2>1
    <2>2. owner[a] \in Tasks
      BY <1>5 DEF ProposalFailed, Waited, IInv, AgentMapOK, TasksInMap
    <2>3. CASE StartAgents(owner[a], m, Without(a), Reaped(a), {})
      BY <1>0, <2>2, <2>3, ListedStart
    <2>4. QED
      BY <1>5, <2>1, <2>3 DEF ProposalFailed
  <1>6. ASSUME NEW a \in Agents, Watcher(a) PROVE ListedIsOwned'
    <2>1. CASE \E m \in 0 .. 1 : ProposalFailed(a, m)
      BY <1>5, <2>1
    <2>2. CASE AgentFailed(a) \/ ReviewDone(a) \/ ProposalDone(a) \/ TaskDone(a)
               \/ MergeSucceeded(a) \/ MergeFailed(a)
      BY <1>1, <2>2 DEF AgentFailed, ReviewDone, ProposalDone, TaskDone, MergeSucceeded,
                        MergeFailed, taskVars
    <2>3. QED
      BY <1>6, <2>1, <2>2 DEF Watcher
  <1>7. QED
    BY <1>2, <1>3, <1>4, <1>6 DEF Next

\* Agents are started for a task that is not paused afterwards.
LEMMA StartQuiet ==
    ASSUME IInv, PausedIsQuiet, NEW t \in Tasks, NEW m \in Nat, NEW list,
           StartAgents(t, m, agent, proc, list),
           \A u \in Tasks : u # t => status'[u] = status[u],
           \A u \in Tasks : u # t => kind'[u] = kind[u],
           status'[t] # "paused",
           \A b \in Agents : stopping[b] # "none" => stopping'[b] # "none"
    PROVE  PausedIsQuiet'
  <1> SUFFICES ASSUME NEW b \in Agents, WorksPaused(b)'
               PROVE  WorksPaused(b)
    BY QuietKept
  <1>1. TypeOK
    BY DEF IInv
  <1>2. owner'[b] # t
    BY DEF WorksPaused
  <1>3. owner'[b] = owner[b] /\ proc'[b] = proc[b]
    BY <1>1, <1>2, StartFacts
  <1>4. owner[b] \in Tasks
    BY <1>3 DEF IInv, ProcessIsKnown, TasksInMap, Live, WorksPaused
  <1>5. QED
    BY <1>2, <1>3, <1>4 DEF WorksPaused

\* A command interrupts or stops whom it pauses, and whom it starts or resumes
\* works for a task that runs.
LEMMA CommandQuiet ==
    ASSUME IInv, ListedIsOwned, PausedIsQuiet, Command, ~StartMayFail
    PROVE  PausedIsQuiet'
  <1> USE StopFacts
  <1>1. PICK t \in Tasks :
          \/ \E n \in Sizes : ScaleDown(t, n)
          \/ \E n \in Sizes, m \in 0 .. AgentBound : ScaleUp(t, n, m)
          \/ \E mode \in {"graceful", "hard", "cancel"} : StopTask(t, mode)
          \/ PauseTask(t)
          \/ ResumeAgents(t)
          \/ \E m \in 0 .. AgentBound : ResumeAnew(t, m)
          \/ \E m \in 0 .. AgentBound : ResetTask(t, m)
    BY DEF Command
  <1>2. TypeOK
    BY DEF IInv
  <1>3. \A n, m : m \in Successes(n) => m = n
    BY DEF Successes
  <1>4. \A b \in Agents : proc[b] = "working" => Live(b) /\ b \in AgentsInMap /\ owner[b] \in Tasks
    BY DEF IInv, ProcessIsKnown, AgentsInMap, Live, TasksInMap
  \* The agents of t all wait for input or are being stopped afterwards.
  <1>5. ASSUME UNCHANGED <<owner, kind>>,
               \A u \in Tasks : u # t => status'[u] = status[u],
               \A b \in Agents : stopping[b] # "none" => stopping'[b] # "none",
               \A b \in Agents : proc'[b] = "working" => proc[b] = "working",
               \A b \in Listed(t) : proc'[b] = "working" => stopping'[b] # "none"
        PROVE  PausedIsQuiet'
    <2> SUFFICES ASSUME NEW b \in Agents, WorksPaused(b)'
                 PROVE  \/ stopping'[b] # "none"
                        \/ WorksPaused(b) /\ (stopping[b] # "none" => stopping'[b] # "none")
      BY QuietKept
    <2>1. Live(b) /\ b \in AgentsInMap /\ owner[b] \in Tasks /\ kind[owner[b]] # "proposal"
          /\ proc[b] = "working"
      BY <1>4, <1>5 DEF WorksPaused
    <2>2. CASE owner[b] = t
      <3>1. b \in ids[t] \/ stopping[b] # "none"
        BY <2>1, <2>2 DEF IInv, NoOrphan
      <3>2. QED
        BY <1>5, <2>1, <3>1 DEF Listed, WorksPaused
    <2>3. CASE owner[b] # t
      BY <1>5, <2>1, <2>3 DEF WorksPaused
    <2>4. QED
      BY <2>2, <2>3
  <1>6. ASSUME NEW n \in Sizes, ScaleDown(t, n) PROVE PausedIsQuiet'
    <2>1. /\ UNCHANGED <<owner, proc, kind>>
          /\ status' = [status EXCEPT ![t] =
                           TransitionTask(TransitionTask(status[t], "scaling"), "running")]
          /\ \A b \in Agents : stopping[b] # "none" => stopping'[b] # "none"
      BY <1>6 DEF ScaleDown, NoStart
    <2>2. status'[t] # "paused" /\ \A u \in Tasks : u # t => status'[u] = status[u]
      BY <1>2, <1>6, <2>1, NotPaused DEF ScaleDown, InMap, TypeOK
    <2>3. \A b \in Agents : WorksPaused(b)' => WorksPaused(b)
      BY <1>4, <2>1, <2>2 DEF WorksPaused
    <2>4. QED
      BY <2>1, <2>3, QuietKept
  <1>7. ASSUME NEW n \in Sizes, NEW m \in 0 .. AgentBound, ScaleUp(t, n, m)
        PROVE  PausedIsQuiet'
    <2>1. /\ status' = [status EXCEPT ![t] =
                           TransitionTask(TransitionTask(status[t], "scaling"), "running")]
          /\ status[t] \in TaskStatus
      BY <1>3, <1>7 DEF ScaleUp, InMap
    <2>2. status'[t] # "paused" /\ \A u \in Tasks : u # t => status'[u] = status[u]
      BY <1>2, <2>1, NotPaused DEF TypeOK
    <2>3. QED
      BY <1>7, <2>2, StartQuiet DEF ScaleUp
  <1>8. ASSUME NEW mode \in {"graceful", "hard", "cancel"}, StopTask(t, mode)
        PROVE  PausedIsQuiet'
    <2>1. /\ UNCHANGED <<owner, proc, kind>>
          /\ \A u \in Tasks : u # t => status'[u] = status[u]
          /\ stopping' = StopRequested(Listed(t))
      BY <1>2, <1>8 DEF StopTask, NoStart, TypeOK
    <2>2. Listed(t) \subseteq Agents
      BY <1>2 DEF Listed, TypeOK
    <2>3. QED
      BY <1>5, <2>1, <2>2
  <1>9. CASE PauseTask(t)
    <2>1. /\ UNCHANGED <<owner, stopping, kind>>
          /\ \A u \in Tasks : u # t => status'[u] = status[u]
          /\ \A b \in Agents : proc'[b] = "working" => proc[b] = "working"
      BY <1>2, <1>9 DEF PauseTask, TypeOK
    <2>2. \A b \in Listed(t) : proc'[b] # "working"
      BY <1>2, <1>9 DEF PauseTask, Listed, Live, TypeOK
    <2>3. QED
      BY <1>5, <2>1, <2>2
  <1>10. CASE ResumeAgents(t)
    <2>1. /\ UNCHANGED <<owner, stopping, kind>>
          /\ status'[t] # "paused" /\ \A u \in Tasks : u # t => status'[u] = status[u]
          /\ \A b \in Agents : proc'[b] = "working" => proc[b] = "working" \/ b \in Listed(t)
      BY <1>2, <1>10 DEF ResumeAgents, TypeOK
    <2>2. ASSUME NEW b \in Agents, WorksPaused(b)' PROVE WorksPaused(b)
      <3>1. proc'[b] = "working" /\ owner[b] # t
        BY <2>1, <2>2 DEF WorksPaused
      <3>2. Live(b) => owner[b] \in Tasks
        BY DEF IInv, ProcessIsKnown, TasksInMap
      <3>3. Live(b)
        BY <1>10, <3>1 DEF ResumeAgents, Live
      <3>4. CASE proc[b] = "working"
        BY <2>1, <2>2, <3>1, <3>2, <3>3, <3>4 DEF WorksPaused
      <3>5. CASE proc[b] # "working"
        \* It took the input: the task lists it, so it is not another's.
        <4>1. b \in ids[t]
          BY <2>1, <3>1, <3>5 DEF Listed
        <4>2. QED
          BY <1>2, <3>1, <4>1 DEF ListedIsOwned, TypeOK
      <3>6. QED
        BY <3>4, <3>5
    <2>3. QED
      BY <2>1, <2>2, QuietKept
  <1>11. ASSUME NEW m \in 0 .. AgentBound, ResumeAnew(t, m) PROVE PausedIsQuiet'
    <2>1. status'[t] # "paused" /\ \A u \in Tasks : u # t => status'[u] = status[u]
      BY <1>2, <1>3, <1>11 DEF ResumeAnew, TypeOK
    <2>2. QED
      BY <1>11, <2>1, StartQuiet DEF ResumeAnew
  <1>12. ASSUME NEW m \in 0 .. AgentBound, ResetTask(t, m) PROVE PausedIsQuiet'
    <2>1. status'[t] # "paused" /\ \A u \in Tasks : u # t => status'[u] = status[u]
      BY <1>2, <1>3, <1>12 DEF ResetTask, TypeOK
    <2>2. QED
      BY <1>12, <2>1, StartQuiet DEF ResetTask
  <1>13. QED
    BY <1>1, <1>6, <1>7, <1>8, <1>9, <1>10, <1>11, <1>12

\* CreateTask starts agents for a running task only.
LEMMA CreateQuiet == ASSUME IInv, PausedIsQuiet, Create PROVE PausedIsQuiet'
  <1>1. TypeOK
    BY DEF IInv
  <1>2. \A b \in Agents : proc[b] = "working" => owner[b] \in Tasks /\ InMap(owner[b])
    BY DEF IInv, ProcessIsKnown, Live, TasksInMap
  <1>3. ASSUME NEW n \in Sizes, CreateRejected(n) PROVE PausedIsQuiet'
    BY <1>3 DEF CreateRejected, PausedIsQuiet, taskVars, agentVars
  <1>4. ASSUME NEW t \in Tasks, NEW n \in Sizes, NEW k \in Kinds, CreateBegin(t, k, n)
        PROVE  PausedIsQuiet'
    <2>1. /\ UNCHANGED <<owner, proc, stopping>> /\ status[t] = "absent"
          /\ \A u \in Tasks : u # t => status'[u] = status[u] /\ kind'[u] = kind[u]
      BY <1>1, <1>4 DEF CreateBegin, IsNext, agentVars, TypeOK
    <2>2. ~InMap(t)
      BY <2>1 DEF InMap, TaskStatus
    <2>3. \A b \in Agents : WorksPaused(b)' => WorksPaused(b)
      BY <1>2, <2>1, <2>2 DEF WorksPaused
    <2>4. QED
      BY <2>1, <2>3, QuietKept
  <1>5. ASSUME NEW t \in Tasks, NEW wt \in BOOLEAN, NEW m \in 0 .. AgentBound,
               CreateFinish(t, wt, m)
        PROVE  PausedIsQuiet'
    <2>1. status'[t] # "paused" /\ \A u \in Tasks : u # t => status'[u] = status[u]
      BY <1>1, <1>5 DEF CreateFinish, TypeOK
    <2>2. QED
      BY <1>5, <2>1, StartQuiet DEF CreateFinish
  <1>6. ASSUME NEW t \in Tasks, NEW n \in Sizes, NEW wt \in BOOLEAN,
               NEW m \in 0 .. AgentBound, CreateReview(t, n, wt, m)
        PROVE  PausedIsQuiet'
    <2>1. /\ status'[t] # "paused" /\ \A u \in Tasks : u # t => status'[u] = status[u]
          /\ \A u \in Tasks : u # t => kind'[u] = kind[u]
      BY <1>1, <1>6 DEF CreateReview, TypeOK
    <2>2. QED
      BY <1>6, <2>1, StartQuiet DEF CreateReview
  <1>7. QED
    BY <1>3, <1>4, <1>5, <1>6 DEF Create

\* A stopper forgets its order only when the process is gone, and a watcher
\* acts on ended processes.
LEMMA AgentQuiet ==
    ASSUME IInv, PausedIsQuiet, NEW a \in Agents,
           Stopper(a) \/ StopAgent(a) \/ ProcessExit(a) \/ Watcher(a)
    PROVE  PausedIsQuiet'
  <1>1. TypeOK
    BY DEF IInv
  <1>2. CASE StopSignal(a)
    BY <1>1, <1>2 DEF StopSignal, PausedIsQuiet, Live, TypeOK, taskVars
  <1>3. CASE StopFinish(a)
    BY <1>1, <1>3 DEF StopFinish, PausedIsQuiet, Live, TypeOK, taskVars
  <1>4. CASE StopAgent(a)
    BY <1>4, StopFacts DEF StopAgent, PausedIsQuiet, taskVars
  <1>5. CASE ProcessExit(a)
    BY <1>1, <1>5 DEF ProcessExit, PausedIsQuiet, TypeOK, taskVars
  \* A watcher that takes its agent out, or is about to merge.
  <1>6. ASSUME \A b \in Agents : b # a => proc'[b] = proc[b] /\ stopping'[b] = stopping[b],
               UNCHANGED <<owner, kind>>, proc'[a] # "working",
               \A u \in Tasks : status'[u] = "paused" => status[u] = "paused"
        PROVE  PausedIsQuiet'
    <2>1. \A b \in Agents : proc[b] = "working" => owner[b] \in Tasks
      BY DEF IInv, ProcessIsKnown, Live, TasksInMap
    <2>2. \A b \in Agents : WorksPaused(b)' => b # a /\ WorksPaused(b)
      BY <1>6, <2>1 DEF WorksPaused
    <2>3. QED
      BY <1>6, <2>2, QuietKept
  <1>7. Remove(a) => /\ \A b \in Agents : b # a => proc'[b] = proc[b] /\ stopping'[b] = stopping[b]
                     /\ proc'[a] # "working"
    BY <1>1 DEF Remove, Reaped, Idle, TypeOK
  <1>8. \A u \in Tasks : TransitionTask(status[u], "done") = "paused" => status[u] = "paused"
    BY DEF TransitionTask
  <1>9. CASE AgentFailed(a)
    BY <1>6, <1>7, <1>9 DEF AgentFailed, taskVars
  <1>10. CASE ReviewDone(a)
    <2>1. \A u \in Tasks : status'[u] = "paused" => status[u] = "paused"
      BY <1>1, <1>10 DEF ReviewDone, TypeOK
    <2>2. QED
      BY <1>6, <1>7, <1>10, <2>1 DEF ReviewDone
  <1>11. CASE ProposalDone(a)
    <2>1. \A u \in Tasks : status'[u] = "paused" => status[u] = "paused"
      BY <1>1, <1>8, <1>11 DEF ProposalDone, TypeOK
    <2>2. QED
      BY <1>6, <1>7, <1>11, <2>1 DEF ProposalDone
  <1>12. CASE TaskDone(a)
    <2>1. \A u \in Tasks : status'[u] = "paused" => status[u] = "paused"
      BY <1>1, <1>8, <1>12 DEF TaskDone, TypeOK
    <2>2. QED
      BY <1>6, <1>12, <2>1 DEF TaskDone
  <1>13. CASE MergeSucceeded(a)
    BY <1>6, <1>7, <1>13 DEF MergeSucceeded
  <1>14. CASE MergeFailed(a)
    <2>1. \A u \in Tasks : status'[u] = "paused" => status[u] = "paused"
      BY <1>1, <1>14 DEF MergeFailed, TypeOK
    <2>2. QED
      BY <1>6, <1>7, <1>14, <2>1 DEF MergeFailed
  <1>15. ASSUME NEW m \in 0 .. 1, ProposalFailed(a, m) PROVE PausedIsQuiet'
    <2>1. /\ UNCHANGED <<status, kind>> /\ kind[owner[a]] = "proposal"
          /\ \A b \in Agents : b # a => stopping'[b] = stopping[b]
      BY <1>1, <1>15 DEF ProposalFailed, Idle, TypeOK
    <2>2. owner[a] \in Tasks
      BY <1>15 DEF ProposalFailed, Waited, IInv, AgentMapOK, TasksInMap
    <2>3. \A b \in Agents : Reaped(a)[b] = IF b = a THEN "gone" ELSE proc[b]
      BY <1>1 DEF Reaped, TypeOK
    <2>4. CASE StartAgents(owner[a], m, Without(a), Reaped(a), {})
      <3>1. \A b \in Agents : \/ owner'[b] = owner[a]
                              \/ owner'[b] = owner[b] /\ proc'[b] = Reaped(a)[b]
        BY <1>1, <2>2, <2>4, StartFacts
      <3>2. \A b \in Agents : WorksPaused(b)' => b # a /\ WorksPaused(b)
        BY <2>1, <2>3, <3>1 DEF WorksPaused
      <3>3. QED
        BY <2>1, <3>2, QuietKept
    <2>5. CASE proc' = Reaped(a) /\ UNCHANGED owner
      <3>1. \A b \in Agents : WorksPaused(b)' => b # a /\ WorksPaused(b)
        BY <2>1, <2>3, <2>5 DEF WorksPaused
      <3>2. QED
        BY <2>1, <3>1, QuietKept
    <2>6. QED
      BY <1>15, <2>4, <2>5 DEF ProposalFailed
  <1>16. QED
    BY <1>2, <1>3, <1>4, <1>5, <1>9, <1>10, <1>11, <1>12, <1>13, <1>14, <1>15
    DEF Stopper, Watcher

\* While a task is paused none of its agents works, other than those being
\* stopped: PauseTask interrupts, and whatever starts an agent leaves the task
\* running.
THEOREM PausedQuiet ==
    ASSUME StartMayFail = FALSE
    PROVE  Spec => []PausedIsQuiet
  <1>1. Init => ListedIsOwned /\ PausedIsQuiet
    BY DEF Init, ListedIsOwned, PausedIsQuiet
  <1>2. IInv /\ ListedIsOwned /\ [Next]_vars => ListedIsOwned'
    <2>1. UNCHANGED vars /\ ListedIsOwned => ListedIsOwned'
      BY DEF vars, taskVars, agentVars, ListedIsOwned
    <2>2. QED
      BY <2>1, ListedStep
  <1>3. IInv /\ ListedIsOwned /\ PausedIsQuiet /\ [Next]_vars => PausedIsQuiet'
    <2>1. UNCHANGED vars /\ PausedIsQuiet => PausedIsQuiet'
      BY DEF vars, taskVars, agentVars, PausedIsQuiet
    <2>2. QED
      BY <2>1, CommandQuiet, CreateQuiet, AgentQuiet DEF Next
  <1>4. QED
    BY <1>1, <1>2, <1>3, Inductive, PTL DEF Spec

============================================================================
