---------------------------- MODULE TaskService ----------------------------
(***************************************************************************)
(* The agent proxy's TaskService (client/proxy/internal/app/service.go):   *)
(* the map of tasks, the map of agents, the proposal guard, and everything *)
(* that acts on them concurrently - the commands of the server, the        *)
(* goroutine that waits for each agent's process (watchAgent), the         *)
(* goroutines that stop agents (stopAgentAsync), and the processes.        *)
(*                                                                         *)
(* An action is one critical section of s.mu: where the code releases the  *)
(* lock (a worktree being created, a branch being merged, a process being  *)
(* killed) an action ends and another actor may run.  Task and agent       *)
(* identifiers are numbers handed out in increasing order, so the order of *)
(* Task.AgentIDs is the order of its numbers and the list is kept as a set.*)
(***************************************************************************)
EXTENDS Integers, FiniteSets, TaskFSM

CONSTANTS
    TaskBound,      \* CreateTask calls that get past the limits
    AgentBound,     \* agents ever started
    MaxTasks,       \* AGENT_MAX_TASKS
    MaxAgents,      \* AGENT_MAX_AGENTS
    Kinds,          \* the node types commands carry
    Sizes,          \* the numbers of agents commands ask for
    RetryLimit,     \* automatic restarts of a failed proposal agent (3)
    StartMayFail    \* whether spawning the agent CLI can fail

Tasks  == 1 .. TaskBound
Agents == 1 .. AgentBound

\* A milestone is handled as a task: only these three are told apart.
NodeTypes == {"proposal", "task", "review"}

ASSUME BoundsAssumption ==
    /\ TaskBound \in Nat
    /\ AgentBound \in Nat
    /\ MaxTasks \in Nat
    /\ MaxAgents \in Nat
    /\ RetryLimit \in Nat

ASSUME InputAssumption ==
    /\ Kinds \subseteq NodeTypes
    /\ Sizes \subseteq Nat \ {0}
    /\ StartMayFail \in BOOLEAN

VARIABLES
    status,     \* s.tasks[t].Status; "absent" and "creating": not in s.tasks
    kind,       \* Task.NodeType
    asked,      \* the NumAgents of a CreateTask that has released the lock
    ids,        \* Task.AgentIDs
    worktree,   \* Task.WorktreePath # ""
    agent,      \* s.agents[a].agent.Status; "none": not in s.agents
    owner,      \* Agent.TaskID
    proc,       \* the agent's process, and what became of it
    stopping,   \* the stopAgentAsync goroutine of an agent
    merging,    \* agents whose watchAgent is inside MergeBack
    born,       \* agents started so far
    guard,      \* s.proposalRunning
    retries,    \* s.proposalRetries
    report      \* outcomes sent to the server with the task's node

taskVars  == <<status, kind, asked, ids, worktree>>
agentVars == <<agent, owner, proc, stopping, merging, born>>
guardVars == <<guard, retries>>
vars      == <<taskVars, agentVars, guardVars, report>>

---------------------------------------------------------------------------
AgentStatus == {"none", "running", "stopped"}
ProcStatus  == {"none", "working", "interrupted", "exited", "killed", "gone"}
StopPhase   == {"none", "requested", "signalling"}
Outcome     == {"completed", "failed", "reviewed"}

InMap(t)   == status[t] \in TaskStatus
TasksInMap == {t \in Tasks : InMap(t)}
AgentsInMap == {a \in Agents : agent[a] # "none"}
AgentsOf(t) == {a \in AgentsInMap : owner[a] = t}

\* The process is running, working or waiting for input after two SIGINTs.
Live(a) == proc[a] \in {"working", "interrupted"}

\* Seeded fault: only AgentIDs[0] is acted on.
MutListed(t) == {a \in ids[t] \cap AgentsInMap : \A b \in ids[t] : a <= b}

\* Agents listed by the task that are still in s.agents.
Listed(t) == ids[t] \cap AgentsInMap

---------------------------------------------------------------------------
(***************************************************************************)
(* startAgentLocked, called n times for task t; m of the calls succeed     *)
(* before the first failure (m = n when none fails).  pool and procs are   *)
(* the agents and processes before, list the AgentIDs that are appended to.*)
(***************************************************************************)
Fresh(m) == (born + 1) .. (born + m)

Successes(n) == IF StartMayFail THEN 0 .. n ELSE {n}

StartAgents(t, m, pool, procs, list) ==
    /\ born + m <= AgentBound
    /\ born'  = born + m
    /\ agent' = [a \in Agents |-> IF a \in Fresh(m) THEN "running" ELSE pool[a]]
    /\ owner' = [a \in Agents |-> IF a \in Fresh(m) THEN t ELSE owner[a]]
    /\ proc'  = [a \in Agents |-> IF a \in Fresh(m) THEN "working" ELSE procs[a]]
    /\ ids'   = [ids EXCEPT ![t] = list \cup Fresh(m)]

NoStart == UNCHANGED <<born, agent, owner, proc>>

\* `go s.stopAgentAsync` for every agent of S.  A second goroutine for the
\* same agent repeats what the first does, so one is kept.
StopRequested(S) ==
    [a \in Agents |-> IF a \in S /\ stopping[a] = "none"
                      THEN "requested" ELSE stopping[a]]

AtLeastOne(n) == IF n = 0 THEN 1 ELSE n

Init ==
    /\ status   = [t \in Tasks |-> "absent"]
    /\ kind     = [t \in Tasks |-> "task"]
    /\ asked    = [t \in Tasks |-> 0]
    /\ ids      = [t \in Tasks |-> {}]
    /\ worktree = [t \in Tasks |-> FALSE]
    /\ agent    = [a \in Agents |-> "none"]
    /\ owner    = [a \in Agents |-> 0]
    /\ proc     = [a \in Agents |-> "none"]
    /\ stopping = [a \in Agents |-> "none"]
    /\ merging  = {}
    /\ born     = 0
    /\ guard    = FALSE
    /\ retries  = 0
    /\ report   = [t \in Tasks |-> {}]

---------------------------------------------------------------------------
(***************************************************************************)
(* CreateTask.  The guard is set before the limits are looked at, and both *)
(* are looked at before the lock is released to create the worktree.       *)
(***************************************************************************)
GuardAllows(k) == k = "proposal" \/ ~guard

WithinLimits(n) ==
    /\ Cardinality(TasksInMap) < MaxTasks
    /\ Cardinality(AgentsInMap) + n <= MaxAgents

IsNext(t) == /\ status[t] = "absent"
             /\ \A u \in Tasks : u < t => status[u] # "absent"

\* A proposal turned away by a limit has already set the guard.
CreateRejected(n) ==
    /\ "proposal" \in Kinds
    /\ ~WithinLimits(n)
    /\ guard' = TRUE
    /\ UNCHANGED <<taskVars, agentVars, retries, report>>

\* A proposal, milestone or task: past the checks, into the unlocked window
\* of InitWorkspace or CreateWorktree.
CreateBegin(t, k, n) ==
    /\ IsNext(t)
    /\ k # "review"
    /\ GuardAllows(k)
    /\ WithinLimits(n)
    /\ status' = [status EXCEPT ![t] = "creating"]
    /\ kind'   = [kind EXCEPT ![t] = k]
    /\ asked'  = [asked EXCEPT ![t] = n]
    /\ guard'  = (guard \/ k = "proposal")
    /\ UNCHANGED <<ids, worktree, agentVars, retries, report>>

\* The lock is held again: the task is stored as running and its agents are
\* started.  A failed worktree (wt = FALSE) is only logged, and a failed
\* start leaves the task as it is.
CreateFinish(t, wt, m) ==
    /\ status[t] = "creating"
    /\ status'   = [status EXCEPT ![t] = "running"]
    /\ worktree' = [worktree EXCEPT ![t] = wt]
    /\ m \in Successes(asked[t])
    /\ StartAgents(t, m, agent, proc, {})
    /\ UNCHANGED <<kind, asked, stopping, merging, guardVars, report>>

\* A review works in the worktree of its milestone, if it finds one, and
\* never releases the lock.
CreateReview(t, n, wt, m) ==
    /\ IsNext(t)
    /\ GuardAllows("review")
    /\ WithinLimits(n)
    /\ status'   = [status EXCEPT ![t] = "running"]
    /\ kind'     = [kind EXCEPT ![t] = "review"]
    /\ worktree' = [worktree EXCEPT ![t] = wt]
    /\ m \in Successes(n)
    /\ StartAgents(t, m, agent, proc, {})
    /\ UNCHANGED <<asked, stopping, merging, guardVars, report>>

---------------------------------------------------------------------------
(***************************************************************************)
(* ScaleTask.  The status is not looked at: only the two transitions are.  *)
(***************************************************************************)
\* Seeded fault: the transition back to running is forgotten.
MutScaleUp(t, n, m) ==
    LET diff == n - Cardinality(ids[t])
    IN  /\ InMap(t)
        /\ diff > 0
        /\ Cardinality(AgentsInMap) + diff <= MaxAgents
        /\ m \in Successes(diff)
        /\ StartAgents(t, m, agent, proc, ids[t])
        /\ status' = [status EXCEPT ![t] = TransitionTask(@, "scaling")]
        /\ UNCHANGED <<kind, asked, worktree, stopping, merging, guardVars, report>>

ScaleUp(t, n, m) ==
    LET diff    == n - Cardinality(ids[t])
        scaling == TransitionTask(status[t], "scaling")
    IN  /\ InMap(t)
        /\ diff > 0
        /\ Cardinality(AgentsInMap) + diff <= MaxAgents
        /\ m \in Successes(diff)
        /\ StartAgents(t, m, agent, proc, ids[t])
        /\ status' = [status EXCEPT ![t] =
                         IF m = diff THEN TransitionTask(scaling, "running")
                                     ELSE scaling]
        /\ UNCHANGED <<kind, asked, worktree, stopping, merging, guardVars, report>>

\* The n oldest agents are kept, the others dropped and stopped.
ScaleDown(t, n) ==
    LET dropped == {a \in ids[t] : Cardinality({b \in ids[t] : b < a}) >= n}
        scaling == TransitionTask(status[t], "scaling")
    IN  /\ InMap(t)
        /\ n < Cardinality(ids[t])
        /\ Cardinality(AgentsInMap) + n - Cardinality(ids[t]) <= MaxAgents
        /\ ids'      = [ids EXCEPT ![t] = @ \ dropped]
        /\ stopping' = StopRequested(dropped \cap AgentsInMap)
        /\ status'   = [status EXCEPT ![t] = TransitionTask(scaling, "running")]
        /\ NoStart
        /\ UNCHANGED <<kind, asked, worktree, merging, guardVars, report>>

\* Seeded fault: the status is assigned, not moved along the table.
MutStopTask(t, mode) ==
    /\ InMap(t)
    /\ stopping' = StopRequested(Listed(t))
    /\ status' = [status EXCEPT ![t] =
          CASE mode = "graceful" -> "paused"
            [] mode = "hard"     -> "stopped"
            [] mode = "cancel"   -> "cancelled"]
    /\ NoStart
    /\ UNCHANGED <<kind, asked, ids, worktree, merging, guardVars, report>>

(***************************************************************************)
(* StopTask and CancelTask.  A graceful stop pauses the task, a hard one   *)
(* stops it, a cancellation then moves it on to cancelled; all of them     *)
(* stop the agents.  The failure event of a cancellation carries no node.  *)
(***************************************************************************)
StopTask(t, mode) ==
    /\ InMap(t)
    /\ stopping' = StopRequested(Listed(t))
    /\ status' = [status EXCEPT ![t] =
          CASE mode = "graceful" -> TransitionTask(@, "paused")
            [] mode = "hard"     -> TransitionTask(@, "stopped")
            [] mode = "cancel"   ->
                 TransitionTask(TransitionTask(@, "stopped"), "cancelled")]
    /\ NoStart
    /\ UNCHANGED <<kind, asked, ids, worktree, merging, guardVars, report>>

\* PauseTask: two SIGINTs leave the process waiting for input.
PauseTask(t) ==
    /\ status[t] \in {"running", "scaling"}
    /\ proc' = [a \in Agents |-> IF a \in Listed(t) /\ Live(a)
                                 THEN "interrupted" ELSE proc[a]]
    /\ status' = [status EXCEPT ![t] = TransitionTask(@, "paused")]
    /\ UNCHANGED <<kind, asked, ids, worktree, agent, owner, stopping, merging,
                   born, guardVars, report>>

\* ResumeTask, some agent took the input "resume".
ResumeAgents(t) ==
    LET resumed == {a \in Listed(t) : Live(a)}
    IN  /\ status[t] = "paused"
        /\ resumed # {}
        /\ proc' = [a \in Agents |-> IF a \in resumed THEN "working" ELSE proc[a]]
        /\ status' = [status EXCEPT ![t] = "running"]
        /\ UNCHANGED <<kind, asked, ids, worktree, agent, owner, stopping,
                       merging, born, guardVars, report>>

\* ResumeTask, no agent could be reached: new ones replace them.
ResumeAnew(t, m) ==
    LET n == AtLeastOne(Cardinality(ids[t]))
    IN  /\ status[t] = "paused"
        /\ \A a \in Listed(t) : ~Live(a)
        /\ m \in Successes(n)
        /\ StartAgents(t, m, agent, proc, {})
        /\ status' = [status EXCEPT ![t] = IF m = n THEN "running" ELSE @]
        /\ UNCHANGED <<kind, asked, worktree, stopping, merging, guardVars, report>>

\* Seeded fault: the old agents are left to themselves.
MutResetTask(t, m) ==
    LET n == AtLeastOne(Cardinality(ids[t]))
    IN  /\ InMap(t)
        /\ m \in Successes(n)
        /\ StartAgents(t, m, agent, proc, {})
        /\ status' = [status EXCEPT ![t] =
                         IF m = n THEN "running"
                                  ELSE TransitionTask(@, "resetting")]
        /\ UNCHANGED <<kind, asked, worktree, stopping, merging, guardVars, report>>

\* ResetTask: stop the agents, start as many; the status is forced.
ResetTask(t, m) ==
    LET n == AtLeastOne(Cardinality(ids[t]))
    IN  /\ InMap(t)
        /\ m \in Successes(n)
        /\ stopping' = StopRequested(Listed(t))
        /\ StartAgents(t, m, agent, proc, {})
        /\ status' = [status EXCEPT ![t] =
                         IF m = n THEN "running"
                                  ELSE TransitionTask(@, "resetting")]
        /\ UNCHANGED <<kind, asked, worktree, merging, guardVars, report>>

---------------------------------------------------------------------------
(***************************************************************************)
(* StopAgent and stopAgentAsync: look the agent up, release the lock,      *)
(* signal and finally kill the process, take the lock to mark the agent.   *)
(***************************************************************************)
StopAgent(a) ==
    /\ agent[a] # "none"
    /\ stopping[a] = "none"
    /\ stopping' = StopRequested({a})
    /\ UNCHANGED <<taskVars, agent, owner, proc, merging, born, guardVars, report>>

\* The runner knows the process until its Wait returned: an exited one may
\* or may not be found.
StopSignal(a) ==
    /\ stopping[a] = "requested"
    /\ \/ /\ agent[a] # "none"
          /\ stopping' = [stopping EXCEPT ![a] = "signalling"]
       \/ /\ ~Live(a)
          /\ stopping' = [stopping EXCEPT ![a] = "none"]
    /\ UNCHANGED <<taskVars, agent, owner, proc, merging, born, guardVars, report>>

\* Seeded fault: the agent is marked although the process was not killed.
MutStopFinish(a) ==
    /\ stopping[a] = "signalling"
    /\ stopping' = [stopping EXCEPT ![a] = "none"]
    /\ agent' = [agent EXCEPT ![a] = IF @ = "running" THEN "stopped" ELSE @]
    /\ UNCHANGED <<taskVars, owner, proc, merging, born, guardVars, report>>

\* Five seconds of grace are over, or the process is gone.
StopFinish(a) ==
    /\ stopping[a] = "signalling"
    /\ stopping' = [stopping EXCEPT ![a] = "none"]
    /\ proc'  = [proc EXCEPT ![a] = IF Live(a) THEN "killed" ELSE @]
    /\ agent' = [agent EXCEPT ![a] = IF @ = "running" THEN "stopped" ELSE @]
    /\ UNCHANGED <<taskVars, owner, merging, born, guardVars, report>>

\* The CLI process ends: its work is done, it failed, or it was signalled.
ProcessExit(a) ==
    /\ Live(a)
    /\ proc' = [proc EXCEPT ![a] = "exited"]
    /\ UNCHANGED <<taskVars, agent, owner, stopping, merging, born, guardVars, report>>

---------------------------------------------------------------------------
(***************************************************************************)
(* watchAgent, after handle.Wait returned.  Wait gives an error for a      *)
(* killed process; for one that exited by itself it may give an error or   *)
(* not (the exit code, or the second Wait of a concurrent StopAgent).      *)
(***************************************************************************)
Waited(a) == agent[a] # "none" /\ a \notin merging /\ ~Live(a)

Reported(t, outcome) == [report EXCEPT ![t] = @ \cup {outcome}]

\* The agent leaves s.agents and its process the runner's map; a
\* stopAgentAsync still under way has nothing left to act on.
Without(a) == [agent EXCEPT ![a] = "none"]
Reaped(a)  == [proc EXCEPT ![a] = "gone"]
Idle(a)    == [stopping EXCEPT ![a] = "none"]
Remove(a)  == /\ agent'    = Without(a)
              /\ proc'     = Reaped(a)
              /\ stopping' = Idle(a)

\* Seeded fault: the failed agent keeps its slot.
MutAgentFailed(a) ==
    LET t == owner[a]
    IN  /\ Waited(a)
        /\ kind[t] # "proposal"
        /\ report' = Reported(t, "failed")
        /\ UNCHANGED <<taskVars, agentVars, guardVars>>

\* Error of any agent but a proposal's: the slot is freed, the task's status
\* is not touched, the server gets agent.error with the node.
AgentFailed(a) ==
    LET t == owner[a]
    IN  /\ Waited(a)
        /\ kind[t] # "proposal"
        /\ Remove(a)
        /\ report' = Reported(t, "failed")
        /\ UNCHANGED <<taskVars, owner, merging, born, guardVars>>

\* Seeded fault: one restart too many.
MutMayRetry == retries <= RetryLimit

MayRetry == retries < RetryLimit

\* Error of a proposal's agent: restarted up to RetryLimit times, whatever
\* the task's status; the guard is released when that is over or fails.
ProposalFailed(a, m) ==
    LET t == owner[a]
    IN  /\ Waited(a)
        /\ kind[t] = "proposal"
        /\ report' = Reported(t, "failed")
        /\ \/ /\ MayRetry
              /\ m \in Successes(1)
              /\ StartAgents(t, m, Without(a), Reaped(a), {})
              /\ retries' = IF m = 1 THEN retries + 1 ELSE 0
              /\ guard'   = (guard /\ m = 1)
           \/ /\ ~MayRetry
              /\ agent'   = Without(a)
              /\ proc'    = Reaped(a)
              /\ guard'   = FALSE
              /\ retries' = 0
              /\ UNCHANGED <<born, owner, ids>>
        /\ stopping' = Idle(a)
        /\ UNCHANGED <<status, kind, asked, worktree, merging>>

\* A review's agent: no merge, the status is forced.
ReviewDone(a) ==
    LET t == owner[a]
    IN  /\ Waited(a)
        /\ proc[a] = "exited"
        /\ kind[t] = "review"
        /\ Remove(a)
        /\ status' = [status EXCEPT ![t] = "done"]
        /\ report' = Reported(t, "reviewed")
        /\ UNCHANGED <<kind, asked, ids, worktree, owner, merging, born, guardVars>>

\* A proposal's agent: it has no branch, so nothing is merged.
ProposalDone(a) ==
    LET t == owner[a]
    IN  /\ Waited(a)
        /\ proc[a] = "exited"
        /\ kind[t] = "proposal"
        /\ Remove(a)
        /\ status'  = [status EXCEPT ![t] = TransitionTask(@, "done")]
        /\ guard'   = FALSE
        /\ retries' = 0
        /\ report'  = Reported(t, "completed")
        /\ UNCHANGED <<kind, asked, ids, worktree, owner, merging, born>>

\* A task's agent: the task is done, then the lock is released to merge.
TaskDone(a) ==
    LET t == owner[a]
    IN  /\ Waited(a)
        /\ proc[a] = "exited"
        /\ kind[t] = "task"
        /\ agent'   = [agent EXCEPT ![a] = "stopped"]
        /\ status'  = [status EXCEPT ![t] = TransitionTask(@, "done")]
        /\ merging' = merging \cup {a}
        /\ UNCHANGED <<kind, asked, ids, worktree, owner, proc, stopping, born,
                       guardVars, report>>

MergeSucceeded(a) ==
    LET t == owner[a]
    IN  /\ a \in merging
        /\ merging'  = merging \ {a}
        /\ worktree' = [worktree EXCEPT ![t] = FALSE]
        /\ report'   = Reported(t, "completed")
        /\ Remove(a)
        /\ UNCHANGED <<status, kind, asked, ids, owner, born, guardVars>>

\* Seeded fault: the task stays done.
MutMergeFailed(a) ==
    /\ a \in merging
    /\ merging' = merging \ {a}
    /\ report'  = Reported(owner[a], "failed")
    /\ Remove(a)
    /\ UNCHANGED <<taskVars, owner, born, guardVars>>

\* The merge failed: the task becomes an error, from whatever it was.
MergeFailed(a) ==
    LET t == owner[a]
    IN  /\ a \in merging
        /\ merging' = merging \ {a}
        /\ status'  = [status EXCEPT ![t] = "error"]
        /\ report'  = Reported(t, "failed")
        /\ Remove(a)
        /\ UNCHANGED <<kind, asked, ids, worktree, owner, born, guardVars>>

---------------------------------------------------------------------------
Create ==
    \/ \E n \in Sizes : CreateRejected(n)
    \/ \E t \in Tasks, n \in Sizes : \E k \in Kinds : CreateBegin(t, k, n)
    \/ \E t \in Tasks, wt \in BOOLEAN : \E m \in 0 .. AgentBound :
          CreateFinish(t, wt, m)
    \/ /\ "review" \in Kinds
       /\ \E t \in Tasks, n \in Sizes, wt \in BOOLEAN : \E m \in 0 .. AgentBound :
             CreateReview(t, n, wt, m)

Command ==
    \E t \in Tasks :
       \/ \E n \in Sizes : ScaleDown(t, n)
       \/ \E n \in Sizes, m \in 0 .. AgentBound : ScaleUp(t, n, m)
       \/ \E mode \in {"graceful", "hard", "cancel"} : StopTask(t, mode)
       \/ PauseTask(t)
       \/ ResumeAgents(t)
       \/ \E m \in 0 .. AgentBound : ResumeAnew(t, m)
       \/ \E m \in 0 .. AgentBound : ResetTask(t, m)

Stopper(a) == StopSignal(a) \/ StopFinish(a)

Watcher(a) ==
    \/ AgentFailed(a)
    \/ \E m \in 0 .. 1 : ProposalFailed(a, m)
    \/ ReviewDone(a)
    \/ ProposalDone(a)
    \/ TaskDone(a)
    \/ MergeSucceeded(a)
    \/ MergeFailed(a)

Next ==
    \/ Create
    \/ Command
    \/ \E a \in Agents : StopAgent(a) \/ ProcessExit(a) \/ Stopper(a) \/ Watcher(a)

\* The proxy's own goroutines get to run: each agent's watcher, and each
\* stop request, which ends with a kill.  Commands and the agents' own
\* exits are under no obligation.
Fairness == \A a \in Agents : WF_vars(Stopper(a)) /\ WF_vars(Watcher(a))

Spec == Init /\ [][Next]_vars

FairSpec == Spec /\ Fairness
---------------------------------------------------------------------------
(***************************************************************************)
(* Properties.                                                             *)
(***************************************************************************)

\* Every variable has its type; numbers are handed out in order, and what
\* has not been handed out is blank.
TypeOK ==
    /\ status   \in [Tasks -> TaskStatus \cup {"absent", "creating"}]
    /\ kind     \in [Tasks -> NodeTypes]
    /\ asked    \in [Tasks -> Nat]
    /\ ids      \in [Tasks -> SUBSET Agents]
    /\ worktree \in [Tasks -> BOOLEAN]
    /\ agent    \in [Agents -> AgentStatus]
    /\ owner    \in [Agents -> Tasks \cup {0}]
    /\ proc     \in [Agents -> ProcStatus]
    /\ stopping \in [Agents -> StopPhase]
    /\ merging  \in SUBSET Agents
    /\ born     \in 0 .. AgentBound
    /\ guard    \in BOOLEAN
    /\ retries  \in 0 .. RetryLimit
    /\ report   \in [Tasks -> SUBSET Outcome]

\* No process runs that the proxy has forgotten: a live process is in
\* s.agents, not marked stopped there, and belongs to a task of s.tasks.
\* The agent map is cut in seven places of watchAgent and filled in one.
ProcessIsKnown ==
    \A a \in Agents : Live(a) => /\ agent[a] = "running"
                                 /\ owner[a] \in TasksInMap

\* A working agent can always be reached through its task, which is the only
\* way a command reaches it: it is in AgentIDs or already being stopped.
\* Scaling down, resetting and resuming all cut AgentIDs while processes
\* run.  Proposals are left out: their automatic restart empties AgentIDs
\* (service.go:1207) whatever other agents the proposal has.
NoOrphan ==
    \A a \in Agents : Live(a) /\ kind[owner[a]] # "proposal" =>
        a \in ids[owner[a]] \/ stopping[a] # "none"

\* While a task is paused no agent of it works: each is waiting for input,
\* gone, or on its way to being killed.  (Proposals restart theirs.)
PausedIsQuiet ==
    \A a \in Agents : /\ proc[a] = "working"
                      /\ kind[owner[a]] # "proposal"
                      /\ status[owner[a]] = "paused"
                      => stopping[a] # "none"

\* A task that counts as done has told the server so, or a merge that will
\* tell it is under way: done is set before the lock is released to merge.
DoneIsReported ==
    \A t \in Tasks : status[t] = "done" =>
        \/ \E a \in merging : owner[a] = t
        \/ report[t] \cap {"completed", "reviewed"} # {}

\* What can take a task out of done or cancelled: a reset, which gives it
\* agents, a merge that failed, which makes it an error, and the end of a
\* review.  No pause, resume, scaling, stop or late exit may.
TerminalLeave ==
    \A t \in Tasks :
        status[t] \in {"done", "cancelled"} /\ status'[t] # status[t] =>
           \/ status'[t] = "running" /\ ids'[t] \cap (born + 1 .. AgentBound) # {}
           \/ status'[t] = "error" /\ \E a \in merging \ merging' : owner[a] = t
           \/ kind[t] = "review" /\ status'[t] = "done"

TerminalOnlyForced == [][TerminalLeave]_vars

\* When a task is stopped or cancelled the order reaches every process that
\* works for it: a task never counts as stopped while an agent nobody told
\* goes on.  It rests on NoOrphan.  (That says
\* nothing of what ScaleTask starts afterwards, for a cancelled task too.)
StopReaches ==
    \A t \in Tasks :
        /\ kind[t] # "proposal"
        /\ status'[t] \in {"stopped", "cancelled"}
        /\ status'[t] # status[t]
        => \A a \in AgentsOf(t) : Live(a) => stopping'[a] # "none"

StopReachesAll == [][StopReaches]_vars

\* An agent whose process ended, or that was told to stop, leaves s.agents
\* and so frees its slot of MaxAgents, whatever becomes of its task: the
\* stopper and the watcher both act on it and neither may lose it.
SlotFreed ==
    \A a \in Agents : (~Live(a) \/ stopping[a] # "none") ~> (agent[a] = "none")

===========================================================================
