----------------------------- MODULE MergeQueue -----------------------------
(***************************************************************************)
(* The branch manager of client/proxy and the callers of it in TaskService: *)
(* agents that work in git worktrees, the queue through which their        *)
(* branches are merged, and what discards branches.                        *)
(*                                                                         *)
(* One milestone with its tasks.  Each operation of the manager holds its  *)
(* mutex and is a step; a merge is taken from the queue before that.  A    *)
(* branch is the set of the tasks whose work it holds: what a rebase adds  *)
(* to a task's branch is not followed.  The process does not restart, and  *)
(* nobody calls Close.                                                     *)
(***************************************************************************)
EXTENDS Integers, Sequences, FiniteSets

CONSTANTS
    Tasks,          \* tasks of the milestone in the proxy
    Planned,        \* those of them that are nodes of the tree
    Milestone, Main,
    None,           \* no branch
    Cap,            \* capacity of the channel, 20
    Faults,         \* what may go wrong: "add", "conflict"
    FaultBound,     \* how often
    DecisionBound   \* resets and cancellations by meetings

ASSUME MergeAssumption ==
    /\ Planned \subseteq Tasks
    /\ Milestone \notin Tasks /\ Main \notin Tasks /\ Milestone # Main
    /\ None \notin Tasks \cup {Milestone, Main}
    /\ Cap \in Nat \ {0} /\ FaultBound \in Nat /\ DecisionBound \in Nat
    /\ Faults \subseteq {"add", "conflict"}

Mergeable == Tasks \cup {Milestone}
Branches  == Mergeable \cup {Main}
Parent(b) == IF b = Milestone THEN Main ELSE Milestone

VARIABLES
    work,       \* what each branch holds
    branches,   \* the branches of tasks that exist
    worktrees,  \* Manager.worktrees: the tasks that have one
    files,      \* worktrees with changes that are not committed
    artifacts,  \* worktrees with a .samams file
    queue,      \* the channel of the merge queue
    blocked,    \* callers that wait to send to it
    merging,    \* the branch the worker has taken
    answer,     \* DoneCh of each caller
    phase,      \* of each task, and of the milestone
    toPurge,    \* child branches MergeMilestone has yet to remove
    saved,      \* tasks with committed work
    discarded,  \* tasks a meeting has cancelled
    faults, decisions

trees  == <<branches, worktrees, files, artifacts>>
line   == <<queue, blocked, merging>>
bounds == <<faults, decisions>>
vars   == <<work, trees, line, answer, phase, toPurge, saved, discarded, bounds>>

TaskPhases == {"none", "working", "merging", "completed", "error", "cancelled"}
TopPhases  == {"open", "merging", "purging", "merged", "failed"}

TypeOK ==
    /\ work \in [Branches -> SUBSET Tasks]
    /\ branches \subseteq Tasks /\ worktrees \subseteq Tasks
    /\ files \subseteq Tasks /\ artifacts \subseteq Tasks
    /\ queue \in Seq(Mergeable) /\ blocked \in Seq(Mergeable)
    /\ merging \in Mergeable \cup {None}
    /\ answer \in [Mergeable -> {"none", "merged", "failed"}]
    /\ phase \in [Mergeable -> TaskPhases \cup TopPhases]
    /\ \A t \in Tasks : phase[t] \in TaskPhases
    /\ phase[Milestone] \in TopPhases
    /\ toPurge \subseteq Tasks /\ saved \subseteq Tasks /\ discarded \subseteq Tasks
    /\ faults \in Nat /\ decisions \in Nat

Init ==
    /\ work = [b \in Branches |-> {}]
    /\ branches = {} /\ worktrees = {} /\ files = {} /\ artifacts = {}
    /\ queue = <<>> /\ blocked = <<>> /\ merging = None
    /\ answer = [b \in Mergeable |-> "none"]
    /\ phase = [b \in Mergeable |-> IF b = Milestone THEN "open" ELSE "none"]
    /\ toPurge = {} /\ saved = {} /\ discarded = {}
    /\ faults = 0 /\ decisions = 0

Fault(f) == f \in Faults /\ faults < FaultBound /\ faults' = faults + 1
GoTo(b, p) == phase' = [phase EXCEPT ![b] = p]

-----------------------------------------------------------------------------
\* Agents

\* CreateTask, CreateWorktree: the branch starts from the milestone's.  When
\* the worktree cannot be added the agent is started in the default directory.
Create(t) ==
    /\ phase[t] = "none"
    /\ branches' = branches \cup {t}
    /\ \/ worktrees' = worktrees \cup {t} /\ UNCHANGED faults
       \/ Fault("add") /\ UNCHANGED worktrees
    /\ GoTo(t, "working")
    /\ UNCHANGED <<work, files, artifacts, line, answer, toPurge, saved, discarded, decisions>>

\* An agent commits, leaves changes that are not committed, or has a prompt
\* or a context file in its worktree.
Develop(t) ==
    /\ phase[t] = "working" /\ t \in worktrees
    /\ \/ work' = [work EXCEPT ![t] = @ \cup {t}] /\ saved' = saved \cup {t}
          /\ files' = files \ {t} /\ UNCHANGED artifacts
       \/ files' = files \cup {t} /\ UNCHANGED <<work, saved, artifacts>>
       \/ artifacts' = artifacts \cup {t} /\ UNCHANGED <<work, saved, files>>
    /\ UNCHANGED <<branches, worktrees, line, answer, phase, toPurge, discarded, bounds>>

\* MergeBack: the caller sends to the channel, and waits when it is full.
Submit(b) ==
    /\ IF Len(queue) < Cap
       THEN queue' = Append(queue, b) /\ UNCHANGED blocked
       ELSE blocked' = Append(blocked, b) /\ UNCHANGED queue
    /\ GoTo(b, "merging")
    /\ UNCHANGED merging

\* watchAgent: the agent is done and its branch is to be merged.
AgentEnds(t) ==
    /\ phase[t] = "working"
    /\ Submit(t)
    /\ UNCHANGED <<work, trees, answer, toPurge, saved, discarded, bounds>>

\* An agent that fails leaves its branch and its worktree.
AgentFails(t) ==
    /\ phase[t] = "working"
    /\ GoTo(t, "error")
    /\ UNCHANGED <<work, trees, line, answer, toPurge, saved, discarded, bounds>>

\* Mutant: the answer is not looked at.
MutReport(t) ==
    /\ phase[t] = "merging" /\ answer[t] # "none"
    /\ GoTo(t, "completed")
    /\ answer' = [answer EXCEPT ![t] = "none"]
    /\ UNCHANGED <<work, trees, line, toPurge, saved, discarded, bounds>>

\* Mutant: the branch is removed after the merge, also when that failed.
MutRemove(t) ==
    /\ phase[t] = "merging" /\ answer[t] # "none"
    /\ GoTo(t, IF answer[t] = "merged" THEN "completed" ELSE "error")
    /\ answer' = [answer EXCEPT ![t] = "none"]
    /\ work' = [work EXCEPT ![t] = {}]
    /\ branches' = branches \ {t} /\ worktrees' = worktrees \ {t}
    /\ UNCHANGED <<files, artifacts, line, toPurge, saved, discarded, bounds>>

\* The server is told of a completed task only after the merge.
Report(t) ==
    /\ phase[t] = "merging" /\ answer[t] # "none"
    /\ GoTo(t, IF answer[t] = "merged" THEN "completed" ELSE "error")
    /\ answer' = [answer EXCEPT ![t] = "none"]
    /\ UNCHANGED <<work, trees, line, toPurge, saved, discarded, bounds>>

-----------------------------------------------------------------------------
\* The worker of the queue

\* Mutant: the callers that are blocked are not woken.
MutTake ==
    /\ merging = None /\ queue # <<>>
    /\ merging' = Head(queue)
    /\ queue' = Tail(queue)
    /\ UNCHANGED <<work, trees, blocked, answer, phase, toPurge, saved, discarded, bounds>>

\* The first caller that is blocked can send as soon as there is room.
Take ==
    /\ merging = None /\ queue # <<>>
    /\ merging' = Head(queue)
    /\ IF blocked = <<>>
       THEN queue' = Tail(queue) /\ UNCHANGED blocked
       ELSE queue' = Append(Tail(queue), Head(blocked)) /\ blocked' = Tail(blocked)
    /\ UNCHANGED <<work, trees, answer, phase, toPurge, saved, discarded, bounds>>

\* What a branch holds once cleanAgentArtifacts has committed the removal of
\* the .samams files, and with it all changes of the worktree.
Cleaned(b) == work[b] \cup ({b} \cap files \cap artifacts)

\* Mutant: a merge that fails is queued again.
MutDoMerge ==
    /\ merging # None
    /\ LET b == merging
       IN \/ b \in branches \cup {Milestone}
             /\ answer' = [answer EXCEPT ![b] = "merged"]
             /\ work' = [work EXCEPT ![Parent(b)] = @ \cup Cleaned(b)]
             /\ UNCHANGED <<queue, faults>>
          \/ Fault("conflict") /\ queue' = Append(queue, b) /\ UNCHANGED <<work, answer>>
    /\ merging' = None
    /\ UNCHANGED <<trees, blocked, phase, toPurge, saved, discarded, decisions>>

\* doMerge: a branch that does not exist cannot be merged, and a conflict
\* aborts the merge.
DoMerge ==
    /\ merging # None
    /\ LET b == merging
           fail == answer' = [answer EXCEPT ![b] = "failed"]
                   /\ work' = [work EXCEPT ![b] = Cleaned(b)]
       IN /\ \/ b \in branches \cup {Milestone} /\ UNCHANGED faults
                /\ answer' = [answer EXCEPT ![b] = "merged"]
                /\ work' = [work EXCEPT ![b] = Cleaned(b), ![Parent(b)] = @ \cup Cleaned(b)]
             \/ b \notin branches \cup {Milestone} /\ fail /\ UNCHANGED faults
             \/ Fault("conflict") /\ fail
          /\ saved' = saved \cup ({b} \cap files \cap artifacts)
          /\ files' = files \ ({b} \cap artifacts)
          /\ artifacts' = artifacts \ {b}
    /\ merging' = None
    /\ UNCHANGED <<branches, worktrees, queue, blocked, phase, toPurge, discarded, decisions>>

-----------------------------------------------------------------------------
\* Decisions of strategy meetings

Decision == decisions < DecisionBound /\ decisions' = decisions + 1

\* reset_and_retry: the worktree goes back to its last commit; the .samams
\* files stay where git ignores them.  An agent at work goes on.
ResetWorktree(t) ==
    /\ t \in worktrees
    /\ Decision
    /\ files' = files \ {t}
    /\ artifacts' \in {artifacts, artifacts \ {t}}
    /\ UNCHANGED <<work, branches, worktrees, line, answer, phase, toPurge, saved, discarded,
                   faults>>

\* Mutant: the branch stays.
MutPurgeWorktree(t) ==
    /\ worktrees' = worktrees \ {t}
    /\ files' = files \ {t} /\ artifacts' = artifacts \ {t}
    /\ UNCHANGED <<work, branches>>

\* PurgeWorktree: the worktree and the branch go, merged or not.
PurgeWorktree(t) ==
    /\ branches' = branches \ {t} /\ worktrees' = worktrees \ {t}
    /\ files' = files \ {t} /\ artifacts' = artifacts \ {t}
    /\ work' = [work EXCEPT ![t] = {}]

\* cancel: the agent is stopped and the worktree purged, also when the agent
\* has ended and its branch waits to be merged.
Cancel(t) ==
    /\ phase[t] # "none"
    /\ Decision
    /\ PurgeWorktree(t)
    /\ phase' = [phase EXCEPT ![t] = IF @ \in {"working", "error"} THEN "cancelled" ELSE @]
    /\ discarded' = discarded \cup {t}
    /\ UNCHANGED <<line, answer, toPurge, saved, faults>>

-----------------------------------------------------------------------------
\* MergeMilestone

\* The command comes when the server's tree says that all tasks are done.
MergeMilestone ==
    /\ phase[Milestone] = "open"
    /\ \A t \in Planned : phase[t] = "completed"
    /\ Submit(Milestone)
    /\ UNCHANGED <<work, trees, answer, toPurge, saved, discarded, bounds>>

\* Mutant: a milestone that fails is treated like a task.
MutMerged ==
    /\ phase[Milestone] = "merging" /\ answer[Milestone] # "none"
    /\ IF answer[Milestone] = "merged"
       THEN GoTo(Milestone, "purging") /\ toPurge' = {t \in Tasks : phase[t] # "none"}
       ELSE GoTo(Milestone, "error") /\ UNCHANGED toPurge
    /\ answer' = [answer EXCEPT ![Milestone] = "none"]
    /\ UNCHANGED <<work, trees, line, saved, discarded, bounds>>

\* Only once the milestone is merged are the branches of its tasks removed,
\* those included whose agents are still at work.
Merged ==
    /\ phase[Milestone] = "merging" /\ answer[Milestone] # "none"
    /\ IF answer[Milestone] = "merged"
       THEN GoTo(Milestone, "purging") /\ toPurge' = {t \in Tasks : phase[t] # "none"}
       ELSE GoTo(Milestone, "failed") /\ UNCHANGED toPurge
    /\ answer' = [answer EXCEPT ![Milestone] = "none"]
    /\ UNCHANGED <<work, trees, line, saved, discarded, bounds>>

PurgeChild(t) ==
    /\ phase[Milestone] = "purging" /\ t \in toPurge
    /\ PurgeWorktree(t)
    /\ toPurge' = toPurge \ {t}
    /\ UNCHANGED <<line, answer, phase, saved, discarded, bounds>>

Announce ==
    /\ phase[Milestone] = "purging" /\ toPurge = {}
    /\ GoTo(Milestone, "merged")
    /\ UNCHANGED <<work, trees, line, answer, toPurge, saved, discarded, bounds>>

-----------------------------------------------------------------------------
TaskStep(t) ==
    \/ Create(t) \/ Develop(t) \/ AgentEnds(t) \/ AgentFails(t) \/ Report(t)
    \/ ResetWorktree(t) \/ Cancel(t) \/ PurgeChild(t)

Next == Take \/ DoMerge \/ MergeMilestone \/ Merged \/ Announce \/ \E t \in Tasks : TaskStep(t)

Spec == Init /\ [][Next]_vars

\* The worker and the callers go on; agents need not end.
FairSpec ==
    /\ Spec
    /\ WF_vars(Take) /\ WF_vars(DoMerge) /\ WF_vars(Merged)
    /\ \A t \in Tasks : WF_vars(Report(t)) /\ WF_vars(PurgeChild(t))

-----------------------------------------------------------------------------
\* Properties

\* A task is reported complete only with its work in the milestone's branch
\* ("Merge FIRST - ensure code is in parent branch before notifying server",
\* service.go), also when a meeting resets or purges its worktree while the
\* merge waits.  An agent that works elsewhere, or whose changes nobody
\* commits, has nothing to merge.
ReportedIsIn ==
    \A t \in Tasks : phase[t] = "completed" /\ t \in saved => t \in work[Milestone]

\* Committed work of a planned task is never lost, unless a meeting cancels
\* the task: a branch is removed only when its work is in the milestone, also
\* after merges that failed.
NothingLost ==
    \A t \in Planned \cap saved : t \in work[t] \cup work[Milestone] \cup work[Main]
                                  \/ t \in discarded

\* The work of a task that was cancelled before its merge never gets into
\* the milestone, although its merge may have been queued.
DiscardedStaysOut ==
    [][\A t \in discarded : t \notin work[Milestone] => t \notin work'[Milestone]]_vars

\* The queue, the callers that are blocked and the worker together serve the
\* merges in the order of the calls.
Order == INSTANCE FirstCome WITH
    Customers <- Mergeable,
    line <- (IF merging = None THEN <<>> ELSE <<merging>>) \o queue \o blocked

InOrder == Order!Spec

\* Every caller gets its answer, also one that finds the queue full.
Answered ==
    \A b \in Mergeable : phase[b] = "merging" ~> phase[b] # "merging"
=============================================================================
