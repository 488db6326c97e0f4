------------------------------ MODULE CloudRun ------------------------------
(***************************************************************************)
(* A run in deploy mode: the Lambda handlers of server/cmd/proxy, each of  *)
(* which reads and writes S3 on its own, the deployed proxy that carries   *)
(* their commands out and pushes events, and the browser that copies the   *)
(* state of the proxy's tasks into tree.json.                              *)
(*                                                                         *)
(* The tree is a proposal with one milestone and its tasks.  Commands and  *)
(* events are those that PollLink delivers.  Summaries, histories, track   *)
(* logs, prompts and the SQS consumer are left out: nothing here reads     *)
(* them.  The plan handlers store documents and are left out too.          *)
(***************************************************************************)
EXTENDS Integers, FiniteSets

CONSTANTS
    TaskCount,      \* tasks of the milestone
    MaxAgents,      \* max_agents of the request
    Paths,          \* the ways run/start can take
    Client,         \* who pushes the events: "httppoll", the client of the
                    \* repository's proxy, or "api", a client that fills in
                    \* every field events/push reads
    CallBound,      \* invocations of handlers at a time
    PostBound,      \* statuses the browser posts
    Faults,         \* what may go wrong: "save", "crash", "repeat", "drop"
    FaultBound,     \* how often
    setup, review, rework, skeleton, merge  \* names of agents and commands

ASSUME CloudAssumption ==
    /\ TaskCount \in Nat \ {0} /\ MaxAgents \in 1 .. 6
    /\ Paths \subseteq {"skeleton", "agent", "direct"}
    /\ Client \in {"httppoll", "api"}
    /\ CallBound \in Nat /\ PostBound \in Nat /\ FaultBound \in Nat
    /\ Faults \subseteq {"save", "crash", "repeat", "drop"}

Tasks == 1 .. TaskCount
M     == 0                  \* the milestone
\* Agents: setup is the proposal's, review the milestone's, rework stands for
\* the tasks a review asks for, which have no node in the tree.
Work    == Tasks \cup {setup, review, rework}
Actions == Work \cup {skeleton, merge}

ASSUME NamesAssumption ==
    /\ review \notin Tasks \cup {M, setup, rework, skeleton, merge}
    /\ setup \notin Tasks

VARIABLES
    tree,       \* tracks/{planId}/tree.json: the status of M and of the tasks
    run,        \* proxy-pending-runs: tasks that wait for the proposal
    cmds,       \* commands in pending/, per action
    agents,     \* agents at work in the proxy
    done,       \* proxy tasks that are done
    posts,      \* events on their way to events/push
    calls,      \* invocations of handlers
    started,    \* the path run/start took
    planned,    \* the tasks of the pending run when it was saved
    given,      \* commands ever saved, per action
    posted,     \* statuses the browser has posted
    faults

s3Vars    == <<tree, run, cmds>>
proxyVars == <<agents, done, posts>>
vars      == <<s3Vars, proxyVars, calls, started, planned, given, posted, faults>>

Status == {"pending", "active", "reviewing", "running", "complete"}
Trees  == [Tasks \cup {M} -> Status]
Blank  == [n \in Tasks \cup {M} |-> "pending"]

\* An invocation of a handler, with the copy of tree.json or of the pending
\* run it works on.  All that change one node's status are of kind "status".
Call == [id : 1 .. CallBound, kind : {"completed", "review", "status"},
         about : Work \cup {M},
         at : {"begin", "dispatch", "delete", "ask", "read", "write"},
         status : Status, copy : Trees, nodes : SUBSET Tasks]

TypeOK ==
    /\ tree \in Trees
    /\ run \subseteq Tasks /\ planned \subseteq Tasks
    /\ cmds \in [Actions -> Nat] /\ given \in [Actions -> Nat]
    /\ agents \in [Work -> Nat]
    /\ done \subseteq Work
    /\ \A e \in posts : e.type \in {"task.completed", "review.completed", "review.failed"}
                        /\ e.about \in Work
    /\ \A c \in calls : c \in Call
    /\ started \in Paths \cup {"no"}
    /\ posted \in 0 .. PostBound /\ faults \in 0 .. FaultBound

Init ==
    /\ tree = Blank  \* saved through POST /tracks
    /\ run = {} /\ planned = {}
    /\ cmds = [a \in Actions |-> 0] /\ given = [a \in Actions |-> 0]
    /\ agents = [w \in Work |-> 0]
    /\ done = {} /\ posts = {} /\ calls = {}
    /\ started = "no"
    /\ posted = 0 /\ faults = 0

Fault(f) == f \in Faults /\ faults < FaultBound /\ faults' = faults + 1

\* Commands for the actions in S are saved.
Saved(f, S) == [a \in Actions |-> IF a \in S THEN f[a] + 1 ELSE f[a]]
Save(S) == cmds' = Saved(cmds, S) /\ given' = Saved(given, S)

\* Of the nodes in S, those a loop over them gives to agents.
FirstAgents(S) == {n \in S : Cardinality({k \in S : k < n}) < MaxAgents}

-----------------------------------------------------------------------------
\* run/start

\* With a proposal the tasks are saved as a pending run and the proposal goes
\* first, as a skeleton if the plan has one and the command can be saved,
\* else as an agent.  A pending run that cannot be saved is only logged.
StartProposal(path) ==
    /\ \/ run' = Tasks /\ Save({IF path = "skeleton" THEN skeleton ELSE setup})
          /\ UNCHANGED faults
       \/ Fault("save") /\ UNCHANGED run
          /\ Save({IF path = "skeleton" THEN skeleton ELSE setup})
       \/ Fault("save") /\ run' = Tasks
          /\ Save(IF path = "skeleton" THEN {setup} ELSE {})
    /\ planned' = run'

\* Without one the tasks start at once, up to the limit.
StartTasks ==
    /\ \/ Save(FirstAgents(Tasks)) /\ UNCHANGED faults
       \/ Fault("save") /\ \E n \in Tasks : Save(FirstAgents(Tasks \ {n}))
    /\ UNCHANGED <<run, planned>>

Start ==
    /\ started = "no"
    /\ \E path \in Paths :
          /\ started' = path
          /\ IF path = "direct" THEN StartTasks ELSE StartProposal(path)
    /\ UNCHANGED <<tree, proxyVars, calls, posted>>

-----------------------------------------------------------------------------
\* The proxy

\* A command is carried out: an agent starts, or the skeleton is made or the
\* branch merged, which no event reports.
Execute(a) ==
    /\ cmds[a] > 0
    /\ cmds' = [cmds EXCEPT ![a] = @ - 1]
    /\ agents' = IF a \in Work THEN [agents EXCEPT ![a] = @ + 1] ELSE agents
    /\ UNCHANGED <<tree, run, done, posts, calls, started, planned, given, faults, posted>>

\* What is pushed when an agent ends.  The events of httppoll carry no taskID
\* beside the payload, and its publisher has no action for reviews.
Reports(w, type) ==
    IF Client = "api" THEN {[type |-> type, about |-> w, taskID |-> TRUE]}
    ELSE IF w = review THEN {}
    ELSE {[type |-> type, about |-> w, taskID |-> FALSE]}

Finish(w) ==
    /\ agents[w] > 0
    /\ agents' = [agents EXCEPT ![w] = @ - 1]
    /\ done' = done \cup {w}
    /\ posts' = posts \cup Reports(w, IF w = review THEN "review.completed"
                                      ELSE "task.completed")
    /\ UNCHANGED <<s3Vars, calls, started, planned, given, faults, posted>>

\* A review agent that fails.
FailReview ==
    /\ agents[review] > 0
    /\ agents' = [agents EXCEPT ![review] = @ - 1]
    /\ posts' = posts \cup Reports(review, "review.failed")
    /\ UNCHANGED <<s3Vars, done, calls, started, planned, given, faults, posted>>

-----------------------------------------------------------------------------
\* events/push

Invoked(kind, about, at, status) ==
    \E i \in (1 .. CallBound) \ {c.id : c \in calls} :
        /\ \A k \in 1 .. i - 1 : \E c \in calls : c.id = k
        /\ calls' = calls \cup
              {[id |-> i, kind |-> kind, about |-> about, at |-> at,
                status |-> status, copy |-> Blank, nodes |-> {}]}

\* The handler of an event; a review that failed is approved right here.
Handling(e) ==
    CASE e.type = "task.completed"   -> Invoked("completed", e.about, "begin", "pending")
      [] e.type = "review.completed" -> Invoked("review", M, "begin", "pending")
      [] e.type = "review.failed"    -> Invoked("status", M, "read", "complete")

\* An event is forwarded and its handler invoked asynchronously, which may
\* happen twice.  task/completed ends at once for an event without a taskID.
\* An event that SQS refuses is skipped, and the push succeeds all the same.
PushEvent(e) ==
    /\ e \in posts
    /\ \/ e.taskID /\ Handling(e) /\ posts' = posts \ {e} /\ UNCHANGED faults
       \/ e.taskID /\ Handling(e) /\ Fault("repeat") /\ UNCHANGED posts
       \/ ~e.taskID /\ posts' = posts \ {e} /\ UNCHANGED <<calls, faults>>
       \/ Fault("drop") /\ posts' = posts \ {e} /\ UNCHANGED calls
    /\ UNCHANGED <<s3Vars, agents, done, started, planned, given, posted>>

-----------------------------------------------------------------------------
\* The handlers

Step(c, d) == calls' = (calls \ {c}) \cup {d}
End(c)     == calls' = calls \ {c}

\* Mutant: the run is deleted when it is loaded.
MutLoadRun(c) ==
    /\ c.kind = "completed" /\ c.at = "begin" /\ c.about = setup
    /\ IF run = {} THEN End(c) ELSE Step(c, [c EXCEPT !.at = "dispatch", !.nodes = run])
    /\ run' = {}
    /\ UNCHANGED <<tree, cmds, proxyVars, started, planned, given, faults, posted>>

\* task/completed of the proposal: dispatchPendingTasks loads the pending
\* run, saves a command for as many nodes as the limit allows, skipping those
\* it cannot save, and deletes the run, also with nodes left in it.
LoadRun(c) ==
    /\ c.kind = "completed" /\ c.at = "begin" /\ c.about = setup
    /\ IF run = {} THEN End(c) ELSE Step(c, [c EXCEPT !.at = "dispatch", !.nodes = run])
    /\ UNCHANGED <<s3Vars, proxyVars, started, planned, given, faults, posted>>

\* Mutant: a node of the run is left out.
MutDispatchRun(c) ==
    /\ c.at = "dispatch"
    /\ \/ Save(FirstAgents(c.nodes \ {TaskCount})) /\ UNCHANGED faults
       \/ Fault("save") /\ \E n \in c.nodes : Save(FirstAgents(c.nodes \ {n}))
    /\ Step(c, [c EXCEPT !.at = "delete"])
    /\ UNCHANGED <<tree, run, proxyVars, started, planned, posted>>

DispatchRun(c) ==
    /\ c.at = "dispatch"
    /\ \/ Save(FirstAgents(c.nodes)) /\ UNCHANGED faults
       \/ Fault("save") /\ \E n \in c.nodes : Save(FirstAgents(c.nodes \ {n}))
    /\ Step(c, [c EXCEPT !.at = "delete"])
    /\ UNCHANGED <<tree, run, proxyVars, started, planned, posted>>

DeleteRun(c) ==
    /\ c.at = "delete"
    /\ run' = {}
    /\ End(c)
    /\ UNCHANGED <<tree, cmds, proxyVars, started, planned, given, faults, posted>>

\* Mutant: one complete task is enough.
MutAllComplete(t) ==
    /\ t[M] \notin {"reviewing", "complete"}
    /\ \E n \in Tasks : t[n] = "complete"

\* CheckMilestoneCompletion: all tasks of the tree are complete and no review
\* has begun.
AllComplete(t) ==
    /\ t[M] \notin {"reviewing", "complete"}
    /\ \A n \in Tasks : t[n] = "complete"

\* task/completed of a task: the tree is loaded and looked at; then the
\* review command is saved, then the whole tree.  A task that a review asked
\* for has no node and ends here.
CheckMilestone(c) ==
    /\ c.kind = "completed" /\ c.at = "begin" /\ c.about # setup
    /\ IF c.about \in Tasks /\ AllComplete(tree)
       THEN Step(c, [c EXCEPT !.at = "ask", !.copy = tree])
       ELSE End(c)
    /\ UNCHANGED <<s3Vars, proxyVars, started, planned, given, faults, posted>>

\* Mutant: a status the tree does not know.
MutAskReview(c) ==
    /\ c.at = "ask"
    /\ \/ Save({review}) /\ UNCHANGED faults
       \/ Fault("save") /\ Save({})
    /\ Step(c, [c EXCEPT !.at = "write", !.copy[M] = "in_review"])
    /\ UNCHANGED <<tree, run, proxyVars, started, planned, posted>>

AskReview(c) ==
    /\ c.at = "ask"
    /\ \/ Save({review}) /\ UNCHANGED faults
       \/ Fault("save") /\ Save({})
    /\ Step(c, [c EXCEPT !.at = "write", !.copy[M] = "reviewing"])
    /\ UNCHANGED <<tree, run, proxyVars, started, planned, posted>>

\* milestone/review/completed: approved, also when the analysis fails, or
\* more work; the commands are saved before the tree is read.
Decide(c) ==
    /\ c.kind = "review" /\ c.at = "begin"
    /\ \E d \in {<<merge, "complete">>, <<rework, "running">>} :
          /\ \/ Save({d[1]}) /\ UNCHANGED faults
             \/ Fault("save") /\ Save({})
          /\ Step(c, [c EXCEPT !.at = "read", !.status = d[2]])
    /\ UNCHANGED <<tree, run, proxyVars, started, planned, posted>>

\* updateTreeNodeStatus and UpdateTrackNodeStatus: load, change, save.
ReadTree(c) ==
    /\ c.at = "read"
    /\ Step(c, [c EXCEPT !.at = "write", !.copy = [tree EXCEPT ![c.about] = c.status]])
    /\ UNCHANGED <<s3Vars, proxyVars, started, planned, given, faults, posted>>

WriteTree(c) ==
    /\ c.at = "write"
    /\ tree' = c.copy
    /\ End(c)
    /\ UNCHANGED <<run, cmds, proxyVars, started, planned, given, faults, posted>>

\* An invocation ends early, by an error or the time limit.
Crash(c) ==
    /\ c \in calls
    /\ Fault("crash")
    /\ End(c)
    /\ UNCHANGED <<s3Vars, proxyVars, started, planned, given, posted>>

\* The browser posts what the proxy says of a task to /tracks, for the review
\* task under the milestone's uid.
SyncNode(n) ==
    /\ posted < PostBound /\ posted' = posted + 1
    /\ LET w == IF n = M THEN review ELSE n
       IN \/ agents[w] > 0 /\ Invoked("status", n, "read", "active")
          \/ agents[w] = 0 /\ w \in done /\ Invoked("status", n, "read", "complete")
    /\ UNCHANGED <<s3Vars, proxyVars, started, planned, given, faults>>

-----------------------------------------------------------------------------
Handle(c) ==
    \/ LoadRun(c) \/ DispatchRun(c) \/ DeleteRun(c)
    \/ CheckMilestone(c) \/ AskReview(c)
    \/ Decide(c) \/ ReadTree(c) \/ WriteTree(c)

Next ==
    \/ Start
    \/ \E a \in Actions : Execute(a)
    \/ \E w \in Work : Finish(w)
    \/ FailReview
    \/ \E e \in posts : PushEvent(e)
    \/ \E c \in calls : Handle(c) \/ Crash(c)
    \/ \E n \in Tasks \cup {M} : SyncNode(n)

Spec == Init /\ [][Next]_vars

\* The proxy polls and pushes, agents end and handlers run; the user need not
\* start a run and the browser need not be open.
FairSpec ==
    /\ Spec
    /\ \A a \in Actions : WF_vars(Execute(a))
    /\ \A w \in Work : WF_vars(Finish(w))
    /\ WF_vars(\E e \in posts : PushEvent(e))
    /\ \A i \in 1 .. CallBound : WF_vars(\E c \in calls : c.id = i /\ Handle(c))

-----------------------------------------------------------------------------
\* Properties

\* A review is asked for only when every task of the milestone is done in the
\* proxy, although handlers and browser overwrite each other's tree.json: a
\* stale copy may lose a completion but never make one up.
ReviewAfterWork == given[review] > 0 => Tasks \subseteq done

\* A pending run is deleted only when as many of its tasks as the limit
\* allows have their command, less those that could not be saved: a handler
\* that ends in the middle leaves the run for the next one.
RunKept ==
    planned # {} /\ run = {} =>
        Cardinality({n \in planned : given[n] > 0}) + faults
            >= Cardinality(FirstAgents(planned))

\* With a proposal, the tasks the limit allows get their commands after it.
TasksFollow ==
    started \in {"agent", "skeleton"} ~>
        faults > 0 \/ \A n \in FirstAgents(Tasks) : given[n] > 0
=============================================================================
