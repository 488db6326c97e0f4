------------------------------ MODULE NodeTree ------------------------------
(***************************************************************************)
(* The task tree of one run, tracks/{project}/tree.json, and those who     *)
(* change it: the event loop of server/cmd/local (event_processor.go,      *)
(* event_helpers.go) and the goroutines of run_handler.go that dispatch    *)
(* tasks (the request of /run/start, or the one that prepares histories    *)
(* first).  The proxy is what the server sees of it: commands succeed or   *)
(* fail, agents end, and events come back.                                 *)
(*                                                                         *)
(* The store makes each Get and each Put atomic, and every change of the   *)
(* tree is a Get followed by a Put: two steps here.  Of the histories,     *)
(* what is kept: which tasks have a frontier, and which tasks a milestone's *)
(* history shows complete.  Left out: the logs and the other texts.        *)
(***************************************************************************)
EXTENDS Integers, FiniteSets, Sequences

CONSTANTS
    Proposal,           \* the root
    Milestones, Tasks,  \* the other nodes of the plan
    Parent,             \* of each task, its milestone
    Stray,              \* stands for the uids the tree does not have
    Paths,              \* ways to start: "agent", "skeleton", "direct"
    MaxAgents,          \* tasks dispatchTasks starts in one go
    MaxReviewCycles,    \* reviews of a node before it is approved unseen
    Redoable,           \* nodes whose review may ask for more work
    Late,               \* nodes whose summary may come at any later time; that
                        \* of the others comes next (a bound)
    Faults,             \* what may go wrong, see Fault
    FaultBound          \* how often

ASSUME TreeAssumption ==
    /\ Milestones # {} /\ Parent \in [Tasks -> Milestones]
    /\ Stray \notin Milestones \cup Tasks \cup {Proposal}
    /\ Paths \subseteq {"agent", "skeleton", "direct"}
    /\ MaxAgents \in Nat \ {0} /\ MaxReviewCycles \in Nat
    /\ Redoable \subseteq Milestones \cup {Proposal}
    /\ Late \subseteq Tasks \cup {Proposal}
    /\ Faults \subseteq {"reject", "timeout", "fail", "overlap", "add"}
    /\ FaultBound \in Nat

VARIABLES
    path,       \* how the run was started; "none" before
    tree,       \* tree.json: status of each node, reviewCycle of the reviewed
    occupied,   \* ssot/occupied.json
    unsent,     \* pending_reviews/: reviews whose dispatch failed
    frontiers,  \* histories/tasks/: nodes whose frontier is saved
    records,    \* histories/milestones/: is there one, and the tasks it
                \* shows complete
    waiting,    \* RunHandler.pendingRuns holds this run's tasks
    todo,       \* what each goroutine still has to do
    queue,      \* eventProcessor.ch: events and callbacks, in order
    jobs,       \* goroutines of asyncLLM: "review" analyses the review of a
                \* node, "summary" sums up what was done for it
    agents,     \* agents at work in the proxy, per node
    reviewers,  \* review agents at work, per node
    meeting,    \* the participants of the strategy meeting in progress
    merged,     \* how often each milestone was merged into main
    reported,   \* nodes whose task.completed was handled
    faults      \* what has gone wrong so far

disk     == <<tree, occupied, unsent, frontiers, records>>
proxy    == <<agents, reviewers, merged>>
vars     == <<path, disk, waiting, todo, queue, jobs, proxy, meeting,
              reported, faults>>

Goroutines == {"loop", "starter"}
Reviewed   == Milestones \cup {Proposal}
\* The node that the review of n in its cycle c asks for.
Redo(n, c) == <<n, c>>
Extras     == {Redo(n, c) : n \in Redoable, c \in 1 .. MaxReviewCycles}
Work       == Tasks \cup Extras
Nodes      == Reviewed \cup Work
Above(n)   == CASE n \in Tasks  -> Parent[n]
                [] n \in Extras -> n[1]
                [] OTHER        -> Proposal
Below(n)   == {k \in Nodes \ {Proposal} : Above(k) = n}

\* The uids of a plan differ, and those of the nodes that reviews add are new.
ASSUME UidsDiffer ==
    /\ Proposal \notin Milestones \cup Tasks
    /\ Milestones \cap Tasks = {}
    /\ Extras \cap (Reviewed \cup Tasks \cup {Stray}) = {}

Status   == {"absent", "pending", "running", "complete", "error", "reviewing"}
Tree     == [st : [Nodes -> Status], cycle : [Reviewed -> 0 .. MaxReviewCycles]]
Named    == Work \cup {Proposal, Stray}      \* NodeUID of a task in the proxy
Event    == [kind : {"completed", "failed", "errored"}, node : Named]
            \cup [kind : {"reviewed", "reviewFailed", "approved", "needsWork"},
                  node : Reviewed]
            \cup [kind : {"summarized"}, node : Late]
Jobs     == ({"review"} \X Reviewed) \cup ({"summary"} \X Late)

Present(n)  == n \in Nodes /\ tree.st[n] # "absent"
Children(n) == {k \in Below(n) : Present(k)}

Init ==
    /\ path      = "none"
    /\ tree      = [st    |-> [n \in Nodes |-> IF n \in Extras THEN "absent" ELSE "pending"],
                    cycle |-> [n \in Reviewed |-> 0]]
    /\ occupied  = {}
    /\ unsent    = {}
    /\ frontiers = {}
    /\ records   = [m \in Milestones |-> [kept |-> FALSE, shows |-> {}]]
    /\ waiting   = FALSE
    /\ todo      = [g \in Goroutines |-> <<>>]
    /\ queue     = <<>>
    /\ jobs      = [j \in Jobs |-> 0]
    /\ agents    = [n \in Named |-> 0]
    /\ reviewers = [n \in Reviewed |-> 0]
    /\ meeting   = {}
    /\ merged    = [m \in Milestones |-> 0]
    /\ reported  = {}
    /\ faults    = <<>>

\* "reject": a command fails; "timeout": its reply is too late; "fail": an
\* agent fails; "overlap": an event is handled while the starter dispatches;
\* "add": the user adds an agent.
Fault(kind)    == /\ kind \in Faults
                  /\ Len(faults) < FaultBound
                  /\ faults' = Append(faults, kind)
NoFault        == UNCHANGED faults
HasFault(kind) == \E i \in DOMAIN faults : faults[i] = kind

\* SendCommand: what the proxy did of it, and whether the caller learns that.
\* ok is the caller's view.
Answered(ok) == (ok /\ NoFault) \/ (~ok /\ (Fault("reject") \/ Fault("timeout")))
\* The proxy has carried it out, although the caller may not know.
CarriedOut(ok) == ok \/ faults' = Append(faults, "timeout")

---------------------------------------------------------------------------
(***************************************************************************)
(* What a goroutine has to do is a sequence of operations, each a tuple.   *)
(***************************************************************************)
Mark(n, s)   == <<"mark", n, s>>        \* updateTrackNode
Cycle(n, c)  == <<"cycle", n, c>>       \* updateTrackNode: reviewing, cycle c
Touch(n)     == <<"touch", n>>          \* updateTrackNode: a summary
AddRedo(n)   == <<"redo", n>>
History(n)   == <<"history", n>>        \* buildAndSaveHistory
Occupy(n)    == <<"occupy", n>>
Release(n)   == <<"release", n>>
Check(n)     == <<"check", n>>          \* checkMilestone/ProposalCompletion
Review(n)    == <<"review", n>>         \* dispatchNodeReview
Ask(n)       == <<"ask", n>>            \* DispatchReviewTask
Merge(m)     == <<"merge", m>>
Create(n, then)     == <<"create", n, then>>
\* DispatchReviewTasks gives the tasks that a review asks for to agents under
\* names of its own, whatever comes of it.
Redispatch   == Create(Stray, <<>>)
Dispatch(ns, count) == <<"dispatch", ns, count>>
Prepare      == <<"prepare">>
DispatchAll  == <<"dispatchAll">>
OpenRecords  == <<"openRecords">>       \* initMilestoneHistories
DispatchNext == <<"next">>
IfNoMeeting  == <<"ifNoMeeting">>
Trigger(n)   == <<"trigger", n>>

Op(g)          == Head(todo[g])
Doing(g, what) == todo[g] # <<>> /\ Op(g)[1] = what
\* Goroutine g does this in the place of its first operation.
Replace(g, ops) == todo' = [todo EXCEPT ![g] = ops \o Tail(@)]
Done(g)         == Replace(g, <<>>)
Alone(g)        == \A k \in Goroutines \ {g} : todo[k] = <<>>
Begin(g, ops)   == todo' = [todo EXCEPT ![g] = ops]

\* completeNode, and for a milestone what follows it.
Approve(n) ==
    <<Mark(n, "complete"), History(n)>>
    \o (IF n \in Milestones THEN <<Merge(n), Check(n)>> ELSE <<>>)

---------------------------------------------------------------------------
(***************************************************************************)
(* Reading and changing the store.                                         *)
(***************************************************************************)
Changed(op) ==
    LET n == op[2]
        c == IF n \in Reviewed /\ tree.cycle[n] > 0 THEN tree.cycle[n] ELSE 1
    IN  CASE op[1] = "mark"  -> [tree EXCEPT !.st[n] = op[3]]
          [] op[1] = "cycle" -> [tree EXCEPT !.st[n] = "reviewing", !.cycle[n] = op[3]]
          [] op[1] = "redo"  -> [tree EXCEPT !.st[Redo(n, c)] = "pending"]
          [] op[1] = "touch" -> tree

\* The Get of a change of tree.json.  A node it does not have is left alone.
\* Its Put may come at once when nobody else is at work.
ReadTree(g) ==
    /\ \E what \in {"mark", "cycle", "redo", "touch"} : Doing(g, what)
    /\ IF Present(Op(g)[2]) /\ ~Alone(g)
       THEN Replace(g, <<<<"put", Changed(Op(g))>>>>) /\ UNCHANGED tree
       ELSE /\ tree' = IF Present(Op(g)[2]) THEN Changed(Op(g)) ELSE tree
            /\ Done(g)
    /\ UNCHANGED <<path, occupied, unsent, frontiers, records, waiting, queue, jobs, proxy, meeting,
                   reported, faults>>

\* Its Put.
WriteTree(g) ==
    /\ Doing(g, "put")
    /\ tree' = Op(g)[2]
    /\ Done(g)
    /\ UNCHANGED <<path, occupied, unsent, frontiers, records, waiting, queue, jobs, proxy, meeting,
                   reported, faults>>

\* addOccupiedNode and RemoveOccupiedNode.
ReadOccupied(g) ==
    /\ Doing(g, "occupy") \/ Doing(g, "release")
    /\ LET n   == Op(g)[2]
           new == IF Doing(g, "occupy") THEN occupied \cup {n} ELSE occupied \ {n}
       IN  IF Alone(g) \/ (Doing(g, "occupy") /\ n \in occupied)
           THEN occupied' = new /\ Done(g)
           ELSE Replace(g, <<<<"putOccupied", new>>>>) /\ UNCHANGED occupied
    /\ UNCHANGED <<path, tree, unsent, frontiers, records, waiting, queue, jobs, proxy, meeting,
                   reported, faults>>

WriteOccupied(g) ==
    /\ Doing(g, "putOccupied")
    /\ occupied' = Op(g)[2]
    /\ Done(g)
    /\ UNCHANGED <<path, tree, unsent, frontiers, records, waiting, queue, jobs, proxy, meeting,
                   reported, faults>>

---------------------------------------------------------------------------
(***************************************************************************)
(* Dispatching.                                                            *)
(***************************************************************************)
\* /run/start.  The tree was forked; the proposal is set up by an agent, or
\* the proxy makes the skeleton, or there is no proposal to set up.
Start(p) ==
    /\ path = "none"
    /\ path' = p
    /\ waiting' = (Tasks # {})
    /\ \/ /\ p = "agent"
          /\ \E ok \in BOOLEAN :
                /\ Answered(ok)
                /\ agents' = IF CarriedOut(ok) THEN [agents EXCEPT ![Proposal] = 1] ELSE agents
          /\ UNCHANGED todo
       \/ /\ p = "skeleton"
          /\ Begin("starter", <<Prepare, DispatchAll>>) /\ NoFault
          /\ UNCHANGED agents
       \/ /\ p = "direct"
          /\ Begin("starter", <<Dispatch(Tasks, 0)>>) /\ NoFault
          /\ UNCHANGED agents
    /\ UNCHANGED <<disk, queue, jobs, reviewers, merged, meeting, reported>>

\* prepareHistoriesAndDispatch saves a history for each milestone, which names
\* its tasks and shows none of them complete, ...
SaveHistories(g) ==
    /\ Doing(g, "prepare")
    /\ records' = [m \in Milestones |-> [kept |-> TRUE, shows |-> {}]]
    /\ Replace(g, <<<<"frontiers">>>>)
    /\ UNCHANGED <<path, tree, occupied, unsent, frontiers, waiting, queue, jobs, proxy,
                   meeting, reported, faults>>

\* ... and then a frontier for each task, generated or copied from its summary.
SaveFrontiers(g) ==
    /\ Doing(g, "frontiers")
    /\ frontiers' = frontiers \cup Tasks
    /\ Done(g)
    /\ UNCHANGED <<path, tree, occupied, unsent, records, waiting, queue, jobs, proxy,
                   meeting, reported, faults>>

\* DispatchAllPending: the waiting tasks are taken under h.mu.
TakeWaiting(g) ==
    /\ Doing(g, "dispatchAll")
    /\ waiting' = FALSE
    /\ IF waiting THEN Replace(g, <<Dispatch(Tasks, 0)>>) ELSE Done(g)
    /\ UNCHANGED <<path, disk, queue, jobs, proxy, meeting, reported, faults>>

\* One turn of the loop of dispatchTasks, which does not look at the tree.
DispatchOne(g) ==
    /\ Doing(g, "dispatch")
    /\ LET left == Op(g)[2]
           count == Op(g)[3]
       IN  IF left = {} \/ count = MaxAgents
           THEN Done(g)
           ELSE \E n \in left :
                   Replace(g, <<Create(n, <<Mark(n, "running"), Mark(Above(n), "running"), Occupy(n)>>),
                                Dispatch(left \ {n}, count + 1)>>)
    /\ UNCHANGED <<path, disk, waiting, queue, jobs, proxy, meeting, reported, faults>>

\* Mutant: what was dispatched is not written down.
MutSendCreate(g) ==
    /\ Doing(g, "create")
    /\ LET n == Op(g)[2] IN
       \E ok \in BOOLEAN :
          /\ Answered(ok)
          /\ agents' = IF CarriedOut(ok) THEN [agents EXCEPT ![n] = @ + 1] ELSE agents
    /\ Done(g)
    /\ UNCHANGED <<path, disk, waiting, queue, jobs, reviewers, merged, meeting,
                   reported>>

\* createTask for node n; what follows is done only if the reply says so.
SendCreate(g) ==
    /\ Doing(g, "create")
    /\ LET n == Op(g)[2] IN
       \E ok \in BOOLEAN :
          /\ Answered(ok)
          /\ agents' = IF CarriedOut(ok) THEN [agents EXCEPT ![n] = @ + 1] ELSE agents
          /\ Replace(g, IF ok THEN Op(g)[3] ELSE <<>>)
    /\ UNCHANGED <<path, disk, waiting, queue, jobs, reviewers, merged, meeting,
                   reported>>

\* DispatchReviewTask: createReviewTask for node n.
SendReview(n, ok) ==
    /\ Answered(ok)
    /\ reviewers' = IF CarriedOut(ok) THEN [reviewers EXCEPT ![n] = @ + 1] ELSE reviewers

\* DispatchNextPendingTask reads the tree, ...
NextRead(g) ==
    /\ Doing(g, "next")
    /\ Replace(g, <<<<"retry", unsent, tree>>>>)
    /\ UNCHANGED <<path, disk, waiting, queue, jobs, proxy, meeting, reported, faults>>

\* Mutant: reviews that cannot be sent are tried again before any task.
MutNextReview(g) ==
    /\ Doing(g, "retry")
    /\ LET left == Op(g)[2] IN
       IF left = {}
       THEN Replace(g, <<DispatchNext>>) /\ UNCHANGED <<reviewers, unsent, faults>>
       ELSE \E n \in left, ok \in BOOLEAN :
               /\ SendReview(n, ok)
               /\ unsent' = IF ok THEN unsent \ {n} ELSE unsent
               /\ Replace(g, IF ok THEN <<>> ELSE <<<<"retry", left \ {n}, Op(g)[3]>>>>)
    /\ UNCHANGED <<path, tree, occupied, frontiers, records, waiting, queue, jobs, agents, merged, meeting, reported>>

\* ... sends the first review it can, and returns if there was one, ...
NextReview(g) ==
    /\ Doing(g, "retry")
    /\ LET left == Op(g)[2] IN
       IF left = {}
       THEN /\ Replace(g, <<<<"pick", Op(g)[3]>>>>)
            /\ UNCHANGED <<reviewers, unsent, faults>>
       ELSE \E n \in left, ok \in BOOLEAN :
               /\ SendReview(n, ok)
               /\ IF ok THEN /\ unsent' = unsent \ {n}
                             /\ Done(g)
                        ELSE /\ UNCHANGED unsent
                             /\ Replace(g, <<<<"retry", left \ {n}, Op(g)[3]>>>>)
    /\ UNCHANGED <<path, tree, occupied, frontiers, records, waiting, queue, jobs, agents, merged, meeting, reported>>

\* Tasks of a milestone in review wait, and so do occupied ones.
MayDispatch(t, n) ==
    /\ t.st[n] = "pending"
    /\ n \notin occupied
    /\ t.st[Above(n)] # "reviewing" \/ Above(n) = Proposal

\* ... and otherwise dispatches one pending task of the tree it has read.
NextPick(g) ==
    /\ Doing(g, "pick")
    /\ LET ready == {n \in Work : MayDispatch(Op(g)[2], n)} IN
       IF ready = {}
       THEN Done(g)
       ELSE \E n \in ready :
               Replace(g, <<Create(n, <<Mark(n, "running"), Occupy(n)>>
                                      \o (IF Above(n) \in Milestones
                                          THEN <<Mark(Above(n), "running")>> ELSE <<>>))>>)
    /\ UNCHANGED <<path, disk, waiting, queue, jobs, proxy, meeting, reported, faults>>

---------------------------------------------------------------------------
(***************************************************************************)
(* Completion and review.                                                  *)
(***************************************************************************)
\* Mutant: a task in error counts as finished.
MutAllComplete(n) ==
    \A k \in Children(n) :
        (n = Proposal => k \in Milestones) => tree.st[k] \in {"complete", "error"}

AllComplete(n) ==
    \A k \in Children(n) : (n = Proposal => k \in Milestones) => tree.st[k] = "complete"

\* Is node n, a milestone or the proposal, due for a review?
Due(n) == tree.st[n] \notin {"reviewing", "complete"} /\ AllComplete(n)

\* checkMilestoneCompletion for a task, checkProposalCompletion for a
\* milestone: is the node above ready for its review?
CheckAbove(g) ==
    /\ Doing(g, "check")
    /\ LET n == Op(g)[2] IN
       IF /\ Present(n) /\ n # Proposal
          /\ n \in Work => Above(n) \in Milestones
          /\ Due(Above(n))
       THEN Replace(g, <<Review(Above(n))>>)
       ELSE Done(g)
    /\ UNCHANGED <<path, disk, waiting, queue, jobs, proxy, meeting, reported, faults>>

\* Mutant: one review too many.
MutBeginReview(g) ==
    /\ Doing(g, "review")
    /\ LET n == Op(g)[2] IN
       Replace(g, IF tree.cycle[n] > MaxReviewCycles
                  THEN Approve(n)
                  ELSE <<Cycle(n, tree.cycle[n] + 1), Ask(n)>>)
    /\ UNCHANGED <<path, disk, waiting, queue, jobs, proxy, meeting, reported, faults>>

\* dispatchNodeReview.
BeginReview(g) ==
    /\ Doing(g, "review")
    /\ LET n == Op(g)[2] IN
       Replace(g, IF tree.cycle[n] >= MaxReviewCycles
                  THEN Approve(n)
                  ELSE <<Cycle(n, tree.cycle[n] + 1), Ask(n)>>)
    /\ UNCHANGED <<path, disk, waiting, queue, jobs, proxy, meeting, reported, faults>>

AskReview(g) ==
    /\ Doing(g, "ask")
    /\ LET n == Op(g)[2] IN
       \E ok \in BOOLEAN :
          /\ SendReview(n, ok)
          /\ unsent' = IF ok THEN unsent ELSE unsent \cup {n}
    /\ Done(g)
    /\ UNCHANGED <<path, tree, occupied, frontiers, records, waiting, queue, jobs, agents, merged, meeting, reported>>

\* MergeMilestoneToMain; its failure is only logged.
SendMerge(g) ==
    /\ Doing(g, "merge")
    /\ \E ok \in BOOLEAN :
          /\ Answered(ok)
          /\ merged' = IF CarriedOut(ok) THEN [merged EXCEPT ![Op(g)[2]] = @ + 1] ELSE merged
    /\ Done(g)
    /\ UNCHANGED <<path, disk, waiting, queue, jobs, agents, reviewers, meeting, reported>>

---------------------------------------------------------------------------
(***************************************************************************)
(* The histories of what was done.                                         *)
(***************************************************************************)
\* What the history of milestone m is to show, by tree.json.
Shown(m) == {n \in Children(m) : tree.st[n] = "complete"}

\* initMilestoneHistories writes the history of every milestone anew.
OpenHistories(g) ==
    /\ Doing(g, "openRecords")
    /\ records' = [m \in Milestones |-> [kept |-> TRUE, shows |-> Shown(m)]]
    /\ Done(g)
    /\ UNCHANGED <<path, tree, occupied, unsent, frontiers, waiting, queue, jobs, proxy,
                   meeting, reported, faults>>

\* The history of milestone m is written anew.
MilestoneHistory(m) ==
    /\ records' = [records EXCEPT ![m] = [kept |-> TRUE, shows |-> Shown(m)]]
    /\ UNCHANGED frontiers

\* Mutant: the milestone does not learn of it.
MutUpdateRecord(n) == records

\* updateMilestoneHistoryTask enters task n in its milestone's history, if that
\* is there.
UpdateRecord(n) ==
    LET above == Above(n)
    IN  IF above \in Milestones /\ records[above].kept
        THEN [records EXCEPT ![above].shows = (@ \ {n}) \cup (Shown(above) \cap {n})]
        ELSE records

\* That of task n keeps the frontier it has: agents report none.
TaskHistory(n) ==
    /\ records' = UpdateRecord(n)
    /\ UNCHANGED frontiers

\* buildAndSaveHistory.
BuildHistory(g) ==
    /\ Doing(g, "history")
    /\ LET n == Op(g)[2] IN
       CASE Present(n) /\ n \in Milestones -> MilestoneHistory(n)
         [] Present(n) /\ n \in Work       -> TaskHistory(n)
         [] OTHER                          -> UNCHANGED <<records, frontiers>>
    /\ Done(g)
    /\ UNCHANGED <<path, tree, occupied, unsent, waiting, queue, jobs, proxy, meeting,
                   reported, faults>>

---------------------------------------------------------------------------
(***************************************************************************)
(* The event loop.                                                         *)
(***************************************************************************)
\* Mutant: the slot of a completed task is not given to the next one.
MutOnCompleted(n) ==
    IF n = Proposal
    THEN <<Mark(n, "complete"), DispatchAll, OpenRecords, Release(n)>>
    ELSE <<Mark(n, "complete"), Release(n), Check(n)>>

OnCompleted(n) ==
    IF n = Proposal
    THEN <<Mark(n, "complete"), DispatchAll, OpenRecords, Release(n)>>
    ELSE <<Mark(n, "complete"), Release(n), Check(n), IfNoMeeting>>

\* The callback of handleTaskCompleted: the summary, and the history.
SumUp(n) == <<Touch(n), History(n)>>

\* What the loop does for an event or a callback.
Handler(e) ==
    LET n == e.node
    IN  CASE e.kind = "completed"    -> OnCompleted(n)
          [] e.kind = "failed"       -> <<Mark(n, "error"), Release(n), Check(n), Trigger(n)>>
          [] e.kind = "errored"      -> <<Mark(n, "error"), Release(n), Check(n), DispatchNext>>
          [] e.kind = "reviewFailed" -> Approve(n) \o <<DispatchNext>>
          [] e.kind = "approved"     -> Approve(n) \o <<DispatchNext>>
          [] e.kind = "summarized"   -> SumUp(n)
          [] e.kind = "needsWork"    -> <<AddRedo(n), Mark(n, "running"), Redispatch,
                                          DispatchNext>>
          [] OTHER                   -> <<>>

\* The job that asyncLLM starts for an event: a finished review is analysed,
\* and what was done for a node is summed up.
JobFor(e) == <<IF e.kind = "reviewed" THEN "review" ELSE "summary", e.node>>

Handle ==
    /\ todo["loop"] = <<>> /\ queue # <<>>
    /\ \/ (todo["starter"] = <<>> \/ HasFault("overlap")) /\ NoFault
       \/ todo["starter"] # <<>> /\ ~HasFault("overlap") /\ Fault("overlap")
    /\ LET e == Head(queue) IN
       /\ Begin("loop", Handler(e) \o
                        IF e.kind = "completed" /\ e.node \notin Late THEN SumUp(e.node) ELSE <<>>)
       /\ jobs' = IF e.kind \in {"reviewed", "completed"} /\ JobFor(e) \in Jobs
                  THEN [jobs EXCEPT ![JobFor(e)] = @ + 1]
                  ELSE jobs
       /\ reported' = IF e.kind = "completed" THEN reported \cup {e.node} ELSE reported
    /\ queue' = Tail(queue)
    /\ UNCHANGED <<path, disk, waiting, proxy, meeting>>

\* After a completion, nothing is dispatched during a meeting.
SkipInMeeting ==
    /\ Doing("loop", "ifNoMeeting")
    /\ Replace("loop", IF meeting = {} THEN <<DispatchNext>> ELSE <<>>)
    /\ UNCHANGED <<path, disk, waiting, queue, jobs, proxy, meeting, reported, faults>>

\* TriggerStrategyMeeting: all siblings that are not complete take part.
\* When no meeting starts, the next task is dispatched.
TriggerMeeting ==
    /\ Doing("loop", "trigger")
    /\ LET n   == Op("loop")[2]
           who == IF Present(n) /\ n # Proposal
                  THEN {k \in Children(Above(n)) \cap Work : tree.st[k] # "complete"} ELSE {}
       IN  IF meeting # {} \/ who = {}
           THEN Replace("loop", <<DispatchNext>>) /\ NoFault /\ UNCHANGED meeting
           ELSE \E ok \in BOOLEAN :
                   /\ Answered(ok)
                   /\ meeting' = IF ok THEN who ELSE {}
                   /\ Replace("loop", IF ok THEN <<>> ELSE <<DispatchNext>>)
    /\ UNCHANGED <<path, disk, waiting, queue, jobs, proxy, reported>>

\* What job j may come to.  A failed or unreadable analysis approves.
Results(j) ==
    IF j[1] = "summary" THEN {"summarized"}
    ELSE {"approved"} \cup (IF j[2] \in Redoable THEN {"needsWork"} ELSE {})

\* The end of a goroutine of asyncLLM: it posts its callback.
JobDone(j) ==
    /\ jobs[j] > 0
    /\ jobs' = [jobs EXCEPT ![j] = @ - 1]
    /\ \E result \in Results(j) :
          queue' = Append(queue, [kind |-> result, node |-> j[2]])
    /\ UNCHANGED <<path, disk, waiting, todo, proxy, meeting, reported, faults>>

---------------------------------------------------------------------------
(***************************************************************************)
(* The proxy, as the server sees it.  TaskService and StrategyMeeting have *)
(* the details.                                                            *)
(***************************************************************************)
AgentEnds(n) ==
    /\ agents[n] > 0
    /\ agents' = [agents EXCEPT ![n] = @ - 1]
    /\ \/ queue' = Append(queue, [kind |-> "completed", node |-> n]) /\ NoFault
       \/ \E kind \in {"failed", "errored"} :
             queue' = Append(queue, [kind |-> kind, node |-> n]) /\ Fault("fail")
    /\ UNCHANGED <<path, disk, waiting, todo, jobs, reviewers, merged, meeting,
                   reported>>

ReviewerEnds(n) ==
    /\ reviewers[n] > 0
    /\ reviewers' = [reviewers EXCEPT ![n] = @ - 1]
    /\ \/ queue' = Append(queue, [kind |-> "reviewed", node |-> n]) /\ NoFault
       \/ queue' = Append(queue, [kind |-> "reviewFailed", node |-> n]) /\ Fault("fail")
    /\ UNCHANGED <<path, disk, waiting, todo, jobs, agents, merged, meeting,
                   reported>>

\* The meeting is over: some participants work again, some are cancelled.
MeetingOver ==
    /\ meeting # {}
    /\ meeting' = {}
    /\ \E again, cancelled \in SUBSET meeting :
          /\ again \cap cancelled = {}
          /\ agents' = [n \in Named |->
                IF n \in again /\ agents[n] = 0 /\ tree.st[n] = "error" THEN 1
                ELSE IF n \in cancelled THEN 0 ELSE agents[n]]
    /\ UNCHANGED <<path, disk, waiting, todo, queue, jobs, reviewers, merged,
                   reported, faults>>

\* addAgent: the user has one more agent put to a task at work, which is
\* scaled, or to one whose agents are gone, as a new task of the proxy for the
\* same node.  tree.json and occupied.json are not looked at.
AddAgent ==
    /\ Fault("add")
    /\ \E n \in Named \ {Proposal} :
          /\ agents[n] > 0 \/ (n \in Work /\ tree.st[n] = "error")
          /\ agents' = [agents EXCEPT ![n] = @ + 1]
    /\ UNCHANGED <<path, disk, waiting, todo, queue, jobs, reviewers, merged, meeting,
                   reported>>

---------------------------------------------------------------------------
Step(g) ==
    \/ ReadTree(g) \/ WriteTree(g) \/ ReadOccupied(g) \/ WriteOccupied(g)
    \/ SaveHistories(g) \/ SaveFrontiers(g) \/ OpenHistories(g) \/ BuildHistory(g)
    \/ TakeWaiting(g) \/ DispatchOne(g) \/ SendCreate(g)
    \/ NextRead(g) \/ NextReview(g) \/ NextPick(g)
    \/ CheckAbove(g) \/ BeginReview(g) \/ AskReview(g) \/ SendMerge(g)

LoopStep == Step("loop") \/ Handle \/ SkipInMeeting \/ TriggerMeeting

Next ==
    \/ \E p \in Paths : Start(p)
    \/ Step("starter")
    \/ LoopStep
    \/ \E j \in Jobs : JobDone(j)
    \/ \E n \in Named : AgentEnds(n)
    \/ \E n \in Reviewed : ReviewerEnds(n)
    \/ MeetingOver
    \/ AddAgent

Spec == Init /\ [][Next]_vars

\* The goroutines run, model calls time out, and agents come to an end.
Fairness ==
    /\ WF_vars(Step("starter"))
    /\ WF_vars(LoopStep)
    /\ \A j \in Jobs : WF_vars(JobDone(j))
    /\ \A n \in Named : WF_vars(AgentEnds(n))
    /\ \A n \in Reviewed : WF_vars(ReviewerEnds(n))
    /\ WF_vars(MeetingOver)

FairSpec == Spec /\ Fairness

---------------------------------------------------------------------------
\* The types of the variables.
TypeOK ==
    /\ path \in Paths \cup {"none"}
    /\ tree \in Tree
    /\ occupied \subseteq Named /\ unsent \subseteq Reviewed /\ frontiers \subseteq Work
    /\ records \in [Milestones -> [kept : BOOLEAN, shows : SUBSET Work]]
    /\ waiting \in BOOLEAN
    /\ jobs \in [Jobs -> Nat]
    /\ queue \in Seq(Event)
    /\ agents \in [Named -> Nat] /\ reviewers \in [Reviewed -> Nat]
    /\ meeting \subseteq Work
    /\ merged \in [Milestones -> Nat]
    /\ reported \subseteq Named
    /\ faults \in Seq(Faults)

\* listResumable: the run is offered to be taken up again.
Resumable == \E n \in Work : Present(n) /\ tree.st[n] # "complete"

\* Nobody has anything to do.
AtRest ==
    /\ path # "none"
    /\ \A g \in Goroutines : todo[g] = <<>>
    /\ queue = <<>> /\ meeting = {}
    /\ \A j \in Jobs : jobs[j] = 0
    /\ \A n \in Named : agents[n] = 0
    /\ \A n \in Reviewed : reviewers[n] = 0

\* Every command was answered in time.
Answers == ~HasFault("reject") /\ ~HasFault("timeout")

(***************************************************************************)
(* Safety.                                                                 *)
(***************************************************************************)
\* A milestone is merged into main only after each task the plan gives it
\* was reported complete, whatever goes wrong (handleTaskCompleted,
\* checkMilestoneCompletion, MergeMilestoneToMain).
MergedIsDone ==
    \A m \in Milestones : merged[m] > 0 => \A n \in Tasks \cap Below(m) : n \in reported

\* When the run has come to rest, a milestone that has tasks, all of them
\* complete, has been reviewed to its end and merged once, also after failed agents,
\* failed reviews and review tasks that had to be added; and when nothing went
\* wrong no task is left over, those that reviews have added included
\* (checkMilestoneCompletion, applyReviewDecision, DispatchNextPendingTask).
NothingLeft ==
    AtRest =>
        /\ ~HasFault("overlap") /\ Answers =>
              \A m \in Milestones : Children(m) # {} /\ AllComplete(m)
                                      => tree.st[m] = "complete" /\ merged[m] = 1
        /\ faults = <<>> => ~Resumable

\* Nothing has happened that may put two agents to a node.
NoTwins == \A kind \in {"overlap", "timeout", "add"} : ~HasFault(kind)

\* No two agents work on the same node of the tree, as tree.json and
\* occupied.json are there to see to (addOccupiedNode, MayDispatch), unless
\* the reply to a command came too late.
OneAgent ==
    NoTwins => \A n \in Work : agents[n] <= 1

\* The histories are there when they are needed, and true.  In a run whose
\* skeleton the proxy made, no agent is given a planned task that has no
\* frontier yet (prepareHistoriesAndDispatch); and when a run has come to rest,
\* the history of each milestone shows complete what is complete in tree.json,
\* however late the summaries came, and a complete milestone has one
\* (buildAndSaveHistory, updateMilestoneHistoryTask).  Three faults are one too
\* many: a failed task that a meeting starts again, and then another meeting
\* while its completion is in the channel, may fail after it was shown complete.
HistoryTrue ==
    /\ path = "skeleton" => \A n \in Tasks : agents[n] > 0 => n \in frontiers
    /\ AtRest /\ NoTwins /\ Len(faults) <= 2 => \A m \in Milestones :
          /\ records[m].kept => records[m].shows = Shown(m)
          /\ tree.st[m] = "complete" => records[m].kept

\* A completed task stays so: "Key guarantee: Single event loop prevents
\* concurrent state mutations" (README.md).  It is not the only one to write
\* tree.json.
CompletionKept ==
    [][\A n \in Work : tree.st[n] = "complete" => tree'.st[n] = "complete"]_vars

(***************************************************************************)
(* Liveness: a run that was started comes to rest.                         *)
(***************************************************************************)
Finishes == path # "none" ~> AtRest
=============================================================================
