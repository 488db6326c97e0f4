-------------------------- MODULE StrategyMeeting --------------------------
(***************************************************************************)
(* A strategy meeting, from the trigger to the decision applied: the       *)
(* server's orchestrator (server/cmd/local/strategy_meeting.go, the event  *)
(* loop of event_processor.go, the two starters of run_handler.go), the    *)
(* commands and events between server and proxy (proxy_hub.go, wsconn),    *)
(* and the proxy's goroutines that pause the participants and apply the    *)
(* decision (client/proxy/internal/app/service.go).                        *)
(*                                                                         *)
(* Each task has the one agent it was dispatched with; the rest of a       *)
(* task's life is in TaskService.  All tasks belong to one milestone.      *)
(***************************************************************************)
EXTENDS Integers, FiniteSets, Sequences, TaskFSM

CONSTANTS
    Nodes,          \* the tasks of the milestone, named by their node
    Decisions,      \* actions the analysis chooses from
    MeetingBound,   \* meetings ever started
    Faults,         \* what may go wrong: "loss" of a message, "restart"
    FaultBound      \* how often

ASSUME MeetingAssumption ==
    /\ Decisions \subseteq {"keep", "reset_and_retry", "cancel"}
    /\ MeetingBound \in Nat
    /\ Faults \subseteq {"loss", "restart"}
    /\ FaultBound \in Nat

VARIABLES
    meta,       \* strategy-meetings/current/meta.json
    tree,       \* the status of each node in tree.json
    starter,    \* the start of a meeting that holds h.mu and awaits its reply
    loop,       \* the event loop between reading the meta and saving it
    jobs,       \* goroutines of asyncLLM and the callbacks they post
    net,        \* commands on their way to the proxy
    events,     \* events on their way to the event loop, in order
    task,       \* Task.Status in the proxy
    worker,     \* the task's agent process
    pausers,    \* strategyPauseAllAsync goroutines
    appliers,   \* goroutines of StrategyApplyDecision
    started,    \* meetings started so far
    faults      \* faults so far

serverVars == <<meta, tree, starter, loop, jobs, started>>
proxyVars  == <<task, worker, pausers, appliers>>
vars       == <<serverVars, net, events, proxyVars, faults>>

Sessions     == 1 .. MeetingBound
MeetingState == {"idle", "pausing", "analyzing", "dispatching"}
Acts         == [Nodes -> Decisions \cup {"keep", "none"}]
NoActs       == [n \in Nodes |-> "none"]

Meta == [status : MeetingState, session : 0 .. MeetingBound, who : SUBSET Nodes]

\* What travels: commands carry participants or actions, events a node or
\* the nodes whose contexts were collected.  A command's session stands for
\* its message id; the events carry none.
Command == [kind : {"pause", "apply"}, session : Sessions,
            who : SUBSET Nodes, acts : Acts]
Event   == [kind : {"allPaused", "task.failed", "task.completed", "agent.error"},
            nodes : SUBSET Nodes]

\* A goroutine of asyncLLM: the analysis, its callback, the sending of the
\* decision, its callback.
Stages == {"analysis", "resolve", "apply", "sent", "finalize"}
Job    == [stage : Stages, session : Sessions, who : SUBSET Nodes,
           heard : SUBSET Nodes, acts : Acts]

\* The proxy's goroutines: those that pause, and those that apply a decision.
PauserType  == [session : Sessions, nodes : SUBSET Nodes,
                step : {"interrupt", "mark", "watch"}]
ApplierType == [session : Sessions, acts : Acts, at : SUBSET Nodes]

NoStarter == [by |-> "none", acked |-> FALSE, session |-> 0, who |-> {}]
NoMeta    == [status |-> "idle", session |-> 0, who |-> {}]
AtRest    == [next |-> "none", copy |-> NoMeta, job |-> {}]

Init ==
    /\ meta     = NoMeta
    /\ tree     = [n \in Nodes |-> "running"]
    /\ starter  = NoStarter
    /\ loop     = AtRest
    /\ jobs     = {}
    /\ net      = {}
    /\ events   = <<>>
    /\ task     = [n \in Nodes |-> "running"]
    /\ worker   = [n \in Nodes |-> "working"]
    /\ pausers  = {}
    /\ appliers = {}
    /\ started  = 0
    /\ faults   = 0

Fault(kind) == kind \in Faults /\ faults < FaultBound /\ faults' = faults + 1

\* A message gets lost, or comes too late.
Lose == Fault("loss")

Emit(kind, nodes) == Append(events, [kind |-> kind, nodes |-> nodes])

---------------------------------------------------------------------------
(***************************************************************************)
(* Starting a meeting.  The starter holds h.mu from the check until the    *)
(* proxy's reply; the event loop does not take h.mu to change the meta.    *)
(***************************************************************************)
MeetingActive == meta.status # "idle"

Participants(by, nodes) ==
    IF by = "user" THEN {n \in Nodes : nodes[n] = "running"}
                   ELSE {n \in Nodes : nodes[n] # "complete"}

\* Seeded fault: a meeting in progress is not looked for.
MutMayStart(who) == who # {} /\ started < MeetingBound

MayStart(who) == ~MeetingActive /\ who # {} /\ started < MeetingBound

Start(by, who) ==
    LET s == started + 1
    IN  /\ started' = s
        /\ meta'    = [status |-> "pausing", session |-> s, who |-> who]
        /\ starter' = [by |-> by, acked |-> FALSE, session |-> s, who |-> who]
        /\ net'     = net \cup {[kind |-> "pause", session |-> s, who |-> who,
                                 acts |-> NoActs]}

\* startStrategyMeeting, called by the user.
ManualStart ==
    LET who == Participants("user", tree)
    IN  /\ starter.by = "none"
        /\ MayStart(who)
        /\ Start("user", who)
        /\ UNCHANGED <<tree, loop, jobs, events, proxyVars, faults>>

StartDone ==
    /\ starter.by # "none"
    /\ starter.acked
    /\ starter' = NoStarter
    /\ UNCHANGED <<meta, tree, loop, jobs, net, events, proxyVars, faults, started>>

\* The reply of session s's command of this kind will not come any more.
Unanswered(kind, s) == ~\E c \in net : c.kind = kind /\ c.session = s

\* SendCommand gave up.  The starter saves the meta it made, as idle.
StartFailed ==
    /\ starter.by # "none"
    /\ ~starter.acked
    /\ \/ Unanswered("pause", starter.session) /\ UNCHANGED faults
       \/ Lose
    /\ meta' = [status |-> "idle", session |-> starter.session, who |-> starter.who]
    /\ starter' = NoStarter
    /\ UNCHANGED <<tree, loop, jobs, net, events, proxyVars, started>>

---------------------------------------------------------------------------
(***************************************************************************)
(* The event loop.  It handles one event or callback at a time, and itself *)
(* waits for the reply of a meeting it starts.  A change of the meta reads *)
(* the file in one step and saves the changed copy in another.             *)
(***************************************************************************)
LoopFree == loop.next = "none" /\ starter.by # "loop"

Arrives(kind) ==
    /\ LoopFree
    /\ events # <<>>
    /\ Head(events).kind = kind
    /\ events' = Tail(events)

\* handleStrategyAllPaused: whichever meeting the event is from.
AllPaused ==
    /\ Arrives("allPaused")
    /\ loop' = IF meta.status = "pausing"
               THEN [next |-> "analyzing", copy |-> meta,
                     job  |-> {[stage |-> "analysis", session |-> meta.session,
                                who |-> meta.who, heard |-> Head(events).nodes,
                                acts |-> NoActs]}]
               ELSE loop
    /\ UNCHANGED <<meta, tree, starter, jobs, net, proxyVars, faults, started>>

\* Seeded fault: participants the decision leaves out are forgotten.
MutCovered(acts, who) == acts

Covered(acts, who) ==
    [n \in Nodes |-> IF acts[n] = "none" /\ n \in who THEN "keep" ELSE acts[n]]

\* resolveStrategyMeeting: participants of the meeting now in the file that
\* the decision left out are kept.
Resolve ==
    \E j \in jobs :
        /\ LoopFree
        /\ j.stage = "resolve"
        /\ jobs' = jobs \ {j}
        /\ loop' = [next |-> "dispatching", copy |-> meta,
                    job  |-> {[j EXCEPT !.stage = "apply",
                                        !.acts = Covered(@, meta.who)]}]
        /\ UNCHANGED <<meta, tree, starter, net, events, proxyVars, faults, started>>

\* finalizeMeeting: it, too, ends the meeting now in the file.
Finalize ==
    \E j \in jobs :
        /\ LoopFree
        /\ j.stage = "finalize"
        /\ jobs' = jobs \ {j}
        /\ loop' = [next |-> "idle", copy |-> meta, job |-> {}]
        /\ UNCHANGED <<meta, tree, starter, net, events, proxyVars, faults, started>>

\* The copy is saved, and the goroutine for the next stage is started.
Save ==
    /\ loop.next # "none"
    /\ meta' = [loop.copy EXCEPT !.status = loop.next]
    /\ jobs' = jobs \cup loop.job
    /\ loop' = AtRest
    /\ UNCHANGED <<tree, starter, net, events, proxyVars, faults, started>>

\* task.failed: a merge failed or a meeting cancelled the task.  It starts a
\* meeting if it can; to find out it needs h.mu.
TaskFailed ==
    LET marked == [n \in Nodes |-> IF n \in Head(events).nodes THEN "error" ELSE tree[n]]
        who    == Participants("loop", marked)
    IN  /\ Arrives("task.failed")
        /\ starter.by = "none"
        /\ tree' = marked
        /\ \/ MayStart(who) /\ Start("loop", who)
           \/ ~MayStart(who) /\ UNCHANGED <<meta, starter, net, started>>
        /\ UNCHANGED <<loop, jobs, proxyVars, faults>>

\* The other two mark the node and start no meeting.
NodeEnds(kind, status) ==
    /\ Arrives(kind)
    /\ tree' = [n \in Nodes |-> IF n \in Head(events).nodes THEN status ELSE tree[n]]
    /\ UNCHANGED <<meta, starter, loop, jobs, net, proxyVars, faults, started>>

EventLoop ==
    \/ AllPaused
    \/ Resolve
    \/ Finalize
    \/ Save
    \/ TaskFailed
    \/ NodeEnds("task.completed", "complete")
    \/ NodeEnds("agent.error", "error")

---------------------------------------------------------------------------
(***************************************************************************)
(* The goroutines of asyncLLM.                                             *)
(***************************************************************************)
\* Seeded fault: an action the proxy does not know.
MutKeepAll(who) == [n \in Nodes |-> IF n \in who THEN "resume" ELSE "none"]

KeepAll(who) == [n \in Nodes |-> IF n \in who THEN "keep" ELSE "none"]

\* What the analysis may come to: all kept when nothing was heard of any
\* participant or the model failed, else an action for some of them.
Outcomes(j) ==
    {KeepAll(j.who)} \cup
    IF j.who \cap j.heard = {} THEN {}
    ELSE {a \in [Nodes -> Decisions \cup {"none"}] : \A n \in Nodes \ j.who : a[n] = "none"}

Analyse ==
    \E j \in jobs : \E decision \in Outcomes(j) :
        /\ j.stage = "analysis"
        /\ jobs' = (jobs \ {j}) \cup {[j EXCEPT !.stage = "resolve", !.acts = decision,
                                                !.who = {}, !.heard = {}]}
        /\ UNCHANGED <<meta, tree, starter, loop, net, events, proxyVars, faults, started>>

SendDecision ==
    \E j \in jobs :
        /\ j.stage = "apply"
        /\ jobs' = (jobs \ {j}) \cup {[j EXCEPT !.stage = "sent", !.acts = NoActs]}
        /\ net'  = net \cup {[kind |-> "apply", session |-> j.session,
                              who |-> {}, acts |-> j.acts]}
        /\ UNCHANGED <<meta, tree, starter, loop, events, proxyVars, faults, started>>

Answered(j) == (jobs \ {j}) \cup {[j EXCEPT !.stage = "finalize"]}

\* SendCommand gave up: the error is logged and the meeting ends all the same.
SendFailed ==
    \E j \in jobs :
        /\ j.stage = "sent"
        /\ \/ Unanswered("apply", j.session) /\ UNCHANGED faults
           \/ Lose
        /\ jobs' = Answered(j)
        /\ UNCHANGED <<meta, tree, starter, loop, net, events, proxyVars, started>>

---------------------------------------------------------------------------
(***************************************************************************)
(* The proxy.                                                              *)
(***************************************************************************)
Live(n) == worker[n] \in {"working", "interrupted"}

\* Running tasks among the participants whose agent is still in s.agents.
Workers(who) == {n \in who : task[n] = "running" /\ worker[n] # "gone"}

Pausing(s, workers) ==
    pausers' = pausers \cup {[session |-> s, nodes |-> workers, step |-> "interrupt"]}

\* Seeded fault: allPaused does not wait for the goroutine.
MutPauseWorkers(s, workers) ==
    /\ events' = Emit("allPaused", {})
    /\ IF workers = {} THEN UNCHANGED pausers ELSE Pausing(s, workers)

\* Seeded fault: nobody is told that there was nobody to pause.
MutPauseNobody(s, workers) ==
    /\ IF workers = {} THEN UNCHANGED pausers ELSE Pausing(s, workers)
    /\ UNCHANGED events

\* With nobody to pause the event comes at once, else from a goroutine.
PauseWorkers(s, workers) ==
    \/ workers = {} /\ events' = Emit("allPaused", {}) /\ UNCHANGED pausers
    \/ workers # {} /\ Pausing(s, workers) /\ UNCHANGED events

\* StrategyPauseAll: the reply comes at once.
TakePause(c) ==
    /\ c.kind = "pause"
    /\ net' = net \ {c}
    /\ PauseWorkers(c.session, Workers(c.who))
    /\ \/ /\ starter' = [starter EXCEPT !.acked = (@ \/ starter.session = c.session)]
          /\ UNCHANGED faults
       \/ Lose /\ UNCHANGED starter
    /\ UNCHANGED <<meta, tree, loop, jobs, task, worker, appliers, started>>

\* Two SIGINTs for each worker, then two seconds of waiting.
Interrupt(p) ==
    /\ p.step = "interrupt"
    /\ worker' = [n \in Nodes |-> IF n \in p.nodes /\ Live(n)
                                  THEN "interrupted" ELSE worker[n]]
    /\ pausers' = (pausers \ {p}) \cup {[p EXCEPT !.step = "mark"]}
    /\ UNCHANGED <<serverVars, net, events, task, appliers, faults>>

MarkPaused(p) ==
    /\ p.step = "mark"
    /\ task' = [n \in Nodes |-> IF n \in p.nodes
                                THEN TransitionTask(task[n], "paused") ELSE task[n]]
    /\ pausers' = (pausers \ {p}) \cup {[p EXCEPT !.step = "watch"]}
    /\ UNCHANGED <<serverVars, net, events, worker, appliers, faults>>

\* The watch agents are through, each having left a context or not.
Watch(p) ==
    \E heard \in SUBSET p.nodes :
        /\ p.step = "watch"
        /\ events'  = Emit("allPaused", heard)
        /\ pausers' = pausers \ {p}
        /\ UNCHANGED <<serverVars, net, task, worker, appliers, faults>>

\* StrategyApplyDecision: again the reply comes first.
TakeApply(c) ==
    /\ c.kind = "apply"
    /\ net' = net \ {c}
    /\ appliers' = appliers \cup {[session |-> c.session, acts |-> c.acts, at |-> {}]}
    /\ \/ /\ jobs' = {IF j.stage = "sent" /\ j.session = c.session
                     THEN [j EXCEPT !.stage = "finalize"] ELSE j : j \in jobs}
          /\ UNCHANGED faults
       \/ Lose /\ UNCHANGED jobs
    /\ UNCHANGED <<meta, tree, starter, loop, events, task, worker, pausers, started>>

\* The message to the worker, or its end: StopAgent returns when the process
\* is gone or was sent a kill.
Address(p, n) ==
    /\ p.at = {}
    /\ p.acts[n] # "none"
    /\ worker' = [worker EXCEPT ![n] = IF ~Live(n) THEN @
                                       ELSE IF p.acts[n] = "cancel" THEN "killed"
                                       ELSE "working"]
    /\ appliers' = (appliers \ {p}) \cup {[p EXCEPT !.at = {n}]}
    /\ UNCHANGED <<serverVars, net, events, task, pausers, faults>>

\* Seeded fault: a task whose agent cannot be reached is left as it is.
MutAfter(n, act) ==
    IF act = "cancel" THEN TransitionTask(task[n], "cancelled")
    ELSE IF Live(n) THEN TransitionTask(task[n], "running") ELSE task[n]

\* The status an action moves a task to, whether the agent was reached or not.
After(n, act) == TransitionTask(task[n], IF act = "cancel" THEN "cancelled" ELSE "running")

\* The lock is taken to move the task on; the event of a cancellation
\* reaches the server as task.failed.  decisionApplied is only logged there.
MoveOn(p, n) ==
    LET acts == [p.acts EXCEPT ![n] = "none"]
        rest == IF acts = NoActs THEN {} ELSE {[p EXCEPT !.acts = acts, !.at = {}]}
    IN  /\ n \in p.at
        /\ appliers' = (appliers \ {p}) \cup rest
        /\ task' = [task EXCEPT ![n] = After(n, p.acts[n])]
        /\ events' = IF p.acts[n] = "cancel" THEN Emit("task.failed", {n}) ELSE events
        /\ UNCHANGED <<serverVars, net, worker, pausers, faults>>

\* watchAgent when the process ended: with an error, or done and merged, or
\* done and not merged, whatever signals it was sent.
AgentError(n) ==
    /\ worker[n] \in {"working", "interrupted", "killed"}
    /\ worker' = [worker EXCEPT ![n] = "gone"]
    /\ events' = Emit("agent.error", {n})
    /\ UNCHANGED <<serverVars, net, task, pausers, appliers, faults>>

AgentDone(n) ==
    /\ worker[n] \in {"working", "interrupted", "killed"}
    /\ worker' = [worker EXCEPT ![n] = "gone"]
    /\ \/ /\ task'   = [task EXCEPT ![n] = TransitionTask(@, "done")]
          /\ events' = Emit("task.completed", {n})
       \/ /\ task'   = [task EXCEPT ![n] = "error"]
          /\ events' = Emit("task.failed", {n})
    /\ UNCHANGED <<serverVars, net, pausers, appliers, faults>>

---------------------------------------------------------------------------
(***************************************************************************)
(* Faults: a command or an event is lost with its connection, and the      *)
(* server restarts.  meta.json and tree.json outlive a restart; nothing    *)
(* looks at the meta when the server starts again.                         *)
(***************************************************************************)
LoseCommand ==
    /\ Lose
    /\ \E c \in net : net' = net \ {c}
    /\ UNCHANGED <<serverVars, events, proxyVars>>

LoseEvent ==
    /\ Lose
    /\ events # <<>>
    /\ events' = Tail(events)
    /\ UNCHANGED <<serverVars, net, proxyVars>>

Restart ==
    /\ Fault("restart")
    /\ starter' = NoStarter
    /\ loop'    = AtRest
    /\ jobs'    = {}
    /\ events'  = <<>>
    /\ UNCHANGED <<meta, tree, started, net, proxyVars>>

---------------------------------------------------------------------------
Starter   == StartDone \/ StartFailed
Goroutine == Analyse \/ SendDecision \/ SendFailed
TakeNext  == \E c \in net : TakePause(c) \/ TakeApply(c)
Pauser(s) == \E p \in pausers : p.session = s /\ (Interrupt(p) \/ MarkPaused(p) \/ Watch(p))
Applier(s) ==
    \E p \in appliers, n \in Nodes : p.session = s /\ (Address(p, n) \/ MoveOn(p, n))

Next ==
    \/ ManualStart
    \/ Starter
    \/ EventLoop
    \/ Goroutine
    \/ TakeNext
    \/ \E s \in Sessions : Pauser(s) \/ Applier(s)
    \/ \E n \in Nodes : AgentError(n) \/ AgentDone(n)
    \/ LoseCommand
    \/ LoseEvent
    \/ Restart

Spec == Init /\ [][Next]_vars

\* Every goroutine runs on: the event loop, the starter waiting for its
\* reply, the goroutines of asyncLLM (their calls have timeouts), and in the
\* proxy the handling of commands, the pausers (watch agents have 90 s) and
\* the appliers.  Users and agents are under no obligation.
Fairness ==
    /\ WF_vars(Starter)
    /\ WF_vars(EventLoop)
    /\ WF_vars(Goroutine)
    /\ WF_vars(TakeNext)
    /\ \A s \in Sessions : WF_vars(Pauser(s)) /\ WF_vars(Applier(s))

FairSpec == Spec /\ Fairness

---------------------------------------------------------------------------
(***************************************************************************)
(* Properties.                                                             *)
(***************************************************************************)

\* Every variable has its type.
TypeOK ==
    /\ meta \in Meta
    /\ tree \in [Nodes -> {"running", "complete", "error"}]
    /\ starter \in [by : {"none", "user", "loop"}, acked : BOOLEAN,
                    session : 0 .. MeetingBound, who : SUBSET Nodes]
    /\ loop \in [next : {"none"} \cup MeetingState, copy : Meta, job : SUBSET Job]
    /\ jobs \subseteq Job
    /\ net \subseteq Command
    /\ events \in Seq(Event)
    /\ task \in [Nodes -> TaskStatus]
    /\ worker \in [Nodes -> {"working", "interrupted", "killed", "gone"}]
    /\ pausers \subseteq PauserType
    /\ appliers \subseteq ApplierType
    /\ started \in 0 .. MeetingBound
    /\ faults \in 0 .. FaultBound

Pending(kind) == {c \in net : c.kind = kind}
Announced     == {i \in 1 .. Len(events) : events[i].kind = "allPaused"}
InStage(S)    == {j \in jobs : j.stage \in S}

\* As long as nothing is lost and the server is not restarted, a meeting is in
\* the hands of exactly one actor, the one its status calls for, and an idle
\* meta is in nobody's: no goroutine of an earlier meeting is left that could
\* move the next one on.  Nothing checks this: the events carry no session,
\* and no callback compares its session with the one in the file.
Unannounced == Pending("pause") = {} /\ pausers = {} /\ Announced = {}

Hands ==
    CASE loop.next # "none" \/ meta.status = "idle" -> jobs = {} /\ Unannounced
      [] loop.next = "none" /\ meta.status = "pausing" ->
            /\ jobs = {}
            /\ Cardinality(Pending("pause")) + Cardinality(pausers) + Cardinality(Announced) = 1
      [] loop.next = "none" /\ meta.status \in {"analyzing", "dispatching"} ->
            /\ Unannounced
            /\ Cardinality(jobs) = 1
            /\ jobs = InStage(IF meta.status = "analyzing" THEN {"analysis", "resolve"}
                                                           ELSE {"apply", "sent", "finalize"})

OneInCharge == faults = 0 => Hands

\* A paused task has somebody who will deal with it: it is a participant of
\* the meeting that goes on, or a decision about it is under way.
Decided(n) ==
    \/ \E j \in jobs \cup loop.job : j.acts[n] # "none"
    \/ \E c \in net : c.acts[n] # "none"
    \/ \E p \in appliers : p.acts[n] # "none"

PausedIsCovered ==
    faults = 0 =>
        \A n \in Nodes : task[n] = "paused" =>
            \/ Decided(n)
            \/ meta.status \in {"pausing", "analyzing"} /\ n \in meta.who

\* A meeting that starts replaces one that is over, and no step moves the
\* session back: neither the failed starter, which saves the meta it made, nor
\* the event loop, which saves the meta it read without taking h.mu.  (After a
\* lost reply both can happen.)
SessionOver == [][faults = 0 =>
                     /\ meta'.session >= meta.session
                     /\ meta'.session > meta.session => meta.status = "idle"]_vars

\* Every meeting ends: the lifecycle of strategy_meeting.go:4-5.
MeetingEnds == MeetingActive ~> ~MeetingActive

\* No task stays paused when nothing is lost.
TaskReleased == \A n \in Nodes : (task[n] = "paused") ~> (task[n] # "paused")

===========================================================================
