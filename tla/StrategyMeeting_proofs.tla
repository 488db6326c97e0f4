----------------------- MODULE StrategyMeeting_proofs -----------------------
(***************************************************************************)
(* Theorems about StrategyMeeting, for any milestone, any actions to       *)
(* choose from, and any number of meetings and of faults.                  *)
(***************************************************************************)
EXTENDS StrategyMeeting, SequenceTheorems, FiniteSetTheorems, TLAPS

-----------------------------------------------------------------------------
\* Types

\* Wherever a meeting is at work, its session is that of a meeting started.
Numbered ==
    /\ meta.status # "idle" \/ loop.next # "none" \/ jobs # {} => meta.session \in Sessions
    /\ loop.next # "none" => loop.copy.session \in Sessions
    /\ starter.by # "none" => starter.session \in Sessions

TypeInv == TypeOK /\ Numbered

\* A move of the task state machine ends in a status, allowed or not.
LEMMA TransitionType ==
    ASSUME NEW s \in TaskStatus, NEW t \in TaskStatus
    PROVE  TransitionTask(s, t) \in TaskStatus
  BY DEF TransitionTask

\* What the analysis may come to is a set of actions.
LEMMA OutcomesType ==
    ASSUME NEW j \in Job
    PROVE  Outcomes(j) \subseteq Acts
  <1>1. KeepAll(j.who) \in Acts
    BY DEF KeepAll, Acts
  <1>2. [Nodes -> Decisions \cup {"none"}] \subseteq Acts
    BY DEF Acts
  <1>3. QED
    BY <1>1, <1>2 DEF Outcomes

\* Participants the decision leaves out get an action.
LEMMA CoveredType ==
    ASSUME NEW acts \in Acts, NEW who \in SUBSET Nodes
    PROVE  /\ Covered(acts, who) \in Acts
           /\ \A n \in Nodes : acts[n] # "none" \/ n \in who => Covered(acts, who)[n] # "none"
  BY DEF Covered, Acts

\* The steps of a goroutine of asyncLLM.
LEMMA JobType ==
    ASSUME NEW j \in Job, NEW stage \in Stages, NEW acts \in Acts
    PROVE  /\ [j EXCEPT !.stage = stage] \in Job
           /\ [j EXCEPT !.stage = stage, !.acts = acts] \in Job
           /\ [j EXCEPT !.stage = stage, !.acts = acts, !.who = {}, !.heard = {}] \in Job
  BY DEF Job

\* An event put at the end of the queue.
LEMMA EmitType ==
    ASSUME TypeOK, NEW nodes \in SUBSET Nodes,
           NEW kind \in {"allPaused", "task.failed", "task.completed", "agent.error"}
    PROVE  Emit(kind, nodes) \in Seq(Event)
  <1>1. [kind |-> kind, nodes |-> nodes] \in Event
    BY DEF Event
  <1>2. QED
    BY <1>1, AppendProperties DEF Emit, TypeOK

\* An event taken from its head.
LEMMA ArrivesType ==
    ASSUME TypeOK, NEW kind, Arrives(kind)
    PROVE  /\ Head(events) \in Event /\ Head(events).nodes \in SUBSET Nodes
           /\ events' \in Seq(Event)
  <1>1. Head(events) \in Event /\ Tail(events) \in Seq(Event)
    BY HeadTailProperties DEF Arrives, TypeOK
  <1>2. QED
    BY <1>1 DEF Arrives, Event

\* The start of a meeting keeps the types.
LEMMA StartType ==
    ASSUME TypeInv, NEW by \in {"user", "loop"}, NEW who \in SUBSET Nodes,
           started < MeetingBound, Start(by, who)
    PROVE  /\ meta' \in Meta /\ meta'.session \in Sessions
           /\ starter' \in [by : {"none", "user", "loop"}, acked : BOOLEAN,
                            session : 0 .. MeetingBound, who : SUBSET Nodes]
           /\ starter'.session \in Sessions
           /\ net' \subseteq Command
           /\ started' \in 0 .. MeetingBound
  <1>1. started + 1 \in Sessions
    BY MeetingAssumption DEF TypeInv, TypeOK, Sessions
  <1>2. NoActs \in Acts
    BY DEF NoActs, Acts
  <1>3. [kind |-> "pause", session |-> started + 1, who |-> who, acts |-> NoActs] \in Command
    BY <1>1, <1>2 DEF Command
  <1>4. started + 1 \in 0 .. MeetingBound
    BY <1>1, MeetingAssumption DEF Sessions
  <1>5. QED
    BY <1>1, <1>3, <1>4 DEF Start, Meta, MeetingState, TypeInv, TypeOK

\* The server's steps keep the types.
LEMMA ServerTypes ==
    ASSUME TypeInv, ManualStart \/ Starter \/ EventLoop \/ Goroutine
    PROVE  TypeInv'
  <1> USE DEF TypeInv, TypeOK, Numbered, proxyVars
  <1>1. CASE ManualStart
    <2>1. Participants("user", tree) \in SUBSET Nodes
      BY DEF Participants
    <2>2. /\ Start("user", Participants("user", tree)) /\ started < MeetingBound
          /\ UNCHANGED <<tree, loop, jobs, events, proxyVars, faults>>
      BY <1>1 DEF ManualStart, MayStart
    <2>3. QED
      BY <2>1, <2>2, StartType
  <1>2. CASE Starter
    <2>1. faults' \in 0 .. FaultBound
      BY <1>2, MeetingAssumption DEF Starter, StartDone, StartFailed, Lose, Fault
    <2>2. NoStarter \in [by : {"none", "user", "loop"}, acked : BOOLEAN,
                         session : 0 .. MeetingBound, who : SUBSET Nodes]
      BY MeetingAssumption DEF NoStarter
    <2>3. CASE StartDone
      BY <2>1, <2>2, <2>3 DEF StartDone, NoStarter
    <2>4. CASE StartFailed
      <3>1. [status |-> "idle", session |-> starter.session, who |-> starter.who] \in Meta
        BY DEF Meta, MeetingState
      <3>2. QED
        BY <2>1, <2>2, <2>4, <3>1 DEF StartFailed, NoStarter
    <2>5. QED
      BY <1>2, <2>3, <2>4 DEF Starter
  <1>3. CASE AllPaused
    <2>1. events' \in Seq(Event) /\ Head(events).nodes \in SUBSET Nodes
      BY <1>3, ArrivesType DEF AllPaused
    <2>2. CASE meta.status = "pausing"
      <3>1. meta.session \in Sessions /\ meta.who \in SUBSET Nodes /\ NoActs \in Acts
        BY <2>2 DEF Meta, NoActs, Acts
      <3>2. [stage |-> "analysis", session |-> meta.session, who |-> meta.who,
             heard |-> Head(events).nodes, acts |-> NoActs] \in Job
        BY <2>1, <3>1 DEF Job, Stages
      <3>3. QED
        BY <1>3, <2>1, <2>2, <3>1, <3>2 DEF AllPaused, MeetingState
    <2>3. CASE meta.status # "pausing"
      BY <1>3, <2>1, <2>3 DEF AllPaused
    <2>4. QED
      BY <2>2, <2>3
  <1>4. CASE Resolve
    <2>1. PICK j \in jobs :
               /\ jobs' = jobs \ {j}
               /\ loop' = [next |-> "dispatching", copy |-> meta,
                           job |-> {[j EXCEPT !.stage = "apply",
                                              !.acts = Covered(@, meta.who)]}]
               /\ UNCHANGED <<meta, tree, starter, net, events, proxyVars, faults, started>>
      BY <1>4 DEF Resolve
    <2>2. Covered(j.acts, meta.who) \in Acts
      BY CoveredType DEF Job, Meta
    <2>3. [j EXCEPT !.stage = "apply", !.acts = Covered(@, meta.who)] \in Job
      BY <2>2, JobType DEF Stages
    <2>4. QED
      BY <2>1, <2>3 DEF MeetingState
  <1>5. CASE Finalize
    BY <1>5 DEF Finalize, MeetingState
  <1>6. CASE Save
    <2>1. [loop.copy EXCEPT !.status = loop.next] \in Meta
      BY <1>6 DEF Save, Meta
    <2>2. [loop.copy EXCEPT !.status = loop.next].session = loop.copy.session
      BY DEF Meta
    <2>3. AtRest \in [next : {"none"} \cup MeetingState, copy : Meta, job : SUBSET Job]
      BY MeetingAssumption DEF AtRest, NoMeta, Meta, MeetingState
    <2>4. QED
      BY <1>6, <2>1, <2>2, <2>3 DEF Save, AtRest
  <1>7. CASE TaskFailed
    <2> DEFINE marked == [n \in Nodes |-> IF n \in Head(events).nodes THEN "error"
                                                                      ELSE tree[n]]
               who == Participants("loop", marked)
    <2>1. events' \in Seq(Event) /\ marked \in [Nodes -> {"running", "complete", "error"}]
      BY <1>7, ArrivesType DEF TaskFailed
    <2>2. who \in SUBSET Nodes
      BY DEF Participants
    <2>3. /\ tree' = marked /\ UNCHANGED <<loop, jobs, proxyVars, faults>>
          /\ \/ started < MeetingBound /\ Start("loop", who)
             \/ UNCHANGED <<meta, starter, net, started>>
      BY <1>7 DEF TaskFailed, MayStart
    <2>4. CASE started < MeetingBound /\ Start("loop", who)
      <3> HIDE DEF who, marked
      <3>1. QED
        BY <2>1, <2>2, <2>3, <2>4, StartType
    <2>5. CASE UNCHANGED <<meta, starter, net, started>>
      BY <2>1, <2>3, <2>5
    <2>6. QED
      BY <2>3, <2>4, <2>5
  <1>8. ASSUME NEW kind, NEW status \in {"complete", "error"}, NodeEnds(kind, status)
        PROVE  TypeInv'
    <2>1. events' \in Seq(Event)
      BY <1>8, ArrivesType DEF NodeEnds
    <2>2. QED
      BY <1>8, <2>1 DEF NodeEnds
  <1>9. CASE Analyse
    <2>1. PICK j \in jobs, decision \in Acts :
               /\ jobs' = (jobs \ {j}) \cup {[j EXCEPT !.stage = "resolve", !.acts = decision,
                                                       !.who = {}, !.heard = {}]}
               /\ UNCHANGED <<meta, tree, starter, loop, net, events, proxyVars, faults, started>>
      BY <1>9, OutcomesType DEF Analyse
    <2>3. [j EXCEPT !.stage = "resolve", !.acts = decision, !.who = {}, !.heard = {}] \in Job
      BY JobType DEF Stages
    <2>4. QED
      BY <2>1, <2>3
  <1>10. CASE SendDecision
    <2>1. PICK j \in jobs :
               /\ jobs' = (jobs \ {j}) \cup {[j EXCEPT !.stage = "sent", !.acts = NoActs]}
               /\ net'  = net \cup {[kind |-> "apply", session |-> j.session,
                                     who |-> {}, acts |-> j.acts]}
               /\ UNCHANGED <<meta, tree, starter, loop, events, proxyVars, faults, started>>
      BY <1>10 DEF SendDecision
    <2>2. NoActs \in Acts
      BY DEF NoActs, Acts
    <2>3. [j EXCEPT !.stage = "sent", !.acts = NoActs] \in Job
      BY <2>2, JobType DEF Stages
    <2>4. [kind |-> "apply", session |-> j.session, who |-> {}, acts |-> j.acts] \in Command
      BY DEF Job, Command
    <2>5. QED
      BY <2>1, <2>3, <2>4
  <1>11. CASE SendFailed
    <2>1. PICK j \in jobs :
               /\ faults' = faults \/ Lose
               /\ jobs' = (jobs \ {j}) \cup {[j EXCEPT !.stage = "finalize"]}
               /\ UNCHANGED <<meta, tree, starter, loop, net, events, proxyVars, started>>
      BY <1>11 DEF SendFailed, Answered
    <2>2. [j EXCEPT !.stage = "finalize"] \in Job
      BY DEF Job, Stages
    <2>3. faults' \in 0 .. FaultBound
      BY <2>1, MeetingAssumption DEF Lose, Fault
    <2>4. QED
      BY <2>1, <2>2, <2>3
  <1>12. QED
    BY <1>1, <1>2, <1>3, <1>4, <1>5, <1>6, <1>7, <1>8, <1>9, <1>10, <1>11
       DEF EventLoop, Goroutine

\* The proxy's steps keep the types.
LEMMA ProxyTypes ==
    ASSUME TypeInv,
           \/ TakeNext
           \/ \E s \in Sessions : Pauser(s) \/ Applier(s)
           \/ \E n \in Nodes : AgentError(n) \/ AgentDone(n)
    PROVE  TypeInv'
  <1> USE DEF TypeInv, TypeOK, Numbered, serverVars
  <1>1. ASSUME NEW c \in net, TakePause(c) PROVE TypeInv'
    <2>1. Workers(c.who) \in SUBSET Nodes /\ c.session \in Sessions
      BY DEF Workers, Command
    <2>2. Emit("allPaused", {}) \in Seq(Event)
      BY EmitType
    <2>3. [session |-> c.session, nodes |-> Workers(c.who), step |-> "interrupt"] \in PauserType
      BY <2>1 DEF PauserType
    <2>4. pausers' \subseteq PauserType /\ events' \in Seq(Event)
      BY <1>1, <2>2, <2>3 DEF TakePause, PauseWorkers, Pausing
    <2>5. starter' \in [by : {"none", "user", "loop"}, acked : BOOLEAN,
                        session : 0 .. MeetingBound, who : SUBSET Nodes]
          /\ starter'.by = starter.by /\ starter'.session = starter.session
      BY <1>1 DEF TakePause
    <2>6. faults' \in 0 .. FaultBound
      BY <1>1, MeetingAssumption DEF TakePause, Lose, Fault
    <2>7. QED
      BY <1>1, <2>4, <2>5, <2>6 DEF TakePause
  <1>2. ASSUME NEW c \in net, TakeApply(c) PROVE TypeInv'
    <2>1. [session |-> c.session, acts |-> c.acts, at |-> {}] \in ApplierType
      BY DEF ApplierType, Command
    <2>2. \A j \in jobs : [j EXCEPT !.stage = "finalize"] \in Job
      BY DEF Job, Stages
    <2>3. jobs' \subseteq Job /\ (jobs' # {} => jobs # {})
      BY <1>2, <2>2 DEF TakeApply
    <2>4. faults' \in 0 .. FaultBound
      BY <1>2, MeetingAssumption DEF TakeApply, Lose, Fault
    <2>5. QED
      BY <1>2, <2>1, <2>3, <2>4 DEF TakeApply
  <1>3. ASSUME NEW p \in pausers, Interrupt(p) \/ MarkPaused(p) \/ Watch(p) PROVE TypeInv'
    <2>1. \A step \in {"mark", "watch"} : [p EXCEPT !.step = step] \in PauserType
      BY DEF PauserType
    <2>2. CASE Interrupt(p)
      BY <2>1, <2>2 DEF Interrupt
    <2>3. CASE MarkPaused(p)
      <3>1. task' \in [Nodes -> TaskStatus]
        BY <2>3, TransitionType DEF MarkPaused, TaskStatus
      <3>2. QED
        BY <2>1, <2>3, <3>1 DEF MarkPaused
    <2>4. CASE Watch(p)
      <3>1. PICK heard \in SUBSET p.nodes :
                 events' = Emit("allPaused", heard) /\ pausers' = pausers \ {p}
        BY <2>4 DEF Watch
      <3>2. heard \in SUBSET Nodes
        BY DEF PauserType
      <3>3. events' \in Seq(Event)
        BY <3>1, <3>2, EmitType
      <3>4. QED
        BY <2>4, <3>1, <3>3 DEF Watch
    <2>5. QED
      BY <1>3, <2>2, <2>3, <2>4
  <1>4. ASSUME NEW p \in appliers, NEW n \in Nodes, Address(p, n) \/ MoveOn(p, n)
        PROVE  TypeInv'
    <2>1. CASE Address(p, n)
      <3>1. [p EXCEPT !.at = {n}] \in ApplierType
        BY DEF ApplierType
      <3>2. QED
        BY <2>1, <3>1 DEF Address
    <2>2. CASE MoveOn(p, n)
      <3> DEFINE acts == [p.acts EXCEPT ![n] = "none"]
      <3>1. acts \in Acts
        BY DEF ApplierType, Acts
      <3>2. [p EXCEPT !.acts = acts, !.at = {}] \in ApplierType
        <4>1. p \in ApplierType
          BY DEF TypeInv, TypeOK
        <4> HIDE DEF acts
        <4>2. QED
          BY <3>1, <4>1 DEF ApplierType
      <3>3. appliers' \subseteq ApplierType
        BY <2>2, <3>2 DEF MoveOn
      <3>4. After(n, p.acts[n]) \in TaskStatus
        BY TransitionType DEF After, TaskStatus
      <3>5. Emit("task.failed", {n}) \in Seq(Event)
        BY EmitType
      <3>6. QED
        BY <2>2, <3>3, <3>4, <3>5 DEF MoveOn
    <2>3. QED
      BY <1>4, <2>1, <2>2
  <1>5. ASSUME NEW n \in Nodes, AgentError(n) \/ AgentDone(n) PROVE TypeInv'
    <2>1. \A kind \in {"agent.error", "task.completed", "task.failed"} :
             Emit(kind, {n}) \in Seq(Event)
      BY EmitType
    <2>2. TransitionTask(task[n], "done") \in TaskStatus
      BY TransitionType DEF TaskStatus
    <2>3. CASE AgentError(n)
      BY <2>1, <2>3 DEF AgentError
    <2>4. CASE AgentDone(n)
      <3>1. task' \in [Nodes -> TaskStatus]
        BY <2>2, <2>4 DEF AgentDone, TaskStatus
      <3>2. events' \in Seq(Event)
        BY <2>1, <2>4 DEF AgentDone
      <3>3. QED
        BY <2>4, <3>1, <3>2 DEF AgentDone
    <2>5. QED
      BY <1>5, <2>3, <2>4
  <1>6. QED
    BY <1>1, <1>2, <1>3, <1>4, <1>5 DEF TakeNext, Pauser, Applier

\* The types, and the sessions they rest on: those at work were all started.
LEMMA Typed == Spec => []TypeInv
  <1>1. Init => TypeInv
    BY MeetingAssumption, EmptySeq DEF Init, TypeInv, TypeOK, Numbered, NoMeta, NoStarter, AtRest,
       Meta, MeetingState, TaskStatus
  <1>2. TypeInv /\ [Next]_vars => TypeInv'
    <2> SUFFICES ASSUME TypeInv, [Next]_vars PROVE TypeInv'
      OBVIOUS
    <2>1. CASE ManualStart \/ Starter \/ EventLoop \/ Goroutine
      BY <2>1, ServerTypes
    <2>2. CASE \/ TakeNext
               \/ \E s \in Sessions : Pauser(s) \/ Applier(s)
               \/ \E n \in Nodes : AgentError(n) \/ AgentDone(n)
      BY <2>2, ProxyTypes
    <2>3. CASE LoseCommand
      BY <2>3, MeetingAssumption DEF LoseCommand, Lose, Fault, TypeInv, TypeOK, Numbered,
         serverVars, proxyVars
    <2>4. CASE LoseEvent
      <3>1. Tail(events) \in Seq(Event)
        BY <2>4, HeadTailProperties DEF LoseEvent, TypeInv, TypeOK
      <3>2. QED
        BY <2>4, <3>1, MeetingAssumption DEF LoseEvent, Lose, Fault, TypeInv, TypeOK, Numbered,
           serverVars, proxyVars
    <2>5. CASE Restart
      BY <2>5, MeetingAssumption, EmptySeq DEF Restart, Fault, TypeInv, TypeOK, Numbered,
         proxyVars, NoStarter, AtRest, NoMeta, Meta, MeetingState
    <2>6. CASE UNCHANGED vars
      BY <2>6 DEF vars, serverVars, proxyVars, TypeInv, TypeOK, Numbered
    <2>7. QED
      BY <2>1, <2>2, <2>3, <2>4, <2>5, <2>6 DEF Next
  <1>3. QED
    BY <1>1, <1>2, PTL DEF Spec

\* Every variable keeps its type (TypeOK), whatever is lost, and across
\* restarts of the server.
THEOREM TypeCorrect == Spec => []TypeOK
  BY Typed, PTL DEF TypeInv

-----------------------------------------------------------------------------
\* One actor in charge

\* Exactly one thing that could announce a paused team is under way: the
\* command, the goroutine or the event.
OneToken ==
    \/ pausers = {} /\ Announced = {} /\ \E c \in Pending("pause") : Pending("pause") = {c}
    \/ Pending("pause") = {} /\ Announced = {} /\ \E p \in pausers : pausers = {p}
    \/ Pending("pause") = {} /\ pausers = {} /\ \E i \in Announced : Announced = {i}

OneJob(stages) == \E j \in jobs : jobs = {j} /\ j.stage \in stages

\* The actor in charge is the one the meeting's status calls for.
Alone ==
    /\ loop.next # "none" \/ meta.status = "idle" => jobs = {} /\ Unannounced
    /\ loop.next = "none" /\ meta.status = "pausing" => jobs = {} /\ OneToken
    /\ loop.next = "none" /\ meta.status = "analyzing" =>
          Unannounced /\ OneJob({"analysis", "resolve"})
    /\ loop.next = "none" /\ meta.status = "dispatching" =>
          Unannounced /\ OneJob({"apply", "sent", "finalize"})

\* The copy the event loop is about to save is still what is in the file, and
\* the save moves the meeting one status on.
Between ==
    \/ loop.next = "none" /\ loop.job = {}
    \/ /\ loop.copy = meta
       /\ \/ /\ loop.next = "analyzing" /\ meta.status = "pausing"
             /\ \E j \in loop.job : loop.job = {j} /\ j.stage = "analysis"
          \/ /\ loop.next = "dispatching" /\ meta.status = "analyzing"
             /\ \E j \in loop.job : loop.job = {j} /\ j.stage = "apply"
          \/ /\ loop.next = "idle" /\ meta.status = "dispatching"
             /\ loop.job = {}

\* A pause command is the question of a starter that waits for its reply, and
\* that starter's meeting is the one in the file.
Asking ==
    /\ \A c \in Pending("pause") :
          /\ starter.by # "none" /\ ~starter.acked
          /\ c.session = starter.session /\ c.session = meta.session
          /\ c.who = meta.who /\ c.acts = NoActs
    /\ starter.by # "none" /\ ~starter.acked =>
          \E c \in Pending("pause") : c.session = starter.session

\* Only a decision that waits to be resolved or sent carries actions.
Undecided ==
    \A j \in jobs \cup loop.job :
        j.stage \in {"analysis", "sent", "finalize"} => j.acts = NoActs

\* Who is being paused takes part in the meeting.
InMeeting == \A p \in pausers : p.nodes \subseteq meta.who

Safe ==
    /\ Alone
    /\ Between
    /\ Asking
    /\ Undecided
    /\ InMeeting
    /\ started = meta.session

\* The places of the announcements in a queue of events.
AnnouncedIn(s) == {i \in 1 .. Len(s) : s[i].kind = "allPaused"}

\* An event put at the end announces nothing, or is one announcement more.
LEMMA AnnouncedAppend ==
    ASSUME NEW s \in Seq(Event), NEW e \in Event
    PROVE  AnnouncedIn(Append(s, e)) =
           AnnouncedIn(s) \cup (IF e.kind = "allPaused" THEN {Len(s) + 1} ELSE {})
  <1>1. /\ Len(Append(s, e)) = Len(s) + 1 /\ Len(s) \in Nat
        /\ \A i \in 1 .. Len(s) : Append(s, e)[i] = s[i]
        /\ Append(s, e)[Len(s) + 1] = e
    BY AppendProperties
  <1>2. QED
    BY <1>1 DEF AnnouncedIn

\* An event taken from the head takes away the announcement it is, if any.
LEMMA AnnouncedTail ==
    ASSUME NEW s \in Seq(Event), s # <<>>
    PROVE  /\ AnnouncedIn(s) = {} => AnnouncedIn(Tail(s)) = {}
           /\ Head(s).kind = "allPaused" =>
                 /\ 1 \in AnnouncedIn(s)
                 /\ \A i : AnnouncedIn(s) = {i} => AnnouncedIn(Tail(s)) = {}
           /\ Head(s).kind # "allPaused" =>
                 \A i : AnnouncedIn(s) = {i} => AnnouncedIn(Tail(s)) = {i - 1}
  <1>1. /\ Len(s) \in Nat /\ Len(s) # 0 /\ Head(s) = s[1]
        /\ Len(Tail(s)) = Len(s) - 1
        /\ \A i \in 1 .. Len(s) - 1 : Tail(s)[i] = s[i + 1]
    BY HeadTailProperties, EmptySeq
  <1>2. \A i : i \in AnnouncedIn(Tail(s)) <=> i \in Nat \ {0} /\ i + 1 \in AnnouncedIn(s)
    BY <1>1 DEF AnnouncedIn
  <1>3. \A i \in AnnouncedIn(s) : i \in Nat \ {0}
    BY <1>1 DEF AnnouncedIn
  <1>4. 1 \in AnnouncedIn(s) <=> Head(s).kind = "allPaused"
    BY <1>1 DEF AnnouncedIn
  <1>5. AnnouncedIn(s) = {} => AnnouncedIn(Tail(s)) = {}
    BY <1>2
  <1>6. ASSUME NEW i, AnnouncedIn(s) = {i}, Head(s).kind = "allPaused"
        PROVE  AnnouncedIn(Tail(s)) = {}
    BY <1>2, <1>4, <1>6
  <1>7. ASSUME NEW i, AnnouncedIn(s) = {i}, Head(s).kind # "allPaused"
        PROVE  AnnouncedIn(Tail(s)) = {i - 1}
    <2>1. i \in Nat \ {0} /\ i # 1
      BY <1>3, <1>4, <1>7
    <2>2. i - 1 \in AnnouncedIn(Tail(s))
      BY <2>1, <1>2, <1>7
    <2>3. \A k \in AnnouncedIn(Tail(s)) : k = i - 1
      BY <2>1, <1>2, <1>7
    <2>4. QED
      BY <2>2, <2>3
  <1>8. QED
    BY <1>4, <1>5, <1>6, <1>7

LEMMA AnnouncedEvents == Announced = AnnouncedIn(events)
  BY DEF Announced, AnnouncedIn

\* Events that are no announcement come and go without changing who is in charge.
LEMMA OtherEvents ==
    ASSUME Safe, UNCHANGED <<meta, starter, loop, jobs, net, pausers, started>>,
           Announced = {} => Announced' = {},
           \A i : Announced = {i} => \E k : Announced' = {k}
    PROVE  Safe'
  BY DEF Safe, Alone, Between, Asking, Undecided, InMeeting, Unannounced, OneToken, OneJob, Pending

\* Such an event at the end of the queue, and one taken from its head.
LEMMA OtherEmitted ==
    ASSUME TypeOK, NEW n \in Nodes, NEW kind \in {"task.failed", "task.completed", "agent.error"},
           events' = Emit(kind, {n})
    PROVE  Announced' = Announced
  <1>1. [kind |-> kind, nodes |-> {n}] \in Event
    BY DEF Event
  <1>2. AnnouncedIn(events') = AnnouncedIn(events)
    BY <1>1, AnnouncedAppend DEF Emit, TypeOK
  <1>3. QED
    BY <1>2 DEF Announced, AnnouncedIn

LEMMA OtherArrives ==
    ASSUME TypeOK, NEW kind, kind # "allPaused", Arrives(kind)
    PROVE  /\ Announced = {} => Announced' = {}
           /\ \A i : Announced = {i} => \E k : Announced' = {k}
  <1>1. Announced = AnnouncedIn(events) /\ Announced' = AnnouncedIn(Tail(events))
    BY DEF Announced, AnnouncedIn, Arrives
  <1>2. QED
    BY <1>1, AnnouncedTail DEF Arrives, TypeOK

\* No fault is a step that leaves the number of faults at 0.
LEMMA FaultCounts ==
    ASSUME TypeOK, NEW kind, Fault(kind)
    PROVE  faults' # 0
  BY MeetingAssumption DEF TypeOK, Fault

\* A meeting starts when nobody is in charge.
LEMMA StartSafe ==
    ASSUME TypeInv, Safe, NEW by \in {"user", "loop"}, NEW who,
           meta.status = "idle", Start(by, who),
           UNCHANGED <<loop, jobs, pausers>>, Announced = {} => Announced' = {}
    PROVE  Safe'
  <1> DEFINE c == [kind |-> "pause", session |-> started + 1, who |-> who, acts |-> NoActs]
  <1>1. loop.next = "none" /\ loop.job = {} /\ jobs = {} /\ Unannounced
    BY DEF Safe, Alone, Between
  <1>2. meta' = [status |-> "pausing", session |-> started + 1, who |-> who]
        /\ started' = started + 1 /\ net' = net \cup {c}
        /\ starter' = [by |-> by, acked |-> FALSE, session |-> started + 1, who |-> who]
    BY DEF Start
  <1>3. Pending("pause")' = {c}
    BY <1>1, <1>2 DEF Unannounced, Pending
  <1>4. OneToken' /\ Alone'
    <2>1. OneToken'
      BY <1>1, <1>2, <1>3 DEF OneToken, Unannounced
    <2>2. loop'.next = "none" /\ meta'.status = "pausing" /\ jobs' = {}
      BY <1>1, <1>2
    <2>3. QED
      BY <2>1, <2>2 DEF Alone
  <1>5. Asking'
    <2>1. c.session = started + 1 /\ c.who = who /\ c.acts = NoActs
      OBVIOUS
    <2>2. /\ meta'.session = started + 1 /\ meta'.who = who
          /\ starter'.by # "none" /\ ~starter'.acked /\ starter'.session = started + 1
      BY <1>2
    <2> HIDE DEF c
    <2>3. QED
      BY <1>3, <2>1, <2>2 DEF Asking
  <1>6. Between' /\ Undecided' /\ InMeeting' /\ started' = meta'.session
    BY <1>1, <1>2 DEF Between, Undecided, InMeeting, Unannounced
  <1>7. QED
    BY <1>4, <1>5, <1>6 DEF Safe

\* The steps of a starter.
LEMMA StarterSafe ==
    ASSUME TypeInv, Safe, faults = 0, faults' = 0, ManualStart \/ Starter
    PROVE  Safe'
  <1>1. CASE ManualStart
    <2>1. Start("user", Participants("user", tree)) /\ meta.status = "idle"
          /\ UNCHANGED <<loop, jobs, pausers, events>>
      BY <1>1 DEF ManualStart, MayStart, MeetingActive, proxyVars
    <2>2. QED
      BY <2>1, StartSafe DEF Announced
  <1>2. CASE StartDone
    <2>1. Pending("pause") = {}
      BY <1>2 DEF StartDone, Safe, Asking
    <2>2. UNCHANGED <<meta, loop, jobs, net, events, pausers, started>> /\ starter' = NoStarter
      BY <1>2 DEF StartDone, proxyVars
    <2>3. Pending("pause")' = Pending("pause") /\ Announced' = Announced
      BY <2>2 DEF Pending, Announced
    <2>4. Asking'
      BY <2>1, <2>2, <2>3 DEF Asking, NoStarter
    <2>5. QED
      BY <2>2, <2>3, <2>4 DEF Safe, Alone, Between, Undecided, InMeeting, Unannounced, OneToken, OneJob
  <1>3. CASE StartFailed
    <2>1. Unanswered("pause", starter.session) /\ starter.by # "none" /\ ~starter.acked
      BY <1>3, FaultCounts DEF StartFailed, Lose, TypeInv
    <2>2. QED
      BY <2>1 DEF Safe, Asking, Unanswered, Pending
  <1>4. QED
    BY <1>1, <1>2, <1>3 DEF Starter

\* The steps of the event loop.
LEMMA LoopSafe ==
    ASSUME TypeInv, Safe, faults = 0, faults' = 0, EventLoop
    PROVE  Safe'
  <1>1. CASE AllPaused
    <2>1. LoopFree /\ events' = Tail(events) /\ events # <<>> /\ Head(events).kind = "allPaused"
          /\ UNCHANGED <<meta, starter, jobs, net, pausers, started>>
      BY <1>1 DEF AllPaused, Arrives, proxyVars
    <2>2. 1 \in Announced /\ \A i : Announced = {i} => Announced' = {}
      <3>1. Announced = AnnouncedIn(events) /\ Announced' = AnnouncedIn(Tail(events))
        BY <2>1 DEF Announced, AnnouncedIn
      <3>2. QED
        BY <2>1, <3>1, AnnouncedTail DEF TypeInv, TypeOK
    <2>3. loop.next = "none" /\ meta.status = "pausing"
      BY <2>1, <2>2 DEF Safe, Alone, Unannounced, LoopFree, TypeInv, TypeOK, Meta, MeetingState
    <2>4. jobs = {} /\ Pending("pause") = {} /\ pausers = {} /\ Announced' = {}
      BY <2>2, <2>3 DEF Safe, Alone, OneToken
    <2>5. loop' = [next |-> "analyzing", copy |-> meta,
                   job  |-> {[stage |-> "analysis", session |-> meta.session,
                              who |-> meta.who, heard |-> Head(events).nodes,
                              acts |-> NoActs]}]
      BY <1>1, <2>3 DEF AllPaused
    <2>6. Pending("pause")' = Pending("pause")
      BY <2>1 DEF Pending
    <2>7. Between' /\ Undecided'
      <3>1. PICK j : j.stage = "analysis" /\ j.acts = NoActs /\ loop'.job = {j}
        BY <2>5
      <3>2. loop'.copy = meta' /\ loop'.next = "analyzing" /\ meta'.status = "pausing" /\ jobs' = {}
        BY <2>1, <2>3, <2>4, <2>5
      <3>3. QED
        BY <3>1, <3>2 DEF Between, Undecided
    <2>8. Alone'
      BY <2>1, <2>4, <2>5, <2>6 DEF Alone, Unannounced
    <2>9. QED
      BY <2>1, <2>6, <2>7, <2>8 DEF Safe, Asking, InMeeting
  <1>2. CASE Resolve
    <2>1. PICK j \in jobs :
               /\ loop.next = "none" /\ j.stage = "resolve"
               /\ jobs' = jobs \ {j}
               /\ loop' = [next |-> "dispatching", copy |-> meta,
                           job |-> {[j EXCEPT !.stage = "apply",
                                              !.acts = Covered(@, meta.who)]}]
               /\ UNCHANGED <<meta, starter, net, events, pausers, started>>
      BY <1>2 DEF Resolve, LoopFree, proxyVars
    <2>2. meta.status = "analyzing" /\ Unannounced /\ jobs = {j}
      BY <2>1 DEF Safe, Alone, OneJob, TypeInv, TypeOK, Meta, MeetingState
    <2>3. [j EXCEPT !.stage = "apply", !.acts = Covered(@, meta.who)].stage = "apply"
      BY DEF TypeInv, TypeOK, Job
    <2>4. Pending("pause")' = Pending("pause") /\ Announced' = Announced
      BY <2>1 DEF Pending, Announced
    <2>5. jobs' = {} /\ Unannounced'
      BY <2>1, <2>2, <2>4 DEF Unannounced
    <2>6. Alone' /\ Between' /\ Undecided'
      BY <2>1, <2>2, <2>3, <2>5 DEF Alone, Between, Undecided
    <2>7. QED
      BY <2>1, <2>4, <2>6 DEF Safe, Asking, InMeeting
  <1>3. CASE Finalize
    <2>1. PICK j \in jobs :
               /\ loop.next = "none" /\ j.stage = "finalize"
               /\ jobs' = jobs \ {j}
               /\ loop' = [next |-> "idle", copy |-> meta, job |-> {}]
               /\ UNCHANGED <<meta, starter, net, events, pausers, started>>
      BY <1>3 DEF Finalize, LoopFree, proxyVars
    <2>2. meta.status = "dispatching" /\ Unannounced /\ jobs = {j}
      BY <2>1 DEF Safe, Alone, OneJob, TypeInv, TypeOK, Meta, MeetingState
    <2>3. Pending("pause")' = Pending("pause") /\ Announced' = Announced
      BY <2>1 DEF Pending, Announced
    <2>4. jobs' = {} /\ Unannounced'
      BY <2>1, <2>2, <2>3 DEF Unannounced
    <2>5. Alone' /\ Between' /\ Undecided'
      BY <2>1, <2>2, <2>4 DEF Alone, Between, Undecided
    <2>6. QED
      BY <2>1, <2>3, <2>5 DEF Safe, Asking, InMeeting
  <1>4. CASE Save
    <2>1. /\ loop.next # "none" /\ jobs' = jobs \cup loop.job /\ loop' = AtRest
          /\ meta' = [loop.copy EXCEPT !.status = loop.next]
          /\ UNCHANGED <<starter, net, events, pausers, started>>
      BY <1>4 DEF Save, proxyVars
    <2>2. loop.copy = meta /\ jobs = {} /\ Unannounced
      BY <2>1 DEF Safe, Alone, Between
    <2>3. /\ meta'.status = loop.next /\ meta'.session = meta.session /\ meta'.who = meta.who
          /\ jobs' = loop.job /\ loop'.next = "none" /\ loop'.job = {}
      BY <2>1, <2>2 DEF TypeInv, TypeOK, Meta, AtRest
    <2>4. Pending("pause")' = Pending("pause") /\ Announced' = Announced
      BY <2>1 DEF Pending, Announced
    <2>5. Unannounced'
      BY <2>1, <2>2, <2>4 DEF Unannounced
    <2>6. Alone'
      BY <2>1, <2>3, <2>5 DEF Safe, Between, Alone, OneJob
    <2>7. Between' /\ Undecided'
      BY <2>3 DEF Between, Undecided, Safe
    <2>8. QED
      BY <2>1, <2>3, <2>4, <2>6, <2>7 DEF Safe, Asking, InMeeting
  <1>5. CASE TaskFailed
    <2>1. /\ Announced = {} => Announced' = {}
          /\ \A i : Announced = {i} => \E k : Announced' = {k}
      BY <1>5, OtherArrives DEF TaskFailed, TypeInv
    <2>2. PICK who : \/ MayStart(who) /\ Start("loop", who)
                     \/ UNCHANGED <<meta, starter, net, started>>
      BY <1>5 DEF TaskFailed
    <2>3. UNCHANGED <<loop, jobs, pausers>>
      BY <1>5 DEF TaskFailed, proxyVars
    <2>4. CASE MayStart(who) /\ Start("loop", who)
      BY <2>1, <2>3, <2>4, StartSafe DEF MayStart, MeetingActive
    <2>5. CASE UNCHANGED <<meta, starter, net, started>>
      BY <2>1, <2>3, <2>5, OtherEvents
    <2>6. QED
      BY <2>2, <2>4, <2>5
  <1>6. ASSUME NEW kind \in {"task.completed", "agent.error"}, NEW status,
               NodeEnds(kind, status)
        PROVE  Safe'
    <2>1. /\ Announced = {} => Announced' = {}
          /\ \A i : Announced = {i} => \E k : Announced' = {k}
      BY <1>6, OtherArrives DEF NodeEnds, TypeInv
    <2>2. UNCHANGED <<meta, starter, loop, jobs, net, pausers, started>>
      BY <1>6 DEF NodeEnds, proxyVars
    <2>3. QED
      BY <2>1, <2>2, OtherEvents
  <1>7. QED
    BY <1>1, <1>2, <1>3, <1>4, <1>5, <1>6 DEF EventLoop

\* The goroutines of asyncLLM.
LEMMA GoroutineSafe ==
    ASSUME TypeInv, Safe, faults = 0, faults' = 0, Goroutine
    PROVE  Safe'
  <1>1. ASSUME NEW j \in jobs, NEW k, jobs' = (jobs \ {j}) \cup {k},
               \/ j.stage = "analysis" /\ k.stage = "resolve"
               \/ j.stage = "apply" /\ k.stage = "sent" /\ k.acts = NoActs
               \/ j.stage = "sent" /\ k.stage = "finalize" /\ k.acts = NoActs,
               UNCHANGED <<meta, starter, loop, events, pausers, started>>,
               Pending("pause")' = Pending("pause")
        PROVE  Safe'
    <2>1. loop.next = "none" /\ Unannounced /\ jobs = {j} /\ meta.status \in {"analyzing", "dispatching"}
          /\ (meta.status = "analyzing" <=> j.stage = "analysis")
      BY <1>1 DEF Safe, Alone, OneJob, TypeInv, TypeOK, Meta, MeetingState
    <2>2. jobs' = {k}
      BY <1>1, <2>1
    <2>3. Unannounced'
      BY <1>1, <2>1 DEF Unannounced, Announced
    <2>4. Alone'
      BY <1>1, <2>1, <2>2, <2>3 DEF Alone, OneJob
    <2>5. Undecided'
      BY <1>1, <2>2 DEF Undecided, Safe
    <2>6. QED
      BY <1>1, <2>4, <2>5 DEF Safe, Between, Asking, InMeeting
  <1>2. CASE Analyse
    <2>1. PICK j \in jobs, decision \in Acts :
               /\ j.stage = "analysis"
               /\ jobs' = (jobs \ {j}) \cup {[j EXCEPT !.stage = "resolve", !.acts = decision,
                                                       !.who = {}, !.heard = {}]}
               /\ UNCHANGED <<meta, starter, loop, net, events, pausers, started>>
      BY <1>2, OutcomesType DEF Analyse, proxyVars, TypeInv, TypeOK
    <2>2. [j EXCEPT !.stage = "resolve", !.acts = decision, !.who = {}, !.heard = {}].stage
             = "resolve"
      BY DEF TypeInv, TypeOK, Job
    <2>3. QED
      BY <1>1, <2>1, <2>2 DEF Pending
  <1>3. CASE SendDecision
    <2>1. PICK j \in jobs :
               /\ j.stage = "apply"
               /\ jobs' = (jobs \ {j}) \cup {[j EXCEPT !.stage = "sent", !.acts = NoActs]}
               /\ net'  = net \cup {[kind |-> "apply", session |-> j.session,
                                     who |-> {}, acts |-> j.acts]}
               /\ UNCHANGED <<meta, starter, loop, events, pausers, started>>
      BY <1>3 DEF SendDecision, proxyVars
    <2> DEFINE k == [j EXCEPT !.stage = "sent", !.acts = NoActs]
    <2>2. k.stage = "sent" /\ k.acts = NoActs
      BY DEF TypeInv, TypeOK, Job
    <2>3. Pending("pause")' = Pending("pause")
      BY <2>1 DEF Pending
    <2>4. QED
      BY <1>1, <2>1, <2>2, <2>3
  <1>4. CASE SendFailed
    <2>1. PICK j \in jobs :
               /\ j.stage = "sent"
               /\ jobs' = (jobs \ {j}) \cup {[j EXCEPT !.stage = "finalize"]}
               /\ UNCHANGED <<meta, starter, loop, net, events, pausers, started>>
      BY <1>4 DEF SendFailed, Answered, proxyVars
    <2> DEFINE k == [j EXCEPT !.stage = "finalize"]
    <2>2. k.stage = "finalize" /\ k.acts = NoActs
      BY <2>1 DEF TypeInv, TypeOK, Job, Safe, Undecided
    <2>3. QED
      BY <1>1, <2>1, <2>2 DEF Pending
  <1>5. QED
    BY <1>2, <1>3, <1>4 DEF Goroutine

\* The proxy takes a command.
LEMMA TakeSafe ==
    ASSUME TypeInv, Safe, faults = 0, faults' = 0, TakeNext
    PROVE  Safe'
  <1>1. ASSUME NEW c \in net, TakePause(c) PROVE Safe'
    <2>1. /\ net' = net \ {c} /\ PauseWorkers(c.session, Workers(c.who))
          /\ starter' = [starter EXCEPT !.acked = (@ \/ starter.session = c.session)]
          /\ UNCHANGED <<meta, loop, jobs, started>>
      BY <1>1, FaultCounts DEF TakePause, Lose, TypeInv
    <2>2. c \in Pending("pause")
      BY <1>1 DEF TakePause, Pending
    <2>3. loop.next = "none" /\ meta.status = "pausing" /\ Pending("pause") = {c}
          /\ pausers = {} /\ Announced = {} /\ jobs = {}
      BY <2>2 DEF Safe, Alone, Unannounced, OneToken, TypeInv, TypeOK, Meta, MeetingState
    <2>4. Pending("pause")' = {}
      BY <2>1, <2>3 DEF Pending
    <2>5. starter'.acked
      BY <2>1, <2>2 DEF Safe, Asking, TypeInv, TypeOK
    <2>6. OneToken' /\ InMeeting'
      <3>1. CASE events' = Emit("allPaused", {}) /\ UNCHANGED pausers
        <4>1. [kind |-> "allPaused", nodes |-> {}] \in Event
          BY DEF Event
        <4>2. AnnouncedIn(events') = {Len(events) + 1}
          BY <2>3, <3>1, <4>1, AnnouncedAppend, AnnouncedEvents DEF Emit, TypeInv, TypeOK
        <4>3. Announced' = {Len(events) + 1}
          BY <4>2 DEF Announced, AnnouncedIn
        <4>4. QED
          BY <2>3, <2>4, <3>1, <4>3 DEF OneToken, InMeeting
      <3>2. CASE Pausing(c.session, Workers(c.who)) /\ UNCHANGED events
        <4>1. pausers' = {[session |-> c.session, nodes |-> Workers(c.who), step |-> "interrupt"]}
          BY <2>3, <3>2 DEF Pausing
        <4>2. Workers(c.who) \subseteq meta.who
          BY <2>2 DEF Workers, Safe, Asking
        <4>3. Announced' = {}
          BY <2>3, <3>2 DEF Announced
        <4>4. QED
          BY <2>1, <2>4, <4>1, <4>2, <4>3 DEF OneToken, InMeeting
      <3>3. QED
        BY <2>1, <3>1, <3>2 DEF PauseWorkers
    <2>7. Alone'
      BY <2>1, <2>3, <2>6 DEF Alone
    <2>8. Asking'
      BY <2>4, <2>5 DEF Asking
    <2>9. QED
      BY <2>1, <2>6, <2>7, <2>8 DEF Safe, Between, Undecided
  <1>2. ASSUME NEW c \in net, TakeApply(c) PROVE Safe'
    <2>1. /\ net' = net \ {c} /\ c.kind = "apply"
          /\ jobs' = {IF j.stage = "sent" /\ j.session = c.session
                      THEN [j EXCEPT !.stage = "finalize"] ELSE j : j \in jobs}
          /\ UNCHANGED <<meta, starter, loop, events, pausers, started>>
      BY <1>2, FaultCounts DEF TakeApply, Lose, TypeInv
    <2>2. Pending("pause")' = Pending("pause") /\ Announced' = Announced
      BY <2>1 DEF Pending, Announced
    <2>3. \A j \in jobs : j.stage = "sent" =>
             [j EXCEPT !.stage = "finalize"].stage = "finalize"
             /\ [j EXCEPT !.stage = "finalize"].acts = NoActs
      BY DEF TypeInv, TypeOK, Job, Safe, Undecided
    <2>4. Undecided'
      BY <2>1, <2>3 DEF Undecided, Safe
    <2>5. (jobs = {} => jobs' = {})
          /\ (OneJob({"analysis", "resolve"}) => OneJob({"analysis", "resolve"})')
          /\ (OneJob({"apply", "sent", "finalize"}) => OneJob({"apply", "sent", "finalize"})')
      <3>1. jobs = {} => jobs' = {}
        BY <2>1
      <3>2. ASSUME NEW j \in jobs, jobs = {j}
            PROVE  \/ jobs' = {j}
                   \/ /\ j.stage = "sent" /\ jobs' = {[j EXCEPT !.stage = "finalize"]}
                      /\ [j EXCEPT !.stage = "finalize"].stage = "finalize"
        BY <2>1, <2>3, <3>2
      <3>3. QED
        BY <3>1, <3>2 DEF OneJob
    <2>6. Alone'
      BY <2>1, <2>2, <2>5 DEF Safe, Alone, Unannounced, OneToken
    <2>7. QED
      BY <2>1, <2>2, <2>4, <2>6 DEF Safe, Between, Asking, InMeeting
  <1>3. QED
    BY <1>1, <1>2 DEF TakeNext

\* The goroutine that pauses the participants.
LEMMA PauserSafe ==
    ASSUME TypeInv, Safe, NEW p \in pausers, Interrupt(p) \/ MarkPaused(p) \/ Watch(p)
    PROVE  Safe'
  <1>1. loop.next = "none" /\ meta.status = "pausing" /\ Pending("pause") = {}
        /\ pausers = {p} /\ Announced = {} /\ jobs = {}
    BY DEF Safe, Alone, Unannounced, OneToken, TypeInv, TypeOK, Meta, MeetingState
  <1>2. UNCHANGED <<meta, starter, loop, jobs, net, started>>
    BY DEF Interrupt, MarkPaused, Watch, serverVars
  <1>3. Pending("pause")' = {}
    BY <1>1, <1>2 DEF Pending
  <1>4. OneToken' /\ InMeeting'
    <2>1. ASSUME NEW step, pausers' = (pausers \ {p}) \cup {[p EXCEPT !.step = step]},
                 UNCHANGED events
          PROVE  OneToken' /\ InMeeting'
      <3>1. pausers' = {[p EXCEPT !.step = step]} /\ Announced' = {}
        BY <1>1, <2>1 DEF Announced
      <3>2. [p EXCEPT !.step = step].nodes \subseteq meta'.who
        BY <1>2 DEF Safe, InMeeting, TypeInv, TypeOK, PauserType
      <3>3. QED
        BY <1>3, <3>1, <3>2 DEF OneToken, InMeeting
    <2>2. CASE Watch(p)
      <3>1. PICK heard \in SUBSET p.nodes :
                 events' = Emit("allPaused", heard) /\ pausers' = pausers \ {p}
        BY <2>2 DEF Watch
      <3>2. [kind |-> "allPaused", nodes |-> heard] \in Event
        BY DEF Event, TypeInv, TypeOK, PauserType
      <3>3. AnnouncedIn(events') = {Len(events) + 1}
        BY <1>1, <3>1, <3>2, AnnouncedAppend, AnnouncedEvents DEF Emit, TypeInv, TypeOK
      <3>4. Announced' = {Len(events) + 1}
        BY <3>3 DEF Announced, AnnouncedIn
      <3>5. QED
        BY <1>1, <1>3, <3>1, <3>4 DEF OneToken, InMeeting
    <2>3. QED
      BY <2>1, <2>2 DEF Interrupt, MarkPaused
  <1>5. Alone'
    BY <1>1, <1>2, <1>4 DEF Alone
  <1>6. QED
    BY <1>2, <1>3, <1>4, <1>5, <1>1 DEF Safe, Between, Asking, Undecided, Pending

\* The goroutines that apply a decision, and the agents.
LEMMA AgentSafe ==
    ASSUME TypeInv, Safe, NEW n \in Nodes,
           (\E p \in appliers : Address(p, n) \/ MoveOn(p, n)) \/ AgentError(n) \/ AgentDone(n)
    PROVE  Safe'
  <1>1. UNCHANGED <<meta, starter, loop, jobs, net, pausers, started>>
    BY DEF Address, MoveOn, AgentError, AgentDone, serverVars
  <1>2. UNCHANGED events
        \/ \E kind \in {"task.failed", "task.completed", "agent.error"} :
              events' = Emit(kind, {n})
    BY DEF Address, MoveOn, AgentError, AgentDone
  <1>3. Announced' = Announced
    BY <1>2, OtherEmitted DEF TypeInv, Announced
  <1>4. QED
    BY <1>1, <1>3, OtherEvents

\* What a meeting is at holds until the first fault.
SafeInv == faults = 0 => Safe

LEMMA SafeStep ==
    ASSUME TypeInv, Safe, faults = 0, faults' = 0, [Next]_vars
    PROVE  Safe'
  <1>1. CASE ManualStart \/ Starter
    BY <1>1, StarterSafe
  <1>2. CASE EventLoop
    BY <1>2, LoopSafe
  <1>3. CASE Goroutine
    BY <1>3, GoroutineSafe
  <1>4. CASE TakeNext
    BY <1>4, TakeSafe
  <1>5. CASE \E s \in Sessions : Pauser(s)
    BY <1>5, PauserSafe DEF Pauser
  <1>6. CASE \E s \in Sessions : Applier(s)
    BY <1>6, AgentSafe DEF Applier
  <1>7. CASE \E n \in Nodes : AgentError(n) \/ AgentDone(n)
    BY <1>7, AgentSafe
  <1>8. CASE LoseCommand \/ LoseEvent \/ Restart
    BY <1>8, FaultCounts DEF LoseCommand, LoseEvent, Restart, Lose, TypeInv
  <1>9. CASE UNCHANGED vars
    BY <1>9, OtherEvents DEF vars, serverVars, proxyVars, Announced
  <1>10. QED
    BY <1>1, <1>2, <1>3, <1>4, <1>5, <1>6, <1>7, <1>8, <1>9 DEF Next

\* The number of faults never goes back.
LEMMA FaultsGrow ==
    ASSUME TypeOK, [Next]_vars
    PROVE  faults' = 0 => faults = 0
  <1>1. faults \in Nat
    BY MeetingAssumption DEF TypeOK
  <1>2. CASE ManualStart \/ Starter
    BY <1>1, <1>2 DEF ManualStart, Starter, StartDone, StartFailed, Lose, Fault
  <1>3. CASE EventLoop
    <2>1. CASE AllPaused \/ Resolve \/ Finalize \/ Save
      BY <2>1 DEF AllPaused, Resolve, Finalize, Save
    <2>2. CASE TaskFailed \/ \E kind, status : NodeEnds(kind, status)
      BY <2>2 DEF TaskFailed, NodeEnds
    <2>3. QED
      BY <1>3, <2>1, <2>2 DEF EventLoop
  <1>4. CASE Goroutine
    <2>1. CASE Analyse
      BY <2>1 DEF Analyse
    <2>2. CASE SendDecision
      BY <2>2 DEF SendDecision
    <2>3. CASE SendFailed
      BY <1>1, <2>3 DEF SendFailed, Lose, Fault
    <2>4. QED
      BY <1>4, <2>1, <2>2, <2>3 DEF Goroutine
  <1>5. CASE TakeNext
    BY <1>1, <1>5 DEF TakeNext, TakePause, TakeApply, Lose, Fault
  <1>6. CASE \E s \in Sessions : Pauser(s) \/ Applier(s)
    BY <1>6 DEF Pauser, Applier, Interrupt, MarkPaused, Watch, Address, MoveOn
  <1>7. CASE \E n \in Nodes : AgentError(n) \/ AgentDone(n)
    BY <1>7 DEF AgentError, AgentDone
  <1>8. CASE LoseCommand \/ LoseEvent \/ Restart
    BY <1>1, <1>8 DEF LoseCommand, LoseEvent, Restart, Lose, Fault
  <1>9. CASE UNCHANGED vars
    BY <1>9 DEF vars
  <1>10. QED
    BY <1>2, <1>3, <1>4, <1>5, <1>6, <1>7, <1>8, <1>9 DEF Next

\* At first there is no meeting and nobody in charge.
LEMMA SafeInit == Init => Safe
  <1> SUFFICES ASSUME Init PROVE Safe
    OBVIOUS
  <1>1. Unannounced /\ jobs = {} /\ loop = AtRest /\ meta = NoMeta /\ starter = NoStarter
    BY DEF Init, Unannounced, Pending, Announced
  <1>2. QED
    BY <1>1 DEF Init, Safe, Alone, Between, Asking, Undecided, InMeeting, Unannounced,
       AtRest, NoMeta, NoStarter

\* Until the first fault there is one actor in charge of a meeting, its copy
\* of the meta is current, and a pause command belongs to a starter that waits.
THEOREM SafeCorrect == Spec => []SafeInv
  <1>1. Init => SafeInv
    BY SafeInit DEF SafeInv
  <1>2. TypeInv /\ SafeInv /\ [Next]_vars => SafeInv'
    BY SafeStep, FaultsGrow DEF SafeInv, TypeInv
  <1>3. QED
    BY <1>1, <1>2, Typed, PTL DEF Spec

\* As long as nothing is lost and the server is not restarted, a meeting is in
\* the hands of exactly one actor, the one its status calls for: the events
\* and callbacks of strategy_meeting.go carry no session to tell them apart,
\* and need none (OneInCharge).
THEOREM OneInChargeCorrect == Spec => []OneInCharge
  <1>1. TypeInv /\ SafeInv => OneInCharge
    <2> SUFFICES ASSUME TypeInv, Safe PROVE Hands
      BY DEF OneInCharge, SafeInv
    <2>1. Cardinality({}) = 0 /\ \A x : Cardinality({x}) = 1
      BY FS_EmptySet, FS_Singleton
    <2>2. CASE loop.next # "none" \/ meta.status = "idle"
      <3>1. jobs = {} /\ Unannounced
        BY <2>2 DEF Safe, Alone
      <3>2. QED
        BY <2>2, <3>1 DEF Hands
    <2>3. CASE loop.next = "none" /\ meta.status = "pausing"
      <3>1. jobs = {} /\ OneToken
        BY <2>3 DEF Safe, Alone
      <3>2. Cardinality(Pending("pause")) + Cardinality(pausers) + Cardinality(Announced) = 1
        <4>1. CASE pausers = {} /\ Announced = {} /\ \E c \in Pending("pause") : Pending("pause") = {c}
          <5>1. PICK c : Pending("pause") = {c}
            BY <4>1
          <5>2. Cardinality(Pending("pause")) = 1 /\ Cardinality(pausers) = 0
                /\ Cardinality(Announced) = 0
            BY <2>1, <4>1, <5>1
          <5>3. QED
            BY <5>2
        <4>2. CASE Pending("pause") = {} /\ Announced = {} /\ \E p \in pausers : pausers = {p}
          <5>1. PICK p : pausers = {p}
            BY <4>2
          <5>2. Cardinality(Pending("pause")) = 0 /\ Cardinality(pausers) = 1
                /\ Cardinality(Announced) = 0
            BY <2>1, <4>2, <5>1
          <5>3. QED
            BY <5>2
        <4>3. CASE Pending("pause") = {} /\ pausers = {} /\ \E i \in Announced : Announced = {i}
          <5>1. PICK i : Announced = {i}
            BY <4>3
          <5>2. Cardinality(Pending("pause")) = 0 /\ Cardinality(pausers) = 0
                /\ Cardinality(Announced) = 1
            BY <2>1, <4>3, <5>1
          <5>3. QED
            BY <5>2
        <4>4. QED
          BY <3>1, <4>1, <4>2, <4>3 DEF OneToken
      <3>3. QED
        BY <2>3, <3>1, <3>2 DEF Hands
    <2>4. CASE loop.next = "none" /\ meta.status = "analyzing"
      <3>1. Unannounced /\ OneJob({"analysis", "resolve"})
        BY <2>4 DEF Safe, Alone
      <3>2. Cardinality(jobs) = 1 /\ jobs = InStage({"analysis", "resolve"})
        BY <2>1, <3>1 DEF OneJob, InStage
      <3>3. QED
        BY <2>4, <3>1, <3>2 DEF Hands
    <2>5. CASE loop.next = "none" /\ meta.status = "dispatching"
      <3>1. Unannounced /\ OneJob({"apply", "sent", "finalize"})
        BY <2>5 DEF Safe, Alone
      <3>2. Cardinality(jobs) = 1 /\ jobs = InStage({"apply", "sent", "finalize"})
        BY <2>1, <3>1 DEF OneJob, InStage
      <3>3. QED
        BY <2>5, <3>1, <3>2 DEF Hands
    <2>6. QED
      BY <2>2, <2>3, <2>4, <2>5 DEF TypeInv, TypeOK, Meta, MeetingState
  <1>2. QED
    BY <1>1, Typed, SafeCorrect, PTL

\* A meeting that starts replaces one that is over, and no step moves the
\* session back, until a fault: the failed starter and the event loop save
\* what is still in the file (SessionOver).
THEOREM SessionOverCorrect == Spec => SessionOver
  <1> DEFINE Over == /\ meta'.session >= meta.session
                     /\ meta'.session > meta.session => meta.status = "idle"
  <1>1. TypeInv /\ SafeInv /\ [Next]_vars => (faults = 0 => Over)
    <2> SUFFICES ASSUME TypeInv, Safe, [Next]_vars PROVE Over
      BY DEF SafeInv
    <2>1. meta.session \in Nat /\ started = meta.session
      BY MeetingAssumption DEF TypeInv, TypeOK, Meta, Safe
    <2>2. ASSUME NEW by, NEW who, MayStart(who), Start(by, who) PROVE Over
      BY <2>1, <2>2 DEF MayStart, MeetingActive, Start
    <2>3. CASE UNCHANGED meta
      BY <2>1, <2>3
    <2>4. CASE ManualStart
      BY <2>2, <2>4 DEF ManualStart
    <2>5. CASE StartFailed
      <3>1. meta'.session = starter.session /\ starter.session = meta.session
        BY <2>5 DEF StartFailed, Safe, Asking
      <3>2. QED
        BY <2>1, <3>1
    <2>6. CASE Save
      <3>1. meta'.session = meta.session
        BY <2>6 DEF Save, Safe, Between, TypeInv, TypeOK, Meta
      <3>2. QED
        BY <2>1, <3>1
    <2>7. CASE TaskFailed
      BY <2>2, <2>3, <2>7 DEF TaskFailed
    <2>8. CASE \/ StartDone \/ AllPaused \/ Resolve \/ Finalize
               \/ \E kind, status : NodeEnds(kind, status)
      BY <2>3, <2>8 DEF StartDone, AllPaused, Resolve, Finalize, NodeEnds
    <2>9. CASE Goroutine
      BY <2>3, <2>9 DEF Goroutine, Analyse, SendDecision, SendFailed
    <2>10. CASE TakeNext
      BY <2>3, <2>10 DEF TakeNext, TakePause, TakeApply
    <2>11. CASE \E s \in Sessions : Pauser(s) \/ Applier(s)
      BY <2>3, <2>11 DEF Pauser, Applier, Interrupt, MarkPaused, Watch, Address, MoveOn, serverVars
    <2>12. CASE \E n \in Nodes : AgentError(n) \/ AgentDone(n)
      BY <2>3, <2>12 DEF AgentError, AgentDone, serverVars
    <2>13. CASE LoseCommand \/ LoseEvent \/ Restart \/ UNCHANGED vars
      BY <2>3, <2>13 DEF LoseCommand, LoseEvent, Restart, vars, serverVars
    <2>14. QED
      BY <2>4, <2>5, <2>6, <2>7, <2>8, <2>9, <2>10, <2>11, <2>12, <2>13
         DEF Next, Starter, EventLoop
  <1>2. QED
    BY <1>1, Typed, SafeCorrect, PTL DEF Spec, SessionOver

\* The statuses a meeting goes through, each at most once and in this order.
Lifecycle ==
    \/ meta.status = "idle"        /\ meta'.status = "pausing"
    \/ meta.status = "pausing"     /\ meta'.status = "analyzing"
    \/ meta.status = "analyzing"   /\ meta'.status = "dispatching"
    \/ meta.status = "dispatching" /\ meta'.status = "idle"

\* A step without a fault moves a meeting on by one status or leaves it and
\* its participants as they are, and only a new meeting has a new session and
\* other participants: the lifecycle of strategy_meeting.go, although each
\* save writes a copy read before.
THEOREM LifecycleCorrect ==
    Spec => [][faults' = 0 =>
                  /\ Lifecycle
                  /\ meta.status # "idle" => meta'.session = meta.session /\ meta'.who = meta.who
                  /\ meta.status = "idle" => meta'.session = meta.session + 1]_meta
  <1> DEFINE Moves ==
        /\ Lifecycle
        /\ meta.status # "idle" => meta'.session = meta.session /\ meta'.who = meta.who
        /\ meta.status = "idle" => meta'.session = meta.session + 1
  <1>1. TypeInv /\ SafeInv /\ [Next]_vars => [faults' = 0 => Moves]_meta
    <2> SUFFICES ASSUME TypeInv, SafeInv, [Next]_vars, faults' = 0, meta' # meta
                 PROVE  Moves
      OBVIOUS
    <2>1. Safe /\ faults = 0
      BY FaultsGrow DEF SafeInv, TypeInv
    <2>2. ASSUME NEW by, NEW who, MayStart(who), Start(by, who) PROVE Moves
      BY <2>1, <2>2 DEF MayStart, MeetingActive, Start, Safe, Lifecycle
    <2>3. CASE ManualStart
      BY <2>2, <2>3 DEF ManualStart
    <2>4. CASE StartFailed
      <3>1. Unanswered("pause", starter.session) /\ starter.by # "none" /\ ~starter.acked
        BY <2>1, <2>4, FaultCounts DEF StartFailed, Lose, TypeInv
      <3>2. QED
        BY <2>1, <3>1 DEF Safe, Asking, Unanswered, Pending
    <2>5. CASE Save
      <3>1. loop.copy = meta /\ meta'.status = loop.next /\ meta'.session = meta.session
            /\ meta'.who = meta.who
        BY <2>1, <2>5 DEF Save, Safe, Between, TypeInv, TypeOK, Meta
      <3>2. QED
        BY <2>1, <2>5, <3>1 DEF Save, Safe, Between, Lifecycle
    <2>6. CASE TaskFailed
      BY <2>2, <2>6 DEF TaskFailed
    <2>7. CASE \/ StartDone \/ AllPaused \/ Resolve \/ Finalize
               \/ \E kind, status : NodeEnds(kind, status)
      BY <2>7 DEF StartDone, AllPaused, Resolve, Finalize, NodeEnds
    <2>8. CASE Goroutine
      BY <2>8 DEF Goroutine, Analyse, SendDecision, SendFailed
    <2>9. CASE TakeNext
      BY <2>9 DEF TakeNext, TakePause, TakeApply
    <2>10. CASE \E s \in Sessions : Pauser(s) \/ Applier(s)
      BY <2>10 DEF Pauser, Applier, Interrupt, MarkPaused, Watch, Address, MoveOn, serverVars
    <2>11. CASE \E n \in Nodes : AgentError(n) \/ AgentDone(n)
      BY <2>11 DEF AgentError, AgentDone, serverVars
    <2>12. CASE LoseCommand \/ LoseEvent \/ Restart \/ UNCHANGED vars
      BY <2>12 DEF LoseCommand, LoseEvent, Restart, vars, serverVars
    <2>13. QED
      BY <2>3, <2>4, <2>5, <2>6, <2>7, <2>8, <2>9, <2>10, <2>11, <2>12
         DEF Next, Starter, EventLoop
  <1>2. QED
    BY <1>1, Typed, SafeCorrect, PTL DEF Spec

-----------------------------------------------------------------------------
\* Nobody stays paused

\* A paused task has a decision on its way, or takes part in a meeting whose
\* decision has yet to be resolved.
Spoken(n) ==
    \/ Decided(n)
    \/ meta.status \in {"pausing", "analyzing"} /\ loop.next # "dispatching" /\ n \in meta.who

PausedSpoken == \A n \in Nodes : task[n] = "paused" => Spoken(n)

\* The server's steps: the decision passes from one goroutine to the next.
LEMMA ServerSpoken ==
    ASSUME TypeInv, Safe, faults = 0, faults' = 0, NEW n \in Nodes, Spoken(n),
           ManualStart \/ Starter \/ EventLoop \/ Goroutine
    PROVE  Spoken(n)'
  <1>1. ASSUME NEW by, NEW who, MayStart(who), Start(by, who),
               UNCHANGED <<loop, jobs, appliers>>
        PROVE  Spoken(n)'
    <2>1. Decided(n)
      BY <1>1 DEF MayStart, MeetingActive, Spoken
    <2>2. net \subseteq net'
      BY <1>1 DEF Start
    <2>3. QED
      BY <1>1, <2>1, <2>2, Zenon DEF Decided, Spoken
  <1>2. ASSUME UNCHANGED <<meta, loop, jobs, net, appliers>> PROVE Spoken(n)'
    BY <1>2 DEF Spoken, Decided
  <1>3. CASE ManualStart
    BY <1>1, <1>3 DEF ManualStart, proxyVars
  <1>4. CASE StartDone
    BY <1>2, <1>4 DEF StartDone, proxyVars
  <1>5. CASE StartFailed
    <2>1. Unanswered("pause", starter.session) /\ starter.by # "none" /\ ~starter.acked
      BY <1>5, FaultCounts DEF StartFailed, Lose, TypeInv
    <2>2. QED
      BY <2>1 DEF Safe, Asking, Unanswered, Pending
  <1>6. CASE AllPaused
    <2>1. \/ loop.job = {} /\ loop'.next # "dispatching"
          \/ UNCHANGED loop
      BY <1>6 DEF AllPaused, Arrives, LoopFree, Safe, Between
    <2>2. UNCHANGED <<meta, jobs, net, appliers>>
      BY <1>6 DEF AllPaused, proxyVars
    <2>3. QED
      BY <1>2, <2>1, <2>2 DEF Spoken, Decided
  <1>7. CASE Resolve
    <2>1. PICK j \in jobs :
               /\ loop.next = "none" /\ j.stage = "resolve"
               /\ jobs' = jobs \ {j}
               /\ loop' = [next |-> "dispatching", copy |-> meta,
                           job |-> {[j EXCEPT !.stage = "apply",
                                              !.acts = Covered(@, meta.who)]}]
               /\ UNCHANGED <<meta, net, appliers>>
      BY <1>7 DEF Resolve, LoopFree, proxyVars
    <2> DEFINE k == [j EXCEPT !.stage = "apply", !.acts = Covered(@, meta.who)]
    <2>2. k \in loop'.job /\ k.acts = Covered(j.acts, meta.who)
      BY <2>1 DEF TypeInv, TypeOK, Job
    <2>3. jobs = {j} /\ loop.job = {}
      BY <2>1 DEF Safe, Alone, Between, OneJob, TypeInv, TypeOK, Meta, MeetingState
    <2>4. j.acts[n] # "none" \/ n \in meta.who => Covered(j.acts, meta.who)[n] # "none"
      BY CoveredType DEF TypeInv, TypeOK, Job, Meta
    <2> HIDE DEF k
    <2>5. j.acts[n] # "none" \/ n \in meta.who => Decided(n)'
      BY <2>2, <2>4 DEF Decided
    <2>6. QED
      BY <2>1, <2>3, <2>5 DEF Spoken, Decided
  <1>8. CASE Finalize
    <2>1. PICK j \in jobs :
               /\ loop.next = "none" /\ j.stage = "finalize"
               /\ jobs' = jobs \ {j} /\ loop'.next = "idle"
               /\ UNCHANGED <<meta, net, appliers>>
      BY <1>8 DEF Finalize, LoopFree, proxyVars
    <2>2. loop.job = {} /\ j.acts[n] = "none"
      BY <2>1 DEF Safe, Between, Undecided, NoActs
    <2>3. QED
      BY <2>1, <2>2 DEF Spoken, Decided
  <1>9. CASE Save
    <2>1. /\ meta'.status = loop.next /\ meta'.who = meta.who /\ loop'.next = "none"
          /\ jobs' = jobs \cup loop.job /\ UNCHANGED <<net, appliers>>
      BY <1>9 DEF Save, AtRest, Safe, Between, TypeInv, TypeOK, Meta, proxyVars
    <2>2. Decided(n) => Decided(n)'
      BY <2>1 DEF Decided
    <2>3. CASE loop.next = "analyzing"
      BY <2>1, <2>2, <2>3 DEF Spoken
    <2>4. CASE loop.next = "dispatching"
      BY <2>1, <2>2, <2>4 DEF Spoken
    <2>5. CASE loop.next = "idle"
      BY <2>1, <2>2, <2>5 DEF Spoken, Safe, Between
    <2>6. QED
      BY <1>9, <2>3, <2>4, <2>5 DEF Save, Safe, Between
  <1>10. CASE TaskFailed
    BY <1>1, <1>2, <1>10 DEF TaskFailed, proxyVars
  <1>11. CASE \E kind, status : NodeEnds(kind, status)
    BY <1>2, <1>11 DEF NodeEnds, proxyVars
  <1>12. ASSUME NEW j \in jobs, NEW k, jobs' = (jobs \ {j}) \cup {k},
                UNCHANGED <<meta, loop, appliers>>, net \subseteq net',
                j.acts[n] # "none" => Decided(n)'
         PROVE  Spoken(n)'
    BY <1>12 DEF Spoken, Decided
  <1>13. CASE Analyse
    <2>1. PICK j, k :
               j \in jobs /\ j.stage = "analysis" /\ jobs' = (jobs \ {j}) \cup {k}
               /\ UNCHANGED <<meta, loop, net, appliers>>
      BY <1>13 DEF Analyse, proxyVars
    <2>2. j.acts[n] = "none"
      BY <2>1 DEF Safe, Undecided, NoActs
    <2>3. QED
      BY <1>12, <2>1, <2>2
  <1>14. CASE SendDecision
    <2>1. PICK j, k :
               j \in jobs /\ jobs' = (jobs \ {j}) \cup {k}
               /\ net'  = net \cup {[kind |-> "apply", session |-> j.session,
                                     who |-> {}, acts |-> j.acts]}
               /\ UNCHANGED <<meta, loop, appliers>>
      BY <1>14 DEF SendDecision, proxyVars
    <2> DEFINE c == [kind |-> "apply", session |-> j.session, who |-> {}, acts |-> j.acts]
    <2>2. c \in net' /\ c.acts = j.acts
      BY <2>1
    <2> HIDE DEF c
    <2>3. j.acts[n] # "none" => Decided(n)'
      BY <2>2 DEF Decided
    <2>4. QED
      BY <1>12, <2>1, <2>3
  <1>15. CASE SendFailed
    <2>1. PICK j, k :
               j \in jobs /\ j.stage = "sent" /\ jobs' = (jobs \ {j}) \cup {k}
               /\ UNCHANGED <<meta, loop, net, appliers>>
      BY <1>15 DEF SendFailed, Answered, proxyVars
    <2>2. j.acts[n] = "none"
      BY <2>1 DEF Safe, Undecided, NoActs
    <2>3. QED
      BY <1>12, <2>1, <2>2
  <1>16. QED
    BY <1>3, <1>4, <1>5, <1>6, <1>7, <1>8, <1>9, <1>10, <1>11, <1>13, <1>14, <1>15
       DEF Starter, EventLoop, Goroutine

\* An action of a decision, cancel or any other, releases a paused task, and
\* no other step but a pause makes one.
LEMMA NotPaused ==
    ASSUME NEW s \in TaskStatus
    PROVE  /\ TransitionTask(s, "running") # "paused"
           /\ TransitionTask(s, "cancelled") # "paused"
           /\ TransitionTask(s, "done") = "paused" => s = "paused"
  <1>1. "running" \in taskTransitions["paused"] /\ "cancelled" \in taskTransitions["paused"]
    BY DEF taskTransitions
  <1>2. QED
    BY <1>1 DEF TransitionTask

\* The proxy's steps: what is paused takes part in the meeting, and what a
\* decision has dealt with is not paused.
LEMMA ProxySpoken ==
    ASSUME TypeInv, Safe, faults = 0, faults' = 0, PausedSpoken,
           \/ TakeNext
           \/ \E s \in Sessions : Pauser(s) \/ Applier(s)
           \/ \E m \in Nodes : AgentError(m) \/ AgentDone(m),
           NEW n \in Nodes, task'[n] = "paused"
    PROVE  Spoken(n)'
  <1>1. ASSUME task[n] = "paused", UNCHANGED <<meta, loop, jobs, net, appliers>>
        PROVE  Spoken(n)'
    BY <1>1 DEF PausedSpoken, Spoken, Decided
  <1>2. ASSUME NEW c \in net, TakePause(c) PROVE Spoken(n)'
    <2>1. UNCHANGED <<meta, loop, jobs, appliers, task>> /\ net' = net \ {c}
      BY <1>2 DEF TakePause
    <2>2. c.acts[n] = "none"
      BY <1>2 DEF TakePause, Safe, Asking, Pending, NoActs
    <2>3. QED
      BY <2>1, <2>2 DEF PausedSpoken, Spoken, Decided
  <1>3. ASSUME NEW c \in net, TakeApply(c) PROVE Spoken(n)'
    <2>1. /\ net' = net \ {c}
          /\ appliers' = appliers \cup {[session |-> c.session, acts |-> c.acts, at |-> {}]}
          /\ jobs' = {IF j.stage = "sent" /\ j.session = c.session
                      THEN [j EXCEPT !.stage = "finalize"] ELSE j : j \in jobs}
          /\ UNCHANGED <<meta, loop, task>>
      BY <1>3, FaultCounts DEF TakeApply, Lose, TypeInv
    <2>2. \A j \in jobs : j.acts[n] # "none" => j \in jobs'
      BY <2>1 DEF Safe, Undecided, NoActs
    <2> DEFINE a == [session |-> c.session, acts |-> c.acts, at |-> {}]
    <2>3. a \in appliers' /\ a.acts = c.acts
      BY <2>1
    <2> HIDE DEF a
    <2>4. c.acts[n] # "none" => Decided(n)'
      BY <2>3 DEF Decided
    <2>5. Decided(n) => Decided(n)'
      BY <2>1, <2>2, <2>4 DEF Decided
    <2>6. QED
      BY <2>1, <2>5 DEF PausedSpoken, Spoken
  <1>4. ASSUME NEW p \in pausers, Interrupt(p) \/ MarkPaused(p) \/ Watch(p) PROVE Spoken(n)'
    <2>1. UNCHANGED <<meta, loop, jobs, net, appliers>>
      BY <1>4 DEF Interrupt, MarkPaused, Watch, serverVars
    <2>2. CASE task[n] = "paused"
      BY <1>1, <2>1, <2>2
    <2>3. CASE task[n] # "paused"
      <3>1. MarkPaused(p) /\ n \in p.nodes
        BY <1>4, <2>3 DEF Interrupt, MarkPaused, Watch
      <3>2. n \in meta.who /\ loop.next = "none" /\ meta.status = "pausing"
        BY <3>1 DEF Safe, InMeeting, Alone, Unannounced, TypeInv, TypeOK, Meta, MeetingState
      <3>3. QED
        BY <2>1, <3>2 DEF Spoken
    <2>4. QED
      BY <2>2, <2>3
  <1>5. ASSUME NEW p \in appliers, NEW m \in Nodes, Address(p, m) PROVE Spoken(n)'
    <2>1. UNCHANGED <<meta, loop, jobs, net, task>>
          /\ appliers' = (appliers \ {p}) \cup {[p EXCEPT !.at = {m}]}
      BY <1>5 DEF Address, serverVars
    <2> DEFINE q == [p EXCEPT !.at = {m}]
    <2>2. q \in appliers' /\ q.acts = p.acts
      BY <2>1 DEF TypeInv, TypeOK, ApplierType
    <2> HIDE DEF q
    <2>3. p.acts[n] # "none" => Decided(n)'
      BY <2>2 DEF Decided
    <2>4. Decided(n) => Decided(n)'
      BY <2>1, <2>3 DEF Decided
    <2>5. QED
      BY <2>1, <2>4 DEF PausedSpoken, Spoken
  <1>6. ASSUME NEW p \in appliers, NEW m \in Nodes, MoveOn(p, m) PROVE Spoken(n)'
    <2> DEFINE acts == [p.acts EXCEPT ![m] = "none"]
               q    == [p EXCEPT !.acts = acts, !.at = {}]
    <2>1. /\ UNCHANGED <<meta, loop, jobs, net>>
          /\ appliers' = (appliers \ {p}) \cup (IF acts = NoActs THEN {} ELSE {q})
          /\ task' = [task EXCEPT ![m] = After(m, p.acts[m])]
      BY <1>6 DEF MoveOn, serverVars
    <2>2. After(m, p.acts[m]) # "paused"
      BY NotPaused DEF After, TypeInv, TypeOK
    <2>3. n # m /\ task[n] = "paused"
      BY <2>1, <2>2 DEF TypeInv, TypeOK
    <2>4. q.acts = acts /\ acts[n] = p.acts[n]
      BY <2>3 DEF TypeInv, TypeOK, ApplierType, Acts
    <2>5. acts[n] # "none" => acts # NoActs
      BY DEF NoActs
    <2> HIDE DEF acts, q
    <2>6. p.acts[n] # "none" => Decided(n)'
      BY <2>1, <2>4, <2>5 DEF Decided
    <2>7. Decided(n) => Decided(n)'
      BY <2>1, <2>6 DEF Decided
    <2>8. QED
      BY <2>1, <2>3, <2>7 DEF PausedSpoken, Spoken
  <1>7. ASSUME NEW m \in Nodes, AgentError(m) \/ AgentDone(m) PROVE Spoken(n)'
    <2>1. UNCHANGED <<meta, loop, jobs, net, appliers>>
      BY <1>7 DEF AgentError, AgentDone, serverVars
    <2>2. task[n] = "paused"
      BY <1>7, NotPaused DEF AgentError, AgentDone, TypeInv, TypeOK
    <2>3. QED
      BY <1>1, <2>1, <2>2
  <1>8. QED
    BY <1>2, <1>3, <1>4, <1>5, <1>6, <1>7 DEF TakeNext, Pauser, Applier

SpokenInv == faults = 0 => PausedSpoken

LEMMA SpokenStep ==
    ASSUME TypeInv, Safe, PausedSpoken, faults = 0, faults' = 0, [Next]_vars
    PROVE  PausedSpoken'
  <1> SUFFICES ASSUME NEW n \in Nodes, task'[n] = "paused" PROVE Spoken(n)'
    BY DEF PausedSpoken
  <1>1. CASE ManualStart \/ Starter \/ EventLoop \/ Goroutine
    <2>1. UNCHANGED task
      <3>1. CASE ManualStart \/ Starter
        BY <3>1 DEF ManualStart, Starter, StartDone, StartFailed, proxyVars
      <3>2. CASE AllPaused \/ Resolve \/ Finalize \/ Save
        BY <3>2 DEF AllPaused, Resolve, Finalize, Save, proxyVars
      <3>3. CASE TaskFailed \/ \E kind, status : NodeEnds(kind, status)
        BY <3>3 DEF TaskFailed, NodeEnds, proxyVars
      <3>4. CASE Goroutine
        BY <3>4 DEF Goroutine, Analyse, SendDecision, SendFailed, proxyVars
      <3>5. QED
        BY <1>1, <3>1, <3>2, <3>3, <3>4 DEF EventLoop
    <2>2. Spoken(n)
      BY <2>1 DEF PausedSpoken
    <2>3. QED
      BY <1>1, <2>2, ServerSpoken
  <1>2. CASE \/ TakeNext
             \/ \E s \in Sessions : Pauser(s) \/ Applier(s)
             \/ \E m \in Nodes : AgentError(m) \/ AgentDone(m)
    BY <1>2, ProxySpoken
  <1>3. CASE LoseCommand \/ LoseEvent \/ Restart
    BY <1>3, FaultCounts DEF LoseCommand, LoseEvent, Restart, Lose, TypeInv
  <1>4. CASE UNCHANGED vars
    BY <1>4 DEF vars, serverVars, proxyVars, PausedSpoken, Spoken, Decided
  <1>5. QED
    BY <1>1, <1>2, <1>3, <1>4 DEF Next

\* As long as nothing is lost and the server is not restarted, a task that a
\* meeting paused has somebody to release it: the meeting, whose decision will
\* cover all its participants, or a decision that has an action for it
\* (PausedIsCovered).
THEOREM PausedIsCoveredCorrect == Spec => []PausedIsCovered
  <1>1. Init => SpokenInv
    BY DEF Init, SpokenInv, PausedSpoken
  <1>2. TypeInv /\ SafeInv /\ SpokenInv /\ [Next]_vars => SpokenInv'
    BY SpokenStep, FaultsGrow DEF SpokenInv, SafeInv, TypeInv
  <1>3. SpokenInv => PausedIsCovered
    BY DEF SpokenInv, PausedSpoken, Spoken, PausedIsCovered
  <1>4. QED
    BY <1>1, <1>2, <1>3, Typed, SafeCorrect, PTL DEF Spec

=============================================================================
