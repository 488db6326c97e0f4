--------------------------- MODULE CloudRun_proofs ---------------------------
(***************************************************************************)
(* Theorems about CloudRun, for any number of tasks, agents, invocations   *)
(* and faults: its types, that a review is asked for only after the work,  *)
(* and that no pending run is deleted before its tasks have their commands. *)
(***************************************************************************)
EXTENDS CloudRun, FiniteSetTheorems, TLAPS

-----------------------------------------------------------------------------
\* Types

\* A saved command is counted.
LEMMA SavedType ==
    ASSUME NEW f \in [Actions -> Nat], NEW S
    PROVE  Saved(f, S) \in [Actions -> Nat]
  BY DEF Saved

LEMMA SaveType ==
    ASSUME TypeOK
    PROVE  \A S : Save(S) => cmds' \in [Actions -> Nat] /\ given' \in [Actions -> Nat]
  BY SavedType DEF Save, TypeOK

\* An invocation that begins is a Call.
LEMMA InvokedType ==
    ASSUME TypeOK,
           NEW kind \in {"completed", "review", "status"},
           NEW about \in Work \cup {M},
           NEW at \in {"begin", "dispatch", "delete", "ask", "read", "write"},
           NEW status \in Status,
           Invoked(kind, about, at, status)
    PROVE  \A c \in calls' : c \in Call
  <1>1. Blank \in Trees
    BY DEF Blank, Trees, Status
  <1>2. QED
    BY <1>1 DEF Invoked, Call, TypeOK

\* A review is decided in two ways.
LEMMA DecideCases ==
    ASSUME NEW c, Decide(c)
    PROVE  \E a \in {merge, rework}, t \in {"complete", "running"} :
              /\ Save({a}) \/ Save({})
              /\ Step(c, [c EXCEPT !.at = "read", !.status = t])
  <1>1. PICK d \in {<<merge, "complete">>, <<rework, "running">>} :
           /\ \/ Save({d[1]}) /\ UNCHANGED faults
              \/ Fault("save") /\ Save({})
           /\ Step(c, [c EXCEPT !.at = "read", !.status = d[2]])
    BY Zenon DEF Decide
  <1>2. CASE d = <<merge, "complete">>
    <2>1. d[1] = merge /\ d[2] = "complete"
      BY <1>2
    <2>2. QED
      BY <1>1, <2>1
  <1>3. CASE d = <<rework, "running">>
    <2>1. d[1] = rework /\ d[2] = "running"
      BY <1>3
    <2>2. QED
      BY <1>1, <2>1
  <1>4. QED
    BY <1>2, <1>3

\* Every variable keeps its type (TypeOK), whichever handlers overlap, end
\* early or are invoked twice.
THEOREM TypeCorrect == Spec => []TypeOK
  <1> USE CloudAssumption
  <1>1. Init => TypeOK
    BY DEF Init, TypeOK, Blank, Trees, Status
  <1>2. TypeOK /\ [Next]_vars => TypeOK'
    <2> SUFFICES ASSUME TypeOK, [Next]_vars PROVE TypeOK'
      OBVIOUS
    <2>1. CASE Start
      <3>1. cmds' \in [Actions -> Nat] /\ given' \in [Actions -> Nat]
        BY <2>1, SaveType DEF Start, StartProposal, StartTasks
      <3>2. run' \subseteq Tasks /\ planned' \subseteq Tasks /\ faults' \in 0 .. FaultBound
        BY <2>1 DEF Start, StartProposal, StartTasks, TypeOK, Fault
      <3>3. QED
        BY <2>1, <3>1, <3>2 DEF Start, TypeOK, proxyVars
    <2>2. CASE \E a \in Actions : Execute(a)
      BY <2>2 DEF Execute, TypeOK
    <2>3. CASE \E w \in Work : Finish(w)
      BY <2>3 DEF Finish, Reports, TypeOK, s3Vars
    <2>4. CASE FailReview
      BY <2>4 DEF FailReview, Reports, TypeOK, s3Vars, Work
    <2>5. CASE \E e \in posts : PushEvent(e)
      <3> PICK e \in posts : PushEvent(e)
        BY <2>5
      <3>1. e.about \in Work
        BY DEF TypeOK
      <3>2. Handling(e) => \A c \in calls' : c \in Call
        BY <3>1, InvokedType, Zenon DEF Handling, Status, TypeOK
      <3>3. \A c \in calls' : c \in Call
        BY <3>2 DEF PushEvent, TypeOK
      <3>4. posts' \subseteq posts /\ faults' \in 0 .. FaultBound
        BY DEF PushEvent, Fault, TypeOK
      <3>5. QED
        BY <3>3, <3>4 DEF PushEvent, TypeOK, s3Vars
    <2>6. CASE \E c \in calls : Handle(c) \/ Crash(c)
      <3> PICK c \in calls : Handle(c) \/ Crash(c)
        BY <2>6
      <3>0. c \in Call
        BY DEF TypeOK
      <3>1. CASE LoadRun(c)
        <4>1. [c EXCEPT !.at = "dispatch", !.nodes = run] \in Call
          BY <3>0 DEF Call, TypeOK
        <4>2. QED
          BY <3>1, <4>1 DEF LoadRun, TypeOK, s3Vars, proxyVars, Step, End
      <3>2. CASE DispatchRun(c)
        <4>1. cmds' \in [Actions -> Nat] /\ given' \in [Actions -> Nat]
          BY <3>2, SaveType DEF DispatchRun
        <4>2. QED
          BY <3>0, <3>2, <4>1 DEF DispatchRun, TypeOK, proxyVars, Step, Call, Fault
      <3>3. CASE DeleteRun(c)
        BY <3>3 DEF DeleteRun, TypeOK, proxyVars, End
      <3>4. CASE CheckMilestone(c)
        <4>1. [c EXCEPT !.at = "ask", !.copy = tree] \in Call
          BY <3>0 DEF Call, TypeOK
        <4>2. QED
          BY <3>4, <4>1 DEF CheckMilestone, TypeOK, s3Vars, proxyVars, Step, End
      <3>5. CASE AskReview(c)
        <4>1. cmds' \in [Actions -> Nat] /\ given' \in [Actions -> Nat]
          BY <3>5, SaveType DEF AskReview
        <4>2. [c.copy EXCEPT ![M] = "reviewing"] \in Trees
          BY <3>0 DEF Call, Trees, Status
        <4>3. [c EXCEPT !.at = "write", !.copy = [c.copy EXCEPT ![M] = "reviewing"]] \in Call
          BY <3>0, <4>2 DEF Call
        <4>4. [c EXCEPT !.at = "write", !.copy[M] = "reviewing"]
              = [c EXCEPT !.at = "write", !.copy = [c.copy EXCEPT ![M] = "reviewing"]]
          BY <3>0 DEF Call
        <4>5. QED
          BY <3>5, <4>1, <4>3, <4>4 DEF AskReview, TypeOK, proxyVars, Step, Fault
      <3>6. CASE Decide(c)
        <4>1. cmds' \in [Actions -> Nat] /\ given' \in [Actions -> Nat]
          BY <3>6, DecideCases, SaveType
        <4>2. \A s \in {"complete", "running"} : [c EXCEPT !.at = "read", !.status = s] \in Call
          BY <3>0 DEF Call, Status
        <4>3. QED
          <5>1. \E t \in {"complete", "running"} :
                   Step(c, [c EXCEPT !.at = "read", !.status = t])
            BY <3>6, DecideCases
          <5>2. \A k \in calls' : k \in Call
            BY <4>2, <5>1 DEF Step, TypeOK
          <5>3. faults' \in 0 .. FaultBound
            BY <3>6 DEF Decide, Fault, TypeOK
          <5>4. QED
            BY <3>6, <4>1, <5>2, <5>3 DEF Decide, TypeOK, proxyVars
      <3>7. CASE ReadTree(c)
        <4>1. [tree EXCEPT ![c.about] = c.status] \in Trees
          BY <3>0 DEF Call, TypeOK, Trees
        <4>2. [c EXCEPT !.at = "write", !.copy = [tree EXCEPT ![c.about] = c.status]] \in Call
          BY <3>0, <4>1 DEF Call
        <4>3. QED
          BY <3>7, <4>2 DEF ReadTree, TypeOK, s3Vars, proxyVars, Step
      <3>8. CASE WriteTree(c)
        BY <3>0, <3>8 DEF WriteTree, TypeOK, proxyVars, End, Call
      <3>9. CASE Crash(c)
        BY <3>9 DEF Crash, TypeOK, s3Vars, proxyVars, End, Fault
      <3>10. QED
        BY <3>1, <3>2, <3>3, <3>4, <3>5, <3>6, <3>7, <3>8, <3>9 DEF Handle
    <2>7. CASE \E n \in Tasks \cup {M} : SyncNode(n)
      <3> PICK n \in Tasks \cup {M} : SyncNode(n)
        BY <2>7
      <3>1. n \in Work \cup {M} /\ "active" \in Status /\ "complete" \in Status
        BY DEF Work, Status
      <3>2. \A c \in calls' : c \in Call
        BY <3>1, InvokedType, Zenon DEF SyncNode
      <3>3. QED
        BY <3>2 DEF SyncNode, TypeOK, s3Vars, proxyVars
    <2>8. CASE UNCHANGED vars
      BY <2>8 DEF TypeOK, vars, s3Vars, proxyVars
    <2>9. QED
      BY <2>1, <2>2, <2>3, <2>4, <2>5, <2>6, <2>7, <2>8 DEF Next
  <1>3. QED
    BY <1>1, <1>2, PTL DEF Spec

-----------------------------------------------------------------------------
\* Reviews

\* A node that counts as complete in tree.json, in the copy of a handler or in
\* what a handler is about to write is done in the proxy, and so are all when
\* a handler is to ask for the review.
Backed(st) == \A n \in Tasks : st[n] = "complete" => n \in done

Earned ==
    /\ Backed(tree)
    /\ \A c \in calls :
          /\ Backed(c.copy)
          /\ c.kind = "review" => c.about = M
          /\ c.about \in Tasks /\ c.status = "complete" => c.about \in done
          /\ c.at = "ask" => Tasks \subseteq done
    /\ ReviewAfterWork

LEMMA NoTask == M \notin Tasks
  BY CloudAssumption DEF M, Tasks

\* A handler's step keeps Earned when what it saves is no review and its
\* next state, if it has one, is backed.
LEMMA CallKeeps ==
    ASSUME Earned, done' = done, Backed(tree'),
           ReviewAfterWork',
           \A d \in calls' \ calls :
              /\ Backed(d.copy)
              /\ d.kind = "review" => d.about = M
              /\ d.about \in Tasks /\ d.status = "complete" => d.about \in done
              /\ d.at = "ask" => Tasks \subseteq done
    PROVE  Earned'
  BY DEF Earned, Backed

\* An invocation that begins is backed.
LEMMA InvokedKeeps ==
    ASSUME Earned, NEW kind, NEW about, NEW at, NEW status,
           Invoked(kind, about, at, status),
           done' = done, tree' = tree, given' = given,
           kind = "review" => about = M,
           about \in Tasks /\ status = "complete" => about \in done,
           at # "ask"
    PROVE  Earned'
  <1>1. PICK i \in 1 .. CallBound :
           calls' = calls \cup {[id |-> i, kind |-> kind, about |-> about, at |-> at,
                                 status |-> status, copy |-> Blank, nodes |-> {}]}
    BY Zenon DEF Invoked
  <1>2. Backed(Blank)
    BY DEF Backed, Blank
  <1>3. QED
    BY <1>1, <1>2, CallKeeps DEF Earned, ReviewAfterWork, Backed

\* A review is asked for only when every task of the milestone is done in the
\* proxy, however the copies of tree.json overwrite each other
\* (ReviewAfterWork).
THEOREM ReviewEarned == Spec => []ReviewAfterWork
  <1> USE CloudAssumption
  <1>1. Init => Earned
    BY DEF Init, Earned, Backed, Blank, ReviewAfterWork, Actions, Work
  <1>2. TypeOK /\ Earned /\ [Next]_vars => Earned'
    <2> SUFFICES ASSUME TypeOK, Earned, [Next]_vars PROVE Earned'
      OBVIOUS
    <2>0. \A S : Save(S) /\ review \notin S => given'[review] = given[review]
      BY DEF Save, Saved, Actions, Work, TypeOK
    <2>1. CASE Start
      <3>1. \A S : FirstAgents(S) \subseteq S
        BY DEF FirstAgents
      <3>2. given'[review] = given[review]
        BY <2>0, <2>1, <3>1, NamesAssumption DEF Start, StartProposal, StartTasks
      <3>3. QED
        BY <2>1, <3>2 DEF Start, Earned, Backed, ReviewAfterWork, proxyVars
    <2>2. CASE \E a \in Actions : Execute(a)
      BY <2>2 DEF Execute, Earned, Backed, ReviewAfterWork
    <2>3. CASE \E w \in Work : Finish(w)
      BY <2>3 DEF Finish, Earned, Backed, ReviewAfterWork, s3Vars
    <2>4. CASE FailReview
      BY <2>4 DEF FailReview, Earned, Backed, ReviewAfterWork, s3Vars
    <2>5. CASE \E e \in posts : PushEvent(e)
      <3> PICK e \in posts : PushEvent(e)
        BY <2>5
      <3>1. CASE Handling(e)
        <4>1. done' = done /\ tree' = tree /\ given' = given
          BY DEF PushEvent, s3Vars
        <4>2. CASE e.type = "task.completed"
          BY <3>1, <4>1, <4>2, InvokedKeeps, Zenon DEF Handling
        <4>3. CASE e.type = "review.completed"
          BY <3>1, <4>1, <4>3, InvokedKeeps, NoTask, Zenon DEF Handling
        <4>4. CASE e.type = "review.failed"
          BY <3>1, <4>1, <4>4, InvokedKeeps, NoTask, Zenon DEF Handling
        <4>5. QED
          BY <4>2, <4>3, <4>4 DEF TypeOK
      <3>2. CASE UNCHANGED calls
        BY <3>2 DEF PushEvent, Earned, Backed, ReviewAfterWork, s3Vars
      <3>3. QED
        BY <3>1, <3>2 DEF PushEvent
    <2>6. CASE \E c \in calls : Handle(c) \/ Crash(c)
      <3> PICK c \in calls : Handle(c) \/ Crash(c)
        BY <2>6
      <3>0. c \in Call
        BY DEF TypeOK
      <3>1. CASE LoadRun(c)
        <4>1. \A d \in calls' \ calls : d = [c EXCEPT !.at = "dispatch", !.nodes = run]
          BY <3>1 DEF LoadRun, Step, End
        <4>2. QED
          BY <3>0, <3>1, <4>1, CallKeeps
          DEF LoadRun, Call, Earned, ReviewAfterWork, Backed, s3Vars, proxyVars
      <3>2. CASE DispatchRun(c)
        <4>1. \A S \in SUBSET Tasks : review \notin FirstAgents(S)
          BY NamesAssumption DEF FirstAgents
        <4>2. given'[review] = given[review]
          BY <2>0, <3>0, <3>2, <4>1 DEF DispatchRun, Call
        <4>3. \A d \in calls' \ calls : d = [c EXCEPT !.at = "delete"]
          BY <3>2 DEF DispatchRun, Step
        <4>4. QED
          BY <3>0, <3>2, <4>2, <4>3, CallKeeps
          DEF DispatchRun, Call, Earned, ReviewAfterWork, Backed, proxyVars
      <3>3. CASE DeleteRun(c)
        BY <3>3 DEF DeleteRun, End, Earned, Backed, ReviewAfterWork, proxyVars
      <3>4. CASE CheckMilestone(c)
        <4>1. \A d \in calls' \ calls :
                 /\ d = [c EXCEPT !.at = "ask", !.copy = tree]
                 /\ \A n \in Tasks : tree[n] = "complete"
          BY <3>4 DEF CheckMilestone, Step, End, AllComplete
        <4>2. QED
          BY <3>0, <3>4, <4>1, CallKeeps
          DEF CheckMilestone, Call, Earned, ReviewAfterWork, Backed, s3Vars, proxyVars
      <3>5. CASE AskReview(c)
        <4>1. Tasks \subseteq done
          BY <3>5 DEF AskReview, Earned
        <4>2. ReviewAfterWork' /\ Backed(tree') /\ done' = done
          BY <3>5, <4>1 DEF AskReview, Earned, ReviewAfterWork, Backed, proxyVars
        <4>3. \A d \in calls' \ calls : d = [c EXCEPT !.at = "write", !.copy[M] = "reviewing"]
          BY <3>5 DEF AskReview, Step
        <4>4. LET d == [c EXCEPT !.at = "write", !.copy[M] = "reviewing"]
              IN  d.kind = c.kind /\ d.about = c.about /\ d.status = c.status
          BY <3>0 DEF Call
        <4>5. \A d \in calls' \ calls : d.kind = "review" => d.about = M
          BY <4>3, <4>4 DEF Earned
        <4>6. QED
          BY <4>1, <4>2, <4>5, CallKeeps DEF Backed, Earned, TypeOK, Call
      <3>6. CASE Decide(c)
        <4>1. PICK a \in {merge, rework}, t \in {"complete", "running"} :
                 /\ Save({a}) \/ Save({})
                 /\ Step(c, [c EXCEPT !.at = "read", !.status = t])
          BY <3>6, DecideCases
        <4>2. given'[review] = given[review]
          <5>1. review \notin {a} /\ review \notin {}
            BY NamesAssumption
          <5>2. QED
            BY <2>0, <4>1, <5>1
        <4>3. \A d \in calls' \ calls : d = [c EXCEPT !.at = "read", !.status = t]
          BY <4>1 DEF Step
        <4>4. c.about = M
          BY <3>6 DEF Decide, Earned
        <4>5. LET d == [c EXCEPT !.at = "read", !.status = t]
              IN  d.copy = c.copy /\ d.about = c.about /\ d.at = "read"
          BY <3>0 DEF Call
        <4>6. \A d \in calls' \ calls : d.copy = c.copy /\ d.about = M /\ d.at = "read"
          BY <4>3, <4>4, <4>5
        <4>7. ReviewAfterWork' /\ Backed(tree') /\ done' = done
          BY <3>6, <4>2 DEF Decide, Earned, ReviewAfterWork, Backed, proxyVars
        <4>8. Backed(c.copy)
          BY DEF Earned
        <4>9. QED
          BY <4>6, <4>7, <4>8, CallKeeps, NoTask
      <3>7. CASE ReadTree(c)
        <4> DEFINE copy == [tree EXCEPT ![c.about] = c.status]
        <4>1. Backed(copy)
          BY DEF Backed, Earned, TypeOK, Trees
        <4>2. \A d \in calls' \ calls : d = [c EXCEPT !.at = "write", !.copy = copy]
          BY <3>7 DEF ReadTree, Step
        <4>3. \A d \in calls' \ calls :
                 /\ d.copy = copy /\ d.at = "write"
                 /\ d.kind = c.kind /\ d.about = c.about /\ d.status = c.status
          BY <3>0, <4>2 DEF Call
        <4>4. QED
          BY <3>7, <4>1, <4>3, CallKeeps
          DEF ReadTree, Earned, ReviewAfterWork, Backed, s3Vars, proxyVars
      <3>8. CASE WriteTree(c)
        BY <3>8 DEF WriteTree, End, Earned, Backed, ReviewAfterWork, proxyVars
      <3>9. CASE Crash(c)
        BY <3>9 DEF Crash, End, Earned, Backed, ReviewAfterWork, s3Vars, proxyVars
      <3>10. QED
        BY <3>1, <3>2, <3>3, <3>4, <3>5, <3>6, <3>7, <3>8, <3>9 DEF Handle
    <2>7. CASE \E n \in Tasks \cup {M} : SyncNode(n)
      <3> PICK n \in Tasks \cup {M} : SyncNode(n)
        BY <2>7
      <3>1. done' = done /\ tree' = tree /\ given' = given
        BY DEF SyncNode, s3Vars, proxyVars
      <3>2. CASE Invoked("status", n, "read", "active")
        BY <3>1, <3>2, InvokedKeeps, Zenon
      <3>3. CASE Invoked("status", n, "read", "complete") /\ (n \in Tasks => n \in done)
        BY <3>1, <3>3, InvokedKeeps, Zenon
      <3>4. QED
        BY <3>2, <3>3, NoTask DEF SyncNode
    <2>8. CASE UNCHANGED vars
      BY <2>8 DEF vars, s3Vars, proxyVars, Earned, Backed, ReviewAfterWork
    <2>9. QED
      BY <2>1, <2>2, <2>3, <2>4, <2>5, <2>6, <2>7, <2>8 DEF Next
  <1>3. Earned => ReviewAfterWork
    BY DEF Earned
  <1>4. QED
    BY <1>1, <1>2, <1>3, TypeCorrect, PTL DEF Spec

-----------------------------------------------------------------------------
\* Pending runs

\* As many tasks of the pending run have their command as the limit allows,
\* less those that could not be saved.
Quota ==
    Cardinality({n \in planned : given[n] > 0}) + faults
        >= Cardinality(FirstAgents(planned))

\* A handler works on the run that was planned, and deletes it only when its
\* tasks have their commands.
Kept ==
    /\ run \in {{}, planned}
    /\ started = "no" => planned = {}
    /\ \A c \in calls :
          /\ c.at \in {"dispatch", "delete"} => planned # {}
          /\ c.at = "dispatch" => c.nodes = planned
          /\ c.at = "delete" => Quota
    /\ planned # {} /\ run = {} => Quota

LEMMA FiniteRun == TypeOK => IsFiniteSet(planned)
  <1>1. IsFiniteSet(Tasks)
    BY FS_Interval, CloudAssumption DEF Tasks
  <1>2. QED
    BY <1>1, FS_Subset DEF TypeOK

\* The commands of the planned tasks, all but at most one of which the last
\* fault has kept from being saved, make up the quota.
LEMMA QuotaReached ==
    ASSUME TypeOK, planned # {}, planned' = planned,
           \/ Save(FirstAgents(planned)) /\ UNCHANGED faults
           \/ Fault("save") /\ \E n \in planned : Save(FirstAgents(planned \ {n}))
    PROVE  Quota'
  <1> USE CloudAssumption
  <1> DEFINE had == {n \in planned : given'[n] > 0}
             all == FirstAgents(planned)
  <1>1. IsFiniteSet(planned)
    BY FiniteRun
  <1>2. IsFiniteSet(had) /\ IsFiniteSet(all) /\ all \subseteq planned
    BY <1>1, FS_Subset DEF FirstAgents
  <1>3. Cardinality(had) \in Nat /\ Cardinality(all) \in Nat /\ faults \in Nat
    BY <1>2, FS_CardinalityType DEF TypeOK
  <1>4. \A n \in planned : \A S : Save(S) /\ n \in S => given'[n] > 0
    BY DEF Save, Saved, TypeOK, Actions, Work
  <1>5. CASE Save(all) /\ UNCHANGED faults
    <2>1. all \subseteq had
      BY <1>2, <1>4, <1>5
    <2>2. Cardinality(all) <= Cardinality(had)
      BY <1>2, <2>1, FS_Subset
    <2>3. QED
      BY <1>3, <1>5, <2>2 DEF Quota
  <1>6. ASSUME Fault("save"), NEW n \in planned, Save(FirstAgents(planned \ {n}))
        PROVE  Quota'
    <2>1. all \ {n} \subseteq FirstAgents(planned \ {n})
      <3> SUFFICES ASSUME NEW k \in all, k # n
                   PROVE  k \in FirstAgents(planned \ {n})
        OBVIOUS
      <3>1. {j \in planned \ {n} : j < k} \subseteq {j \in planned : j < k}
        OBVIOUS
      <3>2. IsFiniteSet({j \in planned : j < k})
        BY <1>1, FS_Subset
      <3>3. /\ Cardinality({j \in planned \ {n} : j < k}) <= Cardinality({j \in planned : j < k})
            /\ Cardinality({j \in planned \ {n} : j < k}) \in Nat
            /\ Cardinality({j \in planned : j < k}) \in Nat
        BY <3>1, <3>2, FS_Subset, FS_CardinalityType
      <3>4. k \in planned \ {n} /\ Cardinality({j \in planned : j < k}) < MaxAgents
        BY DEF FirstAgents
      <3>5. QED
        BY <3>3, <3>4 DEF FirstAgents
    <2>2. all \ {n} \subseteq had
      BY <1>2, <1>4, <1>6, <2>1
    <2>3. Cardinality(all \ {n}) <= Cardinality(had)
      BY <1>2, <2>2, FS_Subset
    <2>4. Cardinality(all) <= Cardinality(all \ {n}) + 1
      <3>1. Cardinality(all \ {n}) = IF n \in all THEN Cardinality(all) - 1 ELSE Cardinality(all)
        BY <1>2, FS_RemoveElement
      <3>2. QED
        BY <1>3, <3>1
    <2>5. /\ Cardinality(all \ {n}) \in Nat
          /\ faults' = faults + 1
      BY <1>2, <1>6, FS_RemoveElement, FS_CardinalityType, FS_Subset DEF Fault
    <2>6. QED
      BY <1>3, <2>3, <2>4, <2>5 DEF Quota
  <1>7. QED
    BY <1>5, <1>6

\* A quota that is reached stays so: commands are never taken back.
LEMMA QuotaStays ==
    ASSUME TypeOK, Quota, planned' = planned, faults' \in {faults, faults + 1},
           \A n \in Tasks : given[n] > 0 => given'[n] > 0
    PROVE  Quota'
  <1> USE CloudAssumption
  <1>1. IsFiniteSet(planned)
    BY FiniteRun
  <1>2. {n \in planned : given[n] > 0} \subseteq {n \in planned : given'[n] > 0}
    BY DEF TypeOK
  <1>3. IsFiniteSet({n \in planned : given'[n] > 0})
    BY <1>1, FS_Subset
  <1>4. Cardinality({n \in planned : given[n] > 0}) <= Cardinality({n \in planned : given'[n] > 0})
    BY <1>2, <1>3, FS_Subset
  <1>5. /\ Cardinality({n \in planned : given[n] > 0}) \in Nat
        /\ Cardinality({n \in planned : given'[n] > 0}) \in Nat
    BY <1>2, <1>3, FS_Subset, FS_CardinalityType
  <1>6. Cardinality(FirstAgents(planned)) \in Nat /\ faults \in Nat
    <2>1. FirstAgents(planned) \subseteq planned
      BY DEF FirstAgents
    <2>2. IsFiniteSet(FirstAgents(planned))
      BY <1>1, <2>1, FS_Subset
    <2>3. QED
      BY <2>2, FS_CardinalityType DEF TypeOK
  <1>7. QED
    BY <1>4, <1>5, <1>6 DEF Quota

LEMMA GivenGrows ==
    ASSUME TypeOK
    PROVE  \A S : Save(S) => \A n \in Tasks : given[n] > 0 => given'[n] > 0
  BY DEF Save, Saved, TypeOK, Actions, Work

\* Kept holds after a step that adds at most one invocation, which neither
\* dispatches nor deletes, and changes no run.
LEMMA KeptStays ==
    ASSUME TypeOK, Kept, planned' = planned, run' = run, started' = started,
           faults' \in {faults, faults + 1},
           \A n \in Tasks : given[n] > 0 => given'[n] > 0,
           \A d \in calls' \ calls : d.at \notin {"dispatch", "delete"}
    PROVE  Kept'
  <1>1. Quota => Quota'
    BY QuotaStays
  <1>2. QED
    BY <1>1 DEF Kept

\* A pending run is deleted only when its tasks have their commands, up to
\* the limit and less those that could not be saved (RunKept).
THEOREM RunIsKept == Spec => []RunKept
  <1> USE CloudAssumption
  <1>1. Init => Kept
    BY DEF Init, Kept
  <1>2. TypeOK /\ Kept /\ [Next]_vars => Kept'
    <2> SUFFICES ASSUME TypeOK, Kept, [Next]_vars PROVE Kept'
      OBVIOUS
    <2>0. given' = given => \A n \in Tasks : given[n] > 0 => given'[n] > 0
      BY DEF TypeOK, Actions, Work
    <2>1. CASE Start
      <3>1. planned' = run' \/ (planned' = planned /\ run' = run)
        BY <2>1 DEF Start, StartProposal, StartTasks
      <3>2. planned = {} /\ started' # "no" /\ calls' = calls
        BY <2>1 DEF Start, Kept
      <3>3. QED
        BY <3>1, <3>2 DEF Kept
    <2>2. CASE \E a \in Actions : Execute(a)
      BY <2>0, <2>2, KeptStays DEF Execute
    <2>3. CASE \E w \in Work : Finish(w)
      BY <2>0, <2>3, KeptStays DEF Finish, s3Vars
    <2>4. CASE FailReview
      BY <2>0, <2>4, KeptStays DEF FailReview, s3Vars, Fault
    <2>5. CASE \E e \in posts : PushEvent(e)
      <3> PICK e \in posts : PushEvent(e)
        BY <2>5
      <3>1. \A kind, about, status : Invoked(kind, about, "begin", status) \/ Invoked(kind, about, "read", status)
              => \A d \in calls' \ calls : d.at \notin {"dispatch", "delete"}
        BY DEF Invoked
      <3>2. Handling(e) => \A d \in calls' \ calls : d.at \notin {"dispatch", "delete"}
        BY <3>1, Zenon DEF Handling, TypeOK
      <3>3. QED
        BY <2>0, <3>2, KeptStays DEF PushEvent, s3Vars, Fault
    <2>6. CASE \E c \in calls : Handle(c) \/ Crash(c)
      <3> PICK c \in calls : Handle(c) \/ Crash(c)
        BY <2>6
      <3>0. c \in Call
        BY DEF TypeOK
      <3>1. CASE LoadRun(c)
        <4>1. run # {} => run = planned
          BY DEF Kept
        <4>2. LET d == [c EXCEPT !.at = "dispatch", !.nodes = run]
              IN  d.at = "dispatch" /\ d.nodes = run
          BY <3>0 DEF Call
        <4>3. \A d \in calls' \ calls : run # {} /\ d.at = "dispatch" /\ d.nodes = run
          BY <3>1, <4>2 DEF LoadRun, Step, End
        <4>4. UNCHANGED <<run, started, planned, given, faults>>
          BY <3>1 DEF LoadRun, s3Vars
        <4>5. QED
          BY <4>1, <4>3, <4>4 DEF Kept, Quota
      <3>2. CASE DispatchRun(c)
        <4>1. c.nodes = planned /\ planned # {} /\ planned' = planned
          BY <3>2 DEF DispatchRun, Kept
        <4>2. Quota'
          BY <3>2, <4>1, QuotaReached DEF DispatchRun
        <4>3. [c EXCEPT !.at = "delete"].at = "delete"
          BY <3>0 DEF Call
        <4>4. \A d \in calls' : d \in calls \/ d.at = "delete"
          BY <3>2, <4>3 DEF DispatchRun, Step
        <4>5. UNCHANGED <<run, started, planned>>
          BY <3>2 DEF DispatchRun
        <4>6. QED
          BY <4>1, <4>2, <4>4, <4>5 DEF Kept
      <3>3. CASE DeleteRun(c)
        BY <3>3 DEF DeleteRun, End, Kept, Quota
      <3>4. CASE CheckMilestone(c)
        <4>1. [c EXCEPT !.at = "ask", !.copy = tree].at = "ask"
          BY <3>0 DEF Call
        <4>2. QED
          BY <2>0, <3>4, <4>1, KeptStays DEF CheckMilestone, Step, End, s3Vars
      <3>5. CASE AskReview(c)
        <4>1. [c EXCEPT !.at = "write", !.copy[M] = "reviewing"].at = "write"
          BY <3>0 DEF Call
        <4>2. \A n \in Tasks : given[n] > 0 => given'[n] > 0
          BY <3>5, GivenGrows DEF AskReview
        <4>3. QED
          BY <3>5, <4>1, <4>2, KeptStays DEF AskReview, Step, Fault
      <3>6. CASE Decide(c)
        <4>1. PICK t : Step(c, [c EXCEPT !.at = "read", !.status = t])
          BY <3>6, DecideCases
        <4>2. \A d \in calls' \ calls : d.at \notin {"dispatch", "delete"}
          <5>1. [c EXCEPT !.at = "read", !.status = t].at = "read"
            BY <3>0 DEF Call
          <5>2. QED
            BY <4>1, <5>1 DEF Step
        <4>3. \A n \in Tasks : given[n] > 0 => given'[n] > 0
          BY <3>6, GivenGrows, DecideCases
        <4>4. UNCHANGED <<run, started, planned>> /\ faults' \in {faults, faults + 1}
          BY <3>6 DEF Decide, Fault
        <4>5. QED
          BY <4>2, <4>3, <4>4, KeptStays
      <3>7. CASE ReadTree(c)
        <4>1. \A t : [c EXCEPT !.at = "write", !.copy = t].at = "write"
          BY <3>0 DEF Call
        <4>2. QED
          BY <2>0, <3>7, <4>1, KeptStays DEF ReadTree, Step, s3Vars
      <3>8. CASE WriteTree(c)
        BY <2>0, <3>8, KeptStays DEF WriteTree, End
      <3>9. CASE Crash(c)
        BY <2>0, <3>9, KeptStays DEF Crash, End, s3Vars, Fault
      <3>10. QED
        BY <3>1, <3>2, <3>3, <3>4, <3>5, <3>6, <3>7, <3>8, <3>9 DEF Handle
    <2>7. CASE \E n \in Tasks \cup {M} : SyncNode(n)
      <3>1. \A d \in calls' \ calls : d.at = "read"
        BY <2>7 DEF SyncNode, Invoked
      <3>2. QED
        BY <2>0, <2>7, <3>1, KeptStays DEF SyncNode, s3Vars
    <2>8. CASE UNCHANGED vars
      BY <2>0, <2>8, KeptStays DEF vars, s3Vars
    <2>9. QED
      BY <2>1, <2>2, <2>3, <2>4, <2>5, <2>6, <2>7, <2>8 DEF Next
  <1>3. Kept => RunKept
    BY DEF Kept, RunKept, Quota
  <1>4. QED
    BY <1>1, <1>2, <1>3, TypeCorrect, PTL DEF Spec
=============================================================================
