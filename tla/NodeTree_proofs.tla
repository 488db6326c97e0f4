--------------------------- MODULE NodeTree_proofs ---------------------------
(***************************************************************************)
(* Theorems about NodeTree, for any plan, any number of agents and review  *)
(* cycles, and any faults.                                                 *)
(***************************************************************************)
EXTENDS NodeTree, SequenceTheorems, TLAPS

-----------------------------------------------------------------------------
\* What a goroutine may have to do

Uids == Named \cup Reviewed

\* What follows a task that was dispatched.
Then == ({"mark"} \X Uids \X {"running"}) \cup ({"occupy"} \X Work)

Ops ==
    ({"mark"} \X Uids \X (Status \ {"absent"}))
    \cup ({"cycle"} \X Reviewed \X (1 .. MaxReviewCycles))
    \cup ({"touch", "history", "release", "check"} \X Uids)
    \cup ({"occupy"} \X Work)
    \cup ({"trigger"} \X Named)
    \cup ({"redo", "review", "ask"} \X Reviewed)
    \cup ({"merge"} \X Milestones)
    \cup ({"dispatch"} \X (SUBSET Tasks) \X Nat)
    \cup ({"create"} \X Named \X Seq(Then))
    \cup ({"put"} \X Tree)
    \cup ({"putOccupied"} \X (SUBSET Named))
    \cup ({"retry"} \X (SUBSET Reviewed) \X Tree)
    \cup ({"pick"} \X Tree)
    \cup {<<what>> : what \in {"prepare", "frontiers", "dispatchAll", "openRecords",
                               "next", "ifNoMeeting"}}

\* All tasks that the plan gives to n, a milestone, were reported complete.
Ready(n, r) == n \in Milestones => Tasks \cap Below(n) \subseteq r

\* A version of tree.json shows no task complete that was not reported.
Backed(t, r) == \A n \in Tasks : /\ t.st[n] # "absent"
                                 /\ t.st[n] = "complete" => n \in r

\* An operation writes no such version, and reviews and merges what is ready.
Fine(op, r) ==
    /\ op[1] = "mark" /\ op[2] \in Tasks /\ op[3] = "complete" => op[2] \in r
    /\ op[1] = "put" => Backed(op[2], r)
    /\ op[1] \in {"review", "ask", "merge"} => Ready(op[2], r)
    /\ op[1] = "retry" => \A n \in op[2] : Ready(n, r)

Good(r) == {op \in Ops : Fine(op, r)}

\* A review that was done, well or not, is of a node that was ready for it.
Told(r) == {e \in Event : e.kind \in {"reviewed", "reviewFailed", "approved", "needsWork"}
                          => Ready(e.node, r)}

\* The inductive invariant: the tree and what may be written to it show only
\* what was reported, and everything on the way from the check of a milestone
\* to its merge is about a milestone that was ready.
IInv ==
    /\ TypeOK
    /\ Backed(tree, reported)
    /\ todo \in [Goroutines -> Seq(Good(reported))]
    /\ queue \in Seq(Told(reported))
    /\ \A n \in unsent : Ready(n, reported)
    /\ \A n \in Reviewed : reviewers[n] > 0 \/ jobs[<<"review", n>>] > 0 => Ready(n, reported)
    /\ \A n \in Milestones : merged[n] > 0 => Ready(n, reported)

\* An operation stays as it should be while more tasks are reported.
LEMMA GoodGrows ==
    ASSUME NEW r, NEW q, r \subseteq q
    PROVE  /\ Good(r) \subseteq Good(q) /\ Told(r) \subseteq Told(q)
           /\ \A n : Ready(n, r) => Ready(n, q)
           /\ \A t : Backed(t, r) => Backed(t, q)
  <1>1. /\ \A n : Ready(n, r) => Ready(n, q)
        /\ \A t : Backed(t, r) => Backed(t, q)
    BY DEF Ready, Backed
  <1>2. Told(r) \subseteq Told(q)
    BY <1>1 DEF Told
  <1>3. ASSUME NEW op, Fine(op, r) PROVE Fine(op, q)
    BY <1>1, <1>3 DEF Fine
  <1>4. QED
    BY <1>1, <1>2, <1>3 DEF Good

\* A goroutine does its first operation.
LEMMA ReplaceType ==
    ASSUME NEW G, NEW g \in Goroutines, todo \in [Goroutines -> Seq(G)], todo[g] # <<>>,
           NEW ops \in Seq(G), Replace(g, ops)
    PROVE  todo' \in [Goroutines -> Seq(G)]
  <1>1. Tail(todo[g]) \in Seq(G)
    BY HeadTailProperties
  <1>2. ops \o Tail(todo[g]) \in Seq(G)
    BY <1>1, ConcatProperties
  <1>3. QED
    BY <1>2 DEF Replace

LEMMA DoneType ==
    ASSUME NEW G, NEW g \in Goroutines, todo \in [Goroutines -> Seq(G)], todo[g] # <<>>, Done(g)
    PROVE  todo' \in [Goroutines -> Seq(G)]
  BY ReplaceType, EmptySeq DEF Done

\* The operation at hand.
LEMMA OpType ==
    ASSUME IInv, NEW g \in Goroutines, NEW what, Doing(g, what)
    PROVE  /\ Op(g) \in Good(reported) /\ Op(g) \in Ops /\ Fine(Op(g), reported)
           /\ Op(g)[1] = what /\ todo[g] # <<>>
  <1>1. todo[g] # <<>> /\ Op(g)[1] = what /\ todo[g] \in Seq(Good(reported))
    BY DEF IInv, Doing
  <1>2. Op(g) \in Good(reported)
    BY <1>1, HeadTailProperties DEF Op
  <1>3. QED
    BY <1>1, <1>2 DEF Good

\* What the operations are about.
LEMMA Operands ==
    ASSUME NEW op \in Ops
    PROVE  /\ op[1] = "mark" => op[2] \in Uids /\ op[3] \in Status \ {"absent"}
           /\ op[1] = "cycle" => op[2] \in Reviewed /\ op[3] \in 1 .. MaxReviewCycles
           /\ op[1] \in {"touch", "history", "release", "check"} => op[2] \in Uids
           /\ op[1] = "occupy" => op[2] \in Work
           /\ op[1] = "trigger" => op[2] \in Named
           /\ op[1] \in {"redo", "review", "ask"} => op[2] \in Reviewed
           /\ op[1] = "merge" => op[2] \in Milestones
           /\ op[1] = "dispatch" => op[2] \subseteq Tasks /\ op[3] \in Nat
           /\ op[1] = "create" => op[2] \in Named /\ op[3] \in Seq(Then)
           /\ op[1] = "put" => op[2] \in Tree
           /\ op[1] = "putOccupied" => op[2] \subseteq Named
           /\ op[1] = "retry" => op[2] \subseteq Reviewed /\ op[3] \in Tree
           /\ op[1] = "pick" => op[2] \in Tree
  <1>1. op[1] = "mark" => op[2] \in Uids /\ op[3] \in Status \ {"absent"}
    BY DEF Ops
  <1>2. op[1] = "cycle" => op[2] \in Reviewed /\ op[3] \in 1 .. MaxReviewCycles
    BY DEF Ops
  <1>3. op[1] \in {"touch", "history", "release", "check"} => op[2] \in Uids
    BY DEF Ops
  <1>4. op[1] = "occupy" => op[2] \in Work
    BY DEF Ops
  <1>5. op[1] = "trigger" => op[2] \in Named
    BY DEF Ops
  <1>6. op[1] \in {"redo", "review", "ask"} => op[2] \in Reviewed
    BY DEF Ops
  <1>7. op[1] = "merge" => op[2] \in Milestones
    BY DEF Ops
  <1>8. op[1] = "dispatch" => op[2] \subseteq Tasks /\ op[3] \in Nat
    BY DEF Ops
  <1>9. op[1] = "create" => op[2] \in Named /\ op[3] \in Seq(Then)
    BY DEF Ops
  <1>10. op[1] = "put" => op[2] \in Tree
    BY DEF Ops
  <1>11. op[1] = "putOccupied" => op[2] \subseteq Named
    BY DEF Ops
  <1>12. op[1] = "retry" => op[2] \subseteq Reviewed /\ op[3] \in Tree
    BY DEF Ops
  <1>13. op[1] = "pick" => op[2] \in Tree
    BY DEF Ops
  <1>14. QED
    BY <1>1, <1>2, <1>3, <1>4, <1>5, <1>6, <1>7, <1>8, <1>9, <1>10, <1>11, <1>12, <1>13

\* Operations that are as they should be.
LEMMA GoodOps ==
  ASSUME NEW r
  PROVE
    /\ \A n \in Uids, s \in Status \ {"absent"} :
          (n \in Tasks /\ s = "complete" => n \in r) => Mark(n, s) \in Good(r)
    /\ \A n \in Reviewed, c \in 1 .. MaxReviewCycles : Cycle(n, c) \in Good(r)
    /\ \A n \in Uids : {Touch(n), History(n), Release(n), Check(n)} \subseteq Good(r)
    /\ \A n \in Work : Occupy(n) \in Good(r)
    /\ \A n \in Named : Trigger(n) \in Good(r)
    /\ \A n \in Reviewed : AddRedo(n) \in Good(r)
    /\ \A n \in Reviewed : Ready(n, r) => {Review(n), Ask(n)} \subseteq Good(r)
    /\ \A m \in Milestones : Ready(m, r) => Merge(m) \in Good(r)
    /\ \A ns \in SUBSET Tasks, c \in Nat : Dispatch(ns, c) \in Good(r)
    /\ \A n \in Named, then \in Seq(Then) : Create(n, then) \in Good(r)
    /\ \A t \in Tree : /\ <<"pick", t>> \in Good(r)
                       /\ Backed(t, r) => <<"put", t>> \in Good(r)
                       /\ \A ns \in SUBSET Reviewed :
                             (\A n \in ns : Ready(n, r)) => <<"retry", ns, t>> \in Good(r)
    /\ \A ns \in SUBSET Named : <<"putOccupied", ns>> \in Good(r)
    /\ {Prepare, <<"frontiers">>, DispatchAll, OpenRecords, DispatchNext, IfNoMeeting}
          \subseteq Good(r)
  <1>1. ASSUME NEW n \in Uids, NEW s \in Status \ {"absent"},
               n \in Tasks /\ s = "complete" => n \in r
        PROVE  Mark(n, s) \in Good(r)
    BY <1>1 DEF Good, Ops, Fine, Mark
  <1>2. ASSUME NEW n \in Reviewed, NEW c \in 1 .. MaxReviewCycles PROVE Cycle(n, c) \in Good(r)
    BY DEF Good, Ops, Fine, Cycle
  <1>3. ASSUME NEW n \in Uids
        PROVE  {Touch(n), History(n), Release(n), Check(n)} \subseteq Good(r)
    BY DEF Good, Ops, Fine, Touch, History, Release, Check
  <1>4. ASSUME NEW n \in Work PROVE Occupy(n) \in Good(r)
    BY DEF Good, Ops, Fine, Occupy
  <1>5. ASSUME NEW n \in Named PROVE Trigger(n) \in Good(r)
    BY DEF Good, Ops, Fine, Trigger
  <1>6. ASSUME NEW n \in Reviewed PROVE AddRedo(n) \in Good(r)
    BY DEF Good, Ops, Fine, AddRedo
  <1>7. ASSUME NEW n \in Reviewed, Ready(n, r) PROVE {Review(n), Ask(n)} \subseteq Good(r)
    BY <1>7 DEF Good, Ops, Fine, Review, Ask
  <1>8. ASSUME NEW m \in Milestones, Ready(m, r) PROVE Merge(m) \in Good(r)
    BY <1>8 DEF Good, Ops, Fine, Merge
  <1>9. ASSUME NEW ns \in SUBSET Tasks, NEW c \in Nat PROVE Dispatch(ns, c) \in Good(r)
    BY DEF Good, Ops, Fine, Dispatch
  <1>10. ASSUME NEW n \in Named, NEW then \in Seq(Then) PROVE Create(n, then) \in Good(r)
    BY DEF Good, Ops, Fine, Create
  <1>11. ASSUME NEW t \in Tree PROVE <<"pick", t>> \in Good(r)
    BY DEF Good, Ops, Fine
  <1>12. ASSUME NEW t \in Tree, Backed(t, r) PROVE <<"put", t>> \in Good(r)
    BY <1>12 DEF Good, Ops, Fine
  <1>13. ASSUME NEW t \in Tree, NEW ns \in SUBSET Reviewed, \A n \in ns : Ready(n, r)
         PROVE  <<"retry", ns, t>> \in Good(r)
    BY <1>13 DEF Good, Ops, Fine
  <1>14. ASSUME NEW ns \in SUBSET Named PROVE <<"putOccupied", ns>> \in Good(r)
    BY DEF Good, Ops, Fine
  <1>15. {Prepare, <<"frontiers">>, DispatchAll, OpenRecords, DispatchNext, IfNoMeeting}
            \subseteq Good(r)
    BY DEF Good, Ops, Fine, Prepare, DispatchAll, OpenRecords, DispatchNext, IfNoMeeting
  <1>16. QED
    BY <1>1, <1>2, <1>3, <1>4, <1>5, <1>6, <1>7, <1>8, <1>9, <1>10, <1>11, <1>12, <1>13,
       <1>14, <1>15

\* What follows a dispatched task is as it should be.
LEMMA ThenGood == ASSUME NEW r PROVE Then \subseteq Good(r)
  <1>1. ASSUME NEW op \in {"mark"} \X Uids \X {"running"} PROVE op \in Good(r)
    BY DEF Good, Ops, Fine, Status
  <1>2. ASSUME NEW op \in {"occupy"} \X Work PROVE op \in Good(r)
    BY DEF Good, Ops, Fine
  <1>3. QED
    BY <1>1, <1>2 DEF Then

\* A sequence of two or more parts.
LEMMA GoodSeqs ==
    ASSUME NEW G
    PROVE  /\ <<>> \in Seq(G)
           /\ \A a \in G : <<a>> \in Seq(G)
           /\ \A a \in G, b \in G : <<a, b>> \in Seq(G)
           /\ \A a \in G, b \in G, c \in G : <<a, b, c>> \in Seq(G)
           /\ \A a \in G, b \in G, c \in G, d \in G : <<a, b, c, d>> \in Seq(G)
           /\ \A s \in Seq(G), t \in Seq(G) : s \o t \in Seq(G)
  BY EmptySeq, ConcatProperties

\* The end of a review approves the node.
LEMMA ApproveType ==
    ASSUME NEW r, NEW n \in Reviewed, Ready(n, r)
    PROVE  Approve(n) \in Seq(Good(r))
  <1>1. n \notin Tasks
    BY UidsDiffer DEF Reviewed
  <1>2. Mark(n, "complete") \in Good(r) /\ {History(n), Check(n)} \subseteq Good(r)
    BY <1>1, GoodOps DEF Uids, Status
  <1>3. n \in Milestones => Merge(n) \in Good(r)
    BY GoodOps
  <1>4. <<Mark(n, "complete"), History(n)>> \in Seq(Good(r))
    BY <1>2, GoodSeqs
  <1>5. n \in Milestones => <<Merge(n), Check(n)>> \in Seq(Good(r))
    BY <1>2, <1>3, GoodSeqs
  <1>6. (IF n \in Milestones THEN <<Merge(n), Check(n)>> ELSE <<>>) \in Seq(Good(r))
    BY <1>5, GoodSeqs
  <1>7. QED
    BY <1>4, <1>6, GoodSeqs DEF Approve

\* A change of tree.json leaves a version of it that is backed.
LEMMA ChangedType ==
    ASSUME IInv, NEW op \in Good(reported), op[1] \in {"mark", "cycle", "redo", "touch"}
    PROVE  Changed(op) \in Tree /\ Backed(Changed(op), reported)
  <1>1. tree \in Tree /\ Backed(tree, reported) /\ op \in Ops /\ Fine(op, reported)
    BY DEF IInv, TypeOK, Good
  <1>2. CASE op[1] = "mark"
    <2>1. op[2] \in Uids /\ op[3] \in Status \ {"absent"}
      BY <1>1, <1>2, Operands
    <2>2. Changed(op) = [tree EXCEPT !.st[op[2]] = op[3]]
      BY <1>2 DEF Changed
    <2>3. [tree EXCEPT !.st[op[2]] = op[3]] \in Tree
      BY <1>1, <2>1 DEF Tree
    <2>4. Backed([tree EXCEPT !.st[op[2]] = op[3]], reported)
      BY <1>1, <1>2, <2>1 DEF Tree, Backed, Fine
    <2>5. QED
      BY <2>2, <2>3, <2>4
  <1>3. CASE op[1] = "cycle"
    <2>1. op[2] \in Reviewed /\ op[3] \in 0 .. MaxReviewCycles
      BY <1>1, <1>3, Operands, TreeAssumption
    <2>2. Changed(op) = [tree EXCEPT !.st[op[2]] = "reviewing", !.cycle[op[2]] = op[3]]
      BY <1>3 DEF Changed
    <2>3. [tree EXCEPT !.st[op[2]] = "reviewing", !.cycle[op[2]] = op[3]] \in Tree
      BY <1>1, <2>1 DEF Tree, Status
    <2>4. Backed([tree EXCEPT !.st[op[2]] = "reviewing", !.cycle[op[2]] = op[3]], reported)
      BY <1>1, <2>1 DEF Tree, Backed
    <2>5. QED
      BY <2>2, <2>3, <2>4
  <1>4. CASE op[1] = "redo"
    <2>1. PICK k : Changed(op) = [tree EXCEPT !.st[k] = "pending"]
      BY <1>4 DEF Changed
    <2>2. [tree EXCEPT !.st[k] = "pending"] \in Tree
      BY <1>1 DEF Tree, Status
    <2>3. Backed([tree EXCEPT !.st[k] = "pending"], reported)
      BY <1>1 DEF Tree, Backed
    <2>4. QED
      BY <2>1, <2>2, <2>3
  <1>5. CASE op[1] = "touch"
    BY <1>1, <1>5 DEF Changed
  <1>6. QED
    BY <1>2, <1>3, <1>4, <1>5

\* What a step that reports nothing has to keep.
LEMMA KeepInv ==
    ASSUME IInv, UNCHANGED reported, TypeOK', Backed(tree', reported),
           todo' \in [Goroutines -> Seq(Good(reported))], queue' \in Seq(Told(reported)),
           \A n \in unsent' : Ready(n, reported),
           \A n \in Reviewed : reviewers'[n] > 0 \/ jobs'[<<"review", n>>] > 0 => Ready(n, reported),
           \A n \in Milestones : merged'[n] > 0 => Ready(n, reported)
    PROVE  IInv'
  <1>1. /\ Good(reported) = Good(reported)' /\ Told(reported) = Told(reported)'
        /\ \A n : Ready(n, reported) <=> Ready(n, reported)'
        /\ \A t : Backed(t, reported) <=> Backed(t, reported)'
    BY DEF Good, Fine, Told, Ready, Backed
  <1>2. QED
    BY <1>1 DEF IInv

\* A step of a goroutine that changes only what it has to do.
LEMMA TodoOnly ==
    ASSUME IInv, todo' \in [Goroutines -> Seq(Good(reported))],
           UNCHANGED <<path, disk, queue, jobs, proxy, meeting, reported>>,
           waiting' \in BOOLEAN, faults' \in Seq(Faults)
    PROVE  IInv'
  <1>1. TypeOK'
    BY DEF IInv, TypeOK, disk, proxy
  <1>2. QED
    BY <1>1, KeepInv DEF IInv, disk, proxy

LEMMA FaultType ==
    ASSUME TypeOK, NEW kind, NoFault \/ Fault(kind)
    PROVE  faults' \in Seq(Faults)
  <1>1. faults \in Seq(Faults)
    BY DEF TypeOK
  <1>2. Fault(kind) => kind \in Faults /\ faults' = Append(faults, kind)
    BY DEF Fault
  <1>3. kind \in Faults => Append(faults, kind) \in Seq(Faults)
    BY <1>1, AppendProperties
  <1>4. QED
    BY <1>1, <1>2, <1>3 DEF NoFault

LEMMA AnsweredType ==
    ASSUME TypeOK, NEW ok \in BOOLEAN, Answered(ok)
    PROVE  faults' \in Seq(Faults)
  BY FaultType DEF Answered

\* What is below what.
LEMMA AboveUid ==
    /\ \A n \in Tasks : Above(n) = Parent[n]
    /\ \A n \in Extras : Above(n) = n[1]
    /\ \A n \in Milestones : Above(n) = Proposal
    /\ \A n \in Work : Above(n) \in Reviewed
  <1>1. \A n \in Tasks : Above(n) = Parent[n]
    BY UidsDiffer DEF Above
  <1>2. \A n \in Extras : Above(n) = n[1]
    BY UidsDiffer DEF Above
  <1>3. \A n \in Milestones : Above(n) = Proposal
    BY UidsDiffer DEF Above, Reviewed
  <1>4. \A n \in Extras : n[1] \in Redoable
    BY DEF Extras, Redo
  <1>5. \A n \in Work : Above(n) \in Reviewed
    BY <1>1, <1>2, <1>4, TreeAssumption DEF Work, Reviewed
  <1>6. QED
    BY <1>1, <1>2, <1>3, <1>5

LEMMA BelowMilestone == \A m \in Milestones : Below(m) \subseteq Work
  BY AboveUid, UidsDiffer DEF Below, Nodes, Reviewed

\* Reading and changing the store.
LEMMA StoreSteps ==
    ASSUME IInv, NEW g \in Goroutines,
           \/ ReadTree(g) \/ WriteTree(g) \/ ReadOccupied(g) \/ WriteOccupied(g)
           \/ SaveHistories(g) \/ SaveFrontiers(g) \/ OpenHistories(g) \/ BuildHistory(g)
    PROVE  IInv'
  <1> USE DEF proxy
  <1>1. CASE ReadTree(g)
    <2>1. PICK what \in {"mark", "cycle", "redo", "touch"} : Doing(g, what)
      BY <1>1 DEF ReadTree
    <2>2. todo[g] # <<>> /\ Changed(Op(g)) \in Tree /\ Backed(Changed(Op(g)), reported)
      BY <2>1, OpType, ChangedType
    <2>3. <<<<"put", Changed(Op(g))>>>> \in Seq(Good(reported))
      BY <2>2, GoodOps, GoodSeqs
    <2>4. todo' \in [Goroutines -> Seq(Good(reported))]
      <3>1. Replace(g, <<<<"put", Changed(Op(g))>>>>) \/ Done(g)
        BY <1>1 DEF ReadTree
      <3>2. QED
        BY <2>2, <2>3, <3>1, ReplaceType, DoneType DEF IInv
    <2>5. tree' \in {tree, Changed(Op(g))}
      BY <1>1 DEF ReadTree
    <2>6. tree' \in Tree /\ Backed(tree', reported)
      BY <2>2, <2>5 DEF IInv, TypeOK
    <2>7. TypeOK'
      BY <1>1, <2>6 DEF ReadTree, IInv, TypeOK
    <2>8. QED
      BY <1>1, <2>4, <2>6, <2>7, KeepInv DEF ReadTree, IInv
  <1>2. CASE WriteTree(g)
    <2>1. Op(g)[2] \in Tree /\ Backed(Op(g)[2], reported) /\ todo[g] # <<>>
      BY <1>2, OpType, Operands DEF WriteTree, Fine
    <2>2. todo' \in [Goroutines -> Seq(Good(reported))]
      BY <1>2, <2>1, DoneType DEF WriteTree, IInv
    <2>3. TypeOK'
      BY <1>2, <2>1 DEF WriteTree, IInv, TypeOK
    <2>4. QED
      BY <1>2, <2>1, <2>2, <2>3, KeepInv DEF WriteTree, IInv
  <1>3. CASE ReadOccupied(g)
    <2> DEFINE n == Op(g)[2]
               new == IF Doing(g, "occupy") THEN occupied \cup {n} ELSE occupied \ {n}
    <2>1. todo[g] # <<>>
      BY <1>3 DEF ReadOccupied, Doing
    <2>2. new \in SUBSET Named
      <3>1. Doing(g, "occupy") => n \in Work
        BY OpType, Operands
      <3>2. QED
        BY <3>1 DEF IInv, TypeOK, Named
    <2>3. \/ occupied' = new /\ Done(g)
          \/ Replace(g, <<<<"putOccupied", new>>>>) /\ UNCHANGED occupied
      BY <1>3 DEF ReadOccupied
    <2> HIDE DEF new
    <2>4. <<<<"putOccupied", new>>>> \in Seq(Good(reported))
      BY <2>2, GoodOps, GoodSeqs
    <2>5. todo' \in [Goroutines -> Seq(Good(reported))] /\ occupied' \subseteq Named
      BY <2>1, <2>2, <2>3, <2>4, ReplaceType, DoneType DEF IInv, TypeOK
    <2>6. TypeOK'
      BY <1>3, <2>5 DEF ReadOccupied, IInv, TypeOK
    <2>7. QED
      BY <1>3, <2>5, <2>6, KeepInv DEF ReadOccupied, IInv
  <1>4. CASE WriteOccupied(g)
    <2>1. Op(g)[2] \subseteq Named /\ todo[g] # <<>>
      BY <1>4, OpType, Operands DEF WriteOccupied
    <2>2. todo' \in [Goroutines -> Seq(Good(reported))]
      BY <1>4, <2>1, DoneType DEF WriteOccupied, IInv
    <2>3. TypeOK'
      BY <1>4, <2>1 DEF WriteOccupied, IInv, TypeOK
    <2>4. QED
      BY <1>4, <2>2, <2>3, KeepInv DEF WriteOccupied, IInv
  <1>5. ASSUME todo[g] # <<>>, Done(g) \/ Replace(g, <<<<"frontiers">>>>)
        PROVE  todo' \in [Goroutines -> Seq(Good(reported))]
    <2>1. <<<<"frontiers">>>> \in Seq(Good(reported))
      BY GoodOps, GoodSeqs
    <2>2. QED
      BY <1>5, <2>1, ReplaceType, DoneType DEF IInv
  <1>6. CASE SaveHistories(g)
    <2>1. TypeOK'
      BY <1>6 DEF SaveHistories, IInv, TypeOK
    <2>2. QED
      BY <1>5, <1>6, <2>1, KeepInv DEF SaveHistories, Doing, IInv
  <1>7. CASE SaveFrontiers(g)
    <2>1. TypeOK'
      BY <1>7 DEF SaveFrontiers, IInv, TypeOK, Work
    <2>2. QED
      BY <1>5, <1>7, <2>1, KeepInv DEF SaveFrontiers, Doing, IInv
  <1>8. \A m \in Milestones : Shown(m) \subseteq Work
    BY BelowMilestone DEF Shown, Children
  <1>9. CASE OpenHistories(g)
    <2>1. TypeOK'
      BY <1>8, <1>9 DEF OpenHistories, IInv, TypeOK
    <2>2. QED
      BY <1>5, <1>9, <2>1, KeepInv DEF OpenHistories, Doing, IInv
  <1>10. CASE BuildHistory(g)
    <2>1. ASSUME NEW n
          PROVE  UpdateRecord(n) \in [Milestones -> [kept : BOOLEAN, shows : SUBSET Work]]
      <3> DEFINE above == Above(n)
                 new   == (records[above].shows \ {n}) \cup (Shown(above) \cap {n})
      <3>1. CASE above \in Milestones /\ records[above].kept
        <4>1. new \in SUBSET Work
          BY <1>8, <3>1 DEF IInv, TypeOK
        <4>2. UpdateRecord(n) = [records EXCEPT ![above].shows = new]
          BY <3>1 DEF UpdateRecord
        <4> HIDE DEF new, above
        <4>3. QED
          BY <4>1, <4>2 DEF IInv, TypeOK
      <3>2. CASE ~(above \in Milestones /\ records[above].kept)
        BY <3>2 DEF UpdateRecord, IInv, TypeOK
      <3>3. QED
        BY <3>1, <3>2
    <2>2. records' \in [Milestones -> [kept : BOOLEAN, shows : SUBSET Work]] /\ UNCHANGED frontiers
      <3>1. \/ \E m \in Milestones : MilestoneHistory(m)
            \/ \E n : TaskHistory(n)
            \/ UNCHANGED <<records, frontiers>>
        BY <1>10, Zenon DEF BuildHistory
      <3>2. ASSUME NEW m \in Milestones, MilestoneHistory(m)
            PROVE  records' \in [Milestones -> [kept : BOOLEAN, shows : SUBSET Work]]
        BY <1>8, <3>2 DEF MilestoneHistory, IInv, TypeOK
      <3>3. QED
        BY <2>1, <3>1, <3>2 DEF MilestoneHistory, TaskHistory, IInv, TypeOK
    <2>3. TypeOK'
      BY <1>10, <2>2 DEF BuildHistory, IInv, TypeOK
    <2>4. QED
      BY <1>5, <1>10, <2>3, KeepInv DEF BuildHistory, Doing, IInv
  <1>11. QED
    BY <1>1, <1>2, <1>3, <1>4, <1>6, <1>7, <1>9, <1>10

\* A command to the proxy.
LEMMA CountType ==
    ASSUME NEW S, NEW f \in [S -> Nat], NEW n \in S, NEW g,
           g = f \/ g = [f EXCEPT ![n] = @ + 1] \/ (f[n] > 0 /\ g = [f EXCEPT ![n] = @ - 1])
    PROVE  /\ g \in [S -> Nat]
           /\ \A k \in S : g[k] > 0 => f[k] > 0 \/ k = n
  <1>1. f[n] + 1 \in Nat /\ (f[n] > 0 => f[n] - 1 \in Nat)
    OBVIOUS
  <1>2. QED
    BY <1>1

\* A goroutine asks the proxy for a review of a node that is ready for it.
LEMMA SendReviewType ==
    ASSUME IInv, NEW n \in Reviewed, Ready(n, reported), NEW ok \in BOOLEAN, SendReview(n, ok)
    PROVE  /\ faults' \in Seq(Faults) /\ reviewers' \in [Reviewed -> Nat]
           /\ \A k \in Reviewed : reviewers'[k] > 0 \/ jobs[<<"review", k>>] > 0
                                  => Ready(k, reported)
  <1>1. faults' \in Seq(Faults)
    BY AnsweredType DEF SendReview, IInv
  <1>2. reviewers' = reviewers \/ reviewers' = [reviewers EXCEPT ![n] = @ + 1]
    BY DEF SendReview
  <1>3. reviewers \in [Reviewed -> Nat]
    BY DEF IInv, TypeOK
  <1>4. /\ reviewers' \in [Reviewed -> Nat]
        /\ \A k \in Reviewed : reviewers'[k] > 0 => reviewers[k] > 0 \/ k = n
    BY <1>2, <1>3, CountType
  <1>5. QED
    BY <1>1, <1>4 DEF IInv

\* Dispatching.
LEMMA DispatchSteps ==
    ASSUME IInv, NEW g \in Goroutines,
           TakeWaiting(g) \/ DispatchOne(g) \/ SendCreate(g) \/ NextRead(g) \/ NextPick(g)
    PROVE  IInv'
  <1> DEFINE G == Good(reported)
  <1>1. todo \in [Goroutines -> Seq(G)] /\ faults \in Seq(Faults)
    BY DEF IInv, TypeOK
  <1>2. Then \subseteq G
    BY ThenGood
  <1> HIDE DEF G
  <1>3. CASE TakeWaiting(g)
    <2>1. <<Dispatch(Tasks, 0)>> \in Seq(G)
      BY GoodOps, GoodSeqs DEF G
    <2>2. todo' \in [Goroutines -> Seq(G)]
      BY <1>1, <1>3, <2>1, ReplaceType, DoneType DEF TakeWaiting, Doing
    <2>3. QED
      BY <1>1, <1>3, <2>2, TodoOnly DEF TakeWaiting, G
  <1>4. CASE DispatchOne(g)
    <2> DEFINE left == Op(g)[2]
               count == Op(g)[3]
    <2>1. left \subseteq Tasks /\ count \in Nat /\ todo[g] # <<>>
      BY <1>4, OpType, Operands DEF DispatchOne
    <2>2. \/ Done(g)
          \/ \E n \in left :
                Replace(g, <<Create(n, <<Mark(n, "running"), Mark(Above(n), "running"), Occupy(n)>>),
                             Dispatch(left \ {n}, count + 1)>>)
      BY <1>4 DEF DispatchOne
    <2> HIDE DEF left, count
    <2>3. ASSUME NEW n \in left
          PROVE  <<Create(n, <<Mark(n, "running"), Mark(Above(n), "running"), Occupy(n)>>),
                   Dispatch(left \ {n}, count + 1)>> \in Seq(G)
      <3>1. n \in Tasks /\ n \in Work /\ n \in Uids /\ n \in Named /\ Above(n) \in Uids
        BY <2>1, AboveUid DEF Work, Uids, Named
      <3>2. Mark(n, "running") \in Then /\ Mark(Above(n), "running") \in Then /\ Occupy(n) \in Then
        BY <3>1 DEF Then, Mark, Occupy
      <3>3. <<Mark(n, "running"), Mark(Above(n), "running"), Occupy(n)>> \in Seq(Then)
        BY <3>2, GoodSeqs
      <3>4. Create(n, <<Mark(n, "running"), Mark(Above(n), "running"), Occupy(n)>>) \in G
        BY <3>1, <3>3, GoodOps DEF G
      <3>5. left \ {n} \in SUBSET Tasks /\ count + 1 \in Nat
        BY <2>1
      <3>6. Dispatch(left \ {n}, count + 1) \in G
        BY <3>5, GoodOps DEF G
      <3>7. QED
        BY <3>4, <3>6, GoodSeqs
    <2>4. todo' \in [Goroutines -> Seq(G)]
      BY <1>1, <2>1, <2>2, <2>3, ReplaceType, DoneType
    <2>5. QED
      BY <1>1, <1>4, <2>4, TodoOnly DEF DispatchOne, IInv, TypeOK, G
  <1>5. CASE SendCreate(g)
    <2>1. Op(g)[2] \in Named /\ Op(g)[3] \in Seq(Then) /\ todo[g] # <<>>
      BY <1>5, OpType, Operands DEF SendCreate
    <2>2. PICK ok \in BOOLEAN :
             /\ Answered(ok)
             /\ agents' = IF CarriedOut(ok) THEN [agents EXCEPT ![Op(g)[2]] = @ + 1] ELSE agents
             /\ Replace(g, IF ok THEN Op(g)[3] ELSE <<>>)
      BY <1>5 DEF SendCreate
    <2>3. (IF ok THEN Op(g)[3] ELSE <<>>) \in Seq(G)
      <3>1. Op(g)[3] \in Seq(G)
        BY <1>2, <2>1, SeqMonotonic
      <3>2. QED
        BY <3>1, GoodSeqs
    <2>4. todo' \in [Goroutines -> Seq(G)]
      BY <1>1, <2>1, <2>2, <2>3, ReplaceType
    <2>5. faults' \in Seq(Faults)
      BY <2>2, AnsweredType DEF IInv
    <2>6. agents' \in [Named -> Nat]
      <3>1. agents \in [Named -> Nat] /\ (agents' = agents \/ agents' = [agents EXCEPT ![Op(g)[2]] = @ + 1])
        BY <2>2 DEF IInv, TypeOK
      <3>2. QED
        BY <2>1, <3>1, CountType
    <2>7. TypeOK'
      BY <1>5, <2>5, <2>6 DEF SendCreate, IInv, TypeOK, disk
    <2>8. QED
      BY <1>5, <2>4, <2>7, KeepInv DEF SendCreate, IInv, disk, G
  <1>6. CASE NextRead(g)
    <2>1. tree \in Tree /\ unsent \in SUBSET Reviewed /\ \A n \in unsent : Ready(n, reported)
      BY DEF IInv, TypeOK
    <2>2. <<<<"retry", unsent, tree>>>> \in Seq(G)
      BY <2>1, GoodOps, GoodSeqs DEF G
    <2>3. todo' \in [Goroutines -> Seq(G)]
      BY <1>1, <1>6, <2>2, ReplaceType DEF NextRead, Doing
    <2>4. QED
      BY <1>1, <1>6, <2>3, TodoOnly DEF NextRead, IInv, TypeOK, G
  <1>7. CASE NextPick(g)
    <2> DEFINE then(n) == <<Mark(n, "running"), Occupy(n)>>
                          \o (IF Above(n) \in Milestones THEN <<Mark(Above(n), "running")>> ELSE <<>>)
    <2>1. todo[g] # <<>>
      BY <1>7 DEF NextPick, Doing
    <2>2. Done(g) \/ \E n \in Work : Replace(g, <<Create(n, then(n))>>)
      BY <1>7 DEF NextPick
    <2>3. ASSUME NEW n \in Work
          PROVE  <<Create(n, then(n))>> \in Seq(G)
      <3>1. n \in Uids /\ n \in Named /\ Above(n) \in Uids
        BY AboveUid DEF Uids, Named
      <3>2. Mark(n, "running") \in Then /\ Mark(Above(n), "running") \in Then /\ Occupy(n) \in Then
        BY <3>1 DEF Then, Mark, Occupy
      <3>3. <<Mark(n, "running"), Occupy(n)>> \in Seq(Then) /\ <<Mark(Above(n), "running")>> \in Seq(Then)
        BY <3>2, GoodSeqs
      <3>4. (IF Above(n) \in Milestones THEN <<Mark(Above(n), "running")>> ELSE <<>>) \in Seq(Then)
        BY <3>3, GoodSeqs
      <3>5. then(n) \in Seq(Then)
        BY <3>3, <3>4, GoodSeqs
      <3> HIDE DEF then
      <3>6. Create(n, then(n)) \in G
        BY <3>1, <3>5, GoodOps DEF G
      <3>7. QED
        BY <3>6, GoodSeqs
    <2> HIDE DEF then
    <2>4. todo' \in [Goroutines -> Seq(G)]
      BY <1>1, <2>1, <2>2, <2>3, ReplaceType, DoneType
    <2>5. QED
      BY <1>1, <1>7, <2>4, TodoOnly DEF NextPick, IInv, TypeOK, G
  <1>8. QED
    BY <1>3, <1>4, <1>5, <1>6, <1>7

\* A milestone whose tasks tree.json shows complete is ready.
LEMMA CompleteIsReady ==
    ASSUME IInv, NEW m, AllComplete(m)
    PROVE  Ready(m, reported)
  <1> SUFFICES ASSUME m \in Milestones, NEW n \in Tasks \cap Below(m)
               PROVE  n \in reported
    BY DEF Ready
  <1>1. m # Proposal
    BY UidsDiffer
  <1>2. tree.st[n] # "absent" /\ (tree.st[n] = "complete" => n \in reported)
    BY DEF IInv, Backed
  <1>3. n \in Children(m)
    BY <1>2 DEF Children, Present, Below
  <1>4. QED
    BY <1>1, <1>2, <1>3 DEF AllComplete

\* From the check of a milestone to its merge.
LEMMA ReviewSteps ==
    ASSUME IInv, NEW g \in Goroutines,
           \/ NextReview(g) \/ CheckAbove(g) \/ BeginReview(g) \/ AskReview(g) \/ SendMerge(g)
    PROVE  IInv'
  <1> DEFINE G == Good(reported)
  <1>1. todo \in [Goroutines -> Seq(G)] /\ faults \in Seq(Faults)
    BY DEF IInv, TypeOK
  <1> HIDE DEF G
  <1>2. CASE NextReview(g)
    <2> DEFINE left == Op(g)[2]
               t    == Op(g)[3]
    <2>1. left \subseteq Reviewed /\ t \in Tree /\ todo[g] # <<>> /\ \A n \in left : Ready(n, reported)
      BY <1>2, OpType, Operands DEF NextReview, Fine
    <2> HIDE DEF left, t
    <2>2. CASE left = {}
      <3>1. Replace(g, <<<<"pick", t>>>>) /\ UNCHANGED <<reviewers, unsent, faults>>
        BY <1>2, <2>2 DEF NextReview, left, t
      <3>2. <<<<"pick", t>>>> \in Seq(G)
        BY <2>1, GoodOps, GoodSeqs DEF G
      <3>3. todo' \in [Goroutines -> Seq(G)]
        BY <1>1, <2>1, <3>1, <3>2, ReplaceType
      <3>4. QED
        BY <1>1, <1>2, <3>1, <3>3, TodoOnly DEF NextReview, IInv, TypeOK, G, disk, proxy
    <2>3. CASE left # {}
      <3>1. PICK n \in left, ok \in BOOLEAN :
               /\ SendReview(n, ok)
               /\ IF ok THEN /\ unsent' = unsent \ {n}
                             /\ Done(g)
                        ELSE /\ UNCHANGED unsent
                             /\ Replace(g, <<<<"retry", left \ {n}, t>>>>)
        BY <1>2, <2>3 DEF NextReview, left, t
      <3>2. n \in Reviewed /\ Ready(n, reported)
        BY <2>1
      <3>3. left \ {n} \in SUBSET Reviewed /\ \A k \in left \ {n} : Ready(k, reported)
        BY <2>1
      <3>4. <<"retry", left \ {n}, t>> \in G
        BY <2>1, <3>3, GoodOps DEF G
      <3>5. <<<<"retry", left \ {n}, t>>>> \in Seq(G)
        BY <3>4, GoodSeqs
      <3>6. todo' \in [Goroutines -> Seq(G)]
        BY <1>1, <2>1, <3>1, <3>5, ReplaceType, DoneType
      <3>7. unsent' \subseteq unsent
        BY <3>1
      <3>8. /\ faults' \in Seq(Faults) /\ reviewers' \in [Reviewed -> Nat]
            /\ \A k \in Reviewed : reviewers'[k] > 0 \/ jobs[<<"review", k>>] > 0
                                   => Ready(k, reported)
        BY <3>1, <3>2, SendReviewType
      <3>9. TypeOK'
        BY <1>2, <3>7, <3>8 DEF NextReview, IInv, TypeOK
      <3>10. QED
        BY <1>2, <3>6, <3>7, <3>8, <3>9, KeepInv DEF NextReview, IInv, G
    <2>4. QED
      BY <2>2, <2>3
  <1>3. CASE CheckAbove(g)
    <2> DEFINE n == Op(g)[2]
    <2>1. n \in Uids /\ todo[g] # <<>>
      BY <1>3, OpType, Operands DEF CheckAbove
    <2>2. Done(g) \/ (/\ Present(n) /\ n # Proposal /\ Due(Above(n))
                      /\ Replace(g, <<Review(Above(n))>>))
      BY <1>3 DEF CheckAbove
    <2> HIDE DEF n
    <2>3. ASSUME Present(n), Due(Above(n)), n # Proposal
          PROVE  <<Review(Above(n))>> \in Seq(G)
      <3>1. Ready(Above(n), reported)
        BY <2>3, CompleteIsReady DEF Due
      <3>2. Above(n) \in Reviewed
        BY <2>3, AboveUid DEF Present, Nodes, Reviewed
      <3>3. QED
        BY <3>1, <3>2, GoodOps, GoodSeqs DEF G
    <2>4. todo' \in [Goroutines -> Seq(G)]
      BY <1>1, <2>1, <2>2, <2>3, ReplaceType, DoneType
    <2>5. QED
      BY <1>1, <1>3, <2>4, TodoOnly DEF CheckAbove, IInv, TypeOK, G
  <1>4. CASE BeginReview(g)
    <2> DEFINE n == Op(g)[2]
    <2>1. n \in Reviewed /\ todo[g] # <<>> /\ Ready(n, reported)
      BY <1>4, OpType, Operands DEF BeginReview, Fine
    <2>2. \/ Replace(g, Approve(n))
          \/ tree.cycle[n] < MaxReviewCycles /\ Replace(g, <<Cycle(n, tree.cycle[n] + 1), Ask(n)>>)
      <3>1. tree.cycle[n] \in 0 .. MaxReviewCycles
        BY <2>1 DEF IInv, TypeOK, Tree
      <3>2. QED
        BY <1>4, <3>1, TreeAssumption DEF BeginReview
    <2> HIDE DEF n
    <2>3. Approve(n) \in Seq(G)
      BY <2>1, ApproveType DEF G
    <2>4. ASSUME tree.cycle[n] < MaxReviewCycles
          PROVE  <<Cycle(n, tree.cycle[n] + 1), Ask(n)>> \in Seq(G)
      <3>1. tree.cycle[n] \in 0 .. MaxReviewCycles
        BY <2>1 DEF IInv, TypeOK, Tree
      <3>2. tree.cycle[n] + 1 \in 1 .. MaxReviewCycles
        BY <2>4, <3>1, TreeAssumption
      <3>3. Cycle(n, tree.cycle[n] + 1) \in G /\ Ask(n) \in G
        BY <2>1, <3>2, GoodOps DEF G
      <3>4. QED
        BY <3>3, GoodSeqs
    <2>5. todo' \in [Goroutines -> Seq(G)]
      BY <1>1, <2>1, <2>2, <2>3, <2>4, ReplaceType
    <2>6. QED
      BY <1>1, <1>4, <2>5, TodoOnly DEF BeginReview, IInv, TypeOK, G
  <1>5. CASE AskReview(g)
    <2>1. Op(g)[2] \in Reviewed /\ todo[g] # <<>> /\ Ready(Op(g)[2], reported)
      BY <1>5, OpType, Operands DEF AskReview, Fine
    <2>2. PICK ok \in BOOLEAN : /\ SendReview(Op(g)[2], ok)
                                /\ unsent' = IF ok THEN unsent ELSE unsent \cup {Op(g)[2]}
      BY <1>5 DEF AskReview
    <2>3. todo' \in [Goroutines -> Seq(G)]
      BY <1>1, <1>5, <2>1, DoneType DEF AskReview
    <2>4. /\ faults' \in Seq(Faults) /\ reviewers' \in [Reviewed -> Nat]
          /\ \A k \in Reviewed : reviewers'[k] > 0 \/ jobs[<<"review", k>>] > 0
                                 => Ready(k, reported)
      BY <2>1, <2>2, SendReviewType
    <2>5. unsent' \subseteq Reviewed /\ \A k \in unsent' : Ready(k, reported)
      BY <2>1, <2>2 DEF IInv, TypeOK
    <2>6. TypeOK'
      BY <1>5, <2>4, <2>5 DEF AskReview, IInv, TypeOK
    <2>7. QED
      BY <1>5, <2>3, <2>4, <2>5, <2>6, KeepInv DEF AskReview, IInv, G
  <1>6. CASE SendMerge(g)
    <2>1. Op(g)[2] \in Milestones /\ todo[g] # <<>> /\ Ready(Op(g)[2], reported)
      BY <1>6, OpType, Operands DEF SendMerge, Fine
    <2>2. PICK ok \in BOOLEAN :
             /\ Answered(ok)
             /\ merged' = IF CarriedOut(ok) THEN [merged EXCEPT ![Op(g)[2]] = @ + 1] ELSE merged
      BY <1>6 DEF SendMerge
    <2>3. todo' \in [Goroutines -> Seq(G)]
      BY <1>1, <1>6, <2>1, DoneType DEF SendMerge
    <2>4. faults' \in Seq(Faults)
      BY <2>2, AnsweredType DEF IInv
    <2>5. /\ merged' \in [Milestones -> Nat]
          /\ \A k \in Milestones : merged'[k] > 0 => Ready(k, reported)
      <3>1. merged \in [Milestones -> Nat] /\ (merged' = merged \/ merged' = [merged EXCEPT ![Op(g)[2]] = @ + 1])
        BY <2>2 DEF IInv, TypeOK
      <3>2. /\ merged' \in [Milestones -> Nat]
            /\ \A k \in Milestones : merged'[k] > 0 => merged[k] > 0 \/ k = Op(g)[2]
        BY <2>1, <3>1, CountType
      <3>3. QED
        BY <2>1, <3>2 DEF IInv
    <2>6. TypeOK'
      BY <1>6, <2>4, <2>5 DEF SendMerge, IInv, TypeOK, disk
    <2>7. QED
      BY <1>6, <2>3, <2>5, <2>6, KeepInv DEF SendMerge, IInv, G, disk
  <1>7. QED
    BY <1>2, <1>3, <1>4, <1>5, <1>6

\* What the loop does for an event is as it should be, once a completed task
\* is among the reported ones.
LEMMA HandlerType ==
    ASSUME NEW r, NEW e \in Told(r), e.kind = "completed" => e.node \in r
    PROVE  Handler(e) \in Seq(Good(r)) /\ (e.kind = "completed" => SumUp(e.node) \in Seq(Good(r)))
  <1> DEFINE n == e.node
             G == Good(r)
  <1>1. e \in Event
    BY DEF Told
  <1>2. n \in Uids
    BY <1>1, TreeAssumption DEF Event, Uids, Named, Work
  <1>3. e.kind \in {"completed", "failed", "errored"} => n \in Named
    BY <1>1 DEF Event
  <1>4. e.kind \in {"reviewed", "reviewFailed", "approved", "needsWork"} => n \in Reviewed /\ Ready(n, r)
    BY <1>1 DEF Event, Told
  <1> HIDE DEF n, G
  <1>5. {Touch(n), History(n), Release(n), Check(n)} \subseteq G
    BY <1>2, GoodOps DEF G
  <1>6. {DispatchAll, OpenRecords, DispatchNext, IfNoMeeting} \subseteq G
    BY GoodOps DEF G
  <1>7. \A s \in {"error", "running"} : n \notin Tasks \/ s # "complete" => Mark(n, s) \in G
    BY <1>2, GoodOps DEF G, Status
  <1>8. SumUp(n) \in Seq(G)
    BY <1>5, GoodSeqs DEF SumUp
  <1>9. CASE e.kind = "completed"
    <2>1. Mark(n, "complete") \in G
      BY <1>2, <1>9, GoodOps DEF G, Status, n
    <2>2. <<Mark(n, "complete"), DispatchAll, OpenRecords, Release(n)>> \in Seq(G)
      BY <1>5, <1>6, <2>1, GoodSeqs
    <2>3. <<Mark(n, "complete"), Release(n), Check(n), IfNoMeeting>> \in Seq(G)
      BY <1>5, <1>6, <2>1, GoodSeqs
    <2>4. OnCompleted(n) \in Seq(G)
      BY <2>2, <2>3 DEF OnCompleted
    <2>5. Handler(e) = OnCompleted(n)
      BY <1>9 DEF Handler, n
    <2>6. QED
      BY <1>8, <2>4, <2>5 DEF G, n
  <1>10. CASE e.kind = "failed"
    <2>1. Trigger(n) \in G
      BY <1>3, <1>10, GoodOps DEF G
    <2>2. <<Mark(n, "error"), Release(n), Check(n), Trigger(n)>> \in Seq(G)
      BY <1>5, <1>7, <2>1, GoodSeqs
    <2>3. Handler(e) = <<Mark(n, "error"), Release(n), Check(n), Trigger(n)>>
      BY <1>10 DEF Handler, n
    <2>4. QED
      BY <1>10, <2>2, <2>3 DEF G
  <1>11. CASE e.kind = "errored"
    <2>1. <<Mark(n, "error"), Release(n), Check(n), DispatchNext>> \in Seq(G)
      BY <1>5, <1>6, <1>7, GoodSeqs
    <2>2. Handler(e) = <<Mark(n, "error"), Release(n), Check(n), DispatchNext>>
      BY <1>11 DEF Handler, n
    <2>3. QED
      BY <1>11, <2>1, <2>2 DEF G
  <1>12. CASE e.kind \in {"reviewFailed", "approved"}
    <2>1. Approve(n) \in Seq(G)
      BY <1>4, <1>12, ApproveType DEF G
    <2>2. Approve(n) \o <<DispatchNext>> \in Seq(G)
      BY <1>6, <2>1, GoodSeqs
    <2>3. Handler(e) = Approve(n) \o <<DispatchNext>>
      BY <1>12 DEF Handler, n
    <2>4. QED
      BY <1>12, <2>2, <2>3 DEF G
  <1>13. CASE e.kind = "summarized"
    BY <1>8, <1>13 DEF Handler, G, n
  <1>14. CASE e.kind = "needsWork"
    <2>1. AddRedo(n) \in G
      BY <1>4, <1>14, GoodOps DEF G
    <2>2. Redispatch \in G
      BY GoodOps, EmptySeq DEF Redispatch, G, Named
    <2>3. <<AddRedo(n), Mark(n, "running"), Redispatch, DispatchNext>> \in Seq(G)
      BY <1>6, <1>7, <2>1, <2>2, GoodSeqs
    <2>4. Handler(e) = <<AddRedo(n), Mark(n, "running"), Redispatch, DispatchNext>>
      BY <1>14 DEF Handler, n
    <2>5. QED
      BY <1>14, <2>3, <2>4 DEF G
  <1>15. CASE e.kind = "reviewed"
    <2>1. Handler(e) = <<>>
      BY <1>15 DEF Handler
    <2>2. QED
      BY <1>15, <2>1, GoodSeqs
  <1>16. e.kind \in {"completed", "failed", "errored", "reviewed", "reviewFailed", "approved",
                     "needsWork", "summarized"}
    BY <1>1 DEF Event
  <1>17. QED
    BY <1>9, <1>10, <1>11, <1>12, <1>13, <1>14, <1>15, <1>16

\* The loop takes an event.
LEMMA HandleStep == ASSUME IInv, Handle PROVE IInv'
  <1> DEFINE e == Head(queue)
  <1>1. e \in Told(reported) /\ e \in Event /\ queue' \in Seq(Told(reported)) /\ queue' \in Seq(Event)
    BY HeadTailProperties DEF Handle, IInv, TypeOK
  <1> HIDE DEF e
  <1>2. /\ reported \subseteq reported'
        /\ reported' \subseteq Named
        /\ e.kind = "completed" => e.node \in reported'
    BY <1>1 DEF Handle, IInv, TypeOK, e, Event
  <1>3. /\ Good(reported) \subseteq Good(reported') /\ Told(reported) \subseteq Told(reported')
        /\ \A n : Ready(n, reported) => Ready(n, reported')
        /\ \A t : Backed(t, reported) => Backed(t, reported')
    BY <1>2, GoodGrows
  <1>4. e \in Told(reported')
    BY <1>1, <1>3
  <1>5. /\ Handler(e) \in Seq(Good(reported'))
        /\ e.kind = "completed" => SumUp(e.node) \in Seq(Good(reported'))
    BY <1>2, <1>4, HandlerType
  <1>6. (IF e.kind = "completed" /\ e.node \notin Late THEN SumUp(e.node) ELSE <<>>)
            \in Seq(Good(reported'))
    BY <1>5, GoodSeqs
  <1>7. todo' \in [Goroutines -> Seq(Good(reported'))]
    <2> DEFINE ops == Handler(e) \o IF e.kind = "completed" /\ e.node \notin Late
                                    THEN SumUp(e.node) ELSE <<>>
    <2>1. ops \in Seq(Good(reported'))
      BY <1>5, <1>6, GoodSeqs
    <2>2. todo' = [todo EXCEPT !["loop"] = ops]
      BY DEF Handle, Begin, e
    <2>3. \A g \in Goroutines : todo[g] \in Seq(Good(reported'))
      BY <1>3, SeqMonotonic DEF IInv
    <2> HIDE DEF ops
    <2>4. QED
      BY <2>1, <2>2, <2>3 DEF IInv
  <1>8. queue' \in Seq(Told(reported'))
    BY <1>1, <1>3, SeqMonotonic
  <1>9. faults' \in Seq(Faults)
    BY FaultType DEF Handle, IInv
  <1>10. /\ jobs' \in [Jobs -> Nat]
         /\ \A n \in Reviewed : jobs'[<<"review", n>>] > 0 => Ready(n, reported')
    <2>1. jobs \in [Jobs -> Nat] /\ \A n \in Reviewed : jobs[<<"review", n>>] > 0 => Ready(n, reported)
      BY DEF IInv, TypeOK
    <2>2. CASE UNCHANGED jobs
      BY <1>3, <2>1, <2>2
    <2>3. CASE /\ e.kind \in {"reviewed", "completed"} /\ JobFor(e) \in Jobs
               /\ jobs' = [jobs EXCEPT ![JobFor(e)] = @ + 1]
      <3>1. /\ jobs' \in [Jobs -> Nat]
            /\ \A j \in Jobs : jobs'[j] > 0 => jobs[j] > 0 \/ j = JobFor(e)
        BY <2>1, <2>3, CountType
      <3>2. ASSUME NEW n \in Reviewed, jobs'[<<"review", n>>] > 0
            PROVE  Ready(n, reported')
        <4>1. <<"review", n>> \in Jobs
          BY DEF Jobs
        <4>2. CASE jobs[<<"review", n>>] > 0
          BY <1>3, <2>1, <4>2
        <4>3. CASE <<"review", n>> = JobFor(e)
          <5>1. e.kind = "reviewed" /\ e.node = n
            BY <4>3 DEF JobFor
          <5>2. QED
            BY <1>4, <5>1 DEF Told
        <4>4. QED
          BY <3>1, <3>2, <4>1, <4>2, <4>3
      <3>3. QED
        BY <3>1, <3>2
    <2>4. QED
      BY <2>2, <2>3 DEF Handle, e
  <1>11. TypeOK'
    BY <1>1, <1>2, <1>9, <1>10 DEF Handle, IInv, TypeOK, disk, proxy
  <1>12. UNCHANGED <<tree, unsent, reviewers, merged>>
    BY DEF Handle, disk, proxy
  <1>13. Backed(tree, reported) /\ \A n \in unsent : Ready(n, reported)
    BY DEF IInv
  <1>14. /\ \A n \in Reviewed : reviewers[n] > 0 => Ready(n, reported)
         /\ \A n \in Milestones : merged[n] > 0 => Ready(n, reported)
    BY DEF IInv
  <1>15. Backed(tree', reported')
    BY <1>3, <1>12, <1>13
  <1>16. \A n \in unsent' : Ready(n, reported')
    BY <1>3, <1>12, <1>13
  <1>17. \A n \in Reviewed : reviewers'[n] > 0 \/ jobs'[<<"review", n>>] > 0 => Ready(n, reported')
    BY <1>3, <1>10, <1>12, <1>14
  <1>18. \A n \in Milestones : merged'[n] > 0 => Ready(n, reported')
    BY <1>3, <1>12, <1>14
  <1>19. /\ Good(reported)' = Good(reported') /\ Told(reported)' = Told(reported')
         /\ \A n : Ready(n, reported)' <=> Ready(n, reported')
    BY DEF Good, Fine, Told, Ready, Backed
  <1>20. QED
    BY <1>7, <1>8, <1>11, <1>15, <1>16, <1>17, <1>18, <1>19 DEF IInv, Backed

\* The other steps of the loop.
LEMMA MeetingSteps ==
    ASSUME IInv, SkipInMeeting \/ TriggerMeeting
    PROVE  IInv'
  <1> DEFINE G == Good(reported)
  <1>1. todo \in [Goroutines -> Seq(G)] /\ "loop" \in Goroutines
    BY DEF IInv, Goroutines
  <1>2. <<>> \in Seq(G) /\ <<DispatchNext>> \in Seq(G)
    BY GoodOps, GoodSeqs
  <1> HIDE DEF G
  <1>3. CASE SkipInMeeting
    <2>1. todo["loop"] # <<>> /\ \E ops \in Seq(G) : Replace("loop", ops)
      BY <1>2, <1>3 DEF SkipInMeeting, Doing
    <2>2. todo' \in [Goroutines -> Seq(G)]
      BY <1>1, <2>1, ReplaceType
    <2>3. QED
      BY <1>3, <2>2, TodoOnly DEF SkipInMeeting, IInv, TypeOK, G
  <1>4. CASE TriggerMeeting
    <2> DEFINE n   == Op("loop")[2]
               who == IF Present(n) /\ n # Proposal
                      THEN {k \in Children(Above(n)) \cap Work : tree.st[k] # "complete"} ELSE {}
    <2>1. who \subseteq Work
      OBVIOUS
    <2>2. \/ Replace("loop", <<DispatchNext>>) /\ NoFault /\ UNCHANGED meeting
          \/ \E ok \in BOOLEAN :
                /\ Answered(ok)
                /\ meeting' = IF ok THEN who ELSE {}
                /\ Replace("loop", IF ok THEN <<>> ELSE <<DispatchNext>>)
      BY <1>4 DEF TriggerMeeting
    <2> HIDE DEF who
    <2>3. todo["loop"] # <<>>
      BY <1>4 DEF TriggerMeeting, Doing
    <2>4. \E ops \in Seq(G) : Replace("loop", ops)
      BY <1>2, <2>2
    <2>5. todo' \in [Goroutines -> Seq(G)]
      BY <1>1, <2>3, <2>4, ReplaceType
    <2>6. faults' \in Seq(Faults)
      BY <2>2, FaultType, AnsweredType DEF IInv
    <2>7. meeting' \subseteq Work
      BY <2>1, <2>2 DEF IInv, TypeOK
    <2>8. TypeOK'
      BY <1>4, <2>6, <2>7 DEF TriggerMeeting, IInv, TypeOK, disk, proxy
    <2>9. QED
      BY <1>4, <2>5, <2>8, KeepInv DEF TriggerMeeting, IInv, disk, proxy, G
  <1>5. QED
    BY <1>3, <1>4

\* An analysis or a summary is done.
LEMMA JobDoneStep == ASSUME IInv, NEW j \in Jobs, JobDone(j) PROVE IInv'
  <1>1. PICK result \in Results(j) : queue' = Append(queue, [kind |-> result, node |-> j[2]])
    BY DEF JobDone
  <1> DEFINE e == [kind |-> result, node |-> j[2]]
  <1>2. /\ jobs' \in [Jobs -> Nat]
        /\ \A k \in Jobs : jobs'[k] > 0 => jobs[k] > 0
    BY CountType DEF JobDone, IInv, TypeOK
  <1>3. e \in Told(reported)
    <2>1. CASE j[1] = "summary"
      BY <2>1 DEF Results, Jobs, Event, Told
    <2>2. CASE j[1] # "summary"
      <3>1. j = <<"review", j[2]>> /\ j[2] \in Reviewed
        BY <2>2 DEF Jobs
      <3>2. Ready(j[2], reported)
        BY <3>1 DEF JobDone, IInv
      <3>3. result \in {"approved", "needsWork"}
        BY <2>2 DEF Results
      <3>4. QED
        BY <3>1, <3>2, <3>3 DEF Event, Told
    <2>3. QED
      BY <2>1, <2>2
  <1>4. queue' \in Seq(Told(reported)) /\ queue' \in Seq(Event)
    BY <1>1, <1>3, AppendProperties DEF IInv, TypeOK, Told
  <1>5. TypeOK'
    BY <1>2, <1>4 DEF JobDone, IInv, TypeOK, disk, proxy
  <1>6. \A n \in Reviewed : jobs'[<<"review", n>>] > 0 => jobs[<<"review", n>>] > 0
    BY <1>2 DEF Jobs
  <1>7. QED
    BY <1>4, <1>5, <1>6, KeepInv DEF JobDone, IInv, disk, proxy

\* Agents and reviewers come to an end.
LEMMA EndSteps ==
    ASSUME IInv, (\E n \in Named : AgentEnds(n)) \/ (\E n \in Reviewed : ReviewerEnds(n))
    PROVE  IInv'
  <1>1. ASSUME NEW n \in Named, AgentEnds(n) PROVE IInv'
    <2>1. agents' \in [Named -> Nat]
      BY <1>1, CountType DEF AgentEnds, IInv, TypeOK
    <2>2. PICK kind \in {"completed", "failed", "errored"} :
             /\ queue' = Append(queue, [kind |-> kind, node |-> n])
             /\ NoFault \/ Fault("fail")
      BY <1>1 DEF AgentEnds
    <2>3. [kind |-> kind, node |-> n] \in Event /\ [kind |-> kind, node |-> n] \in Told(reported)
      BY DEF Event, Told
    <2>4. queue' \in Seq(Told(reported)) /\ queue' \in Seq(Event)
      BY <2>2, <2>3, AppendProperties DEF IInv, TypeOK
    <2>5. faults' \in Seq(Faults)
      BY <2>2, FaultType DEF IInv
    <2>6. TypeOK'
      BY <1>1, <2>1, <2>4, <2>5 DEF AgentEnds, IInv, TypeOK, disk
    <2>7. QED
      BY <1>1, <2>4, <2>6, KeepInv DEF AgentEnds, IInv, disk
  <1>2. ASSUME NEW n \in Reviewed, ReviewerEnds(n) PROVE IInv'
    <2>1. /\ reviewers' \in [Reviewed -> Nat]
          /\ \A k \in Reviewed : reviewers'[k] > 0 => reviewers[k] > 0 \/ k = n
      BY <1>2, CountType DEF ReviewerEnds, IInv, TypeOK
    <2>2. PICK kind \in {"reviewed", "reviewFailed"} :
             /\ queue' = Append(queue, [kind |-> kind, node |-> n])
             /\ NoFault \/ Fault("fail")
      BY <1>2 DEF ReviewerEnds
    <2>3. reviewers[n] > 0 /\ Ready(n, reported)
      BY <1>2 DEF ReviewerEnds, IInv
    <2>4. [kind |-> kind, node |-> n] \in Event /\ [kind |-> kind, node |-> n] \in Told(reported)
      BY <2>3 DEF Event, Told
    <2>5. queue' \in Seq(Told(reported)) /\ queue' \in Seq(Event)
      BY <2>2, <2>4, AppendProperties DEF IInv, TypeOK
    <2>6. faults' \in Seq(Faults)
      BY <2>2, FaultType DEF IInv
    <2>7. TypeOK'
      BY <1>2, <2>1, <2>5, <2>6 DEF ReviewerEnds, IInv, TypeOK, disk
    <2>8. QED
      BY <1>2, <2>1, <2>3, <2>5, <2>7, KeepInv DEF ReviewerEnds, IInv, disk
  <1>3. QED
    BY <1>1, <1>2

\* A meeting is over, and the user adds an agent.
LEMMA AgentSteps == ASSUME IInv, MeetingOver \/ AddAgent PROVE IInv'
  <1>1. agents \in [Named -> Nat]
    BY DEF IInv, TypeOK
  <1>2. CASE MeetingOver
    <2>1. agents' \in [Named -> Nat] /\ meeting' \subseteq Work
      BY <1>1, <1>2 DEF MeetingOver
    <2>2. TypeOK'
      BY <1>2, <2>1 DEF MeetingOver, IInv, TypeOK, disk
    <2>3. QED
      BY <1>2, <2>2, KeepInv DEF MeetingOver, IInv, disk
  <1>3. CASE AddAgent
    <2>1. agents' \in [Named -> Nat]
      BY <1>1, <1>3, CountType DEF AddAgent
    <2>2. faults' \in Seq(Faults)
      BY <1>3, FaultType DEF AddAgent, IInv
    <2>3. TypeOK'
      BY <1>3, <2>1, <2>2 DEF AddAgent, IInv, TypeOK, disk
    <2>4. QED
      BY <1>3, <2>3, KeepInv DEF AddAgent, IInv, disk
  <1>4. QED
    BY <1>2, <1>3

\* The run is started.
LEMMA StartStep == ASSUME IInv, NEW p \in Paths, Start(p) PROVE IInv'
  <1> DEFINE G == Good(reported)
  <1>1. todo \in [Goroutines -> Seq(G)] /\ agents \in [Named -> Nat] /\ Proposal \in Named
    BY DEF IInv, TypeOK, Named
  <1>2. <<Prepare, DispatchAll>> \in Seq(G)
    BY GoodOps, GoodSeqs
  <1>3. <<Dispatch(Tasks, 0)>> \in Seq(G)
    BY GoodOps, GoodSeqs
  <1> HIDE DEF G
  <1>4. todo' \in [Goroutines -> Seq(G)]
    BY <1>1, <1>2, <1>3 DEF Start, Begin
  <1>5. faults' \in Seq(Faults)
    BY FaultType, AnsweredType DEF Start, IInv
  <1>6. agents' \in [Named -> Nat]
    BY <1>1 DEF Start
  <1>7. path' \in Paths \cup {"none"} /\ waiting' \in BOOLEAN
    BY DEF Start
  <1>8. TypeOK'
    BY <1>5, <1>6, <1>7 DEF Start, IInv, TypeOK, disk
  <1>9. QED
    BY <1>4, <1>8, KeepInv DEF Start, IInv, disk, G

LEMMA InitInv == Init => IInv
  <1> SUFFICES ASSUME Init PROVE IInv
    OBVIOUS
  <1>1. tree \in Tree /\ Backed(tree, reported)
    <2>1. Tasks \cap Extras = {} /\ Tasks \subseteq Nodes
      BY UidsDiffer DEF Nodes, Work
    <2>2. QED
      BY <2>1, TreeAssumption DEF Init, Tree, Status, Backed
  <1>2. <<>> \in Seq(Good(reported)) /\ <<>> \in Seq(Told(reported))
        /\ <<>> \in Seq(Event) /\ <<>> \in Seq(Faults)
    BY EmptySeq
  <1>3. TypeOK
    BY <1>1, <1>2 DEF Init, TypeOK
  <1>4. \A n \in Reviewed : <<"review", n>> \in Jobs
    BY DEF Jobs
  <1>5. QED
    BY <1>1, <1>2, <1>3, <1>4 DEF Init, IInv

LEMMA NextInv == IInv /\ [Next]_vars => IInv'
  <1> SUFFICES ASSUME IInv, [Next]_vars PROVE IInv'
    OBVIOUS
  <1>1. ASSUME NEW g \in Goroutines, Step(g) PROVE IInv'
    BY <1>1, StoreSteps, DispatchSteps, ReviewSteps DEF Step
  <1>2. CASE UNCHANGED vars
    <2>1. TypeOK'
      BY <1>2 DEF vars, IInv, TypeOK, disk, proxy
    <2>2. QED
      BY <1>2, <2>1, KeepInv DEF vars, IInv, disk, proxy
  <1>3. CASE LoopStep
    BY <1>1, <1>3, HandleStep, MeetingSteps DEF LoopStep, Goroutines
  <1>4. CASE Step("starter")
    BY <1>1, <1>4 DEF Goroutines
  <1>5. CASE \E p \in Paths : Start(p)
    BY <1>5, StartStep
  <1>6. CASE \E j \in Jobs : JobDone(j)
    BY <1>6, JobDoneStep
  <1>7. CASE (\E n \in Named : AgentEnds(n)) \/ (\E n \in Reviewed : ReviewerEnds(n))
    BY <1>7, EndSteps
  <1>8. CASE MeetingOver \/ AddAgent
    BY <1>8, AgentSteps
  <1>9. QED
    BY <1>2, <1>3, <1>4, <1>5, <1>6, <1>7, <1>8 DEF Next

-----------------------------------------------------------------------------
\* The inductive invariant holds of every run: tree.json, and every version of
\* it that is still to be written, shows only what was reported.
THEOREM InvCorrect == Spec => []IInv
  BY InitInv, NextInv, PTL DEF Spec

\* The variables have their types, whatever goes wrong.
THEOREM TypeCorrect == Spec => []TypeOK
  <1>1. IInv => TypeOK
    BY DEF IInv
  <1>2. QED
    BY InvCorrect, <1>1, PTL

\* A milestone is merged into main only after each of the tasks the plan gives
\* it was reported complete (handleTaskCompleted, checkMilestoneCompletion,
\* MergeMilestoneToMain), for any plan and whatever goes wrong.
THEOREM MergedIsDoneCorrect == Spec => []MergedIsDone
  <1>1. IInv => MergedIsDone
    BY DEF IInv, MergedIsDone, Ready
  <1>2. QED
    BY InvCorrect, <1>1, PTL

=============================================================================
