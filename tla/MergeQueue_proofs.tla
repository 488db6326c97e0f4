-------------------------- MODULE MergeQueue_proofs --------------------------
(***************************************************************************)
(* Theorems about MergeQueue, for any tasks, capacity of the channel and   *)
(* number of faults and decisions.                                         *)
(***************************************************************************)
EXTENDS MergeQueue, SequenceTheorems, TLAPS

-----------------------------------------------------------------------------
\* Types

\* Every variable keeps its type (TypeOK), whatever the callers, the worker
\* and the meetings do.
THEOREM TypeCorrect == Spec => []TypeOK
  <1>1. Init => TypeOK
    BY MergeAssumption DEF Init, TypeOK, Mergeable, Branches, TaskPhases, TopPhases
  <1>2. TypeOK /\ [Next]_vars => TypeOK'
    <2> SUFFICES ASSUME TypeOK, [Next]_vars PROVE TypeOK'
      OBVIOUS
    <2> USE MergeAssumption
    <2>1. ASSUME NEW b \in Mergeable, Submit(b)
          PROVE  queue' \in Seq(Mergeable) /\ blocked' \in Seq(Mergeable) /\ merging' = merging
      <3>1. Append(queue, b) \in Seq(Mergeable) /\ Append(blocked, b) \in Seq(Mergeable)
        BY AppendProperties DEF TypeOK
      <3>2. QED
        BY <2>1, <3>1 DEF Submit, TypeOK
    <2>2. CASE Take
      <3>1. Head(queue) \in Mergeable /\ Tail(queue) \in Seq(Mergeable)
        BY <2>2, HeadTailProperties DEF Take, TypeOK
      <3>2. blocked # <<>> => Head(blocked) \in Mergeable /\ Tail(blocked) \in Seq(Mergeable)
        BY HeadTailProperties DEF TypeOK
      <3>3. blocked # <<>> => Append(Tail(queue), Head(blocked)) \in Seq(Mergeable)
        BY <3>1, <3>2, AppendProperties
      <3>4. queue' \in Seq(Mergeable) /\ blocked' \in Seq(Mergeable)
        BY <2>2, <3>1, <3>2, <3>3 DEF Take, TypeOK
      <3>5. QED
        BY <2>2, <3>1, <3>4 DEF Take, TypeOK, trees, bounds
    <2>3. CASE DoMerge
      BY <2>3 DEF DoMerge, TypeOK, Fault, Cleaned, Branches, Mergeable, Parent
    <2>4. CASE MergeMilestone
      <3>1. Submit(Milestone) /\ Milestone \in Mergeable
        BY <2>4 DEF MergeMilestone, Mergeable
      <3>2. phase' = [phase EXCEPT ![Milestone] = "merging"]
        BY <3>1 DEF Submit, GoTo
      <3>3. queue' \in Seq(Mergeable) /\ blocked' \in Seq(Mergeable) /\ merging' = merging
        BY <3>1, <2>1
      <3>4. QED
        BY <2>4, <3>2, <3>3 DEF MergeMilestone, TypeOK, trees, bounds, Mergeable, TopPhases,
                                TaskPhases
    <2>5. CASE Merged
      BY <2>5 DEF Merged, GoTo, TypeOK, trees, line, bounds, Mergeable, TopPhases, TaskPhases
    <2>6. CASE Announce
      BY <2>6 DEF Announce, GoTo, TypeOK, trees, line, bounds, Mergeable, TopPhases, TaskPhases
    <2>7. ASSUME NEW t \in Tasks, TaskStep(t) PROVE TypeOK'
      <3>1. CASE Create(t)
        BY <3>1 DEF Create, GoTo, Fault, TypeOK, line, Mergeable, TopPhases, TaskPhases
      <3>2. CASE Develop(t)
        BY <3>2 DEF Develop, TypeOK, line, bounds, Branches, Mergeable
      <3>3. CASE AgentEnds(t)
        <4>1. Submit(t) /\ t \in Mergeable
          BY <3>3 DEF AgentEnds, Mergeable
        <4>2. phase' = [phase EXCEPT ![t] = "merging"]
          BY <4>1 DEF Submit, GoTo
        <4>3. queue' \in Seq(Mergeable) /\ blocked' \in Seq(Mergeable) /\ merging' = merging
          BY <4>1, <2>1
        <4>4. QED
          BY <3>3, <4>2, <4>3 DEF AgentEnds, TypeOK, trees, bounds, Mergeable, TopPhases,
                                  TaskPhases
      <3>4. CASE AgentFails(t)
        BY <3>4 DEF AgentFails, GoTo, TypeOK, trees, line, bounds, Mergeable, TopPhases,
                    TaskPhases
      <3>5. CASE Report(t)
        BY <3>5 DEF Report, GoTo, TypeOK, trees, line, bounds, Mergeable, TopPhases, TaskPhases
      <3>6. CASE ResetWorktree(t)
        BY <3>6 DEF ResetWorktree, Decision, TypeOK, line
      <3>7. CASE Cancel(t)
        BY <3>7 DEF Cancel, PurgeWorktree, Decision, TypeOK, line, Mergeable, Branches,
                    TopPhases, TaskPhases
      <3>8. CASE PurgeChild(t)
        BY <3>8 DEF PurgeChild, PurgeWorktree, TypeOK, line, bounds, Mergeable, Branches
      <3>9. QED
        BY <2>7, <3>1, <3>2, <3>3, <3>4, <3>5, <3>6, <3>7, <3>8 DEF TaskStep
    <2>8. CASE UNCHANGED vars
      BY <2>8 DEF vars, trees, line, bounds, TypeOK
    <2>9. QED
      BY <2>2, <2>3, <2>4, <2>5, <2>6, <2>7, <2>8 DEF Next
  <1>3. QED
    BY <1>1, <1>2, PTL DEF Spec

-----------------------------------------------------------------------------
\* The line

Served == IF merging = None THEN <<>> ELSE <<merging>>
Whole  == Served \o queue \o blocked

\* Callers are blocked only while the channel is full.
Full == blocked # <<>> => Len(queue) >= Cap

\* Taking the first and letting the first blocked caller in moves nobody.
LEMMA Shift ==
    ASSUME NEW S, NEW q \in Seq(S), NEW w \in Seq(S), q # <<>>, w # <<>>
    PROVE  <<Head(q)>> \o Append(Tail(q), Head(w)) \o Tail(w) = q \o w
  <1> DEFINE l == <<Head(q)>> \o Append(Tail(q), Head(w)) \o Tail(w)
  <1>1. /\ Head(q) \in S /\ Tail(q) \in Seq(S) /\ Len(Tail(q)) = Len(q) - 1
        /\ \A i \in 1 .. Len(q) - 1 : Tail(q)[i] = q[i + 1]
    BY HeadTailProperties
  <1>2. /\ Head(w) \in S /\ Tail(w) \in Seq(S) /\ Len(Tail(w)) = Len(w) - 1
        /\ \A i \in 1 .. Len(w) - 1 : Tail(w)[i] = w[i + 1]
    BY HeadTailProperties
  <1>3. Len(q) \in Nat \ {0} /\ Len(w) \in Nat \ {0}
    BY EmptySeq
  <1>4. <<Head(q)>> \in Seq(S) /\ Len(<<Head(q)>>) = 1 /\ <<Head(q)>>[1] = q[1]
    BY <1>1
  <1>5. <<Head(w)>> \in Seq(S) /\ Len(<<Head(w)>>) = 1
    BY <1>2
  <1>6. Append(Tail(q), Head(w)) = Tail(q) \o <<Head(w)>>
    BY <1>1, <1>2, AppendIsConcat
  <1>7. <<Head(q)>> \o Tail(q) = q
    <2>1. <<Head(q)>> \o Tail(q) \in Seq(S)
      BY <1>1, <1>4, ConcatProperties
    <2>2. Len(<<Head(q)>> \o Tail(q)) = Len(q)
      BY <1>1, <1>3, <1>4, ConcatProperties
    <2>3. \A i \in 1 .. Len(q) : (<<Head(q)>> \o Tail(q))[i] = q[i]
      BY <1>1, <1>3, <1>4
    <2>4. QED
      BY <2>1, <2>2, <2>3, SeqEqual
  <1>8. <<Head(w)>> \o Tail(w) = w
    <2>1. <<Head(w)>> \o Tail(w) \in Seq(S)
      BY <1>2, <1>5, ConcatProperties
    <2>2. Len(<<Head(w)>> \o Tail(w)) = Len(w)
      BY <1>2, <1>3, <1>5, ConcatProperties
    <2>3. \A i \in 1 .. Len(w) : (<<Head(w)>> \o Tail(w))[i] = w[i]
      BY <1>2, <1>3, <1>5
    <2>4. QED
      BY <2>1, <2>2, <2>3, SeqEqual
  <1>9. l = ((<<Head(q)>> \o Tail(q)) \o <<Head(w)>>) \o Tail(w)
    <2>1. <<Head(q)>> \o (Tail(q) \o <<Head(w)>>) = (<<Head(q)>> \o Tail(q)) \o <<Head(w)>>
      BY <1>1, <1>4, <1>5, ConcatAssociative
    <2>2. QED
      BY <1>6, <2>1
  <1>10. (q \o <<Head(w)>>) \o Tail(w) = q \o (<<Head(w)>> \o Tail(w))
    BY <1>2, <1>5, ConcatAssociative
  <1>11. QED
    BY <1>7, <1>8, <1>9, <1>10

\* What the worker and the callers do to the line: who submits joins at the
\* end, and the worker serves the first.
LEMMA LineMoves ==
    ASSUME TypeOK, Full
    PROVE  /\ Whole \in Seq(Mergeable)
           /\ \A b \in Mergeable : Submit(b) => Full' /\ Whole' = Append(Whole, b)
           /\ Take => Full' /\ Whole' = Whole
           /\ DoMerge => /\ Full' /\ Whole # <<>> /\ Whole' = Tail(Whole)
                         /\ merging \in Mergeable /\ Whole[1] = merging
           /\ UNCHANGED line => Full' /\ Whole' = Whole
  <1> USE MergeAssumption
  <1>1. queue \in Seq(Mergeable) /\ blocked \in Seq(Mergeable) /\ Served \in Seq(Mergeable)
    BY DEF TypeOK, Served
  <1>2. ASSUME NEW b \in Mergeable, Submit(b)
        PROVE  Full' /\ Whole' = Append(Whole, b)
    <2>0. Served' = Served
      BY <1>2 DEF Submit, Served
    <2>1. CASE Len(queue) < Cap
      <3>1. blocked = <<>> /\ blocked' = <<>> /\ queue' = Append(queue, b)
        <4>1. Len(queue) \in Nat
          BY <1>1
        <4>2. QED
          BY <4>1, <1>2, <2>1 DEF Submit, Full
      <3>2. Whole = Served \o queue /\ Whole' = Served \o Append(queue, b)
        <4>1. Served \o queue \in Seq(Mergeable) /\ Append(queue, b) \in Seq(Mergeable)
          BY <1>1, ConcatProperties, AppendProperties
        <4>2. Served \o Append(queue, b) \in Seq(Mergeable)
          BY <1>1, <4>1, ConcatProperties
        <4>3. QED
          BY <2>0, <3>1, <4>1, <4>2, ConcatEmptySeq DEF Whole
      <3>3. Served \o Append(queue, b) = Append(Served \o queue, b)
        <4>1. <<b>> \in Seq(Mergeable)
          OBVIOUS
        <4>2. Served \o queue \in Seq(Mergeable)
          BY <1>1, ConcatProperties
        <4>3. Append(queue, b) = queue \o <<b>>
          BY <1>1, AppendIsConcat
        <4>4. Append(Served \o queue, b) = (Served \o queue) \o <<b>>
          BY <4>2, AppendIsConcat
        <4>5. QED
          BY <1>1, <4>1, <4>3, <4>4, ConcatAssociative
      <3>4. QED
        BY <3>1, <3>2, <3>3 DEF Full
    <2>2. CASE ~(Len(queue) < Cap)
      <3>1. blocked' = Append(blocked, b) /\ queue' = queue
        BY <1>2, <2>2 DEF Submit
      <3>2. Served \o queue \in Seq(Mergeable)
        BY <1>1, ConcatProperties
      <3>3. <<b>> \in Seq(Mergeable)
        OBVIOUS
      <3>4. Whole' = (Served \o queue) \o (blocked \o <<b>>)
        BY <2>0, <3>1, <1>1, AppendIsConcat DEF Whole
      <3>5. Whole' = ((Served \o queue) \o blocked) \o <<b>>
        BY <3>2, <3>3, <3>4, <1>1, ConcatAssociative
      <3>6. Whole \in Seq(Mergeable)
        BY <3>2, <1>1, ConcatProperties DEF Whole
      <3>7. Whole' = Append(Whole, b)
        BY <3>5, <3>6, AppendIsConcat DEF Whole
      <3>8. Len(queue) \in Nat
        BY <1>1
      <3>9. QED
        BY <2>2, <3>1, <3>7, <3>8 DEF Full
    <2>3. QED
      BY <2>1, <2>2
  <1>3. ASSUME Take PROVE Full' /\ Whole' = Whole
    <2>1. /\ Head(queue) \in Mergeable /\ Tail(queue) \in Seq(Mergeable)
          /\ Len(Tail(queue)) = Len(queue) - 1 /\ Len(queue) \in Nat
      BY <1>1, <1>3, HeadTailProperties DEF Take
    <2>2. Served = <<>> /\ Served' = <<Head(queue)>>
      BY <1>3, <2>1 DEF Take, Served, Mergeable
    <2>3. Whole = queue \o blocked
      BY <1>1, <2>2, ConcatEmptySeq DEF Whole
    <2>4. CASE blocked = <<>>
      <3>1. queue' = Tail(queue) /\ blocked' = <<>>
        BY <1>3, <2>4 DEF Take
      <3>2. <<Head(queue)>> \in Seq(Mergeable) /\ Len(<<Head(queue)>>) = 1
            /\ <<Head(queue)>>[1] = queue[1]
        BY <2>1
      <3>3. <<Head(queue)>> \o Tail(queue) = queue
        <4>1. <<Head(queue)>> \o Tail(queue) \in Seq(Mergeable)
          BY <2>1, <3>2, ConcatProperties
        <4>2. Len(<<Head(queue)>> \o Tail(queue)) = Len(queue)
          BY <2>1, <3>2, ConcatProperties
        <4>3. \A i \in 1 .. Len(queue) - 1 : Tail(queue)[i] = queue[i + 1]
          BY <1>1, <1>3, <2>1, HeadTailProperties DEF Take
        <4>4. \A i \in 1 .. Len(queue) : (<<Head(queue)>> \o Tail(queue))[i] = queue[i]
          BY <2>1, <3>2, <4>3
        <4>5. QED
          BY <1>1, <4>1, <4>2, <4>4, SeqEqual
      <3>4. Whole' = queue \o <<>>
        BY <2>2, <3>1, <3>3 DEF Whole
      <3>5. QED
        BY <2>3, <2>4, <3>1, <3>4 DEF Full
    <2>5. CASE blocked # <<>>
      <3>1. queue' = Append(Tail(queue), Head(blocked)) /\ blocked' = Tail(blocked)
        BY <1>3, <2>5 DEF Take
      <3>2. Head(blocked) \in Mergeable /\ Tail(blocked) \in Seq(Mergeable)
        BY <1>1, <2>5, HeadTailProperties
      <3>3. Whole' = <<Head(queue)>> \o Append(Tail(queue), Head(blocked)) \o Tail(blocked)
        BY <2>2, <3>1 DEF Whole
      <3>4. Whole' = Whole
        BY <1>1, <1>3, <2>3, <2>5, <3>3, Shift DEF Take
      <3>5. Len(queue') = Len(queue)
        BY <2>1, <3>1, <3>2, AppendProperties
      <3>6. QED
        BY <2>5, <3>4, <3>5 DEF Full
    <2>6. QED
      BY <2>4, <2>5
  <1>4. ASSUME DoMerge
        PROVE  /\ Full' /\ Whole # <<>> /\ Whole' = Tail(Whole)
               /\ merging \in Mergeable /\ Whole[1] = merging
    <2>1. /\ merging # None /\ merging \in Mergeable
          /\ merging' = None /\ queue' = queue /\ blocked' = blocked
      BY <1>4 DEF DoMerge, TypeOK
    <2>2. queue \o blocked \in Seq(Mergeable) /\ <<merging>> \in Seq(Mergeable)
      BY <1>1, <2>1, ConcatProperties
    <2>3. Whole = <<merging>> \o (queue \o blocked)
      BY <1>1, <2>1, <2>2, ConcatAssociative DEF Whole, Served
    <2>4. Whole' = queue \o blocked
      BY <1>1, <2>1, ConcatEmptySeq DEF Whole, Served
    <2>5. Whole \in Seq(Mergeable) /\ Len(Whole) = 1 + Len(queue \o blocked)
          /\ \A i \in 1 .. Len(queue \o blocked) : Whole[i + 1] = (queue \o blocked)[i]
      <3>1. Len(<<merging>>) = 1 /\ Len(queue \o blocked) \in Nat
        BY <2>2, LenProperties
      <3>2. QED
        BY <2>2, <2>3, <3>1, ConcatProperties
    <2>6. Whole # <<>>
      <3>1. Len(queue \o blocked) \in Nat
        BY <2>2, LenProperties
      <3>2. QED
        BY <2>5, <3>1, EmptySeq
    <2>7. Tail(Whole) = queue \o blocked
      <3>1. Tail(Whole) \in Seq(Mergeable) /\ Len(Tail(Whole)) = Len(queue \o blocked)
            /\ \A i \in 1 .. Len(Tail(Whole)) : Tail(Whole)[i] = Whole[i + 1]
        <4>1. Len(queue \o blocked) \in Nat
          BY <2>2, LenProperties
        <4>2. QED
          BY <2>5, <2>6, <4>1, HeadTailProperties
      <3>2. QED
        BY <2>2, <2>5, <3>1, SeqEqual
    <2>8. Whole[1] = merging
      <3>1. Len(<<merging>>) = 1 /\ <<merging>>[1] = merging /\ Len(queue \o blocked) \in Nat
        BY <2>2, LenProperties
      <3>2. QED
        BY <2>2, <2>3, <3>1, ConcatProperties
    <2>9. QED
      BY <1>4, <2>1, <2>4, <2>6, <2>7, <2>8 DEF Full
  <1>5. UNCHANGED line => Full' /\ Whole' = Whole
    BY DEF line, Full, Whole, Served
  <1>6. Whole \in Seq(Mergeable)
    <2>1. Served \o queue \in Seq(Mergeable)
      BY <1>1, ConcatProperties
    <2>2. QED
      BY <1>1, <2>1, ConcatProperties DEF Whole
  <1>7. QED
    BY <1>2, <1>3, <1>4, <1>5, <1>6

\* Every step of the system is one of these for the line.
LEMMA LineStep ==
    ASSUME TypeOK, Full, [Next]_vars
    PROVE  /\ Full'
           /\ \/ Whole' = Whole
              \/ Whole # <<>> /\ Whole' = Tail(Whole)
              \/ \E b \in Mergeable : Whole' = Append(Whole, b)
  <1>1. CASE MergeMilestone
    BY <1>1, LineMoves DEF MergeMilestone, Mergeable
  <1>2. CASE Merged \/ Announce
    BY <1>2, LineMoves DEF Merged, Announce
  <1>3. ASSUME NEW t \in Tasks, AgentEnds(t)
        PROVE  Full' /\ \E b \in Mergeable : Whole' = Append(Whole, b)
    BY <1>3, LineMoves DEF AgentEnds, Mergeable
  <1>4. ASSUME NEW t \in Tasks, TaskStep(t), ~AgentEnds(t)
        PROVE  UNCHANGED line
    BY <1>4 DEF TaskStep, Create, Develop, AgentFails, Report, ResetWorktree, Cancel, PurgeChild
  <1>5. CASE UNCHANGED vars
    BY <1>5, LineMoves DEF vars
  <1>6. CASE \E t \in Tasks : TaskStep(t)
    BY <1>3, <1>4, <1>6, LineMoves
  <1>7. CASE Take \/ DoMerge
    BY <1>7, LineMoves
  <1>8. QED
    BY <1>1, <1>2, <1>5, <1>6, <1>7 DEF Next

\* Merges are served in the order of the calls (InOrder): the channel, the
\* callers it blocks and the worker together implement FirstCome.
THEOREM OrderKept == Spec => InOrder
  <1>1. Init => Order!Init /\ Full
    BY ConcatEmptySeq DEF Init, Order!Init, Full
  <1>2. TypeOK /\ Full /\ [Next]_vars =>
            Full' /\ [Order!Arrive \/ Order!Serve]_Whole
    BY LineStep DEF Order!Arrive, Order!Serve, Whole, Served
  <1>3. Spec => []TypeOK
    BY TypeCorrect
  <1>4. QED
    BY <1>1, <1>2, <1>3, PTL DEF Spec, InOrder, Order!Spec, Whole, Served

-----------------------------------------------------------------------------
\* What is in the branches

\* A caller is in the line once, from its call until it has its answer.
Queued ==
    /\ \A i, j \in 1 .. Len(Whole) : Whole[i] = Whole[j] => i = j
    /\ \A i \in 1 .. Len(Whole) : phase[Whole[i]] = "merging" /\ answer[Whole[i]] = "none"
    /\ \A b \in Mergeable : answer[b] # "none" => phase[b] = "merging"

\* The branch of a task holds nothing but its own work, and all that was
\* committed while it exists.
Held ==
    /\ worktrees \subseteq branches /\ discarded \cap branches = {}
    /\ \A t \in Tasks : work[t] \subseteq {t}
    /\ \A t \in saved \cap branches : t \in work[t]
    /\ \A t \in Tasks : phase[t] = "none" => t \notin branches \cup saved \cup discarded

\* A merge that succeeded has taken the committed work along.
Taken ==
    /\ ReportedIsIn
    /\ \A t \in saved : answer[t] = "merged" => t \in work[Milestone]

\* The milestone is merged after its planned tasks.
After ==
    /\ phase[Milestone] # "open" => \A t \in Planned : phase[t] = "completed"
    /\ answer[Milestone] = "merged" \/ phase[Milestone] \in {"purging", "merged"} =>
           Planned \cap saved \subseteq work[Main]

Safe == TypeOK /\ Full /\ Queued /\ Held /\ Taken /\ After /\ NothingLost

\* A line that joins, moves on or stays keeps its members apart.
LEMMA StepQueued ==
    ASSUME Safe, [Next]_vars
    PROVE  Queued'
  <1> USE MergeAssumption
  <1>0. Whole \in Seq(Mergeable) /\ Len(Whole) \in Nat
        /\ \A i \in 1 .. Len(Whole) : Whole[i] \in Mergeable
    BY LineMoves DEF Safe
  <1>1. ASSUME NEW b \in Mergeable, Submit(b), phase[b] \in {"working", "open"},
               answer' = answer
        PROVE  Queued'
    <2>1. Whole' = Append(Whole, b)
      BY <1>1, LineMoves DEF Safe
    <2>2. /\ Len(Whole') = Len(Whole) + 1 /\ Whole'[Len(Whole) + 1] = b
          /\ \A i \in 1 .. Len(Whole) : Whole'[i] = Whole[i]
      BY <1>0, <2>1, AppendProperties
    <2>3. phase' = [phase EXCEPT ![b] = "merging"]
      BY <1>1 DEF Submit, GoTo
    <2>4. \A i \in 1 .. Len(Whole) : Whole[i] # b
      BY <1>1 DEF Safe, Queued
    <2>5. answer[b] = "none"
      BY <1>1 DEF Safe, Queued
    <2>6. phase \in [Mergeable -> TaskPhases \cup TopPhases]
      BY DEF Safe, TypeOK
    <2>7. \A i, j \in 1 .. Len(Whole') : Whole'[i] = Whole'[j] => i = j
      BY <1>0, <2>2, <2>4 DEF Safe, Queued
    <2>8. \A i \in 1 .. Len(Whole') : phase'[Whole'[i]] = "merging" /\ answer'[Whole'[i]] = "none"
      BY <1>0, <1>1, <2>2, <2>3, <2>5, <2>6 DEF Safe, Queued
    <2>9. \A c \in Mergeable : answer'[c] # "none" => phase'[c] = "merging"
      BY <1>1, <2>3, <2>6 DEF Safe, Queued
    <2>10. QED
      BY <2>7, <2>8, <2>9 DEF Queued
  <1>2. ASSUME Whole' = Whole,
               NEW b \in Mergeable, \A i \in 1 .. Len(Whole) : Whole[i] # b,
               \A c \in Mergeable \ {b} : phase'[c] = phase[c] /\ answer'[c] = answer[c],
               answer'[b] # "none" => phase'[b] = "merging"
        PROVE  Queued'
    BY <1>0, <1>2 DEF Safe, Queued
  <1>3. ASSUME Whole' = Whole, answer' = answer, phase' = phase
        PROVE  Queued'
    BY <1>3 DEF Safe, Queued
  <1>4. CASE DoMerge
    <2>1. /\ Whole # <<>> /\ Whole' = Tail(Whole) /\ merging \in Mergeable
          /\ Whole[1] = merging /\ phase' = phase
      BY <1>4, LineMoves DEF Safe, DoMerge
    <2>2. /\ Len(Whole') = Len(Whole) - 1
          /\ \A i \in 1 .. Len(Whole) - 1 : Whole'[i] = Whole[i + 1]
      BY <1>0, <2>1, HeadTailProperties
    <2>3. /\ \A b \in Mergeable \ {merging} : answer'[b] = answer[b]
      BY <1>4 DEF DoMerge, Safe, TypeOK
    <2>4. Len(Whole) >= 1
      BY <1>0, <2>1, EmptySeq
    <2>5. phase[merging] = "merging"
      BY <2>1, <2>4, <1>0 DEF Safe, Queued
    <2>6. \A i \in 1 .. Len(Whole') : Whole'[i] # merging /\ Whole'[i] \in Mergeable
      BY <1>0, <2>1, <2>2, <2>4 DEF Safe, Queued
    <2>7. \A i, j \in 1 .. Len(Whole') : Whole'[i] = Whole'[j] => i = j
      BY <1>0, <2>2, <2>4 DEF Safe, Queued
    <2>8. \A i \in 1 .. Len(Whole') : phase'[Whole'[i]] = "merging" /\ answer'[Whole'[i]] = "none"
      BY <1>0, <2>1, <2>2, <2>3, <2>4, <2>6 DEF Safe, Queued
    <2>9. \A b \in Mergeable : answer'[b] # "none" => phase'[b] = "merging"
      BY <2>1, <2>3, <2>5 DEF Safe, Queued
    <2>10. QED
      BY <2>7, <2>8, <2>9 DEF Queued
  <1>5. CASE Take
    BY <1>3, <1>5, LineMoves DEF Safe, Take
  <1>6. CASE MergeMilestone
    BY <1>1, <1>6 DEF MergeMilestone, Mergeable
  <1>7. ASSUME NEW b \in Mergeable, phase[b] # "merging" \/ answer[b] # "none"
        PROVE  \A i \in 1 .. Len(Whole) : Whole[i] # b
    BY <1>7 DEF Safe, Queued
  <1>8. CASE Merged
    <2>1. Whole' = Whole
      BY <1>8, LineMoves DEF Safe, Merged
    <2>2. Milestone \in Mergeable /\ \A i \in 1 .. Len(Whole) : Whole[i] # Milestone
      BY <1>7, <1>8 DEF Merged, Mergeable
    <2>3. /\ \A c \in Mergeable \ {Milestone} : phase'[c] = phase[c] /\ answer'[c] = answer[c]
          /\ answer'[Milestone] = "none"
      BY <1>8, <2>2 DEF Merged, GoTo, Safe, TypeOK
    <2>4. QED
      BY <1>2, <2>1, <2>2, <2>3
  <1>9. CASE Announce
    <2>1. Whole' = Whole
      BY <1>9, LineMoves DEF Safe, Announce
    <2>2. Milestone \in Mergeable /\ \A i \in 1 .. Len(Whole) : Whole[i] # Milestone
      BY <1>7, <1>9 DEF Announce, Mergeable
    <2>3. /\ \A c \in Mergeable \ {Milestone} : phase'[c] = phase[c] /\ answer'[c] = answer[c]
          /\ answer'[Milestone] = "none"
      BY <1>9, <2>2 DEF Announce, GoTo, Safe, TypeOK, Queued
    <2>4. QED
      BY <1>2, <2>1, <2>2, <2>3
  <1>10. ASSUME NEW t \in Tasks, TaskStep(t) PROVE Queued'
    <2>0. t \in Mergeable
      BY DEF Mergeable
    <2>1. CASE AgentEnds(t)
      BY <1>1, <2>0, <2>1 DEF AgentEnds
    <2>2. ASSUME UNCHANGED line, phase[t] # "merging" \/ answer[t] # "none",
                 \A c \in Mergeable \ {t} : phase'[c] = phase[c] /\ answer'[c] = answer[c],
                 answer'[t] = "none"
          PROVE  Queued'
      <3>1. Whole' = Whole
        BY <2>2, LineMoves DEF Safe
      <3>2. \A i \in 1 .. Len(Whole) : Whole[i] # t
        BY <1>7, <2>0, <2>2
      <3>3. QED
        BY <1>2, <2>0, <2>2, <3>1, <3>2
    <2>3. CASE Create(t)
      BY <2>0, <2>2, <2>3 DEF Create, GoTo, Safe, Queued, TypeOK
    <2>4. CASE AgentFails(t)
      BY <2>0, <2>2, <2>4 DEF AgentFails, GoTo, Safe, Queued, TypeOK
    <2>5. CASE Report(t)
      BY <2>0, <2>2, <2>5 DEF Report, GoTo, Safe, Queued, TypeOK
    <2>6. CASE Cancel(t)
      <3>1. CASE phase[t] \in {"working", "error"}
        BY <2>0, <2>2, <2>6, <3>1 DEF Cancel, Safe, Queued, TypeOK
      <3>2. CASE phase[t] \notin {"working", "error"}
        <4>1. phase' = phase /\ answer' = answer /\ UNCHANGED line
          BY <2>6, <3>2 DEF Cancel, Safe, TypeOK
        <4>2. QED
          BY <1>3, <4>1, LineMoves DEF Safe
      <3>3. QED
        BY <3>1, <3>2
    <2>7. CASE Develop(t) \/ ResetWorktree(t) \/ PurgeChild(t)
      <3>1. phase' = phase /\ answer' = answer /\ UNCHANGED line
        BY <2>7 DEF Develop, ResetWorktree, PurgeChild
      <3>2. QED
        BY <1>3, <3>1, LineMoves DEF Safe
    <2>8. QED
      BY <1>10, <2>1, <2>3, <2>4, <2>5, <2>6, <2>7 DEF TaskStep
  <1>11. CASE UNCHANGED vars
    <2>1. phase' = phase /\ answer' = answer /\ UNCHANGED line
      BY <1>11 DEF vars
    <2>2. QED
      BY <1>3, <2>1, LineMoves DEF Safe
  <1>12. QED
    BY <1>4, <1>5, <1>6, <1>8, <1>9, <1>10, <1>11 DEF Next

\* What a merge does to the branches, by the branch the worker has taken.
LEMMA MergeEffect ==
    ASSUME Safe, DoMerge
    PROVE  \E b \in Mergeable :
              /\ merging = b /\ phase[b] = "merging" /\ answer[b] = "none"
              /\ phase' = phase
              /\ saved' = saved \cup ({b} \cap files \cap artifacts)
              /\ \/ /\ b \in branches \cup {Milestone}
                    /\ answer' = [answer EXCEPT ![b] = "merged"]
                    /\ work' = [work EXCEPT ![b] = Cleaned(b), ![Parent(b)] = @ \cup Cleaned(b)]
                 \/ /\ answer' = [answer EXCEPT ![b] = "failed"]
                    /\ work' = [work EXCEPT ![b] = Cleaned(b)]
  <1>1. /\ merging \in Mergeable /\ Whole[1] = merging /\ Whole # <<>>
        /\ Whole \in Seq(Mergeable)
    BY LineMoves DEF Safe
  <1>2. 1 \in 1 .. Len(Whole)
    BY <1>1, EmptySeq
  <1>3. phase[merging] = "merging" /\ answer[merging] = "none"
    BY <1>1, <1>2 DEF Safe, Queued
  <1>4. QED
    BY <1>1, <1>3 DEF DoMerge

LEMMA StepHeld ==
    ASSUME Safe, [Next]_vars
    PROVE  Held'
  <1> USE MergeAssumption
  <1>1. CASE DoMerge
    <2>1. PICK b \in Mergeable :
             /\ merging = b /\ phase[b] = "merging" /\ answer[b] = "none"
             /\ phase' = phase
             /\ saved' = saved \cup ({b} \cap files \cap artifacts)
             /\ work' = [work EXCEPT ![b] = Cleaned(b), ![Parent(b)] = @ \cup Cleaned(b)]
                \/ work' = [work EXCEPT ![b] = Cleaned(b)]
      BY <1>1, MergeEffect
    <2>2. /\ \A t \in Tasks : work'[t] = IF t = b THEN Cleaned(t) ELSE work[t]
          /\ UNCHANGED <<branches, worktrees, discarded>>
      BY <1>1, <2>1 DEF DoMerge, Safe, TypeOK, Parent, Mergeable, Branches
    <2>3. /\ \A t \in Tasks : work'[t] \subseteq {t}
          /\ \A t \in saved' \cap branches' : t \in work'[t]
      <3>1. Held /\ saved \subseteq Tasks /\ files \subseteq Tasks
        BY DEF Safe, TypeOK
      <3>2. \A t \in Tasks : work'[t] \subseteq {t}
        <4> SUFFICES ASSUME NEW t \in Tasks PROVE work'[t] \subseteq {t}
          OBVIOUS
        <4>1. work[t] \subseteq {t}
          BY <3>1 DEF Held
        <4>2. work'[t] = work[t] \/ (t = b /\ work'[t] = Cleaned(t))
          BY <2>2
        <4>3. QED
          BY <4>1, <4>2 DEF Cleaned
      <3>3. \A t \in saved' \cap branches' : t \in work'[t]
        <4> SUFFICES ASSUME NEW t \in saved' \cap branches' PROVE t \in work'[t]
          OBVIOUS
        <4>1. t \in Tasks /\ t \in branches
          BY <2>1, <2>2, <3>1
        <4>2. work'[t] = IF t = b THEN Cleaned(t) ELSE work[t]
          BY <2>2, <4>1
        <4>3. CASE t \in saved
          BY <3>1, <4>1, <4>2, <4>3 DEF Held, Cleaned
        <4>4. CASE t \notin saved
          BY <2>1, <4>2, <4>4 DEF Cleaned
        <4>5. QED
          BY <4>3, <4>4
      <3>4. QED
        BY <3>2, <3>3
    <2>4. \A t \in Tasks : phase'[t] = "none" => t \notin branches' \cup saved' \cup discarded'
      BY <2>1, <2>2 DEF Safe, Held
    <2>5. QED
      BY <2>2, <2>3, <2>4 DEF Safe, Held
  <1>2. ASSUME NEW t \in Tasks, TaskStep(t) PROVE Held'
    <2>0. t \in Mergeable /\ t \in Branches
      BY DEF Mergeable, Branches
    <2>1. CASE Create(t)
      BY <2>0, <2>1 DEF Create, GoTo, Fault, Safe, Held, TypeOK
    <2>2. CASE Develop(t)
      <3>1. /\ UNCHANGED <<branches, worktrees, discarded, phase>>
            /\ t \in branches /\ phase[t] = "working"
        BY <2>2 DEF Develop, Safe, Held
      <3>2. CASE UNCHANGED <<work, saved>>
        BY <3>1, <3>2 DEF Safe, Held
      <3>3. CASE work' = [work EXCEPT ![t] = @ \cup {t}] /\ saved' = saved \cup {t}
        <4>1. \A u \in Tasks : work'[u] = IF u = t THEN work[u] \cup {u} ELSE work[u]
          BY <2>0, <3>3 DEF Safe, TypeOK, Branches, Mergeable
        <4>2. Held /\ saved \subseteq Tasks
          BY DEF Safe, TypeOK
        <4>3. \A u \in Tasks : work'[u] \subseteq {u}
          <5> SUFFICES ASSUME NEW u \in Tasks PROVE work'[u] \subseteq {u}
            OBVIOUS
          <5>1. work[u] \subseteq {u}
            BY <4>2 DEF Held
          <5>2. QED
            BY <4>1, <5>1
        <4>4. \A u \in saved' \cap branches' : u \in work'[u]
          BY <3>1, <3>3, <4>1, <4>2 DEF Held
        <4>5. QED
          BY <3>1, <3>3, <4>2, <4>3, <4>4 DEF Held
      <3>4. QED
        BY <2>2, <3>2, <3>3 DEF Develop
    <2>3. CASE AgentEnds(t)
      BY <2>0, <2>3 DEF AgentEnds, Submit, GoTo, trees, Safe, Held, TypeOK
    <2>4. CASE AgentFails(t)
      BY <2>0, <2>4 DEF AgentFails, GoTo, trees, Safe, Held, TypeOK
    <2>5. CASE Report(t)
      BY <2>0, <2>5 DEF Report, GoTo, trees, Safe, Held, TypeOK
    <2>6. CASE ResetWorktree(t)
      BY <2>6 DEF ResetWorktree, Safe, Held
    <2>7. CASE Cancel(t)
      BY <2>0, <2>7 DEF Cancel, PurgeWorktree, Safe, Held, TypeOK
    <2>8. CASE PurgeChild(t)
      BY <2>0, <2>8 DEF PurgeChild, PurgeWorktree, Safe, Held, TypeOK
    <2>9. QED
      BY <1>2, <2>1, <2>2, <2>3, <2>4, <2>5, <2>6, <2>7, <2>8 DEF TaskStep
  <1>3. CASE MergeMilestone
    BY <1>3 DEF MergeMilestone, Submit, GoTo, trees, Safe, Held, TypeOK
  <1>4. CASE Merged
    <2>1. \A t \in Tasks : phase'[t] = phase[t]
      BY <1>4 DEF Merged, GoTo, Safe, TypeOK, Mergeable
    <2>2. QED
      BY <1>4, <2>1 DEF Merged, trees, Safe, Held
  <1>5. CASE Announce
    BY <1>5 DEF Announce, GoTo, trees, Safe, Held, TypeOK
  <1>6. CASE Take
    BY <1>6 DEF Take, trees, Safe, Held
  <1>7. CASE UNCHANGED vars
    BY <1>7 DEF vars, trees, Safe, Held
  <1>8. QED
    BY <1>1, <1>2, <1>3, <1>4, <1>5, <1>6, <1>7 DEF Next

\* No step takes committed work out of the milestone's branch.
LEMMA Grows ==
    ASSUME Safe, [Next]_vars
    PROVE  work[Milestone] \subseteq work'[Milestone] /\ work[Main] \subseteq work'[Main]
  <1> USE MergeAssumption
  <1>0. Milestone \in Branches /\ Main \in Branches
    BY DEF Branches, Mergeable
  <1>1. CASE DoMerge
    <2>1. PICK b \in Mergeable :
             \/ work' = [work EXCEPT ![b] = Cleaned(b), ![Parent(b)] = @ \cup Cleaned(b)]
             \/ work' = [work EXCEPT ![b] = Cleaned(b)]
      BY <1>1, MergeEffect
    <2>2. work[b] \subseteq Cleaned(b) /\ b \in Branches /\ Parent(b) \in Branches
          /\ Parent(b) # b
      BY DEF Cleaned, Parent, Branches, Mergeable
    <2>3. QED
      BY <1>0, <2>1, <2>2 DEF Safe, TypeOK
  <1>2. ASSUME NEW t \in Tasks, TaskStep(t)
        PROVE  work'[Milestone] = work[Milestone] /\ work'[Main] = work[Main]
    <2>1. CASE Develop(t)
      BY <1>0, <2>1 DEF Develop, Safe, TypeOK
    <2>2. CASE Cancel(t) \/ PurgeChild(t)
      BY <1>0, <2>2 DEF Cancel, PurgeChild, PurgeWorktree, Safe, TypeOK
    <2>3. CASE ~Develop(t) /\ ~Cancel(t) /\ ~PurgeChild(t)
      BY <1>2, <2>3 DEF TaskStep, Create, AgentEnds, AgentFails, Report, ResetWorktree
    <2>4. QED
      BY <2>1, <2>2, <2>3
  <1>3. CASE Take \/ MergeMilestone \/ Merged \/ Announce \/ UNCHANGED vars
    BY <1>3 DEF Take, MergeMilestone, Merged, Announce, vars
  <1>4. QED
    BY <1>1, <1>2, <1>3 DEF Next

\* Only an agent at work and the worker commit.
LEMMA Commits ==
    ASSUME Safe, [Next]_vars, NEW t \in saved', t \notin saved
    PROVE  phase[t] = "working" \/ (DoMerge /\ merging = t /\ phase[t] = "merging")
  <1>1. CASE DoMerge
    BY <1>1, MergeEffect DEF DoMerge
  <1>2. ASSUME NEW u \in Tasks, TaskStep(u) PROVE phase[t] = "working"
    BY <1>2 DEF TaskStep, Create, Develop, AgentEnds, AgentFails, Report, ResetWorktree,
                Cancel, PurgeChild
  <1>3. CASE Take \/ MergeMilestone \/ Merged \/ Announce \/ UNCHANGED vars
    BY <1>3 DEF Take, MergeMilestone, Merged, Announce, vars
  <1>4. QED
    BY <1>1, <1>2, <1>3 DEF Next

\* How the answers and the reports of tasks come about.
LEMMA Answers ==
    ASSUME Safe, [Next]_vars, NEW t \in Tasks
    PROVE  /\ answer'[t] = "merged" => answer[t] = "merged" \/ (DoMerge /\ merging = t)
           /\ phase'[t] = "completed" => phase[t] = "completed" \/ answer[t] = "merged"
           /\ phase[t] = "completed" => phase'[t] = "completed"
  <1> USE MergeAssumption
  <1>0. t \in Mergeable /\ t # Milestone
    BY DEF Mergeable
  <1>1. CASE DoMerge
    <2>1. PICK b \in Mergeable :
             /\ merging = b /\ phase' = phase
             /\ \/ answer' = [answer EXCEPT ![b] = "merged"]
                \/ answer' = [answer EXCEPT ![b] = "failed"]
      BY <1>1, MergeEffect
    <2>2. QED
      BY <1>0, <1>1, <2>1 DEF Safe, TypeOK
  <1>2. ASSUME NEW u \in Tasks, TaskStep(u)
        PROVE  /\ answer'[t] = "merged" => answer[t] = "merged"
               /\ phase'[t] = "completed" => phase[t] = "completed" \/ answer[t] = "merged"
               /\ phase[t] = "completed" => phase'[t] = "completed"
    <2>0. u \in Mergeable
      BY DEF Mergeable
    <2>1. CASE Report(u)
      BY <1>0, <2>0, <2>1 DEF Report, GoTo, Safe, TypeOK, Queued
    <2>2. CASE Create(u) \/ AgentFails(u)
      BY <1>0, <2>0, <2>2 DEF Create, AgentFails, GoTo, Safe, TypeOK
    <2>3. CASE AgentEnds(u)
      BY <1>0, <2>0, <2>3 DEF AgentEnds, Submit, GoTo, Safe, TypeOK
    <2>4. CASE Cancel(u)
      BY <1>0, <2>0, <2>4 DEF Cancel, Safe, TypeOK
    <2>5. CASE Develop(u) \/ ResetWorktree(u) \/ PurgeChild(u)
      BY <2>5 DEF Develop, ResetWorktree, PurgeChild
    <2>6. QED
      BY <1>2, <2>1, <2>2, <2>3, <2>4, <2>5 DEF TaskStep
  <1>3. CASE Take \/ UNCHANGED vars
    BY <1>3 DEF Take, vars
  <1>4. CASE MergeMilestone
    BY <1>0, <1>4 DEF MergeMilestone, Submit, GoTo, Safe, TypeOK
  <1>5. CASE Merged \/ Announce
    BY <1>0, <1>5 DEF Merged, Announce, GoTo, Safe, TypeOK
  <1>6. QED
    BY <1>1, <1>2, <1>3, <1>4, <1>5 DEF Next

LEMMA StepTaken ==
    ASSUME Safe, [Next]_vars
    PROVE  Taken'
  <1> USE MergeAssumption
  <1>0. Taken /\ saved \subseteq Tasks
    BY DEF Safe, TypeOK
  <1>1. ASSUME NEW t \in Tasks, t \in saved', answer'[t] = "merged"
        PROVE  t \in work'[Milestone]
    <2>1. CASE answer[t] = "merged"
      <3>1. t \in saved
        <4>1. phase[t] = "merging" /\ answer[t] # "none"
          BY <2>1 DEF Safe, Queued, Mergeable
        <4>2. t \in Mergeable
          BY DEF Mergeable
        <4>3. DoMerge => merging # t
          BY <4>1, MergeEffect
        <4>4. QED
          BY <1>1, <4>1, <4>3, Commits
      <3>2. t \in work[Milestone]
        BY <1>0, <2>1, <3>1 DEF Taken
      <3>3. QED
        BY <3>2, Grows
    <2>2. CASE DoMerge /\ merging = t
      <3>1. PICK b \in Mergeable :
               /\ merging = b /\ saved' = saved \cup ({b} \cap files \cap artifacts)
               /\ \/ /\ b \in branches \cup {Milestone}
                     /\ work' = [work EXCEPT ![b] = Cleaned(b),
                                             ![Parent(b)] = @ \cup Cleaned(b)]
                  \/ answer' = [answer EXCEPT ![b] = "failed"]
        BY <2>2, MergeEffect
      <3>2. b = t /\ Parent(t) = Milestone /\ t # Milestone /\ t \in Mergeable
        BY <2>2, <3>1 DEF Parent, Mergeable
      <3>3. answer'[t] # "failed" /\ answer \in [Mergeable -> {"none", "merged", "failed"}]
        BY <1>1 DEF Safe, TypeOK
      <3>4. t \in branches
            /\ work' = [work EXCEPT ![t] = Cleaned(t), ![Milestone] = @ \cup Cleaned(t)]
        BY <3>1, <3>2, <3>3
      <3>5. t \in Cleaned(t)
        BY <1>1, <3>1, <3>2, <3>4 DEF Safe, Held, Cleaned
      <3>6. Milestone \in DOMAIN work
        BY DEF Safe, TypeOK, Branches, Mergeable
      <3>7. QED
        BY <3>2, <3>4, <3>5, <3>6
    <2>3. QED
      BY <1>1, <2>1, <2>2, Answers
  <1>2. ASSUME NEW t \in Tasks, t \in saved', phase'[t] = "completed"
        PROVE  t \in work'[Milestone]
    <2>1. phase[t] = "completed" \/ answer[t] = "merged"
      BY <1>2, Answers
    <2>2. phase[t] \in {"completed", "merging"}
      BY <2>1 DEF Safe, Queued, Mergeable
    <2>3. answer[t] = "merged" => ~(DoMerge /\ merging = t)
      BY MergeEffect
    <2>4. ~(DoMerge /\ merging = t)
      BY <2>1, <2>3, MergeEffect
    <2>5. t \in saved
      BY <1>2, <2>2, <2>4, Commits
    <2>6. t \in work[Milestone]
      BY <1>0, <2>1, <2>5 DEF Taken, ReportedIsIn
    <2>7. QED
      BY <2>6, Grows
  <1>3. saved' \subseteq Tasks
    <2>1. \A t \in saved' : t \in Tasks
      <3> SUFFICES ASSUME NEW t \in saved' PROVE t \in Tasks
        OBVIOUS
      <3>1. CASE DoMerge
        BY <1>0, <3>1 DEF DoMerge, Safe, TypeOK
      <3>2. CASE ~DoMerge
        <4>1. ASSUME NEW u \in Tasks, TaskStep(u) PROVE saved' \subseteq saved \cup {u}
          BY <4>1 DEF TaskStep, Create, Develop, AgentEnds, AgentFails, Report, ResetWorktree,
                      Cancel, PurgeChild
        <4>2. CASE Take \/ MergeMilestone \/ Merged \/ Announce \/ UNCHANGED vars
          BY <1>0, <4>2 DEF Take, MergeMilestone, Merged, Announce, vars
        <4>3. QED
          BY <1>0, <3>2, <4>1, <4>2 DEF Next
      <3>3. QED
        BY <3>1, <3>2
    <2>2. QED
      BY <2>1
  <1>4. QED
    BY <1>1, <1>2, <1>3 DEF Taken, ReportedIsIn

LEMMA StepAfter ==
    ASSUME Safe, [Next]_vars
    PROVE  After'
  <1> USE MergeAssumption
  <1>0. After /\ Milestone \in Mergeable /\ Planned \subseteq Tasks
    BY DEF Safe, Mergeable
  <1>1. phase'[Milestone] # "open" => \A t \in Planned : phase[t] = "completed"
    <2>1. CASE phase[Milestone] # "open"
      BY <1>0, <2>1 DEF After
    <2>2. CASE MergeMilestone
      BY <2>2 DEF MergeMilestone
    <2>3. CASE phase[Milestone] = "open" /\ ~MergeMilestone
      <3>1. CASE DoMerge
        BY <2>3, <3>1, MergeEffect
      <3>2. ASSUME NEW u \in Tasks, TaskStep(u) PROVE phase'[Milestone] = phase[Milestone]
        BY <1>0, <3>2 DEF TaskStep, Create, Develop, AgentEnds, AgentFails, Report,
                          ResetWorktree, Cancel, PurgeChild, Submit, GoTo, Safe, TypeOK
      <3>3. CASE Take \/ Merged \/ Announce \/ UNCHANGED vars
        BY <2>3, <3>3 DEF Take, Merged, Announce, vars
      <3>4. QED
        BY <2>3, <3>1, <3>2, <3>3 DEF Next
    <2>4. QED
      BY <2>1, <2>2, <2>3
  <1>2. \A t \in Planned : phase[t] = "completed" => phase'[t] = "completed"
    BY <1>0, Answers
  <1>3. ASSUME \A t \in Planned : phase[t] = "completed"
        PROVE  Planned \cap saved' \subseteq saved
    BY <1>3, Commits
  <1>4. ASSUME phase'[Milestone] # "open",
               answer'[Milestone] = "merged" \/ phase'[Milestone] \in {"purging", "merged"}
        PROVE  Planned \cap saved' \subseteq work'[Main]
    <2>1. CASE answer[Milestone] = "merged" \/ phase[Milestone] \in {"purging", "merged"}
      BY <1>0, <1>1, <1>3, <1>4, <2>1, Grows DEF After
    <2>2. CASE DoMerge
      <3>1. PICK b \in Mergeable :
               /\ phase[b] = "merging" /\ phase' = phase
               /\ \/ /\ b \in branches \cup {Milestone}
                     /\ answer' = [answer EXCEPT ![b] = "merged"]
                     /\ work' = [work EXCEPT ![b] = Cleaned(b),
                                             ![Parent(b)] = @ \cup Cleaned(b)]
                  \/ answer' = [answer EXCEPT ![b] = "failed"]
        BY <2>2, MergeEffect
      <3>2. CASE b = Milestone
        <4>1. CASE answer' = [answer EXCEPT ![b] = "failed"]
          BY <1>0, <1>4, <3>1, <3>2, <4>1 DEF Safe, TypeOK
        <4>2. CASE work' = [work EXCEPT ![b] = Cleaned(b), ![Parent(b)] = @ \cup Cleaned(b)]
          <5>1. Planned \cap saved \subseteq work[Milestone]
            BY <1>0, <1>1, <1>4 DEF Safe, Taken, ReportedIsIn
          <5>2. Main \in DOMAIN work /\ Parent(b) = Main /\ Milestone # Main
            BY <3>2 DEF Safe, TypeOK, Branches, Parent
          <5>3. work[Milestone] \subseteq work'[Main]
            BY <3>2, <4>2, <5>2 DEF Cleaned
          <5>4. QED
            BY <1>1, <1>3, <1>4, <5>1, <5>3
        <4>3. QED
          BY <3>1, <4>1, <4>2
      <3>3. CASE b # Milestone
        <4>1. answer'[Milestone] = answer[Milestone]
          BY <1>0, <3>1, <3>3 DEF Safe, TypeOK
        <4>2. QED
          BY <1>4, <2>1, <3>1, <4>1
      <3>4. QED
        BY <3>2, <3>3
    <2>3. CASE Merged
      <3>1. answer[Milestone] = "merged"
        BY <1>0, <1>4, <2>3 DEF Merged, GoTo, Safe, TypeOK
      <3>2. QED
        BY <2>1, <3>1
    <2>4. ASSUME NEW u \in Tasks, TaskStep(u)
          PROVE  phase'[Milestone] = phase[Milestone] /\ answer'[Milestone] = answer[Milestone]
      BY <1>0, <2>4 DEF TaskStep, Create, Develop, AgentEnds, AgentFails, Report,
                        ResetWorktree, Cancel, PurgeChild, Submit, GoTo, Safe, TypeOK
    <2>5. CASE Take \/ MergeMilestone \/ Announce \/ UNCHANGED vars
      BY <1>0, <1>4, <2>1, <2>5 DEF Take, MergeMilestone, Announce, Submit, GoTo, vars, Safe,
                                    TypeOK
    <2>6. QED
      BY <1>4, <2>1, <2>2, <2>3, <2>4, <2>5 DEF Next
  <1>5. phase'[Milestone] = "open" => answer'[Milestone] = "none"
    BY <1>0, StepQueued DEF Queued, Safe, TypeOK
  <1>6. QED
    BY <1>1, <1>2, <1>4, <1>5 DEF After

\* Work leaves the branch of a task only when a meeting cancels the task or
\* when the milestone, which has it, is merged.
LEMMA StepNothingLost ==
    ASSUME Safe, [Next]_vars
    PROVE  NothingLost'
  <1> USE MergeAssumption
  <1> SUFFICES ASSUME NEW t \in Planned \cap saved'
               PROVE  \/ t \in work'[t] \cup work'[Milestone] \cup work'[Main]
                      \/ t \in discarded'
    BY DEF NothingLost
  <1>0. t \in Tasks /\ t \in Branches /\ t # Milestone /\ t # Main
    BY DEF Branches, Mergeable
  <1>1. discarded \subseteq discarded'
    <2>1. ASSUME NEW u \in Tasks, TaskStep(u) PROVE discarded \subseteq discarded'
      BY <2>1 DEF TaskStep, Create, Develop, AgentEnds, AgentFails, Report, ResetWorktree,
                  Cancel, PurgeChild
    <2>2. CASE Take \/ DoMerge \/ MergeMilestone \/ Merged \/ Announce \/ UNCHANGED vars
      BY <2>2 DEF Take, DoMerge, MergeMilestone, Merged, Announce, vars
    <2>3. QED
      BY <2>1, <2>2 DEF Next
  <1>2. CASE t \in work[Milestone] \cup work[Main]
    BY <1>2, Grows
  <1>3. CASE DoMerge
    <2>1. PICK b \in Mergeable :
             /\ saved' = saved \cup ({b} \cap files \cap artifacts)
             /\ \/ work' = [work EXCEPT ![b] = Cleaned(b), ![Parent(b)] = @ \cup Cleaned(b)]
                \/ work' = [work EXCEPT ![b] = Cleaned(b)]
      BY <1>3, MergeEffect
    <2>2. Parent(b) # t /\ b \in Branches
      BY <1>0 DEF Parent, Branches, Mergeable
    <2>3. work'[t] = IF t = b THEN Cleaned(t) ELSE work[t]
      BY <1>0, <2>1, <2>2 DEF Safe, TypeOK
    <2>4. CASE t \in saved
      <3>1. t \in work[t] \cup work[Milestone] \cup work[Main] \/ t \in discarded
        BY <2>4 DEF Safe, NothingLost
      <3>2. QED
        BY <1>1, <1>2, <2>3, <3>1 DEF Cleaned
    <2>5. CASE t \notin saved
      BY <2>1, <2>3, <2>5 DEF Cleaned
    <2>6. QED
      BY <2>4, <2>5
  <1>4. ASSUME NEW u \in Tasks, TaskStep(u)
        PROVE  \/ t \in work'[t] \cup work'[Milestone] \cup work'[Main]
               \/ t \in discarded'
    <2>1. CASE Develop(u)
      <3>1. \/ work' = work /\ saved' = saved
            \/ work' = [work EXCEPT ![u] = @ \cup {u}] /\ saved' = saved \cup {u}
        BY <2>1 DEF Develop
      <3>2. work[t] \subseteq work'[t]
        BY <1>0, <3>1 DEF Safe, TypeOK
      <3>3. t \in saved \/ t \in work'[t]
        BY <1>0, <3>1 DEF Safe, TypeOK
      <3>4. t \in saved =>
                t \in work[t] \cup work[Milestone] \cup work[Main] \/ t \in discarded
        BY DEF Safe, NothingLost
      <3>5. QED
        BY <1>1, <1>2, <3>2, <3>3, <3>4
    <2>2. CASE ~Develop(u)
      <3>1. saved' = saved
        BY <1>4, <2>2 DEF TaskStep, Create, AgentEnds, AgentFails, Report, ResetWorktree,
                          Cancel, PurgeChild
      <3>2. t \in work[t] \cup work[Milestone] \cup work[Main] \/ t \in discarded
        BY <3>1 DEF Safe, NothingLost
      <3>3. CASE Cancel(t)
        BY <3>3 DEF Cancel
      <3>4. CASE PurgeChild(t)
        <4>1. t \in work[Main]
          BY <3>1, <3>4 DEF PurgeChild, Safe, After
        <4>2. QED
          BY <1>2, <4>1
      <3>5. CASE ~(u = t /\ (Cancel(u) \/ PurgeChild(u)))
        <4>1. work'[t] = work[t]
          BY <1>0, <1>4, <2>2, <3>5
             DEF TaskStep, Create, AgentEnds, AgentFails, Report, ResetWorktree, Cancel,
                 PurgeChild, PurgeWorktree, Safe, TypeOK
        <4>2. QED
          BY <1>1, <1>2, <3>2, <4>1
      <3>6. QED
        BY <3>3, <3>4, <3>5
    <2>3. QED
      BY <2>1, <2>2
  <1>5. CASE Take \/ MergeMilestone \/ Merged \/ Announce \/ UNCHANGED vars
    BY <1>5 DEF Take, MergeMilestone, Merged, Announce, vars, Safe, NothingLost
  <1>6. QED
    BY <1>3, <1>4, <1>5 DEF Next

-----------------------------------------------------------------------------
\* The theorems

\* Init satisfies the invariant, and every step keeps it.
LEMMA SafeHolds == Spec => []Safe
  <1>1. Init => Full /\ Queued /\ Held /\ Taken /\ After /\ NothingLost
    <2> SUFFICES ASSUME Init
                 PROVE  Full /\ Queued /\ Held /\ Taken /\ After /\ NothingLost
      OBVIOUS
    <2>1. Full /\ Taken /\ NothingLost
      BY MergeAssumption DEF Init, Full, Taken, ReportedIsIn, NothingLost
    <2>2. Len(Whole) = 0
      <3>1. Whole = <<>>
        BY DEF Init, Whole, Served
      <3>2. QED
        BY <3>1
    <2>3. Queued
      BY <2>2 DEF Init, Queued
    <2>4. Held
      BY DEF Init, Held, Branches, Mergeable
    <2>5. After
      BY DEF Init, After, Mergeable
    <2>6. QED
      BY <2>1, <2>3, <2>4, <2>5
  <1>2. TypeOK /\ TypeOK' /\ Safe /\ [Next]_vars => Safe'
    BY LineStep, StepQueued, StepHeld, StepTaken, StepAfter, StepNothingLost DEF Safe
  <1>3. Spec => []TypeOK
    BY TypeCorrect
  <1>4. TypeOK /\ Full /\ Queued /\ Held /\ Taken /\ After /\ NothingLost => Safe
    BY DEF Safe
  <1>5. QED
    BY <1>1, <1>2, <1>3, <1>4, PTL DEF Spec

\* A task is reported complete only when its committed work is in the
\* milestone's branch (ReportedIsIn), whatever a meeting resets or purges
\* while the merge waits.
THEOREM ReportedSafe == Spec => []ReportedIsIn
  <1>1. Safe => ReportedIsIn
    BY DEF Safe, Taken
  <1>2. QED
    BY <1>1, SafeHolds, PTL

\* Committed work of a planned task is never lost unless a meeting cancels
\* the task (NothingLost).
THEOREM NothingIsLost == Spec => []NothingLost
  <1>1. Safe => NothingLost
    BY DEF Safe
  <1>2. QED
    BY <1>1, SafeHolds, PTL

\* When the branches of the tasks are removed, main has the work of all
\* planned tasks: the milestone is merged after them.
MergedIsComplete ==
    phase[Milestone] \in {"purging", "merged"} => Planned \cap saved \subseteq work[Main]

\* When the branches of a milestone's tasks are removed, main has their work
\* (MergedIsComplete).
THEOREM MergedSafe == Spec => []MergedIsComplete
  <1>1. Safe => MergedIsComplete
    BY DEF Safe, After, MergedIsComplete
  <1>2. QED
    BY <1>1, SafeHolds, PTL

\* The branch of a task that was cancelled is gone, so that a merge of it
\* that is still queued fails.
LEMMA StaysOut ==
    ASSUME Safe, [Next]_vars, NEW t \in discarded, t \in work'[Milestone]
    PROVE  t \in work[Milestone]
  <1> USE MergeAssumption
  <1>0. /\ t \in Tasks /\ t \notin branches /\ Milestone \in Branches
        /\ \A u \in Tasks : work[u] \subseteq {u}
    BY DEF Safe, TypeOK, Held, Branches, Mergeable
  <1>1. CASE DoMerge
    <2>1. PICK b \in Mergeable :
             \/ /\ b \in branches \cup {Milestone}
                /\ work' = [work EXCEPT ![b] = Cleaned(b), ![Parent(b)] = @ \cup Cleaned(b)]
             \/ work' = [work EXCEPT ![b] = Cleaned(b)]
      BY <1>1, MergeEffect
    <2>2. Cleaned(Milestone) = work[Milestone]
      BY DEF Cleaned, Safe, TypeOK
    <2>3. CASE b = Milestone
      <3>1. Parent(b) = Main /\ Main # Milestone
        BY <2>3 DEF Parent
      <3>2. work'[Milestone] = work[Milestone]
        BY <1>0, <2>1, <2>2, <2>3, <3>1 DEF Safe, TypeOK
      <3>3. QED
        BY <3>2
    <2>4. CASE b # Milestone
      <3>1. Parent(b) = Milestone /\ b \in Tasks /\ b \in Branches
        BY <2>4 DEF Parent, Mergeable, Branches
      <3>2. \/ work'[Milestone] = work[Milestone]
            \/ b \in branches /\ work'[Milestone] = work[Milestone] \cup Cleaned(b)
        <4>1. work \in [Branches -> SUBSET Tasks]
          BY DEF Safe, TypeOK
        <4>2. CASE work' = [work EXCEPT ![b] = Cleaned(b)]
          BY <1>0, <2>4, <4>1, <4>2
        <4>3. CASE b \in branches
                   /\ work' = [work EXCEPT ![b] = Cleaned(b), ![Parent(b)] = @ \cup Cleaned(b)]
          BY <1>0, <2>4, <3>1, <4>1, <4>3
        <4>4. QED
          BY <2>1, <2>4, <4>2, <4>3
      <3>3. Cleaned(b) \subseteq {b}
        BY <1>0, <3>1 DEF Cleaned
      <3>4. QED
        BY <1>0, <3>2, <3>3
    <2>5. QED
      BY <2>3, <2>4
  <1>2. ASSUME NEW u \in Tasks, TaskStep(u) PROVE work'[Milestone] = work[Milestone]
    <2>1. CASE Develop(u)
      BY <1>0, <2>1 DEF Develop, Safe, TypeOK
    <2>2. CASE Cancel(u) \/ PurgeChild(u)
      BY <1>0, <2>2 DEF Cancel, PurgeChild, PurgeWorktree, Safe, TypeOK
    <2>3. CASE ~Develop(u) /\ ~Cancel(u) /\ ~PurgeChild(u)
      BY <1>2, <2>3 DEF TaskStep, Create, AgentEnds, AgentFails, Report, ResetWorktree
    <2>4. QED
      BY <2>1, <2>2, <2>3
  <1>3. CASE Take \/ MergeMilestone \/ Merged \/ Announce \/ UNCHANGED vars
    BY <1>3 DEF Take, MergeMilestone, Merged, Announce, vars
  <1>4. QED
    BY <1>1, <1>2, <1>3 DEF Next

\* Work of a task that was cancelled before its merge never gets into the
\* milestone's branch (DiscardedStaysOut).
THEOREM DiscardedSafe == Spec => DiscardedStaysOut
  <1>1. Safe /\ [Next]_vars =>
            [\A t \in discarded : t \notin work[Milestone] => t \notin work'[Milestone]]_vars
    BY StaysOut
  <1>2. QED
    BY <1>1, SafeHolds, PTL DEF Spec, DiscardedStaysOut
=============================================================================
