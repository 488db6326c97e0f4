--------------------------- MODULE PollLink_proofs ---------------------------
(***************************************************************************)
(* Theorems about PollLink, for any events, commands, buffer size and      *)
(* number of failures and restarts.                                        *)
(***************************************************************************)
EXTENDS PollLink, FiniteSetTheorems, SequenceTheorems, TLAPS

-----------------------------------------------------------------------------
\* The trimmed buffer

\* How many places of S come no later than i.
Rank(S) == [i \in S |-> Cardinality({j \in S : j <= i})]

\* Distinct places have distinct ranks, so every number up to the size of S
\* is the rank of a place.
LEMMA RankOnto ==
    ASSUME NEW k \in Nat, NEW S \in SUBSET (1 .. k)
    PROVE  /\ Cardinality(S) \in Nat
           /\ Rank(S) \in Surjection(S, 1 .. Cardinality(S))
  <1> DEFINE N == Cardinality(S)
  <1> DEFINE Upto(i) == {j \in S : j <= i}
  <1>1. IsFiniteSet(S) /\ N \in Nat
    <2>1. IsFiniteSet(1 .. k)
      BY FS_Interval
    <2>2. IsFiniteSet(S)
      BY <2>1, FS_Subset
    <2>3. QED
      BY <2>2, FS_CardinalityType
  <1>0. \A i \in S : i \in Int
    OBVIOUS
  <1>2. \A i \in S : /\ IsFiniteSet(Upto(i))
                     /\ Cardinality(Upto(i)) \in 1 .. N
    <2> SUFFICES ASSUME NEW i \in S
                 PROVE  IsFiniteSet(Upto(i)) /\ Cardinality(Upto(i)) \in 1 .. N
      OBVIOUS
    <2>1. Upto(i) \in SUBSET S
      OBVIOUS
    <2>2. IsFiniteSet(Upto(i)) /\ Cardinality(Upto(i)) <= N
      BY <1>1, <2>1, FS_Subset
    <2>3. Cardinality(Upto(i)) \in Nat
      BY <2>2, FS_CardinalityType
    <2>4. i \in Upto(i)
      OBVIOUS
    <2>5. Cardinality(Upto(i)) # 0
      BY <2>2, <2>4, FS_EmptySet
    <2>6. QED
      BY <1>1, <2>2, <2>3, <2>5
  <1>3. \A i, j \in S : i < j => Cardinality(Upto(i)) # Cardinality(Upto(j))
    <2> SUFFICES ASSUME NEW i \in S, NEW j \in S, i < j
                 PROVE  Cardinality(Upto(i)) # Cardinality(Upto(j))
      OBVIOUS
    <2>0. i \in Int /\ j \in Int
      BY <1>0
    <2>1. Upto(i) \in SUBSET Upto(j)
      <3>1. \A x \in S : x <= i => x <= j
        BY <1>0, <2>0
      <3>2. QED
        BY <3>1
    <2>2. j \in Upto(j) /\ j \notin Upto(i)
      BY <1>0
    <2>3. IsFiniteSet(Upto(j))
      BY <1>2
    <2>4. QED
      BY <2>1, <2>2, <2>3, FS_Subset
  <1>4. Rank(S) \in [S -> 1 .. N]
    BY <1>2 DEF Rank
  <1>5. Rank(S) \in Injection(S, 1 .. N)
    <2>1. \A i, j \in S : Rank(S)[i] = Rank(S)[j] => i = j
      <3> SUFFICES ASSUME NEW i \in S, NEW j \in S, Rank(S)[i] = Rank(S)[j]
                   PROVE  i = j
        OBVIOUS
      <3>1. Rank(S)[i] = Cardinality(Upto(i)) /\ Rank(S)[j] = Cardinality(Upto(j))
        BY DEF Rank
      <3>2. ~(i < j) /\ ~(j < i)
        BY <3>1, <1>3
      <3>3. i \in Int /\ j \in Int
        OBVIOUS
      <3>4. QED
        BY <3>2, <3>3
    <2>2. QED
      BY <1>4, <2>1 DEF Injection, IsInjective
  <1>6. IsFiniteSet(1 .. N) /\ Cardinality(1 .. N) = N
    BY <1>1, FS_Interval
  <1>7. Rank(S) \in Surjection(S, 1 .. N)
    BY <1>5, <1>6, FS_Injection
  <1>8. QED
    BY <1>1, <1>7

\* Nth picks the place of each rank, and every place has one.
LEMMA NthPlace ==
    ASSUME NEW k \in Nat, NEW S \in SUBSET (1 .. k)
    PROVE  /\ \A n \in 1 .. Cardinality(S) : Nth(S, n) \in S
           /\ \A i \in S : \E n \in 1 .. Cardinality(S) : Nth(S, n) = i
  <1>1. Cardinality(S) \in Nat /\ Rank(S) \in Surjection(S, 1 .. Cardinality(S))
    BY RankOnto
  <1>2. \A n \in 1 .. Cardinality(S) :
            Nth(S, n) \in S /\ Rank(S)[Nth(S, n)] = n
    <2> SUFFICES ASSUME NEW n \in 1 .. Cardinality(S)
                 PROVE  Nth(S, n) \in S /\ Rank(S)[Nth(S, n)] = n
      OBVIOUS
    <2>1. \E i \in S : Cardinality({j \in S : j <= i}) = n
      BY <1>1 DEF Surjection, Rank
    <2>2. Nth(S, n) \in S /\ Cardinality({j \in S : j <= Nth(S, n)}) = n
      BY <2>1 DEF Nth
    <2>3. QED
      BY <2>2 DEF Rank
  <1>3. \A i \in S : \E n \in 1 .. Cardinality(S) : Nth(S, n) = i
    <2> SUFFICES ASSUME NEW i \in S
                 PROVE  \E n \in 1 .. Cardinality(S) : Nth(S, n) = i
      OBVIOUS
    <2> DEFINE n == Rank(S)[i]
    <2>1. n \in 1 .. Cardinality(S)
      BY <1>1 DEF Surjection
    <2>2. Nth(S, n) \in S /\ Rank(S)[Nth(S, n)] = n
      BY <1>2, <2>1
    <2>3. Rank(S) \in Injection(S, 1 .. Cardinality(S))
      <3>1. IsFiniteSet(S)
        <4>1. IsFiniteSet(1 .. k)
          BY FS_Interval
        <4>2. QED
          BY <4>1, FS_Subset
      <3>2. IsFiniteSet(1 .. Cardinality(S)) /\ Cardinality(1 .. Cardinality(S)) = Cardinality(S)
        BY <1>1, FS_Interval
      <3>3. QED
        BY <1>1, <3>1, <3>2, FS_Surjection
    <2>4. Nth(S, n) = i
      BY <2>2, <2>3 DEF Injection, IsInjective
    <2>5. QED
      BY <2>1, <2>4
  <1>4. QED
    BY <1>2, <1>3

\* Trimming a buffer keeps its critical events and adds none.
LEMMA TrimKeeps ==
    ASSUME NEW buf \in Seq(Events)
    PROVE  /\ Trim(buf) \in Seq(Events)
           /\ Range(Trim(buf)) \subseteq Range(buf)
           /\ Range(buf) \cap Critical \subseteq Range(Trim(buf))
  <1> DEFINE S == Stay(buf)
  <1>1. Len(buf) \in Nat /\ DOMAIN buf = 1 .. Len(buf)
    OBVIOUS
  <1>2. S \in SUBSET (1 .. Len(buf))
    BY <1>1 DEF Stay
  <1>3. Cardinality(S) \in Nat
    BY <1>1, <1>2, RankOnto
  <1>4. /\ \A n \in 1 .. Cardinality(S) : Nth(S, n) \in S
        /\ \A i \in S : \E n \in 1 .. Cardinality(S) : Nth(S, n) = i
    BY <1>1, <1>2, NthPlace
  <1>5. Trim(buf) = [n \in 1 .. Cardinality(S) |-> buf[Nth(S, n)]]
    BY DEF Trim
  <1> HIDE DEF S
  <1>6. \A n \in 1 .. Cardinality(S) : buf[Nth(S, n)] \in Events
    <2>1. \A i \in 1 .. Len(buf) : buf[i] \in Events
      BY ElementOfSeq
    <2>2. \A n \in 1 .. Cardinality(S) : Nth(S, n) \in 1 .. Len(buf)
      BY <1>2, <1>4
    <2>3. QED
      BY <2>1, <2>2
  <1>7. Trim(buf) \in Seq(Events)
    <2> DEFINE t == [n \in 1 .. Cardinality(S) |-> buf[Nth(S, n)]]
    <2>1. t \in [1 .. Cardinality(S) -> Events]
      BY <1>6
    <2> HIDE DEF t
    <2>2. t \in Seq(Events)
      BY <1>3, <2>1
    <2>3. QED
      BY <1>5, <2>2 DEF t
  <1>8. Range(Trim(buf)) \subseteq Range(buf)
    <2> SUFFICES ASSUME NEW n \in 1 .. Cardinality(S)
                 PROVE  buf[Nth(S, n)] \in Range(buf)
      BY <1>5 DEF Range
    <2>1. QED
      BY <1>1, <1>2, <1>4 DEF Range
  <1>9. Range(buf) \cap Critical \subseteq Range(Trim(buf))
    <2> SUFFICES ASSUME NEW e \in Range(buf) \cap Critical
                 PROVE  e \in Range(Trim(buf))
      OBVIOUS
    <2>1. PICK i \in DOMAIN buf : buf[i] = e
      BY DEF Range
    <2>2. i \in S
      BY <2>1 DEF S, Stay
    <2>3. PICK n \in 1 .. Cardinality(S) : Nth(S, n) = i
      BY <2>2, <1>4
    <2>4. QED
      BY <2>1, <2>3, <1>5 DEF Range
  <1>10. QED
    BY <1>7, <1>8, <1>9

-----------------------------------------------------------------------------
\* Types

\* Every variable of the link keeps its type (TypeOK), whatever fails and
\* however often the proxy restarts.
THEOREM TypeCorrect == Spec => []TypeOK
  <1>1. Init => TypeOK
    BY PollAssumption DEF Init, TypeOK, Sending, Phases
  <1>2. TypeOK /\ [Next]_vars => TypeOK'
    <2> SUFFICES ASSUME TypeOK, [Next]_vars
                 PROVE  TypeOK'
      OBVIOUS
    <2> USE PollAssumption DEF TypeOK, Sending, Phases, Fails
    <2>1. ASSUME NEW e \in Events, SendEvent(e)
          PROVE  TypeOK'
      BY <2>1 DEF SendEvent, serverVars, history
    <2>2. ASSUME NEW e \in Events, Arrives(e)
          PROVE  TypeOK'
      BY <2>2 DEF Arrives, history
    <2>3. ASSUME NEW e \in Events, PushOk(e)
          PROVE  TypeOK'
      BY <2>3 DEF PushOk, serverVars, history
    <2>4. ASSUME NEW e \in Events, PushFails(e)
          PROVE  TypeOK'
      <3>1. Append(eventBuf, e) \in Seq(Events) /\ Append(queued, e) \in Seq(Events)
        BY AppendProperties
      <3>2. eventBuf' \in Seq(Events) /\ queued' \in Seq(Events)
        BY <2>4, <3>1, TrimKeeps DEF PushFails
      <3>3. failures' \in 0 .. MaxFailures
        BY <2>4 DEF PushFails
      <3>4. QED
        BY <2>4, <3>2, <3>3 DEF PushFails, serverVars
    <2>5. CASE TakeBuffer
      BY <2>5 DEF TakeBuffer, serverVars, history
    <2>6. CASE FlushArrives
      BY <2>6, RangeOfSeq DEF FlushArrives, history
    <2>7. CASE FlushOk
      BY <2>7 DEF FlushOk, serverVars, history
    <2>8. CASE FlushFails
      <3>1. flight \o eventBuf \in Seq(Events)
        BY ConcatProperties
      <3>2. eventBuf' \in Seq(Events)
        BY <2>8, <3>1, TrimKeeps DEF FlushFails
      <3>3. failures' \in 0 .. MaxFailures
        BY <2>8 DEF FlushFails
      <3>4. QED
        BY <2>8, <3>2, <3>3 DEF FlushFails, serverVars, history
    <2>9. CASE Fetch \/ FetchFails
      <3>1. CASE Fetch
        BY <3>1 DEF Fetch, serverVars, history
      <3>2. CASE FetchFails
        BY <3>2 DEF FetchFails, proxyVars, serverVars, history
      <3>3. QED
        BY <2>9, <3>1, <3>2
    <2>10. CASE Handle
      BY <2>10 DEF Handle, serverVars
    <2>11. CASE ReadPending
      BY <2>11 DEF ReadPending, history
    <2>12. CASE Answered \/ AnswerFails
      <3>1. CASE Answered
        BY <3>1 DEF Answered, serverVars, history
      <3>2. CASE AnswerFails
        BY <3>2 DEF AnswerFails, serverVars, history
      <3>3. QED
        BY <2>12, <3>1, <3>2
    <2>13. ASSUME NEW c \in Commands, SaveCommand(c) \/ Complete(c)
           PROVE  TypeOK'
      <3>1. CASE SaveCommand(c)
        BY <3>1 DEF SaveCommand, proxyVars, history
      <3>2. CASE WriteCompleted(c)
        BY <3>2 DEF WriteCompleted, proxyVars, history
      <3>3. CASE DeletePending(c)
        BY <3>3 DEF DeletePending, proxyVars, history
      <3>4. QED
        BY <2>13, <3>1, <3>2, <3>3 DEF Complete
    <2>14. ASSUME NEW m \in moves, MoveFails(m)
           PROVE  TypeOK'
      BY <2>14 DEF MoveFails, proxyVars, history
    <2>15. CASE Restart
      <3>1. Held \subseteq Events
        BY RangeOfSeq DEF Held
      <3>2. QED
        BY <2>15, <3>1 DEF Restart, serverVars
    <2>16. CASE UNCHANGED vars
      BY <2>16 DEF vars, proxyVars, serverVars, history
    <2>17. QED
      BY <2>1, <2>2, <2>3, <2>4, <2>5, <2>6, <2>7, <2>8, <2>9, <2>10, <2>11,
         <2>12, <2>13, <2>14, <2>15, <2>16 DEF Next, Push, Flush, Poll
  <1>3. QED
    BY <1>1, <1>2, PTL DEF Spec
-----------------------------------------------------------------------------
\* The inductive invariant

\* A critical event that was published is still held, has reached the push
\* Lambda or was in memory when the proxy restarted: neither the trimming of
\* the buffer nor a flush that fails loses one (httppoll/client.go:64, :137).
CriticalKept ==
    \A e \in Critical : sent[e] # "new" => e \in Held \cup received \cup forgotten

\* What a push has brought to its end was received, and events are in flight
\* only while pollLoop pushes them.
Arrived ==
    /\ \A e \in Events : sent[e] = "in" => e \in received
    /\ poll = "in" => Range(flight) \subseteq received
    /\ poll \notin {"out", "in"} => flight = <<>>

\* The command being answered was carried out and is not lost, and a pending
\* entry is deleted only after the completed one is written.
Answering ==
    /\ poll \in {"reply", "replied"} => answer \in executed \cap (pending \cup completed)
    /\ \A c \in Commands : <<c, "written">> \in moves => c \in completed

LinkInv == TypeOK /\ CriticalKept /\ Arrived /\ Recorded /\ Answering

LEMMA RangeAppend ==
    ASSUME NEW s \in Seq(Events), NEW e \in Events
    PROVE  Range(Append(s, e)) = Range(s) \cup {e}
  <1>1. Append(s, e) = s \o <<e>> /\ <<e>> \in Seq(Events)
    BY AppendIsConcat
  <1>2. Range(<<e>>) = {e}
    BY DEF Range
  <1>3. Range(s \o <<e>>) = Range(s) \cup Range(<<e>>)
    BY <1>1, RangeConcatenation
  <1>4. QED
    BY <1>1, <1>2, <1>3

LEMMA EmptyRange == Range(<<>>) = {}
  BY DEF Range

\* What each step does to the events held on this side: the proofs of
\* CriticalKept and of the refinement rest on these facts alone.
Holding ==
    \/ \E e \in Events : /\ Held' = Held \cup {e} /\ received' = received
                        /\ sent' = [sent EXCEPT ![e] = "out"]
    \/ \E S \in SUBSET Held : Held' = Held /\ received' = received \cup S
    \/ /\ Held' \subseteq Held /\ received' = received
       /\ (Held \ Held') \cap Critical \subseteq received
    \/ /\ Held' = {} /\ received' = received
       /\ forgotten' = forgotten \cup Held

LEMMA StepHolding ==
    ASSUME LinkInv, [Next]_vars
    PROVE  Holding /\ forgotten \subseteq forgotten'
  <1> USE DEF LinkInv, TypeOK
  <1>1. ASSUME NEW e \in Events, SendEvent(e)
        PROVE  Holding /\ forgotten \subseteq forgotten'
    <2>1. Held' = Held \cup {e}
      BY <1>1 DEF SendEvent, Held, Sending
    <2>2. QED
      BY <1>1, <2>1 DEF SendEvent, Holding, serverVars, history
  <1>2. ASSUME NEW e \in Events, Arrives(e)
        PROVE  Holding /\ forgotten \subseteq forgotten'
    <2>1. Held' = Held /\ e \in Held
      BY <1>2 DEF Arrives, Held, Sending
    <2>2. QED
      BY <1>2, <2>1 DEF Arrives, Holding, history
  <1>3. ASSUME NEW e \in Events, PushOk(e)
        PROVE  Holding /\ forgotten \subseteq forgotten'
    <2>1. Held' \subseteq Held /\ Held \ Held' \subseteq {e}
      BY <1>3 DEF PushOk, Held, Sending
    <2>2. e \in received
      BY <1>3 DEF PushOk, Arrived
    <2>3. QED
      BY <1>3, <2>1, <2>2 DEF PushOk, Holding, serverVars, history
  <1>4. ASSUME NEW e \in Events, PushFails(e)
        PROVE  Holding /\ forgotten \subseteq forgotten'
    <2> DEFINE buf == Append(eventBuf, e)
    <2>1. buf \in Seq(Events) /\ Range(buf) = Range(eventBuf) \cup {e}
      BY AppendProperties, RangeAppend
    <2>2. /\ Range(eventBuf') \subseteq Range(buf)
          /\ Range(buf) \cap Critical \subseteq Range(eventBuf')
      BY <1>4, <2>1, TrimKeeps DEF PushFails
    <2>3. \A f \in Events : sent'[f] \in {"out", "in"} <=> sent[f] \in {"out", "in"} /\ f # e
      BY <1>4 DEF PushFails, Sending
    <2>4. flight' = flight
      BY <1>4 DEF PushFails
    <2>5. e \in Held
      BY <1>4 DEF PushFails, Held
    <2>6. Held' \subseteq Held
      BY <2>1, <2>2, <2>3, <2>4, <2>5 DEF Held
    <2>7. (Held \ Held') \cap Critical = {}
      BY <2>1, <2>2, <2>3, <2>4 DEF Held
    <2>8. QED
      BY <1>4, <2>6, <2>7 DEF PushFails, Holding, serverVars
  <1>5. CASE TakeBuffer
    <2>1. flight = <<>>
      BY <1>5 DEF TakeBuffer, Arrived
    <2>2. Held' = Held
      BY <1>5, <2>1, EmptyRange DEF TakeBuffer, Held
    <2>3. QED
      BY <1>5, <2>2 DEF TakeBuffer, Holding, serverVars, history
  <1>6. CASE FlushArrives
    <2>1. Held' = Held /\ Range(flight) \subseteq Held
      BY <1>6 DEF FlushArrives, Held
    <2>2. QED
      BY <1>6, <2>1 DEF FlushArrives, Holding, history
  <1>7. CASE FlushOk
    <2>1. Range(flight) \subseteq received
      BY <1>7 DEF FlushOk, Arrived
    <2>2. Held' \subseteq Held /\ Held \ Held' \subseteq Range(flight)
      BY <1>7, EmptyRange DEF FlushOk, Held
    <2>3. QED
      BY <1>7, <2>1, <2>2 DEF FlushOk, Holding, serverVars, history
  <1>8. CASE FlushFails
    <2> DEFINE buf == flight \o eventBuf
    <2>1. buf \in Seq(Events) /\ Range(buf) = Range(flight) \cup Range(eventBuf)
      BY ConcatProperties, RangeConcatenation
    <2>2. /\ Range(eventBuf') \subseteq Range(buf)
          /\ Range(buf) \cap Critical \subseteq Range(eventBuf')
      BY <1>8, <2>1, TrimKeeps DEF FlushFails
    <2>3. flight' = <<>> /\ sent' = sent
      BY <1>8 DEF FlushFails
    <2>4. Held' \subseteq Held
      BY <2>1, <2>2, <2>3, EmptyRange DEF Held
    <2>5. (Held \ Held') \cap Critical = {}
      BY <2>1, <2>2, <2>3 DEF Held
    <2>6. QED
      BY <1>8, <2>4, <2>5 DEF FlushFails, Holding, serverVars, history
  <1>9. CASE Restart
    <2>1. \A e \in Events : sent'[e] \notin {"out", "in"}
      BY <1>9 DEF Restart, Sending
    <2>2. Held' = {}
      BY <1>9, <2>1, EmptyRange DEF Restart, Held
    <2>3. QED
      BY <1>9, <2>2 DEF Restart, Holding, serverVars
  <1>10. ASSUME UNCHANGED <<sent, eventBuf, flight, received, forgotten>>
         PROVE  Holding /\ forgotten \subseteq forgotten'
    <2>1. Held' = Held
      BY <1>10 DEF Held
    <2>2. QED
      BY <1>10, <2>1 DEF Holding
  <1>11. CASE Poll
    <2>1. UNCHANGED <<sent, eventBuf, flight, received, forgotten>>
      BY <1>11 DEF Poll, Fetch, FetchFails, Handle, ReadPending, Answered, AnswerFails,
            proxyVars, serverVars, history
    <2>2. QED
      BY <1>10, <2>1
  <1>12. ASSUME NEW c \in Commands, SaveCommand(c) \/ Complete(c)
         PROVE  Holding /\ forgotten \subseteq forgotten'
    <2>1. UNCHANGED <<sent, eventBuf, flight, received, forgotten>>
      BY <1>12 DEF SaveCommand, Complete, WriteCompleted, DeletePending, proxyVars, history
    <2>2. QED
      BY <1>10, <2>1
  <1>13. ASSUME NEW m \in moves, MoveFails(m)
         PROVE  Holding /\ forgotten \subseteq forgotten'
    <2>1. UNCHANGED <<sent, eventBuf, flight, received, forgotten>>
      BY <1>13 DEF MoveFails, proxyVars, history
    <2>2. QED
      BY <1>10, <2>1
  <1>14. CASE UNCHANGED vars
    BY <1>10, <1>14 DEF vars, proxyVars, serverVars, history
  <1>15. QED
    BY <1>1, <1>2, <1>3, <1>4, <1>5, <1>6, <1>7, <1>8, <1>9, <1>11, <1>12, <1>13,
       <1>14 DEF Next, Push, Flush

\* An event that SendEvent has taken on is held.
LEMMA StepSent ==
    ASSUME TypeOK, [Next]_vars, NEW f \in Events, sent[f] = "new", sent'[f] # "new"
    PROVE  f \in Held'
  <1> USE DEF TypeOK, Sending
  <1>1. ASSUME NEW e \in Events, SendEvent(e)
        PROVE  f \in Held'
    BY <1>1 DEF SendEvent, Held
  <1>2. ASSUME NEW e \in Events, Arrives(e) \/ PushOk(e) \/ PushFails(e)
        PROVE  f \in Held'
    BY <1>2 DEF Arrives, PushOk, PushFails
  <1>3. CASE Flush
    BY <1>3 DEF Flush, TakeBuffer, FlushArrives, FlushOk, FlushFails
  <1>4. CASE Poll
    BY <1>4 DEF Poll, Fetch, FetchFails, Handle, ReadPending, Answered, AnswerFails, proxyVars
  <1>5. ASSUME NEW c \in Commands, SaveCommand(c) \/ Complete(c)
        PROVE  f \in Held'
    BY <1>5 DEF SaveCommand, Complete, WriteCompleted, DeletePending, proxyVars
  <1>6. ASSUME NEW m \in moves, MoveFails(m)
        PROVE  f \in Held'
    BY <1>6 DEF MoveFails, proxyVars
  <1>7. CASE Restart
    BY <1>7 DEF Restart
  <1>8. CASE UNCHANGED vars
    BY <1>8 DEF vars, proxyVars
  <1>9. QED
    BY <1>1, <1>2, <1>3, <1>4, <1>5, <1>6, <1>7, <1>8 DEF Next, Push

LEMMA StepCritical ==
    ASSUME LinkInv, [Next]_vars
    PROVE  CriticalKept'
  <1>1. Holding /\ forgotten \subseteq forgotten'
    BY StepHolding
  <1>2. received \subseteq received'
    BY <1>1 DEF Holding
  <1> SUFFICES ASSUME NEW e \in Critical, sent'[e] # "new"
               PROVE  e \in Held' \cup received' \cup forgotten'
    BY DEF CriticalKept
  <1>3. e \in Events
    BY PollAssumption
  <1>4. CASE sent[e] = "new"
    BY <1>3, <1>4, StepSent DEF LinkInv
  <1>5. CASE sent[e] # "new"
    <2>1. e \in Held \cup received \cup forgotten
      BY <1>5 DEF LinkInv, CriticalKept
    <2>2. e \in Held => e \in Held' \cup received' \cup forgotten'
      BY <1>1, <1>2 DEF Holding
    <2>3. QED
      BY <1>1, <1>2, <2>1, <2>2
  <1>6. QED
    BY <1>4, <1>5

LEMMA StepArrived ==
    ASSUME LinkInv, [Next]_vars
    PROVE  Arrived'
  <1> USE DEF LinkInv, TypeOK, Arrived, Sending
  <1>1. ASSUME NEW e \in Events, SendEvent(e) \/ Arrives(e) \/ PushOk(e) \/ PushFails(e)
        PROVE  Arrived'
    BY <1>1 DEF SendEvent, Arrives, PushOk, PushFails, serverVars
  <1>2. CASE TakeBuffer
    BY <1>2 DEF TakeBuffer, serverVars
  <1>3. CASE FlushArrives
    BY <1>3 DEF FlushArrives
  <1>4. CASE FlushOk
    BY <1>4 DEF FlushOk, serverVars
  <1>5. CASE FlushFails
    BY <1>5 DEF FlushFails, serverVars
  <1>6. CASE Poll
    BY <1>6 DEF Poll, Fetch, FetchFails, Handle, ReadPending, Answered, AnswerFails,
          proxyVars, serverVars
  <1>7. ASSUME NEW c \in Commands, SaveCommand(c) \/ Complete(c)
        PROVE  Arrived'
    BY <1>7 DEF SaveCommand, Complete, WriteCompleted, DeletePending, proxyVars
  <1>8. ASSUME NEW m \in moves, MoveFails(m)
        PROVE  Arrived'
    BY <1>8 DEF MoveFails, proxyVars
  <1>9. CASE Restart
    BY <1>9 DEF Restart, serverVars
  <1>10. CASE UNCHANGED vars
    BY <1>10 DEF vars, proxyVars, serverVars
  <1>11. QED
    BY <1>1, <1>2, <1>3, <1>4, <1>5, <1>6, <1>7, <1>8, <1>9, <1>10 DEF Next, Push, Flush

\* The facts about commands do not depend on the events.
LEMMA StepRecorded ==
    ASSUME LinkInv, [Next]_vars
    PROVE  Recorded' /\ Answering'
  <1> USE DEF LinkInv, TypeOK, Recorded, Answering
  <1>1. ASSUME UNCHANGED <<todo, answer, pending, completed, moves, executed>>,
               poll' \in {"reply", "replied"} => poll' = poll
        PROVE  Recorded' /\ Answering'
    BY <1>1
  <1>2. ASSUME NEW e \in Events, SendEvent(e) \/ Arrives(e) \/ PushOk(e) \/ PushFails(e)
        PROVE  Recorded' /\ Answering'
    BY <1>1, <1>2 DEF SendEvent, Arrives, PushOk, PushFails, serverVars, history
  <1>3. CASE Flush
    BY <1>1, <1>3 DEF Flush, TakeBuffer, FlushArrives, FlushOk, FlushFails, serverVars, history
  <1>4. CASE Fetch
    BY <1>4 DEF Fetch, serverVars, history
  <1>5. CASE FetchFails
    BY <1>5 DEF FetchFails, proxyVars, serverVars, history
  <1>6. CASE Handle
    BY <1>6 DEF Handle, serverVars
  <1>7. CASE ReadPending
    BY <1>7 DEF ReadPending, history
  <1>8. CASE Answered
    BY <1>8 DEF Answered, serverVars, history
  <1>9. CASE AnswerFails
    BY <1>9 DEF AnswerFails, serverVars, history
  <1>10. ASSUME NEW c \in Commands, SaveCommand(c)
         PROVE  Recorded' /\ Answering'
    BY <1>10 DEF SaveCommand, proxyVars, history
  <1>11. ASSUME NEW c \in Commands, WriteCompleted(c)
         PROVE  Recorded' /\ Answering'
    BY <1>11 DEF WriteCompleted, proxyVars, history
  <1>12. ASSUME NEW c \in Commands, DeletePending(c)
         PROVE  Recorded' /\ Answering'
    BY <1>12 DEF DeletePending, proxyVars, history
  <1>13. ASSUME NEW m \in moves, MoveFails(m)
         PROVE  Recorded' /\ Answering'
    BY <1>13 DEF MoveFails, proxyVars, history
  <1>14. CASE Restart
    BY <1>14 DEF Restart, serverVars
  <1>15. CASE UNCHANGED vars
    BY <1>15 DEF vars, proxyVars, serverVars, history
  <1>16. QED
    BY <1>2, <1>3, <1>4, <1>5, <1>6, <1>7, <1>8, <1>9, <1>10, <1>11, <1>12, <1>13,
       <1>14, <1>15 DEF Next, Push, Poll, Complete

\* The facts that every step keeps: together they imply the properties below.
THEOREM LinkInvariant == Spec => []LinkInv
  <1>1. Init => LinkInv
    BY PollAssumption, EmptyRange DEF Init, LinkInv, TypeOK, CriticalKept, Arrived,
       Recorded, Answering, Sending, Phases
  <1>2. LinkInv /\ [Next]_vars /\ TypeOK' => LinkInv'
    BY StepCritical, StepArrived, StepRecorded DEF LinkInv
  <1>3. QED
    BY <1>1, <1>2, TypeCorrect, PTL DEF Spec

\* No critical event that was published is ever lost, whatever the size of
\* the buffer and however many pushes fail.
THEOREM CriticalSafe == Spec => []CriticalKept
  BY LinkInvariant, PTL DEF LinkInv

\* No command is answered before it was carried out or lost while it moves.
THEOREM CommandsRecorded == Spec => []Recorded
  BY LinkInvariant, PTL DEF LinkInv

-----------------------------------------------------------------------------
\* The link keeps what it is given

\* Every step of the link is a step of Delivery for its events, or none.
LEMMA EventStep ==
    ASSUME Holding
    PROVE  [EventLink!Next]_<<Held, received>>
  <1>1. ASSUME NEW e \in Events, Held' = Held \cup {e}, received' = received
        PROVE  EventLink!Next
    BY <1>1 DEF EventLink!Next, EventLink!Hand
  <1>2. ASSUME NEW S \in SUBSET Held, Held' = Held, received' = received \cup S
        PROVE  EventLink!Next
    BY <1>2 DEF EventLink!Next, EventLink!Deliver
  <1>3. ASSUME Held' \subseteq Held, received' = received,
               (Held \ Held') \cap Critical \subseteq received
        PROVE  EventLink!Next
    <2> DEFINE S == Held \ Held'
    <2>1. S \in SUBSET Held /\ Held' = Held \ S
      BY <1>3
    <2>2. EventLink!Release(S)
      BY <1>3, <2>1 DEF EventLink!Release
    <2>3. QED
      BY <2>1, <2>2 DEF EventLink!Next
  <1>4. ASSUME Held' = {}, received' = received
        PROVE  EventLink!Next
    BY <1>4 DEF EventLink!Next, EventLink!Crash
  <1>5. QED
    BY <1>1, <1>2, <1>3, <1>4 DEF Holding

\* PollLink implements Delivery for the events it is given to send.
THEOREM EventsRefined == Spec => EventsKept
  <1>1. Init => EventLink!Init
    BY EmptyRange DEF Init, EventLink!Init, Held
  <1>2. LinkInv /\ [Next]_vars => [EventLink!Next]_<<Held, received>>
    BY StepHolding, EventStep
  <1>3. QED
    BY <1>1, <1>2, LinkInvariant, PTL DEF Spec, EventsKept, EventLink!Spec

\* Every step of the link is a step of Delivery for its commands, or none.
LEMMA CommandStep ==
    ASSUME LinkInv, [Next]_vars
    PROVE  [CommandLink!Next]_<<pending, executed>>
  <1> USE DEF LinkInv, TypeOK
  <1>1. ASSUME UNCHANGED <<pending, executed>>
        PROVE  [CommandLink!Next]_<<pending, executed>>
    BY <1>1
  <1>2. ASSUME NEW e \in Events, SendEvent(e) \/ Arrives(e) \/ PushOk(e) \/ PushFails(e)
        PROVE  UNCHANGED <<pending, executed>>
    BY <1>2 DEF SendEvent, Arrives, PushOk, PushFails, serverVars, history
  <1>3. CASE Flush
    BY <1>3 DEF Flush, TakeBuffer, FlushArrives, FlushOk, FlushFails, serverVars, history
  <1>4. CASE Fetch \/ FetchFails \/ ReadPending \/ Answered \/ AnswerFails
    BY <1>4 DEF Fetch, FetchFails, ReadPending, Answered, AnswerFails, serverVars, history
  <1>5. CASE Handle
    <2>1. PICK c \in todo : executed' = executed \cup {c}
      BY <1>5 DEF Handle
    <2>2. pending' = pending
      BY <1>5 DEF Handle, serverVars
    <2>3. CASE c \in pending
      BY <2>1, <2>2, <2>3 DEF CommandLink!Next, CommandLink!Deliver
    <2>4. CASE c \notin pending
      <3>1. c \in executed
        BY <2>1, <2>4 DEF Recorded
      <3>2. QED
        BY <2>1, <2>2, <3>1
    <2>5. QED
      BY <2>3, <2>4
  <1>6. ASSUME NEW c \in Commands, SaveCommand(c)
        PROVE  CommandLink!Next
    <2>1. CommandLink!Hand(c)
      BY <1>6 DEF SaveCommand, history, CommandLink!Hand
    <2>2. QED
      BY <2>1 DEF CommandLink!Next
  <1>7. ASSUME NEW c \in Commands, WriteCompleted(c)
        PROVE  UNCHANGED <<pending, executed>>
    BY <1>7 DEF WriteCompleted, history
  <1>8. ASSUME NEW c \in Commands, DeletePending(c)
        PROVE  [CommandLink!Next]_<<pending, executed>>
    <2>1. c \in executed
      BY <1>8 DEF DeletePending, Recorded
    <2>2. pending' = pending \ {c} /\ executed' = executed
      BY <1>8 DEF DeletePending, history
    <2>3. CASE c \in pending
      <3>1. CommandLink!Release({c}) /\ {c} \in SUBSET pending
        BY <2>1, <2>2, <2>3 DEF CommandLink!Release
      <3>2. QED
        BY <3>1 DEF CommandLink!Next
    <2>4. CASE c \notin pending
      BY <2>2, <2>4
    <2>5. QED
      BY <2>3, <2>4
  <1>9. ASSUME NEW m \in moves, MoveFails(m)
        PROVE  UNCHANGED <<pending, executed>>
    BY <1>9 DEF MoveFails, history
  <1>10. CASE Restart
    BY <1>10 DEF Restart, serverVars
  <1>11. CASE UNCHANGED vars
    BY <1>11 DEF vars, serverVars, history
  <1>12. QED
    BY <1>1, <1>2, <1>3, <1>4, <1>5, <1>6, <1>7, <1>8, <1>9, <1>10, <1>11
       DEF Next, Push, Poll, Complete

\* PollLink implements Delivery for the commands saved for it, across
\* restarts of the proxy.
THEOREM CommandsRefined == Spec => CommandsKept
  <1>1. Init => CommandLink!Init
    BY DEF Init, CommandLink!Init
  <1>2. LinkInv /\ [Next]_vars => [CommandLink!Next]_<<pending, executed>>
    BY CommandStep
  <1>3. QED
    BY <1>1, <1>2, LinkInvariant, PTL DEF Spec, CommandsKept, CommandLink!Spec

-----------------------------------------------------------------------------
\* The order of the buffer

\* The elements of s stand in the order in which they once came into q.
InOrder(s, q) ==
    \A i, j \in DOMAIN s : i < j => \E k, l \in DOMAIN q : k < l /\ q[k] = s[i] /\ q[l] = s[j]

\* s is what is left of t when some elements are taken out.
PartOf(s, t) ==
    \E f \in [DOMAIN s -> DOMAIN t] : /\ \A i, j \in DOMAIN s : i < j => f[i] < f[j]
                                      /\ \A i \in DOMAIN s : s[i] = t[f[i]]

\* What is left stands in the same order.
LEMMA PartInOrder ==
    ASSUME NEW s, NEW t, NEW q, PartOf(s, t), InOrder(t, q)
    PROVE  InOrder(s, q)
  <1>1. PICK f \in [DOMAIN s -> DOMAIN t] : /\ \A i, j \in DOMAIN s : i < j => f[i] < f[j]
                                            /\ \A i \in DOMAIN s : s[i] = t[f[i]]
    BY DEF PartOf
  <1>2. SUFFICES ASSUME NEW i \in DOMAIN s, NEW j \in DOMAIN s, i < j
                 PROVE  \E k, l \in DOMAIN q : k < l /\ q[k] = s[i] /\ q[l] = s[j]
    BY DEF InOrder
  <1>3. f[i] \in DOMAIN t /\ f[j] \in DOMAIN t /\ f[i] < f[j]
    BY <1>1, <1>2
  <1>4. PICK k, l \in DOMAIN q : k < l /\ q[k] = t[f[i]] /\ q[l] = t[f[j]]
    BY <1>3 DEF InOrder
  <1>5. QED
    BY <1>1, <1>4

LEMMA PartRange ==
    ASSUME NEW s, NEW t, PartOf(s, t)
    PROVE  Range(s) \subseteq Range(t)
  BY DEF PartOf, Range

\* Later places of a set have higher ranks.
LEMMA NthGrows ==
    ASSUME NEW k \in Nat, NEW S \in SUBSET (1 .. k),
           NEW n \in 1 .. Cardinality(S), NEW m \in 1 .. Cardinality(S), n < m
    PROVE  Nth(S, n) < Nth(S, m)
  <1> DEFINE Upto(i) == {j \in S : j <= i}
  <1>1. Cardinality(S) \in Nat /\ Rank(S) \in Surjection(S, 1 .. Cardinality(S))
    BY RankOnto
  <1>2. \A r \in 1 .. Cardinality(S) : Nth(S, r) \in S /\ Cardinality(Upto(Nth(S, r))) = r
    <2> SUFFICES ASSUME NEW r \in 1 .. Cardinality(S)
                 PROVE  Nth(S, r) \in S /\ Cardinality({j \in S : j <= Nth(S, r)}) = r
      OBVIOUS
    <2>1. \E i \in S : Cardinality({j \in S : j <= i}) = r
      BY <1>1 DEF Surjection, Rank
    <2>2. QED
      BY <2>1 DEF Nth
  <1>3. Nth(S, n) \in Int /\ Nth(S, m) \in Int
    <2>1. S \subseteq Int
      OBVIOUS
    <2>2. QED
      BY <1>2, <2>1
  <1>4. ASSUME Nth(S, m) <= Nth(S, n) PROVE FALSE
    <2>1. Upto(Nth(S, m)) \subseteq Upto(Nth(S, n))
      <3>1. \A x \in S : x <= Nth(S, m) => x <= Nth(S, n)
        BY <1>3, <1>4
      <3>2. QED
        BY <3>1
    <2>2. IsFiniteSet(Upto(Nth(S, n)))
      <3>1. IsFiniteSet(1 .. k)
        BY FS_Interval
      <3>2. Upto(Nth(S, n)) \subseteq 1 .. k
        OBVIOUS
      <3>3. QED
        BY <3>1, <3>2, FS_Subset
    <2>3. Cardinality(Upto(Nth(S, m))) <= Cardinality(Upto(Nth(S, n)))
      BY <2>1, <2>2, FS_Subset
    <2>4. QED
      BY <1>2, <2>3
  <1>5. QED
    BY <1>3, <1>4

\* Trimming a buffer takes elements out of it and moves none.
LEMMA TrimPart ==
    ASSUME NEW buf \in Seq(Events)
    PROVE  PartOf(Trim(buf), buf)
  <1> DEFINE S == Stay(buf)
             f == [n \in 1 .. Cardinality(S) |-> Nth(S, n)]
  <1>1. Len(buf) \in Nat /\ DOMAIN buf = 1 .. Len(buf)
    OBVIOUS
  <1>2. S \in SUBSET (1 .. Len(buf))
    BY <1>1 DEF Stay
  <1>3. DOMAIN Trim(buf) = 1 .. Cardinality(S)
        /\ \A n \in 1 .. Cardinality(S) : Trim(buf)[n] = buf[Nth(S, n)]
    BY DEF Trim
  <1> HIDE DEF S
  <1>4. \A n \in 1 .. Cardinality(S) : Nth(S, n) \in DOMAIN buf
    BY <1>1, <1>2, NthPlace
  <1>5. \A n, m \in 1 .. Cardinality(S) : n < m => Nth(S, n) < Nth(S, m)
    BY <1>1, <1>2, NthGrows
  <1>6. /\ f \in [1 .. Cardinality(S) -> DOMAIN buf]
        /\ \A n \in 1 .. Cardinality(S) : f[n] = Nth(S, n)
    BY <1>4
  <1> HIDE DEF f
  <1>7. /\ f \in [DOMAIN Trim(buf) -> DOMAIN buf]
        /\ \A i, j \in DOMAIN Trim(buf) : i < j => f[i] < f[j]
        /\ \A i \in DOMAIN Trim(buf) : Trim(buf)[i] = buf[f[i]]
    BY <1>3, <1>5, <1>6
  <1>8. QED
    BY <1>7 DEF PartOf

\* The places of two sequences one behind the other.
LEMMA ConcatPlaces ==
    ASSUME NEW a \in Seq(Events), NEW b \in Seq(Events)
    PROVE  /\ Len(a) \in Nat /\ Len(b) \in Nat
           /\ DOMAIN a = 1 .. Len(a) /\ DOMAIN b = 1 .. Len(b)
           /\ DOMAIN (a \o b) = 1 .. (Len(a) + Len(b))
           /\ \A i \in 1 .. Len(a) : (a \o b)[i] = a[i]
           /\ \A i \in 1 .. Len(b) : (a \o b)[Len(a) + i] = b[i]
  <1>1. a \o b \in Seq(Events) /\ Len(a \o b) = Len(a) + Len(b)
    BY ConcatProperties
  <1>2. Len(a) \in Nat /\ Len(b) \in Nat /\ DOMAIN a = 1 .. Len(a) /\ DOMAIN b = 1 .. Len(b)
    BY LenProperties
  <1>3. \A i \in 1 .. Len(a) : (a \o b)[i] = a[i]
    BY <1>2, ConcatProperties
  <1>4. \A i \in 1 .. Len(b) : (a \o b)[Len(a) + i] = b[i]
    <2> SUFFICES ASSUME NEW i \in 1 .. Len(b) PROVE (a \o b)[Len(a) + i] = b[i]
      OBVIOUS
    <2>1. Len(a) + i \in 1 .. (Len(a) + Len(b)) /\ ~(Len(a) + i <= Len(a)) /\ (Len(a) + i) - Len(a) = i
      BY <1>2
    <2>2. QED
      BY <2>1, ConcatProperties
  <1>5. QED
    BY <1>1, <1>2, <1>3, <1>4, LenProperties

\* The order of what stands behind a does not depend on a.
LEMMA BehindPart ==
    ASSUME NEW a \in Seq(Events), NEW b \in Seq(Events), NEW c \in Seq(Events), PartOf(b, c)
    PROVE  PartOf(a \o b, a \o c)
  <1>1. PICK f \in [DOMAIN b -> DOMAIN c] : /\ \A i, j \in DOMAIN b : i < j => f[i] < f[j]
                                            /\ \A i \in DOMAIN b : b[i] = c[f[i]]
    BY DEF PartOf
  <1> DEFINE n == Len(a)
             g == [i \in 1 .. (n + Len(b)) |-> IF i <= n THEN i ELSE n + f[i - n]]
  <1>2. /\ n \in Nat /\ Len(b) \in Nat /\ Len(c) \in Nat
        /\ DOMAIN b = 1 .. Len(b) /\ DOMAIN c = 1 .. Len(c)
        /\ DOMAIN (a \o b) = 1 .. (n + Len(b)) /\ DOMAIN (a \o c) = 1 .. (n + Len(c))
        /\ \A i \in 1 .. n : (a \o b)[i] = a[i] /\ (a \o c)[i] = a[i]
        /\ \A i \in 1 .. Len(b) : (a \o b)[n + i] = b[i]
        /\ \A i \in 1 .. Len(c) : (a \o c)[n + i] = c[i]
    BY ConcatPlaces
  <1> HIDE DEF n
  <1>3. \A i \in 1 .. (n + Len(b)) :
           ~(i <= n) => i - n \in 1 .. Len(b) /\ i = n + (i - n)
    BY <1>2
  <1>4. \A i \in 1 .. Len(b) : f[i] \in 1 .. Len(c)
    BY <1>1, <1>2
  <1>5. \A i \in 1 .. (n + Len(b)) : (IF i <= n THEN i ELSE n + f[i - n]) \in 1 .. (n + Len(c))
    <2> SUFFICES ASSUME NEW i \in 1 .. (n + Len(b))
                 PROVE  (IF i <= n THEN i ELSE n + f[i - n]) \in 1 .. (n + Len(c))
      OBVIOUS
    <2>1. CASE i <= n
      BY <1>2, <2>1
    <2>2. CASE ~(i <= n)
      <3>1. f[i - n] \in 1 .. Len(c)
        BY <1>3, <1>4, <2>2
      <3>2. n + f[i - n] \in 1 .. (n + Len(c))
        BY <1>2, <3>1
      <3>3. QED
        BY <2>2, <3>2
    <2>3. QED
      BY <2>1, <2>2
  <1>6. g \in [1 .. (n + Len(b)) -> 1 .. (n + Len(c))]
    BY <1>5
  <1>7. ASSUME NEW i \in 1 .. (n + Len(b)), NEW j \in 1 .. (n + Len(b)), i < j
        PROVE  g[i] < g[j]
    <2>1. CASE j <= n
      BY <1>7, <1>2, <2>1
    <2>2. CASE i <= n /\ ~(j <= n)
      <3>1. f[j - n] \in 1 .. Len(c)
        BY <1>2, <1>3, <1>4, <2>2
      <3>2. QED
        BY <1>2, <2>2, <3>1
    <2>3. CASE ~(i <= n)
      <3>1. /\ i - n \in 1 .. Len(b) /\ j - n \in 1 .. Len(b)
            /\ i - n < j - n /\ ~(j <= n)
        BY <1>2, <1>7, <2>3
      <3>2. f[i - n] < f[j - n] /\ f[i - n] \in 1 .. Len(c) /\ f[j - n] \in 1 .. Len(c)
        BY <1>1, <1>2, <1>4, <3>1
      <3>3. QED
        BY <1>2, <2>3, <3>1, <3>2
    <2>4. QED
      BY <1>2, <1>7, <2>1, <2>2, <2>3
  <1>8. ASSUME NEW i \in 1 .. (n + Len(b))
        PROVE  (a \o b)[i] = (a \o c)[g[i]]
    <2>1. CASE i <= n
      BY <1>2, <2>1
    <2>2. CASE ~(i <= n)
      <3>1. i - n \in 1 .. Len(b) /\ i = n + (i - n)
        BY <1>2, <2>2
      <3>2. (a \o b)[i] = b[i - n] /\ b[i - n] = c[f[i - n]]
        BY <1>1, <1>2, <3>1
      <3>3. (a \o c)[n + f[i - n]] = c[f[i - n]]
        BY <1>2, <1>4, <3>1
      <3>4. QED
        BY <2>2, <3>2, <3>3
    <2>3. QED
      BY <2>1, <2>2
  <1> HIDE DEF g
  <1>9. QED
    BY <1>2, <1>6, <1>7, <1>8 DEF PartOf

\* What stands behind a is a part of the whole.
LEMMA TailPart ==
    ASSUME NEW a \in Seq(Events), NEW b \in Seq(Events)
    PROVE  PartOf(b, a \o b)
  <1> DEFINE n == Len(a)
             f == [i \in 1 .. Len(b) |-> n + i]
  <1>1. /\ n \in Nat /\ Len(b) \in Nat
        /\ DOMAIN b = 1 .. Len(b) /\ DOMAIN (a \o b) = 1 .. (n + Len(b))
        /\ \A i \in 1 .. Len(b) : (a \o b)[n + i] = b[i]
    BY ConcatPlaces
  <1> HIDE DEF n
  <1>2. f \in [1 .. Len(b) -> 1 .. (n + Len(b))] /\ \A i \in 1 .. Len(b) : f[i] = n + i
    BY <1>1
  <1>3. \A i, j \in 1 .. Len(b) : i < j => f[i] < f[j]
    BY <1>1
  <1> HIDE DEF f
  <1>4. /\ f \in [DOMAIN b -> DOMAIN (a \o b)]
        /\ \A i, j \in DOMAIN b : i < j => f[i] < f[j]
        /\ \A i \in DOMAIN b : b[i] = (a \o b)[f[i]]
    BY <1>1, <1>2, <1>3
  <1>5. QED
    BY <1>4 DEF PartOf

\* An event that fails last stands behind all others.
LEMMA AppendInOrder ==
    ASSUME NEW s \in Seq(Events), NEW q \in Seq(Events), NEW e \in Events,
           InOrder(s, q), Range(s) \subseteq Range(q)
    PROVE  InOrder(Append(s, e), Append(q, e))
  <1>1. /\ Len(s) \in Nat /\ Len(q) \in Nat
        /\ DOMAIN s = 1 .. Len(s) /\ DOMAIN q = 1 .. Len(q)
    BY LenProperties
  <1>2. /\ DOMAIN Append(s, e) = 1 .. (Len(s) + 1) /\ DOMAIN Append(q, e) = 1 .. (Len(q) + 1)
        /\ \A i \in 1 .. Len(s) : Append(s, e)[i] = s[i]
        /\ \A i \in 1 .. Len(q) : Append(q, e)[i] = q[i]
        /\ Append(s, e)[Len(s) + 1] = e /\ Append(q, e)[Len(q) + 1] = e
    BY AppendProperties, LenProperties
  <1> DEFINE sa == Append(s, e)
             qa == Append(q, e)
  <1> HIDE DEF sa, qa
  <1>0. DOMAIN sa = 1 .. (Len(s) + 1) /\ DOMAIN qa = 1 .. (Len(q) + 1)
    BY <1>2 DEF sa, qa
  <1>3. ASSUME NEW i \in 1 .. (Len(s) + 1), NEW j \in 1 .. (Len(s) + 1), i < j
        PROVE  \E k, l \in 1 .. (Len(q) + 1) : k < l /\ qa[k] = sa[i] /\ qa[l] = sa[j]
    <2>4. i \in 1 .. Len(s)
      BY <1>1, <1>3
    <2>5. CASE j = Len(s) + 1
      <3>1. PICK k \in 1 .. Len(q) : q[k] = s[i]
        BY <1>1, <2>4 DEF Range
      <3>2. k < Len(q) + 1 /\ k \in 1 .. (Len(q) + 1) /\ Len(q) + 1 \in 1 .. (Len(q) + 1)
        BY <1>1
      <3>3. QED
        BY <1>2, <2>4, <2>5, <3>1, <3>2 DEF sa, qa
    <2>6. CASE j # Len(s) + 1
      <3>1. j \in 1 .. Len(s)
        BY <1>1, <2>6
      <3>2. PICK k, l \in 1 .. Len(q) : k < l /\ q[k] = s[i] /\ q[l] = s[j]
        BY <1>1, <1>3, <2>4, <3>1 DEF InOrder
      <3>3. k \in 1 .. (Len(q) + 1) /\ l \in 1 .. (Len(q) + 1)
        BY <1>1
      <3>4. QED
        BY <1>2, <2>4, <3>1, <3>2, <3>3 DEF sa, qa
    <2>7. QED
      BY <2>5, <2>6
  <1>4. InOrder(sa, qa)
    <2>1. \A i, j \in DOMAIN sa :
             i < j => \E k, l \in 1 .. (Len(q) + 1) : k < l /\ qa[k] = sa[i] /\ qa[l] = sa[j]
      BY <1>0, <1>3
    <2>2. \A i, j \in DOMAIN sa :
             i < j => \E k, l \in DOMAIN qa : k < l /\ qa[k] = sa[i] /\ qa[l] = sa[j]
      BY <1>0, <2>1
    <2>3. QED
      BY <2>2, Zenon DEF InOrder
  <1>5. QED
    BY <1>4 DEF sa, qa

\* The inductive invariant: what waits to be pushed again stands in the order
\* in which it failed, and everything there has failed.
Lined == LET line == flight \o eventBuf
         IN  InOrder(line, queued) /\ Range(line) \subseteq Range(queued)

LEMMA LinedStep == ASSUME TypeOK, Arrived, Lined, [Next]_vars PROVE Lined'
  <1> DEFINE line == flight \o eventBuf
  <1>1. /\ line \in Seq(Events) /\ flight \in Seq(Events) /\ eventBuf \in Seq(Events)
        /\ queued \in Seq(Events) /\ <<>> \in Seq(Events)
    BY ConcatProperties, EmptySeq DEF TypeOK
  <1>2. InOrder(line, queued) /\ Range(line) \subseteq Range(queued)
    BY DEF Lined
  <1>3. ASSUME PartOf(flight' \o eventBuf', line), queued' = queued
        PROVE  Lined'
    <2>1. InOrder(flight' \o eventBuf', queued)
      BY <1>2, <1>3, PartInOrder
    <2>2. Range(flight' \o eventBuf') \subseteq Range(line)
      BY <1>3, PartRange
    <2>3. QED
      BY <1>2, <1>3, <2>1, <2>2 DEF Lined
  <1>4. ASSUME UNCHANGED <<flight, eventBuf, queued>> PROVE Lined'
    BY <1>4 DEF Lined
  <1> HIDE DEF line
  <1>5. ASSUME NEW e \in Events, PushFails(e) PROVE Lined'
    <2> DEFINE buf == Append(eventBuf, e)
    <2>1. flight' = flight /\ eventBuf' = Trim(buf) /\ queued' = Append(queued, e)
      BY <1>5 DEF PushFails
    <2>2. buf \in Seq(Events) /\ buf = eventBuf \o <<e>> /\ <<e>> \in Seq(Events)
      BY <1>1, AppendProperties, AppendIsConcat
    <2>3. flight \o buf = Append(line, e)
      <3>1. (flight \o eventBuf) \o <<e>> = flight \o (eventBuf \o <<e>>)
        BY <1>1, <2>2, ConcatAssociative
      <3>2. Append(line, e) = line \o <<e>>
        BY <1>1, AppendIsConcat
      <3>3. QED
        BY <2>2, <3>1, <3>2 DEF line
    <2>4. InOrder(Append(line, e), Append(queued, e))
      BY <1>1, <1>2, AppendInOrder
    <2>5. Range(Append(line, e)) \subseteq Range(Append(queued, e))
      BY <1>1, <1>2, RangeAppend
    <2> HIDE DEF buf
    <2>6. Trim(buf) \in Seq(Events) /\ PartOf(Trim(buf), buf)
      BY <2>2, TrimKeeps, TrimPart
    <2>7. PartOf(flight \o Trim(buf), Append(line, e))
      BY <1>1, <2>2, <2>3, <2>6, BehindPart
    <2>8. InOrder(flight' \o eventBuf', queued') /\ Range(flight' \o eventBuf') \subseteq Range(queued')
      BY <2>1, <2>4, <2>5, <2>7, PartInOrder, PartRange
    <2>9. QED
      BY <2>8 DEF Lined
  <1>6. CASE TakeBuffer
    <2>1. flight = <<>> /\ flight' = eventBuf /\ eventBuf' = <<>> /\ queued' = queued
      BY <1>6 DEF TakeBuffer, Arrived, history
    <2>2. flight' \o eventBuf' = eventBuf /\ line = eventBuf
      BY <1>1, <2>1, ConcatEmptySeq DEF line
    <2>3. QED
      BY <1>2, <2>1, <2>2 DEF Lined
  <1>7. CASE FlushArrives
    BY <1>4, <1>7 DEF FlushArrives, history
  <1>8. CASE FlushOk
    <2>1. flight' = <<>> /\ eventBuf' = eventBuf /\ queued' = queued
      BY <1>8 DEF FlushOk, history
    <2>2. flight' \o eventBuf' = eventBuf
      BY <1>1, <2>1, ConcatEmptySeq
    <2>3. QED
      BY <1>1, <1>3, <2>1, <2>2, TailPart DEF line
  <1>9. CASE FlushFails
    <2>1. flight' = <<>> /\ eventBuf' = Trim(line) /\ queued' = queued
      BY <1>9 DEF FlushFails, history, line
    <2>2. Trim(line) \in Seq(Events) /\ PartOf(Trim(line), line)
      BY <1>1, TrimKeeps, TrimPart
    <2>3. flight' \o eventBuf' = Trim(line)
      BY <2>1, <2>2, ConcatEmptySeq
    <2>4. QED
      BY <1>3, <2>1, <2>2, <2>3
  <1>10. CASE Restart
    <2>1. flight' = <<>> /\ eventBuf' = <<>>
      BY <1>10 DEF Restart
    <2>2. flight' \o eventBuf' = <<>>
      BY <1>1, <2>1, ConcatEmptySeq
    <2>3. QED
      BY <2>2, EmptyRange DEF Lined, InOrder
  <1>11. ASSUME NEW e \in Events, SendEvent(e) \/ Arrives(e) \/ PushOk(e) PROVE Lined'
    BY <1>4, <1>11 DEF SendEvent, Arrives, PushOk, history
  <1>12. CASE Poll
    BY <1>4, <1>12 DEF Poll, Fetch, FetchFails, Handle, ReadPending, Answered, AnswerFails,
                       proxyVars, history
  <1>13. ASSUME NEW c \in Commands, SaveCommand(c) \/ Complete(c) PROVE Lined'
    BY <1>4, <1>13 DEF SaveCommand, Complete, WriteCompleted, DeletePending, proxyVars, history
  <1>14. ASSUME NEW m \in moves, MoveFails(m) PROVE Lined'
    BY <1>4, <1>14 DEF MoveFails, proxyVars, history
  <1>15. CASE UNCHANGED vars
    BY <1>4, <1>15 DEF vars, proxyVars, history
  <1>16. QED
    BY <1>5, <1>6, <1>7, <1>8, <1>9, <1>10, <1>11, <1>12, <1>13, <1>14, <1>15
    DEF Next, Push, Flush

\* Events whose push failed stay in the order in which they failed, whatever
\* is trimmed and however often a flush puts them back (client.go:64, :137).
THEOREM QueueInOrder == Spec => []QueueOrder
  <1>1. Init => Lined
    <2>1. <<>> \o <<>> = <<>>
      BY ConcatEmptySeq, EmptySeq
    <2>2. QED
      BY <2>1, EmptyRange DEF Init, Lined, InOrder
  <1>2. LinkInv /\ Lined /\ [Next]_vars => Lined'
    BY LinedStep DEF LinkInv
  <1>3. Lined => QueueOrder
    BY DEF Lined, QueueOrder, InOrder
  <1>4. QED
    BY <1>1, <1>2, <1>3, LinkInvariant, PTL DEF Spec
=============================================================================
