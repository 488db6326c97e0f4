------------------------- MODULE NodeTreeFlow_proofs -------------------------
(***************************************************************************)
(* More theorems about NodeTree, for runs in which the two goroutines take *)
(* turns and replies come in time.                                         *)
(*                                                                         *)
(* Part 1: commands may be refused and agents may fail.  A goroutine acts  *)
(* on what it has read of the tree and of the reviews some steps before:   *)
(* Flow says why that is still so, and OneAgent follows.                   *)
(*                                                                         *)
(* Part 2: commands are answered as well.  Courses says where each         *)
(* milestone is between its first task and its merge, and what NothingLeft *)
(* says of merges follows.                                                 *)
(*                                                                         *)
(* Part 3: nothing goes wrong.  Working says that somebody will see to     *)
(* every task that is left, and the rest of NothingLeft follows.           *)
(*                                                                         *)
(* Part 4: two things go wrong at most.  Recorded says where a completion  *)
(* is on its way to the histories, and HistoryTrue follows.                *)
(***************************************************************************)
EXTENDS NodeTree_proofs

Orderly == ~HasFault("overlap") /\ ~HasFault("timeout")

-----------------------------------------------------------------------------
(***************************************************************************)
(* The review of a node is always in one place: with the reviews that are  *)
(* to be sent, with a reviewer, with the model, or in the channel.         *)
(***************************************************************************)
ReviewKinds == {"reviewed", "reviewFailed", "approved", "needsWork"}

\* The positions in channel q of what concerns the review of n.
About(n, q) == {i \in DOMAIN q : q[i].kind \in ReviewKinds /\ q[i].node = n}

\* No review of n is under way.
Quiet(n, u, rv, jb, q) ==
    n \notin u /\ rv[n] = 0 /\ jb[<<"review", n>>] = 0 /\ About(n, q) = {}

\* At most one is.
Single(n, u, rv, jb, q) ==
    /\ rv[n] <= 1 /\ jb[<<"review", n>>] <= 1
    /\ n \in u => rv[n] = 0 /\ jb[<<"review", n>>] = 0 /\ About(n, q) = {}
    /\ rv[n] > 0 => jb[<<"review", n>>] = 0 /\ About(n, q) = {}
    /\ jb[<<"review", n>>] > 0 => About(n, q) = {}
    /\ \A i, j \in About(n, q) : i = j

Calm == {n \in Reviewed : Quiet(n, unsent, reviewers, jobs, queue)}

\* Tree t shows n under review, and what the review may add is not there yet.
UnderReview(n, t) ==
    /\ t.st[n] = "reviewing" /\ t.cycle[n] > 0
    /\ n \in Redoable => t.st[Redo(n, t.cycle[n])] = "absent"

\* What later reviews may add is not there yet either.
Unborn(t) == \A n \in Redoable, c \in 1 .. MaxReviewCycles :
                 c > t.cycle[n] => t.st[Redo(n, c)] = "absent"

-----------------------------------------------------------------------------
(***************************************************************************)
(* What a goroutine has to do: which operations may follow one another,    *)
(* and what each relies on.                                                *)
(***************************************************************************)
\* Operations that may come after any other.
Free(b) ==
    \/ b[1] \in {"touch", "history", "occupy", "release", "check", "next", "ifNoMeeting",
                 "trigger", "openRecords"}
    \/ b = Redispatch

\* Operation a has nothing to do with the nodes ns.
Apart(a, ns) ==
    /\ a[1] \in {"mark", "create"} => a[2] \notin ns
    /\ a[1] = "create" => \A i \in DOMAIN a[3] : a[3][i][2] \notin ns

\* Operation a may come before b.
Before(a, b) ==
    \/ Free(b)
    \/ b[1] = "ask" /\ a[1] = "cycle" /\ a[2] = b[2]
    \/ /\ b[1] = "mark" /\ b[2] \in Reviewed /\ b[3] = "running"
       /\ \/ a[1] \in {"redo", "occupy"}
          \/ a[1] = "mark" /\ a[2] \notin Reviewed /\ a[3] = "running"
    \/ b[1] = "merge" /\ a \in {Mark(b[2], "complete"), History(b[2])}
    \/ b[1] = "dispatch" /\ a[1] \in {"create", "mark", "occupy"} /\ Apart(a, b[2])
    \/ b[1] = "dispatchAll" /\ a \in {Prepare, <<"frontiers">>, Mark(Proposal, "complete")}

Ordered(s) == \A i, j \in DOMAIN s : i < j => Before(s[i], s[j])

AllPending(ns, t) == \A n \in ns : t.st[n] = "pending"

\* What operation op relies on: in the tree t, in the nodes whose review is not
\* under way, and in the reviews to be sent.
Fits(op, t, calm, u) ==
    /\ op[1] \notin {"put", "putOccupied"}
    /\ op[1] = "mark" => op[3] # "pending" /\ (op[2] \in Reviewed => op[2] \in calm)
    /\ op[1] = "create" =>
          /\ op[2] # Proposal
          /\ op[2] \in Work => /\ t.st[op[2]] = "pending"
                               /\ op[3] # <<>> /\ op[3][1] = Mark(op[2], "running")
          /\ Ordered(op[3])
          /\ \A i \in DOMAIN op[3] :
                op[3][i][2] \in Reviewed =>
                   op[3][i][2] \in calm /\ op[2] \in Work /\ op[3][i][2] = Above(op[2])
    /\ op[1] \in {"review", "cycle", "ask", "redo"} => op[2] \in calm
    /\ op[1] = "cycle" => op[3] = t.cycle[op[2]] + 1
    /\ op[1] = "redo" => op[2] \in Redoable /\ UnderReview(op[2], t)
    /\ op[1] = "dispatch" => AllPending(op[2], t) /\ Reviewed \subseteq calm
    /\ op[1] \in {"dispatchAll", "prepare", "frontiers"} =>
          AllPending(Tasks, t) /\ Reviewed \subseteq calm
    /\ op[1] = "retry" => op[2] \subseteq u /\ op[3] = t
    /\ op[1] = "pick" => op[2] = t

Listed(s, t, calm, u) == Ordered(s) /\ \A i \in DOMAIN s : Fits(s[i], t, calm, u)

-----------------------------------------------------------------------------
(***************************************************************************)
(* The inductive invariant.                                                *)
(***************************************************************************)
AgentKinds == {"completed", "failed", "errored"}

\* The run is being set up: nobody but the agent of the proposal is at work.
InSetup == \/ path = "none"
           \/ agents[Proposal] > 0
           \/ \E i \in DOMAIN queue : queue[i].kind \in AgentKinds /\ queue[i].node = Proposal

Untouched ==
    /\ \A g \in Goroutines : todo[g] = <<>>
    /\ AllPending(Tasks, tree) /\ \A n \in Extras : tree.st[n] = "absent"
    /\ unsent = {} /\ meeting = {}
    /\ \A j \in Jobs : jobs[j] = 0
    /\ \A n \in Reviewed : reviewers[n] = 0
    /\ \A n \in Named \ {Proposal} : agents[n] = 0
    /\ agents[Proposal] <= 1 /\ Len(queue) <= 1
    /\ \A i \in DOMAIN queue : queue[i].kind \in AgentKinds /\ queue[i].node = Proposal
    /\ queue # <<>> => agents[Proposal] = 0
    /\ path = "none" => queue = <<>> /\ agents[Proposal] = 0

\* The goroutines take turns.
Turns == todo["loop"] = <<>> \/ todo["starter"] = <<>>

Work2Do == \A g \in Goroutines : /\ Listed(todo[g], tree, Calm, unsent)
                                 /\ Doing(g, "ask") => UnderReview(Op(g)[2], tree)

Reviews == \A n \in Reviewed : /\ Single(n, unsent, reviewers, jobs, queue)
                               /\ n \notin Calm => UnderReview(n, tree)
                               /\ tree.st[n] # "absent"

Asked == \A i \in DOMAIN queue : queue[i].kind = "needsWork" => queue[i].node \in Redoable

First(op) == \E g \in Goroutines : todo[g] # <<>> /\ Op(g) = op

\* A node with an agent is in the tree, and is not pending there, or is about
\* to be marked.
Manned == \A k \in Work : agents[k] > 0 =>
              /\ tree.st[k] # "absent"
              /\ tree.st[k] = "pending" => First(Mark(k, "running"))

Alike == ~HasFault("add") => \A k \in Work : agents[k] <= 1

Flow == /\ Turns
        /\ InSetup => Untouched
        /\ Work2Do
        /\ Reviews
        /\ Unborn(tree)
        /\ Asked
        /\ Manned
        /\ Alike

-----------------------------------------------------------------------------
\* Lemmas about what a goroutine has to do

LEMMA SeqIs ==
    ASSUME NEW S, NEW s \in Seq(S)
    PROVE  /\ Len(s) \in Nat /\ DOMAIN s = 1 .. Len(s)
           /\ \A i \in DOMAIN s : s[i] \in S
           /\ s # <<>> => Len(s) > 0 /\ Head(s) = s[1]
  <1>1. Len(s) \in Nat /\ DOMAIN s = 1 .. Len(s) /\ \A i \in DOMAIN s : s[i] \in S
    BY LenProperties, ElementOfSeq
  <1>2. s # <<>> => Len(s) \in Nat \ {0}
    BY EmptySeq
  <1>3. QED
    BY <1>1, <1>2

\* The operations ops take the place of the first one.
LEMMA Splice ==
    ASSUME NEW s \in Seq(Ops), s # <<>>, NEW ops \in Seq(Ops),
           NEW t, NEW calm, NEW u, NEW t2, NEW calm2, NEW u2,
           Listed(s, t, calm, u), Ordered(ops),
           \A i \in DOMAIN ops : Fits(ops[i], t2, calm2, u2),
           \A i \in DOMAIN ops : \A b \in Ops : Before(Head(s), b) => Before(ops[i], b),
           \A b \in Ops : Fits(b, t, calm, u) /\ Before(Head(s), b) => Fits(b, t2, calm2, u2)
    PROVE  Listed(ops \o Tail(s), t2, calm2, u2)
  <1> DEFINE r == Tail(s)
             w == ops \o r
  <1>1. /\ Len(s) \in Nat /\ DOMAIN s = 1 .. Len(s) /\ Len(s) > 0 /\ Head(s) = s[1]
        /\ \A i \in 1 .. Len(s) : s[i] \in Ops
        /\ Len(ops) \in Nat /\ DOMAIN ops = 1 .. Len(ops)
        /\ \A i \in 1 .. Len(ops) : ops[i] \in Ops
    BY SeqIs
  <1>2. r \in Seq(Ops) /\ Len(r) = Len(s) - 1 /\ \A i \in 1 .. Len(r) : r[i] = s[i + 1]
    BY HeadTailProperties
  <1>3. /\ w \in Seq(Ops) /\ Len(w) = Len(ops) + Len(r)
        /\ \A i \in 1 .. (Len(ops) + Len(r)) :
              w[i] = IF i <= Len(ops) THEN ops[i] ELSE r[i - Len(ops)]
    BY <1>2, ConcatProperties
  <1>4. DOMAIN w = 1 .. (Len(ops) + Len(r)) /\ Len(r) \in Nat
    BY <1>1, <1>2, <1>3, SeqIs
  <1> HIDE DEF w, r
  <1>5. \A i \in 1 .. Len(r) : /\ r[i] \in Ops /\ Fits(r[i], t, calm, u)
                               /\ Before(Head(s), r[i])
                               /\ \A j \in 1 .. Len(r) : i < j => Before(r[i], r[j])
    <2> SUFFICES ASSUME NEW i \in 1 .. Len(r)
                 PROVE  /\ r[i] \in Ops /\ Fits(r[i], t, calm, u)
                        /\ Before(Head(s), r[i])
                        /\ \A j \in 1 .. Len(r) : i < j => Before(r[i], r[j])
      OBVIOUS
    <2>1. i + 1 \in 1 .. Len(s) /\ 1 \in 1 .. Len(s) /\ 1 < i + 1 /\ r[i] = s[i + 1]
      BY <1>1, <1>2
    <2>2. \A j \in 1 .. Len(r) : i < j => i + 1 < j + 1 /\ j + 1 \in 1 .. Len(s) /\ r[j] = s[j + 1]
      BY <1>1, <1>2
    <2>3. Fits(s[i + 1], t, calm, u) /\ s[i + 1] \in Ops
      BY <1>1, <2>1 DEF Listed
    <2>4. \A k, j \in 1 .. Len(s) : k < j => Before(s[k], s[j])
      BY <1>1 DEF Listed, Ordered
    <2>5. Before(s[1], s[i + 1])
      BY <2>1, <2>4
    <2>6. \A j \in 1 .. Len(r) : i < j => Before(s[i + 1], s[j + 1])
      BY <2>1, <2>2, <2>4
    <2>7. QED
      BY <1>1, <2>1, <2>2, <2>3, <2>5, <2>6
  <1>6. ASSUME NEW i \in DOMAIN w PROVE Fits(w[i], t2, calm2, u2)
    <2>1. CASE i <= Len(ops)
      BY <1>1, <1>3, <1>4, <2>1
    <2>2. CASE i > Len(ops)
      <3>1. i - Len(ops) \in 1 .. Len(r) /\ w[i] = r[i - Len(ops)]
        BY <1>1, <1>3, <1>4, <2>2
      <3>2. QED
        BY <1>5, <3>1
    <2>3. QED
      BY <1>1, <1>4, <2>1, <2>2
  <1>7. ASSUME NEW i \in DOMAIN w, NEW j \in DOMAIN w, i < j PROVE Before(w[i], w[j])
    <2>1. CASE j <= Len(ops)
      BY <1>1, <1>3, <1>4, <1>7, <2>1 DEF Ordered
    <2>2. CASE i > Len(ops)
      <3>1. /\ i - Len(ops) \in 1 .. Len(r) /\ w[i] = r[i - Len(ops)]
            /\ j - Len(ops) \in 1 .. Len(r) /\ w[j] = r[j - Len(ops)]
            /\ i - Len(ops) < j - Len(ops)
        BY <1>1, <1>3, <1>4, <1>7, <2>2
      <3>2. QED
        BY <1>5, <3>1
    <2>3. CASE i <= Len(ops) /\ j > Len(ops)
      <3>1. /\ i \in DOMAIN ops /\ w[i] = ops[i]
            /\ j - Len(ops) \in 1 .. Len(r) /\ w[j] = r[j - Len(ops)]
        BY <1>1, <1>3, <1>4, <2>3
      <3>2. QED
        BY <1>5, <3>1
    <2>4. QED
      BY <1>1, <1>4, <2>1, <2>2, <2>3
  <1>8. QED
    BY <1>6, <1>7 DEF Listed, Ordered, w, r

\* Sequences of free operations, and others.
LEMMA OrderedSeqs ==
    /\ Ordered(<<>>)
    /\ \A a : Ordered(<<a>>)
    /\ \A a, b : Before(a, b) => Ordered(<<a, b>>)
    /\ \A a, b, c : Before(a, b) /\ Before(a, c) /\ Before(b, c) => Ordered(<<a, b, c>>)
    /\ \A a, b, c, d : /\ Before(a, b) /\ Before(a, c) /\ Before(a, d)
                       /\ Before(b, c) /\ Before(b, d) /\ Before(c, d)
                       => Ordered(<<a, b, c, d>>)
  BY DEF Ordered

LEMMA OrderedConcat ==
    ASSUME NEW s \in Seq(Ops), NEW q \in Seq(Ops), Ordered(s), Ordered(q),
           \A i \in DOMAIN s, j \in DOMAIN q : Before(s[i], q[j])
    PROVE  Ordered(s \o q)
  <1> DEFINE w == s \o q
  <1>1. /\ Len(s) \in Nat /\ DOMAIN s = 1 .. Len(s)
        /\ Len(q) \in Nat /\ DOMAIN q = 1 .. Len(q)
    BY SeqIs
  <1>2. /\ w \in Seq(Ops) /\ Len(w) = Len(s) + Len(q)
        /\ \A i \in 1 .. (Len(s) + Len(q)) : w[i] = IF i <= Len(s) THEN s[i] ELSE q[i - Len(s)]
    BY ConcatProperties
  <1>3. DOMAIN w = 1 .. (Len(s) + Len(q))
    BY <1>2, SeqIs
  <1> HIDE DEF w
  <1>4. ASSUME NEW i \in DOMAIN w, NEW j \in DOMAIN w, i < j PROVE Before(w[i], w[j])
    <2>1. CASE j <= Len(s)
      BY <1>1, <1>2, <1>3, <1>4, <2>1 DEF Ordered
    <2>2. CASE i > Len(s)
      <3>1. /\ i - Len(s) \in DOMAIN q /\ w[i] = q[i - Len(s)]
            /\ j - Len(s) \in DOMAIN q /\ w[j] = q[j - Len(s)]
            /\ i - Len(s) < j - Len(s)
        BY <1>1, <1>2, <1>3, <1>4, <2>2
      <3>2. QED
        BY <3>1 DEF Ordered
    <2>3. CASE i <= Len(s) /\ j > Len(s)
      <3>1. /\ i \in DOMAIN s /\ w[i] = s[i]
            /\ j - Len(s) \in DOMAIN q /\ w[j] = q[j - Len(s)]
        BY <1>1, <1>2, <1>3, <2>3
      <3>2. QED
        BY <3>1
    <2>4. QED
      BY <1>1, <1>3, <2>1, <2>2, <2>3
  <1>5. QED
    BY <1>4 DEF Ordered, w

-----------------------------------------------------------------------------
\* What may come after an operation.
LEMMA Followers ==
    /\ \A a, b : Free(b) => Before(a, b)
    /\ \A a, b : /\ Before(a, b)
                 /\ a[1] \notin {"cycle", "redo", "occupy", "mark", "create", "prepare",
                                 "frontiers", "history"}
                 => Free(b)
    /\ \A a, b : Before(a, b) /\ b[1] = "ask" => a[1] = "cycle" /\ a[2] = b[2]
    /\ \A a, b : Before(a, b) => \/ b[1] \notin {"create", "retry", "pick", "review", "cycle",
                                                 "redo", "prepare", "frontiers"}
                                 \/ b = Redispatch
  <1>1. \A a, b : Free(b) => Before(a, b)
    BY DEF Before
  <1>2. ASSUME NEW a, NEW b, Before(a, b),
               a[1] \notin {"cycle", "redo", "occupy", "mark", "create", "prepare", "frontiers",
                            "history"}
        PROVE  Free(b)
    <2>1. /\ Prepare[1] = "prepare" /\ <<"frontiers">>[1] = "frontiers"
          /\ \A n, s : Mark(n, s)[1] = "mark" /\ History(n)[1] = "history"
      BY DEF Prepare, Mark, History
    <2>2. QED
      BY <1>2, <2>1 DEF Before
  <1>3. ASSUME NEW a, NEW b, Before(a, b), b[1] = "ask"
        PROVE  a[1] = "cycle" /\ a[2] = b[2]
    BY <1>3 DEF Before, Free, Redispatch, Create
  <1>4. ASSUME NEW a, NEW b, Before(a, b)
        PROVE  \/ b[1] \notin {"create", "retry", "pick", "review", "cycle", "redo", "prepare",
                               "frontiers"}
               \/ b = Redispatch
    BY <1>4 DEF Before, Free
  <1>5. QED
    BY <1>1, <1>2, <1>3, <1>4

\* Such operations that rely on nothing either.
Plain(b) == Free(b) /\ b # Redispatch

\* Operations as they should be that need little.
LEMMA FitsOps ==
    ASSUME NEW t, NEW calm, NEW u
    PROVE  /\ \A b : Plain(b) => Fits(b, t, calm, u)
           /\ Fits(Redispatch, t, calm, u)
           /\ \A m : Fits(Merge(m), t, calm, u)
           /\ \A n, s : s # "pending" /\ (n \in Reviewed => n \in calm) => Fits(Mark(n, s), t, calm, u)
           /\ \A n \in calm : Fits(Review(n), t, calm, u) /\ Fits(Ask(n), t, calm, u)
  <1>1. \A b : Plain(b) => Fits(b, t, calm, u)
    BY DEF Plain, Free, Fits
  <1>2. Fits(Redispatch, t, calm, u)
    <2>1. Stray \notin Work /\ Stray # Proposal
      BY TreeAssumption, UidsDiffer DEF Work
    <2>2. Ordered(<<>>)
      BY OrderedSeqs
    <2>3. QED
      BY <2>1, <2>2 DEF Fits, Redispatch, Create
  <1>3. \A m : Fits(Merge(m), t, calm, u)
    BY DEF Fits, Merge
  <1>4. \A n, s : s # "pending" /\ (n \in Reviewed => n \in calm) => Fits(Mark(n, s), t, calm, u)
    BY DEF Fits, Mark
  <1>5. \A n \in calm : Fits(Review(n), t, calm, u) /\ Fits(Ask(n), t, calm, u)
    BY DEF Fits, Review, Ask
  <1>6. QED
    BY <1>1, <1>2, <1>3, <1>4, <1>5

LEMMA PlainOps ==
    /\ \A n : /\ Plain(Touch(n)) /\ Plain(History(n)) /\ Plain(Occupy(n))
              /\ Plain(Release(n)) /\ Plain(Check(n)) /\ Plain(Trigger(n))
    /\ Plain(DispatchNext) /\ Plain(IfNoMeeting) /\ Plain(OpenRecords)
    /\ Free(Redispatch)
  BY DEF Plain, Free, Touch, History, Occupy, Release, Check, Trigger, DispatchNext,
         IfNoMeeting, OpenRecords, Redispatch, Create

-----------------------------------------------------------------------------
\* The steps of the goroutines

\* What they have to do is made of operations.
LEMMA TodoOps ==
    ASSUME IInv
    PROVE  todo \in [Goroutines -> Seq(Ops)]
  <1>1. todo \in [Goroutines -> Seq(Good(reported))] /\ Good(reported) \subseteq Ops
    BY DEF IInv, Good
  <1>2. QED
    BY <1>1, SeqMonotonic

\* A goroutine does its first operation, and ops takes its place.
LEMMA Advance ==
    ASSUME IInv, Flow, NEW g \in Goroutines, todo[g] # <<>>, NEW ops \in Seq(Ops), Replace(g, ops),
           UNCHANGED <<path, queue>>, agents'[Proposal] = agents[Proposal],
           Ordered(ops), ops # <<>> => ops[1][1] # "ask",
           \A i \in DOMAIN ops : Fits(ops[i], tree', Calm', unsent'),
           \A i \in DOMAIN ops : \A b \in Ops : Before(Op(g), b) => Before(ops[i], b),
           \A b \in Ops : Fits(b, tree, Calm, unsent) /\ Before(Op(g), b)
                          => Fits(b, tree', Calm', unsent'),
           Op(g)[1] = "cycle" => UnderReview(Op(g)[2], tree')
    PROVE  Turns' /\ ~InSetup' /\ Work2Do'
  <1> DEFINE s == todo[g]
             w == ops \o Tail(s)
  <1>1. s \in Seq(Ops) /\ s # <<>> /\ Op(g) = Head(s)
    BY TodoOps DEF Op
  <1>2. \A k \in Goroutines \ {g} : todo[k] = <<>> /\ todo'[k] = <<>>
    BY TodoOps DEF Flow, Turns, Goroutines, Replace
  <1>3. todo'[g] = w
    BY TodoOps DEF Replace
  <1>4. Listed(s, tree, Calm, unsent)
    BY DEF Flow, Work2Do
  <1> HIDE DEF s
  <1>5. Listed(w, tree', Calm', unsent')
    BY <1>1, <1>4, Splice DEF w
  <1>6. ~InSetup'
    <2>1. ~InSetup
      BY DEF Flow, Untouched
    <2>2. QED
      BY <2>1 DEF InSetup
  <1>7. Turns'
    BY <1>2 DEF Turns, Goroutines
  <1>8. w # <<>> /\ w[1][1] = "ask" => UnderReview(w[1][2], tree')
    <2> SUFFICES ASSUME w # <<>>, w[1][1] = "ask" PROVE UnderReview(w[1][2], tree')
      OBVIOUS
    <2>1. /\ Tail(s) \in Seq(Ops) /\ Len(Tail(s)) = Len(s) - 1
          /\ \A i \in 1 .. Len(Tail(s)) : Tail(s)[i] = s[i + 1]
          /\ Len(s) \in Nat /\ Len(s) > 0 /\ DOMAIN s = 1 .. Len(s) /\ Head(s) = s[1]
      BY <1>1, HeadTailProperties, SeqIs
    <2>2. /\ w \in Seq(Ops) /\ Len(w) = Len(ops) + Len(Tail(s))
          /\ \A i \in 1 .. (Len(ops) + Len(Tail(s))) :
                w[i] = IF i <= Len(ops) THEN ops[i] ELSE Tail(s)[i - Len(ops)]
      BY <2>1, ConcatProperties DEF w
    <2>3. Len(w) > 0 /\ Len(ops) \in Nat /\ (ops # <<>> => Len(ops) > 0)
      BY <2>2, SeqIs
    <2>4. ops = <<>>
      BY <2>1, <2>2, <2>3
    <2>5. Len(ops) = 0
      BY <2>4
    <2>6. Len(s) > 1 /\ w[1] = s[2]
      BY <2>1, <2>2, <2>3, <2>5
    <2>7. Before(s[1], s[2])
      BY <1>4, <2>1, <2>6 DEF Listed, Ordered
    <2>8. s[1][1] = "cycle" /\ s[1][2] = s[2][2]
      BY <2>6, <2>7, Followers
    <2>9. QED
      BY <1>1, <2>1, <2>6, <2>8
  <1>9. w # <<>> => Head(w) = w[1]
    OBVIOUS
  <1>10. ASSUME NEW k \in Goroutines
         PROVE  /\ Listed(todo'[k], tree', Calm', unsent')
                /\ Doing(k, "ask")' => UnderReview(Op(k)[2], tree)'
    <2>1. CASE k = g
      <3>1. Doing(k, "ask")' => w # <<>> /\ w[1][1] = "ask" /\ Op(k)' = w[1]
        BY <1>3, <1>9, <2>1 DEF Doing, Op
      <3>2. QED
        BY <1>3, <1>5, <1>8, <2>1, <3>1
    <2>2. CASE k # g
      <3>1. todo'[k] = <<>>
        BY <1>2, <2>2
      <3>2. QED
        BY <3>1 DEF Listed, Ordered, Doing
    <2>3. QED
      BY <2>1, <2>2
  <1>11. QED
    BY <1>6, <1>7, <1>10 DEF Work2Do

\* What has gone wrong stays so.
LEMMA FaultsGrow ==
    ASSUME TypeOK, NoFault \/ (\E kind \in Faults : faults' = Append(faults, kind))
    PROVE  \A kind : HasFault(kind) => HasFault(kind)'
  <1>1. CASE NoFault
    BY <1>1 DEF NoFault, HasFault
  <1>2. ASSUME NEW k \in Faults, faults' = Append(faults, k)
        PROVE  \A kind : HasFault(kind) => HasFault(kind)'
    <2>1. /\ faults \in Seq(Faults) /\ Len(faults) \in Nat /\ DOMAIN faults = 1 .. Len(faults)
      BY LenProperties DEF TypeOK
    <2>2. /\ Append(faults, k) \in Seq(Faults) /\ Len(Append(faults, k)) = Len(faults) + 1
          /\ \A i \in 1 .. Len(faults) : Append(faults, k)[i] = faults[i]
      BY <2>1, AppendProperties
    <2>3. DOMAIN faults' = 1 .. (Len(faults) + 1)
      BY <1>2, <2>2, LenProperties
    <2>4. QED
      BY <1>2, <2>1, <2>2, <2>3 DEF HasFault
  <1>3. QED
    BY <1>1, <1>2

\* The fault of a step is the last.
LEMMA FaultLast ==
    ASSUME TypeOK, NEW kind, Fault(kind)
    PROVE  HasFault(kind)' /\ kind \in Faults /\ faults' = Append(faults, kind)
  <1>1. faults \in Seq(Faults) /\ kind \in Faults /\ faults' = Append(faults, kind)
    BY DEF TypeOK, Fault
  <1>2. /\ faults' \in Seq(Faults) /\ Len(faults') = Len(faults) + 1 /\ Len(faults) \in Nat
        /\ faults'[Len(faults) + 1] = kind
    BY <1>1, AppendProperties, LenProperties
  <1>3. DOMAIN faults' = 1 .. (Len(faults) + 1)
    BY <1>2, LenProperties
  <1>4. QED
    BY <1>1, <1>2, <1>3 DEF HasFault

\* Nobody is at work on a pending node but when it is about to be marked.
LEMMA Pending ==
    ASSUME Flow, NEW g \in Goroutines, todo[g] # <<>>, Op(g)[1] # "mark"
    PROVE  \A k \in Work : agents[k] > 0 => tree.st[k] # "pending"
  <1>1. \A k \in Goroutines \ {g} : todo[k] = <<>>
    BY DEF Flow, Turns, Goroutines
  <1>2. \A k : Mark(k, "running")[1] = "mark"
    BY DEF Mark
  <1>3. \A k : ~First(Mark(k, "running"))
    BY <1>1, <1>2 DEF First
  <1>4. QED
    BY <1>3 DEF Flow, Manned

\* A step that changes neither the tree nor where reviews and agents are.
LEMMA Settled ==
    ASSUME Flow, UNCHANGED <<tree, unsent, queue, jobs, agents, reviewers>>,
           \A kind : HasFault(kind) => HasFault(kind)',
           \A k \in Work : agents[k] > 0 => tree.st[k] # "pending"
    PROVE  Calm' = Calm /\ Reviews' /\ Unborn(tree)' /\ Asked' /\ Manned' /\ Alike'
  <1>1. Calm' = Calm
    BY DEF Calm
  <1>2. Reviews'
    BY <1>1 DEF Flow, Reviews
  <1>3. Unborn(tree)' /\ Asked' /\ Alike'
    BY DEF Flow, Unborn, Asked, Alike
  <1>4. Manned'
    BY DEF Flow, Manned
  <1>5. QED
    BY <1>1, <1>2, <1>3, <1>4

\* The same by a goroutine.
LEMMA PlainStep ==
    ASSUME IInv, Flow, NEW g \in Goroutines, todo[g] # <<>>, NEW ops \in Seq(Ops), Replace(g, ops),
           UNCHANGED <<path, tree, unsent, queue, jobs, agents, reviewers>>,
           \A kind : HasFault(kind) => HasFault(kind)',
           Op(g)[1] \notin {"mark", "cycle"},
           Ordered(ops), ops # <<>> => ops[1][1] # "ask",
           \A i \in DOMAIN ops : Fits(ops[i], tree, Calm, unsent),
           \A i \in DOMAIN ops : \A b \in Ops : Before(Op(g), b) => Before(ops[i], b)
    PROVE  Flow'
  <1>1. Calm' = Calm /\ Reviews' /\ Unborn(tree)' /\ Asked' /\ Manned' /\ Alike'
    BY Pending, Settled
  <1>2. Turns' /\ ~InSetup' /\ Work2Do'
    BY <1>1, Advance
  <1>3. QED
    BY <1>1, <1>2 DEF Flow

\* It is done with its first operation.
LEMMA DoneStep ==
    ASSUME IInv, Flow, NEW g \in Goroutines, todo[g] # <<>>, Done(g),
           UNCHANGED <<path, tree, unsent, queue, jobs, agents, reviewers>>,
           \A kind : HasFault(kind) => HasFault(kind)',
           Op(g)[1] \notin {"mark", "cycle"}
    PROVE  Flow'
  <1>1. <<>> \in Seq(Ops) /\ Ordered(<<>>) /\ DOMAIN <<>> = {}
    BY EmptySeq, OrderedSeqs
  <1>2. Replace(g, <<>>)
    BY DEF Done
  <1>3. QED
    BY <1>1, <1>2, PlainStep

\* One operation takes the place of the first one.
LEMMA OneStep ==
    ASSUME IInv, Flow, NEW g \in Goroutines, todo[g] # <<>>,
           NEW a \in Ops, Replace(g, <<a>>), Fits(a, tree, Calm, unsent), a[1] # "ask",
           UNCHANGED <<path, tree, unsent, queue, jobs, agents, reviewers>>,
           \A kind : HasFault(kind) => HasFault(kind)',
           Op(g)[1] \notin {"mark", "cycle"},
           \A b \in Ops : Before(Op(g), b) => Before(a, b)
    PROVE  Flow'
  <1>1. <<a>> \in Seq(Ops) /\ Ordered(<<a>>) /\ DOMAIN <<a>> = {1} /\ <<a>>[1] = a
    BY GoodSeqs, OrderedSeqs
  <1>2. QED
    BY <1>1, PlainStep

\* Two do.
LEMMA TwoStep ==
    ASSUME IInv, Flow, NEW g \in Goroutines, todo[g] # <<>>,
           NEW a \in Ops, NEW d \in Ops, Replace(g, <<a, d>>), Before(a, d), a[1] # "ask",
           Fits(a, tree, Calm, unsent), Fits(d, tree, Calm, unsent),
           UNCHANGED <<path, tree, unsent, queue, jobs, agents, reviewers>>,
           \A kind : HasFault(kind) => HasFault(kind)',
           Op(g)[1] \notin {"mark", "cycle"},
           \A b \in Ops : Before(Op(g), b) => Before(a, b) /\ Before(d, b)
    PROVE  Flow'
  <1> DEFINE ops == <<a, d>>
  <1>1. ops \in Seq(Ops) /\ Ordered(ops) /\ DOMAIN ops = {1, 2}
    BY GoodSeqs, OrderedSeqs
  <1>2. ops[1] = a /\ ops[2] = d /\ Replace(g, ops)
    OBVIOUS
  <1> HIDE DEF ops
  <1>3. ops # <<>> => ops[1][1] # "ask"
    BY <1>2
  <1>4. /\ \A i \in DOMAIN ops : Fits(ops[i], tree, Calm, unsent)
        /\ \A i \in DOMAIN ops : \A b \in Ops : Before(Op(g), b) => Before(ops[i], b)
    BY <1>1, <1>2
  <1>5. QED
    BY <1>1, <1>2, <1>3, <1>4, PlainStep

\* What they have to do is made of these.
LEMMA OpsAre ==
    /\ \A n \in Uids, s \in Status \ {"absent"} : Mark(n, s) \in Ops
    /\ \A n \in Uids : {Touch(n), History(n), Release(n), Check(n)} \subseteq Ops
    /\ \A n \in Work : Occupy(n) \in Ops
    /\ \A n \in Named : Trigger(n) \in Ops
    /\ \A n \in Reviewed : /\ {AddRedo(n), Review(n), Ask(n)} \subseteq Ops
                           /\ \A c \in 1 .. MaxReviewCycles : Cycle(n, c) \in Ops
    /\ \A m \in Milestones : Merge(m) \in Ops
    /\ \A ns \in SUBSET Tasks, c \in Nat : Dispatch(ns, c) \in Ops
    /\ \A n \in Named, then \in Seq(Then) : Create(n, then) \in Ops
    /\ \A t \in Tree : /\ <<"pick", t>> \in Ops
                       /\ \A ns \in SUBSET Reviewed : <<"retry", ns, t>> \in Ops
    /\ {Prepare, <<"frontiers">>, DispatchAll, OpenRecords, DispatchNext, IfNoMeeting} \subseteq Ops
    /\ Redispatch \in Ops
  <1> DEFINE r == Uids
  <1>1. \A n : Ready(n, r)
    BY DEF Ready, Uids, Named, Work
  <1>2. Tasks \subseteq r
    BY DEF Uids, Named, Work
  <1>3. Good(r) \subseteq Ops
    BY DEF Good
  <1> HIDE DEF r
  <1>4. Redispatch \in Good(r)
    BY GoodOps, EmptySeq DEF Redispatch, Named
  <1>5. \A t \in Tree : <<"pick", t>> \in Good(r)
                        /\ \A ns \in SUBSET Reviewed : <<"retry", ns, t>> \in Good(r)
    BY <1>1, GoodOps
  <1>6. \A n \in Reviewed : {AddRedo(n), Review(n), Ask(n)} \subseteq Good(r)
    BY <1>1, GoodOps
  <1>7. \A n \in Reviewed, c \in 1 .. MaxReviewCycles : Cycle(n, c) \in Good(r)
    BY GoodOps
  <1>8. \A n \in Uids, s \in Status \ {"absent"} : Mark(n, s) \in Good(r)
    BY <1>2, GoodOps
  <1>9. \A m \in Milestones : Merge(m) \in Good(r)
    BY <1>1, GoodOps
  <1>10. /\ \A n \in Uids : {Touch(n), History(n), Release(n), Check(n)} \subseteq Good(r)
         /\ \A n \in Work : Occupy(n) \in Good(r)
         /\ \A n \in Named : Trigger(n) \in Good(r)
         /\ \A ns \in SUBSET Tasks, c \in Nat : Dispatch(ns, c) \in Good(r)
         /\ \A n \in Named, then \in Seq(Then) : Create(n, then) \in Good(r)
         /\ {Prepare, <<"frontiers">>, DispatchAll, OpenRecords, DispatchNext, IfNoMeeting}
               \subseteq Good(r)
    BY GoodOps
  <1>11. QED
    BY <1>3, <1>4, <1>5, <1>6, <1>7, <1>8, <1>9, <1>10

\* The operation at hand is as it should be.
LEMMA OpFits ==
    ASSUME IInv, Flow, NEW g \in Goroutines, NEW what, Doing(g, what)
    PROVE  /\ Op(g) \in Ops /\ Op(g)[1] = what /\ todo[g] # <<>>
           /\ Fits(Op(g), tree, Calm, unsent)
           /\ ~InSetup /\ \A k \in Goroutines \ {g} : todo[k] = <<>>
  <1>1. /\ Op(g) \in Ops /\ Op(g)[1] = what /\ todo[g] # <<>>
    BY OpType
  <1>2. todo[g] \in Seq(Ops)
    BY TodoOps
  <1>3. 1 \in DOMAIN todo[g] /\ Op(g) = todo[g][1]
    BY <1>1, <1>2, SeqIs DEF Op
  <1>4. Fits(Op(g), tree, Calm, unsent)
    BY <1>3 DEF Flow, Work2Do, Listed
  <1>5. ~InSetup /\ \A k \in Goroutines \ {g} : todo[k] = <<>>
    BY <1>1 DEF Flow, Untouched, Turns, Goroutines
  <1>6. QED
    BY <1>1, <1>4, <1>5

\* Histories and occupied nodes.
LEMMA SideSteps ==
    ASSUME IInv, Flow, NEW g \in Goroutines,
           \/ ReadOccupied(g) \/ WriteOccupied(g) \/ WriteTree(g)
           \/ SaveHistories(g) \/ SaveFrontiers(g) \/ OpenHistories(g) \/ BuildHistory(g)
    PROVE  Flow'
  <1>1. TypeOK
    BY DEF IInv
  <1>2. UNCHANGED faults /\ \A kind : HasFault(kind) => HasFault(kind)'
    BY DEF ReadOccupied, WriteOccupied, WriteTree, SaveHistories, SaveFrontiers, OpenHistories,
           BuildHistory, HasFault
  <1>3. CASE WriteOccupied(g) \/ WriteTree(g)
    <2>1. PICK what \in {"put", "putOccupied"} : Doing(g, what)
      BY <1>3 DEF WriteOccupied, WriteTree
    <2>2. QED
      BY <2>1, OpFits DEF Fits
  <1>4. CASE ReadOccupied(g)
    <2>1. PICK what \in {"occupy", "release"} : Doing(g, what)
      BY <1>4 DEF ReadOccupied
    <2>2. Alone(g) /\ Op(g)[1] = what /\ todo[g] # <<>>
      BY <2>1, OpFits DEF Alone
    <2>3. Done(g)
      BY <1>4, <2>2 DEF ReadOccupied
    <2>4. QED
      BY <1>2, <1>4, <2>1, <2>2, <2>3, DoneStep DEF ReadOccupied, proxy
  <1>5. CASE SaveHistories(g)
    <2>1. Op(g)[1] = "prepare" /\ todo[g] # <<>> /\ Fits(Op(g), tree, Calm, unsent) /\ Op(g) \in Ops
      BY <1>5, OpFits DEF SaveHistories
    <2> DEFINE a == <<"frontiers">>
    <2>2. a \in Ops /\ a[1] = "frontiers" /\ Replace(g, <<a>>)
      BY <1>5, OpsAre DEF SaveHistories
    <2>3. Fits(a, tree, Calm, unsent)
      BY <2>1 DEF Fits
    <2>4. ASSUME NEW b \in Ops, Before(Op(g), b) PROVE Before(a, b)
      BY <2>1, <2>4 DEF Before, Apart, Mark, History
    <2> HIDE DEF a
    <2>5. QED
      BY <1>2, <1>5, <2>1, <2>2, <2>3, <2>4, OneStep DEF SaveHistories, proxy
  <1>6. CASE SaveFrontiers(g) \/ OpenHistories(g) \/ BuildHistory(g)
    <2>1. PICK what \in {"frontiers", "openRecords", "history"} : Doing(g, what)
      BY <1>6 DEF SaveFrontiers, OpenHistories, BuildHistory
    <2>2. Op(g)[1] = what /\ todo[g] # <<>>
      BY <2>1, OpFits
    <2>3. Done(g) /\ UNCHANGED <<path, tree, unsent, queue, jobs, agents, reviewers>>
      BY <1>6 DEF SaveFrontiers, OpenHistories, BuildHistory, proxy
    <2>4. QED
      BY <1>2, <2>1, <2>2, <2>3, DoneStep
  <1>7. QED
    BY <1>3, <1>4, <1>5, <1>6

\* What is done when a task is dispatched.
LEMMA DispatchOps ==
    ASSUME IInv, Flow, NEW n \in Work, NEW then \in Seq(Then), then # <<>>,
           tree.st[n] = "pending", then[1] = Mark(n, "running"), Ordered(then),
           \A i \in DOMAIN then : then[i][2] \in Reviewed => then[i][2] \in Calm /\ then[i][2] = Above(n)
    PROVE  Create(n, then) \in Ops /\ Fits(Create(n, then), tree, Calm, unsent)
  <1>1. n \in Named /\ n # Proposal
    BY UidsDiffer DEF Named, Work, Reviewed
  <1>2. Create(n, then) \in Ops
    BY <1>1, OpsAre
  <1>3. QED
    BY <1>1, <1>2 DEF Fits, Create

\* Tasks are not reviewed.
LEMMA Kinds ==
    /\ Work \cap Reviewed = {} /\ Stray \notin Nodes /\ Proposal \notin Work
    /\ \A n \in Tasks : Above(n) \in Milestones
    /\ Work \subseteq Nodes /\ Reviewed \subseteq Nodes
  <1>1. /\ Work \cap Reviewed = {} /\ Stray \notin Nodes /\ Proposal \notin Work
        /\ Work \subseteq Nodes /\ Reviewed \subseteq Nodes
    BY UidsDiffer, TreeAssumption DEF Work, Reviewed, Nodes
  <1>2. \A n \in Tasks : Above(n) \in Milestones
    BY AboveUid, TreeAssumption
  <1>3. QED
    BY <1>1, <1>2

\* Who is not in review there is none of.
LEMMA CalmUnless ==
    ASSUME Flow, NEW n \in Reviewed, tree.st[n] # "reviewing"
    PROVE  n \in Calm
  BY DEF Flow, Reviews, UnderReview

LEMMA TakeSteps ==
    ASSUME IInv, Flow, NEW g \in Goroutines, TakeWaiting(g) \/ DispatchOne(g)
    PROVE  Flow'
  <1>1. TypeOK
    BY DEF IInv
  <1>2. UNCHANGED faults /\ \A kind : HasFault(kind) => HasFault(kind)'
    BY DEF TakeWaiting, DispatchOne, HasFault
  <1>3. CASE TakeWaiting(g)
    <2> DEFINE a == Dispatch(Tasks, 0)
    <2>1. /\ Op(g)[1] = "dispatchAll" /\ todo[g] # <<>> /\ Fits(Op(g), tree, Calm, unsent)
      BY <1>3, OpFits DEF TakeWaiting
    <2>2. Done(g) \/ Replace(g, <<a>>)
      BY <1>3 DEF TakeWaiting
    <2>3. a \in Ops /\ a[1] = "dispatch" /\ Fits(a, tree, Calm, unsent)
      BY <2>1, OpsAre DEF Fits, Dispatch
    <2>4. \A b \in Ops : Before(Op(g), b) => Before(a, b)
      BY <2>1, Followers
    <2> HIDE DEF a
    <2>5. QED
      BY <1>2, <1>3, <2>1, <2>2, <2>3, <2>4, DoneStep, OneStep DEF TakeWaiting, proxy, disk
  <1>4. CASE DispatchOne(g)
    <2>1. /\ Op(g)[1] = "dispatch" /\ todo[g] # <<>> /\ Fits(Op(g), tree, Calm, unsent)
          /\ Op(g) \in Ops
      BY <1>4, OpFits DEF DispatchOne
    <2>2. UNCHANGED <<path, tree, unsent, queue, jobs, agents, reviewers>>
      BY <1>4 DEF DispatchOne, disk, proxy
    <2>3. CASE Done(g)
      BY <1>2, <2>1, <2>2, <2>3, DoneStep
    <2>4. ASSUME NEW n \in Op(g)[2],
                 Replace(g, <<Create(n, <<Mark(n, "running"), Mark(Above(n), "running"), Occupy(n)>>),
                              Dispatch(Op(g)[2] \ {n}, Op(g)[3] + 1)>>)
          PROVE  Flow'
      <3> DEFINE then == <<Mark(n, "running"), Mark(Above(n), "running"), Occupy(n)>>
                 rest == Op(g)[2] \ {n}
                 a == Create(n, then)
                 d == Dispatch(rest, Op(g)[3] + 1)
      <3>1. Op(g)[2] \subseteq Tasks /\ Op(g)[3] \in Nat /\ AllPending(Op(g)[2], tree)
            /\ Reviewed \subseteq Calm
        BY <2>1, Operands DEF Fits
      <3>2. n \in Tasks /\ n \in Work /\ n \notin Reviewed /\ Above(n) \in Milestones
            /\ Above(n) \notin Tasks /\ tree.st[n] = "pending"
        BY <3>1, Kinds, UidsDiffer DEF Work, AllPending
      <3>3. then \in Seq(Then)
        <4>1. Mark(n, "running") \in Then /\ Mark(Above(n), "running") \in Then /\ Occupy(n) \in Then
          BY <3>2 DEF Then, Mark, Occupy, Uids, Named, Reviewed
        <4>2. QED
          BY <4>1, GoodSeqs
      <3>4. Ordered(then)
        <4>1. Before(Mark(n, "running"), Mark(Above(n), "running"))
          BY <3>2 DEF Before, Mark, Reviewed
        <4>2. Free(Occupy(n))
          BY PlainOps DEF Plain
        <4>3. QED
          BY <4>1, <4>2, Followers, OrderedSeqs
      <3>5. \A i \in DOMAIN then :
               then[i][2] \in Reviewed => then[i][2] \in Calm /\ then[i][2] = Above(n)
        <4>1. \A i \in DOMAIN then : then[i][2] \in {n, Above(n)}
          BY DEF Mark, Occupy
        <4>2. QED
          BY <3>1, <3>2, <4>1
      <3>6. a \in Ops /\ Fits(a, tree, Calm, unsent)
        BY <3>2, <3>3, <3>4, <3>5, DispatchOps
      <3>7. d \in Ops
        BY <3>1, OpsAre
      <3>8. Fits(d, tree, Calm, unsent)
        BY <3>1 DEF Fits, Dispatch, AllPending
      <3>9. Before(a, d)
        <4>1. /\ a[1] = "create" /\ a[2] = n /\ a[3] = then
              /\ d[1] = "dispatch" /\ d[2] = rest
          BY DEF Create, Dispatch
        <4>2. n \notin rest /\ Above(n) \notin rest
          BY <3>1, <3>2
        <4>3. \A i \in DOMAIN then : then[i][2] \in {n, Above(n)}
          BY DEF Mark, Occupy
        <4>4. \A i \in DOMAIN a[3] : a[3][i][2] \notin d[2]
          BY <4>1, <4>2, <4>3
        <4> HIDE DEF a, d, then, rest
        <4>5. QED
          BY <4>1, <4>2, <4>4 DEF Before, Apart
      <3>10. \A b \in Ops : Before(Op(g), b) => Before(a, b) /\ Before(d, b)
        BY <2>1, Followers
      <3>11. a[1] = "create"
        BY DEF Create
      <3>12. Replace(g, <<a, d>>)
        BY <2>4
      <3> HIDE DEF a, d
      <3>13. QED
        BY <1>2, <2>1, <2>2, <3>6, <3>7, <3>8, <3>9, <3>10, <3>11, <3>12, TwoStep
    <2>5. QED
      BY <1>4, <2>3, <2>4 DEF DispatchOne
  <1>5. QED
    BY <1>3, <1>4

\* Sequences written in two parts.
LEMMA Concats ==
    /\ \A a, b : <<a, b>> \o <<>> = <<a, b>>
    /\ \A a, b, c : <<a, b>> \o <<c>> = <<a, b, c>>
    /\ \A a, b, c, d : <<a, b>> \o <<c, d>> = <<a, b, c, d>>
    /\ \A a, b, c, d, e : <<a, b, c, d>> \o <<e>> = <<a, b, c, d, e>>
  <1>1. ASSUME NEW a, NEW b PROVE <<a, b>> \o <<>> = <<a, b>>
    <2>1. <<a, b>> \in Seq({a, b})
      OBVIOUS
    <2>2. QED
      BY <2>1, ConcatEmptySeq
  <1>2. ASSUME NEW a, NEW b, NEW c PROVE <<a, b>> \o <<c>> = <<a, b, c>>
    <2> DEFINE S == {a, b, c}
               s == <<a, b>>
               q == <<c>>
               w == <<a, b, c>>
    <2>1. s \in Seq(S) /\ q \in Seq(S) /\ w \in Seq(S) /\ Len(s) = 2 /\ Len(q) = 1 /\ Len(w) = 3
      OBVIOUS
    <2>2. /\ s \o q \in Seq(S) /\ Len(s \o q) = Len(s) + Len(q)
          /\ \A i \in 1 .. (Len(s) + Len(q)) : (s \o q)[i] = IF i <= Len(s) THEN s[i] ELSE q[i - Len(s)]
      BY <2>1, ConcatProperties
    <2>3. \A i \in 1 .. 3 : (s \o q)[i] = w[i]
      BY <2>1, <2>2
    <2> HIDE DEF s, q, w, S
    <2>4. s \o q = w
      BY <2>1, <2>2, <2>3, SeqEqual
    <2>5. QED
      BY <2>4 DEF s, q, w
  <1>3. ASSUME NEW a, NEW b, NEW c, NEW d PROVE <<a, b>> \o <<c, d>> = <<a, b, c, d>>
    <2> DEFINE S == {a, b, c, d}
               s == <<a, b>>
               q == <<c, d>>
               w == <<a, b, c, d>>
    <2>1. s \in Seq(S) /\ q \in Seq(S) /\ w \in Seq(S) /\ Len(s) = 2 /\ Len(q) = 2 /\ Len(w) = 4
      OBVIOUS
    <2>2. /\ s \o q \in Seq(S) /\ Len(s \o q) = Len(s) + Len(q)
          /\ \A i \in 1 .. (Len(s) + Len(q)) : (s \o q)[i] = IF i <= Len(s) THEN s[i] ELSE q[i - Len(s)]
      BY <2>1, ConcatProperties
    <2>3. \A i \in 1 .. 4 : (s \o q)[i] = w[i]
      BY <2>1, <2>2
    <2> HIDE DEF s, q, w, S
    <2>4. s \o q = w
      BY <2>1, <2>2, <2>3, SeqEqual
    <2>5. QED
      BY <2>4 DEF s, q, w
  <1>4. ASSUME NEW a, NEW b, NEW c, NEW d, NEW e PROVE <<a, b, c, d>> \o <<e>> = <<a, b, c, d, e>>
    <2> DEFINE S == {a, b, c, d, e}
               s == <<a, b, c, d>>
               q == <<e>>
               w == <<a, b, c, d, e>>
    <2>1. s \in Seq(S) /\ q \in Seq(S) /\ w \in Seq(S) /\ Len(s) = 4 /\ Len(q) = 1 /\ Len(w) = 5
      OBVIOUS
    <2>2. /\ s \o q \in Seq(S) /\ Len(s \o q) = Len(s) + Len(q)
          /\ \A i \in 1 .. (Len(s) + Len(q)) : (s \o q)[i] = IF i <= Len(s) THEN s[i] ELSE q[i - Len(s)]
      BY <2>1, ConcatProperties
    <2>3. \A i \in 1 .. 5 : (s \o q)[i] = w[i]
      BY <2>1, <2>2
    <2> HIDE DEF s, q, w, S
    <2>4. s \o q = w
      BY <2>1, <2>2, <2>3, SeqEqual
    <2>5. QED
      BY <2>4 DEF s, q, w
  <1>5. QED
    BY <1>1, <1>2, <1>3, <1>4

\* The next task is dispatched.
LEMMA NextSteps ==
    ASSUME IInv, Flow, NEW g \in Goroutines, NextRead(g) \/ NextPick(g)
    PROVE  Flow'
  <1>1. TypeOK
    BY DEF IInv
  <1>2. /\ UNCHANGED faults /\ \A kind : HasFault(kind) => HasFault(kind)'
        /\ UNCHANGED <<path, tree, unsent, queue, jobs, agents, reviewers>>
    BY DEF NextRead, NextPick, HasFault, disk, proxy
  <1>3. CASE NextRead(g)
    <2> DEFINE a == <<"retry", unsent, tree>>
    <2>1. /\ Op(g)[1] = "next" /\ todo[g] # <<>> /\ Replace(g, <<a>>)
      BY <1>3, OpFits DEF NextRead
    <2>2. a \in Ops /\ a[1] = "retry"
      BY <1>1, OpsAre DEF TypeOK
    <2>3. Fits(a, tree, Calm, unsent)
      BY DEF Fits
    <2>4. \A b \in Ops : Before(Op(g), b) => Before(a, b)
      BY <2>1, Followers
    <2> HIDE DEF a
    <2>5. QED
      BY <1>2, <2>1, <2>2, <2>3, <2>4, OneStep
  <1>4. CASE NextPick(g)
    <2>1. /\ Op(g)[1] = "pick" /\ todo[g] # <<>> /\ Op(g)[2] = tree
      BY <1>4, OpFits DEF NextPick, Fits
    <2>2. CASE Done(g)
      BY <1>2, <2>1, <2>2, DoneStep
    <2>3. ASSUME NEW n \in Work, MayDispatch(tree, n),
                 Replace(g, <<Create(n, <<Mark(n, "running"), Occupy(n)>>
                                        \o (IF Above(n) \in Milestones
                                            THEN <<Mark(Above(n), "running")>> ELSE <<>>))>>)
          PROVE  Flow'
      <3> DEFINE end == IF Above(n) \in Milestones THEN <<Mark(Above(n), "running")>> ELSE <<>>
                 then == <<Mark(n, "running"), Occupy(n)>> \o end
                 a == Create(n, then)
      <3>1. /\ tree.st[n] = "pending" /\ n \notin Reviewed
            /\ Above(n) \in Milestones => Above(n) \in Reviewed /\ Above(n) \in Calm
        <4>1. Above(n) \in Milestones => tree.st[Above(n)] # "reviewing"
          BY <2>3, UidsDiffer DEF MayDispatch
        <4>2. QED
          BY <2>3, <4>1, Kinds, CalmUnless DEF MayDispatch, Reviewed
      <3>2. Above(n) \in Milestones => then = <<Mark(n, "running"), Occupy(n), Mark(Above(n), "running")>>
        BY Concats
      <3>3. Above(n) \notin Milestones => then = <<Mark(n, "running"), Occupy(n)>>
        BY Concats
      <3>4. /\ Mark(n, "running") \in Then /\ Occupy(n) \in Then
            /\ Above(n) \in Milestones => Mark(Above(n), "running") \in Then
        BY <3>1 DEF Then, Mark, Occupy, Uids, Named
      <3> HIDE DEF then
      <3>5. then \in Seq(Then)
        BY <3>2, <3>3, <3>4, GoodSeqs
      <3>6. Ordered(then)
        <4>1. Above(n) \in Milestones =>
                 /\ Before(Mark(n, "running"), Mark(Above(n), "running"))
                 /\ Before(Occupy(n), Mark(Above(n), "running"))
          BY <3>1 DEF Before, Mark, Occupy
        <4>2. Free(Occupy(n))
          BY PlainOps DEF Plain
        <4>3. Before(Mark(n, "running"), Occupy(n))
          BY <4>2, Followers
        <4>4. QED
          BY <3>2, <3>3, <4>1, <4>3, OrderedSeqs
      <3>7. then # <<>> /\ then[1] = Mark(n, "running")
        BY <3>2, <3>3
      <3>8. \A i \in DOMAIN then : then[i][2] = n \/ (Above(n) \in Milestones /\ then[i][2] = Above(n))
        BY <3>2, <3>3 DEF Mark, Occupy
      <3>9. a \in Ops /\ Fits(a, tree, Calm, unsent)
        BY <3>1, <3>5, <3>6, <3>7, <3>8, DispatchOps
      <3>10. a[1] = "create" /\ Replace(g, <<a>>)
        BY <2>3 DEF Create, then
      <3>11. \A b \in Ops : Before(Op(g), b) => Before(a, b)
        BY <2>1, Followers
      <3> HIDE DEF a
      <3>12. QED
        BY <1>2, <2>1, <3>9, <3>10, <3>11, OneStep
    <2>4. QED
      BY <1>4, <2>1, <2>2, <2>3 DEF NextPick
  <1>5. QED
    BY <1>3, <1>4

\* The operations that approve a node.
LEMMA ApproveFits ==
    ASSUME NEW n \in Reviewed, NEW t, NEW calm, n \in calm, NEW u
    PROVE  /\ Approve(n) \in Seq(Ops) /\ Ordered(Approve(n))
           /\ Approve(n) # <<>> /\ Approve(n)[1][1] # "ask"
           /\ \A i \in DOMAIN Approve(n) : Fits(Approve(n)[i], t, calm, u)
  <1> DEFINE a == Mark(n, "complete")
             h == History(n)
             m == Merge(n)
             c == Check(n)
  <1>1. a \in Ops /\ h \in Ops /\ c \in Ops /\ (n \in Milestones => m \in Ops)
    BY OpsAre DEF Uids, Status
  <1>2. Fits(a, t, calm, u) /\ Fits(h, t, calm, u) /\ Fits(c, t, calm, u) /\ Fits(m, t, calm, u)
    BY FitsOps, PlainOps
  <1>3. /\ Before(a, h) /\ Before(a, c) /\ Before(h, c) /\ Before(m, c)
        /\ Before(a, m) /\ Before(h, m)
    <2>1. Free(h) /\ Free(c)
      BY PlainOps DEF Plain
    <2>2. Before(a, m) /\ Before(h, m)
      BY DEF Before, Merge
    <2>3. QED
      BY <2>1, <2>2, Followers
  <1>4. a[1] # "ask"
    BY DEF Mark
  <1>5. /\ n \in Milestones => Approve(n) = <<a, h, m, c>>
        /\ n \notin Milestones => Approve(n) = <<a, h>>
    BY Concats DEF Approve
  <1> DEFINE ops == Approve(n)
  <1> HIDE DEF a, h, m, c, ops
  <1>6. ops = <<a, h, m, c>> \/ ops = <<a, h>>
    BY <1>5 DEF ops
  <1>7. ops # <<>> /\ ops[1] = a
    BY <1>6
  <1>8. ops \in Seq(Ops)
    <2>1. <<a, h>> \in Seq(Ops) /\ (n \in Milestones => <<a, h, m, c>> \in Seq(Ops))
      BY <1>1, GoodSeqs
    <2>2. QED
      BY <1>5, <2>1 DEF ops
  <1>9. Ordered(ops)
    BY <1>3, <1>6, OrderedSeqs
  <1>10. \A i \in DOMAIN ops : Fits(ops[i], t, calm, u)
    BY <1>2, <1>6
  <1>11. QED
    BY <1>4, <1>7, <1>8, <1>9, <1>10 DEF ops

\* Faults of commands.
LEMMA AnsweredFaults ==
    ASSUME TypeOK, NEW ok \in BOOLEAN, Answered(ok)
    PROVE  \A kind : HasFault(kind) => HasFault(kind)'
  BY FaultLast, FaultsGrow DEF Answered

\* A review that is due begins, and milestones are merged.
LEMMA DueSteps ==
    ASSUME IInv, Flow, NEW g \in Goroutines, CheckAbove(g) \/ BeginReview(g) \/ SendMerge(g)
    PROVE  Flow'
  <1>1. TypeOK
    BY DEF IInv
  <1>2. /\ UNCHANGED <<path, tree, unsent, queue, jobs, agents, reviewers>>
        /\ \A kind : HasFault(kind) => HasFault(kind)'
    <2>1. UNCHANGED <<path, tree, unsent, queue, jobs, agents, reviewers>>
      BY DEF CheckAbove, BeginReview, SendMerge, disk, proxy
    <2>2. SendMerge(g) => \A kind : HasFault(kind) => HasFault(kind)'
      BY <1>1, AnsweredFaults DEF SendMerge
    <2>3. QED
      BY <2>1, <2>2 DEF CheckAbove, BeginReview, HasFault
  <1>3. CASE CheckAbove(g)
    <2> DEFINE n == Op(g)[2]
               a == Review(Above(n))
    <2>1. /\ Op(g)[1] = "check" /\ todo[g] # <<>> /\ Op(g) \in Ops
      BY <1>3, OpFits DEF CheckAbove
    <2>2. CASE Done(g)
      BY <1>2, <2>1, <2>2, DoneStep
    <2>3. CASE /\ Present(n) /\ n # Proposal /\ (n \in Work => Above(n) \in Milestones)
               /\ Due(Above(n)) /\ Replace(g, <<a>>)
      <3>1. n \in Nodes
        BY <2>3 DEF Present
      <3>2. Above(n) \in Reviewed
        BY <3>1, <2>3, AboveUid DEF Nodes, Reviewed
      <3>3. Above(n) \in Calm
        BY <2>3, <3>2, CalmUnless DEF Due
      <3>4. a \in Ops /\ a[1] = "review" /\ Fits(a, tree, Calm, unsent)
        BY <3>2, <3>3, OpsAre, FitsOps DEF Review
      <3>5. \A b \in Ops : Before(Op(g), b) => Before(a, b)
        BY <2>1, Followers
      <3>6. Replace(g, <<a>>)
        BY <2>3
      <3> HIDE DEF a, n
      <3>7. QED
        BY <1>2, <2>1, <3>4, <3>5, <3>6, OneStep
    <2>4. QED
      BY <1>3, <2>2, <2>3 DEF CheckAbove
  <1>4. CASE BeginReview(g)
    <2> DEFINE n == Op(g)[2]
               c == tree.cycle[n] + 1
               a == Cycle(n, c)
               d == Ask(n)
    <2>1. /\ Op(g)[1] = "review" /\ todo[g] # <<>> /\ n \in Reviewed /\ n \in Calm
      BY <1>4, OpFits, Operands DEF BeginReview, Fits
    <2>2. \A b \in Ops : Before(Op(g), b) => Free(b)
      BY <2>1, Followers
    <2>3. CASE tree.cycle[n] >= MaxReviewCycles
      <3> DEFINE ops == Approve(n)
      <3>1. Replace(g, ops)
        BY <1>4, <2>3 DEF BeginReview
      <3>2. /\ ops \in Seq(Ops) /\ Ordered(ops) /\ ops[1][1] # "ask"
            /\ \A i \in DOMAIN ops : Fits(ops[i], tree, Calm, unsent)
        BY <2>1, ApproveFits
      <3> HIDE DEF ops, n
      <3>3. \A i \in DOMAIN ops : \A b \in Ops : Before(Op(g), b) => Before(ops[i], b)
        BY <2>2, Followers
      <3>4. QED
        BY <1>2, <2>1, <3>1, <3>2, <3>3, PlainStep
    <2>4. CASE ~(tree.cycle[n] >= MaxReviewCycles)
      <3>1. c \in 1 .. MaxReviewCycles
        BY <1>1, <2>1, <2>4, TreeAssumption DEF TypeOK, Tree
      <3>2. a \in Ops /\ d \in Ops
        BY <2>1, <3>1, OpsAre
      <3>3. Replace(g, <<a, d>>)
        BY <1>4, <2>4 DEF BeginReview
      <3>4. Before(a, d) /\ a[1] # "ask"
        BY DEF Before, Cycle, Ask
      <3>5. Fits(a, tree, Calm, unsent)
        BY <2>1 DEF Fits, Cycle
      <3>6. Fits(d, tree, Calm, unsent)
        BY <2>1, FitsOps
      <3>7. \A b \in Ops : Before(Op(g), b) => Before(a, b) /\ Before(d, b)
        BY <2>2, Followers
      <3> HIDE DEF a, d, n, c
      <3>8. QED
        BY <1>2, <2>1, <3>2, <3>3, <3>4, <3>5, <3>6, <3>7, TwoStep
    <2>5. QED
      BY <2>3, <2>4
  <1>5. CASE SendMerge(g)
    <2>1. /\ Op(g)[1] = "merge" /\ todo[g] # <<>> /\ Done(g)
      BY <1>5, OpFits DEF SendMerge
    <2>2. QED
      BY <1>2, <2>1, DoneStep
  <1>6. QED
    BY <1>3, <1>4, <1>5

\* After a completion or a failure.
LEMMA LoopSteps ==
    ASSUME IInv, Flow, SkipInMeeting \/ TriggerMeeting
    PROVE  Flow'
  <1> DEFINE g == "loop"
             a == DispatchNext
  <1>1. TypeOK /\ g \in Goroutines
    BY DEF IInv, Goroutines
  <1>2. /\ UNCHANGED <<path, tree, unsent, queue, jobs, agents, reviewers>>
        /\ \A kind : HasFault(kind) => HasFault(kind)'
    <2>1. UNCHANGED <<path, tree, unsent, queue, jobs, agents, reviewers>>
      BY DEF SkipInMeeting, TriggerMeeting, disk, proxy
    <2>2. TriggerMeeting => NoFault \/ \E ok \in BOOLEAN : Answered(ok)
      BY DEF TriggerMeeting
    <2>3. SkipInMeeting => NoFault
      BY DEF SkipInMeeting, NoFault
    <2>4. QED
      BY <1>1, <2>1, <2>2, <2>3, AnsweredFaults, FaultsGrow
  <1>3. PICK what \in {"ifNoMeeting", "trigger"} : Doing(g, what)
    BY DEF SkipInMeeting, TriggerMeeting
  <1>4. todo[g] # <<>> /\ Op(g)[1] \in {"ifNoMeeting", "trigger"}
    BY <1>1, <1>3, OpFits
  <1>5. Done(g) \/ Replace(g, <<a>>)
    BY DEF SkipInMeeting, TriggerMeeting, Done
  <1>6. a \in Ops /\ a[1] # "ask" /\ Fits(a, tree, Calm, unsent)
    BY OpsAre, FitsOps, PlainOps DEF DispatchNext
  <1>7. \A b \in Ops : Before(Op(g), b) => Before(a, b)
    BY <1>4, Followers
  <1> HIDE DEF a, g
  <1>8. QED
    BY <1>1, <1>2, <1>4, <1>5, <1>6, <1>7, DoneStep, OneStep

\* What is as it should be stays so, if it does not rely on the tree.
LEMMA FitsMore ==
    ASSUME NEW b, NEW t, NEW calm, NEW u, NEW t2, NEW calm2, NEW u2, Fits(b, t, calm, u)
    PROVE  /\ Free(b) => Fits(b, t2, calm2, u2)
           /\ b[1] \in {"mark", "ask", "merge"} => Fits(b, t2, calm, u2)
  <1>1. b = Redispatch => Fits(b, t2, calm2, u2)
    BY FitsOps
  <1>2. Free(b) /\ b # Redispatch => Fits(b, t2, calm2, u2)
    BY FitsOps DEF Plain
  <1>3. b[1] \in {"mark", "ask", "merge"} => Fits(b, t2, calm, u2)
    BY DEF Fits
  <1>4. QED
    BY <1>1, <1>2, <1>3

\* A goroutine changes the tree.
LEMMA TreeStep ==
    ASSUME IInv, Flow, NEW g \in Goroutines, todo[g] # <<>>, Done(g),
           UNCHANGED <<path, unsent, queue, jobs, agents, reviewers, faults>>,
           \A b \in Ops : Fits(b, tree, Calm, unsent) /\ Before(Op(g), b)
                          => Fits(b, tree', Calm, unsent),
           Op(g)[1] = "cycle" => UnderReview(Op(g)[2], tree'),
           \A n \in Reviewed : /\ n \notin Calm => UnderReview(n, tree')
                               /\ tree'.st[n] # "absent",
           Unborn(tree'),
           \A k \in Work : agents[k] > 0 => tree'.st[k] \notin {"absent", "pending"}
    PROVE  Flow'
  <1>1. Calm' = Calm
    BY DEF Calm
  <1>2. <<>> \in Seq(Ops) /\ Ordered(<<>>) /\ DOMAIN <<>> = {} /\ Replace(g, <<>>)
    BY EmptySeq, OrderedSeqs DEF Done
  <1>3. Turns' /\ ~InSetup' /\ Work2Do'
    BY <1>1, <1>2, Advance
  <1>4. Reviews'
    BY <1>1 DEF Flow, Reviews
  <1>5. Asked' /\ Alike' /\ Manned'
    BY DEF Flow, Asked, Alike, Manned, HasFault
  <1>6. QED
    BY <1>3, <1>4, <1>5 DEF Flow

\* A change of the status of a node.
LEMMA MarkStep ==
    ASSUME IInv, Flow, NEW g \in Goroutines, Doing(g, "mark"), Done(g),
           tree' = IF Present(Op(g)[2]) THEN Changed(Op(g)) ELSE tree,
           UNCHANGED <<path, unsent, queue, jobs, agents, reviewers, faults>>
    PROVE  Flow'
  <1> DEFINE h == Op(g)
             n == h[2]
  <1>1. /\ h \in Ops /\ h[1] = "mark" /\ todo[g] # <<>> /\ Fits(h, tree, Calm, unsent)
        /\ \A k \in Goroutines \ {g} : todo[k] = <<>>
    BY OpFits
  <1>2. /\ n \in Uids /\ h[3] \in Status \ {"absent", "pending"}
        /\ n \in Reviewed => n \in Calm
    BY <1>1, Operands DEF Fits
  <1>3. tree \in Tree
    BY DEF IInv, TypeOK
  <1>4. /\ tree'.cycle = tree.cycle
        /\ \A k \in Nodes : tree'.st[k] = IF k = n /\ tree.st[k] # "absent" THEN h[3] ELSE tree.st[k]
    <2>1. CASE Present(n)
      <3>1. tree' = [tree EXCEPT !.st[n] = h[3]]
        BY <1>1, <2>1 DEF Changed
      <3>2. QED
        BY <1>3, <2>1, <3>1 DEF Tree, Present
    <2>2. CASE ~Present(n)
      BY <2>2 DEF Present
    <2>3. QED
      BY <2>1, <2>2
  <1> HIDE DEF h, n
  <1>5. ASSUME NEW k \in Extras, tree.st[k] = "absent" PROVE tree'.st[k] = "absent"
    BY <1>4, <1>5 DEF Nodes, Work
  <1>6. \A m \in Reviewed : UnderReview(m, tree) /\ m \notin Calm => UnderReview(m, tree')
    <2> SUFFICES ASSUME NEW m \in Reviewed, UnderReview(m, tree), m \notin Calm
                 PROVE  UnderReview(m, tree')
      OBVIOUS
    <2>1. tree'.st[m] = tree.st[m] /\ tree'.cycle[m] = tree.cycle[m]
      BY <1>2, <1>4, Kinds
    <2>2. m \in Redoable => Redo(m, tree.cycle[m]) \in Extras
      BY <1>3 DEF UnderReview, Extras, Tree
    <2>3. QED
      BY <1>5, <2>1, <2>2 DEF UnderReview
  <1>7. Unborn(tree')
    <2>1. ASSUME NEW m \in Redoable, NEW c \in 1 .. MaxReviewCycles, c > tree'.cycle[m]
          PROVE  tree'.st[Redo(m, c)] = "absent"
      <3>1. Redo(m, c) \in Extras
        BY DEF Extras
      <3>2. tree.st[Redo(m, c)] = "absent"
        BY <1>4, <2>1 DEF Flow, Unborn
      <3>3. QED
        BY <1>5, <3>1, <3>2
    <2>2. QED
      BY <2>1 DEF Unborn
  <1>8. ASSUME NEW m \in Reviewed
        PROVE  /\ m \notin Calm => UnderReview(m, tree')
               /\ tree'.st[m] # "absent"
    BY <1>2, <1>4, <1>6, Kinds DEF Flow, Reviews
  <1>9. ASSUME NEW k \in Work, agents[k] > 0
        PROVE  tree'.st[k] \notin {"absent", "pending"}
    <2>1. tree.st[k] # "absent" /\ (tree.st[k] = "pending" => First(Mark(k, "running")))
      BY <1>9 DEF Flow, Manned
    <2>2. First(Mark(k, "running")) => h = Mark(k, "running")
      BY <1>1 DEF First, h
    <2>3. h = Mark(k, "running") => n = k
      BY DEF Mark, n
    <2>4. QED
      BY <1>2, <1>4, <2>1, <2>2, <2>3, Kinds
  <1>10. ASSUME NEW b \in Ops, Fits(b, tree, Calm, unsent), Before(h, b)
         PROVE  Fits(b, tree', Calm, unsent)
    <2>1. ASSUME NEW ns \in SUBSET Tasks, n \notin ns, AllPending(ns, tree)
          PROVE  AllPending(ns, tree')
      BY <1>4, <2>1 DEF AllPending, Nodes, Work
    <2>2. CASE Free(b) \/ b[1] \in {"mark", "ask", "merge"}
      BY <1>10, <2>2, FitsMore
    <2>3. CASE b[1] = "dispatch" /\ Apart(h, b[2])
      <3>1. n \notin b[2] /\ b[2] \subseteq Tasks
        BY <1>1, <2>3, Operands DEF Apart, n
      <3>2. AllPending(b[2], tree')
        BY <1>10, <2>1, <2>3, <3>1 DEF Fits
      <3>3. QED
        BY <1>10, <2>3, <3>2 DEF Fits
    <2>4. CASE b[1] = "dispatchAll" /\ h \in {Prepare, <<"frontiers">>, Mark(Proposal, "complete")}
      <3>1. h = Mark(Proposal, "complete")
        BY <1>1, <2>4 DEF Prepare
      <3>2. n = Proposal /\ n \notin Tasks
        BY <3>1, UidsDiffer DEF Mark, n
      <3>3. AllPending(Tasks, tree')
        BY <1>10, <2>1, <2>4, <3>2 DEF Fits
      <3>4. QED
        BY <1>10, <2>4, <3>3 DEF Fits
    <2>5. QED
      BY <1>1, <1>10, <2>2, <2>3, <2>4 DEF Before
  <1>11. QED
    BY <1>1, <1>7, <1>8, <1>9, <1>10, TreeStep DEF h

\* A review begins.
LEMMA CycleStep ==
    ASSUME IInv, Flow, NEW g \in Goroutines, Doing(g, "cycle"), Done(g),
           tree' = IF Present(Op(g)[2]) THEN Changed(Op(g)) ELSE tree,
           UNCHANGED <<path, unsent, queue, jobs, agents, reviewers, faults>>
    PROVE  Flow'
  <1> DEFINE h == Op(g)
             n == h[2]
  <1>1. /\ h \in Ops /\ h[1] = "cycle" /\ todo[g] # <<>> /\ Fits(h, tree, Calm, unsent)
        /\ \A k \in Goroutines \ {g} : todo[k] = <<>>
    BY OpFits
  <1>2. n \in Reviewed /\ n \in Calm /\ h[3] \in 1 .. MaxReviewCycles /\ h[3] = tree.cycle[n] + 1
    BY <1>1, Operands DEF Fits
  <1>3. tree \in Tree
    BY DEF IInv, TypeOK
  <1>4. /\ tree'.cycle = [tree.cycle EXCEPT ![n] = h[3]]
        /\ tree'.st = [tree.st EXCEPT ![n] = "reviewing"]
    <2>1. Present(n)
      BY <1>2, Kinds DEF Present, Flow, Reviews
    <2>2. tree' = [tree EXCEPT !.st[n] = "reviewing", !.cycle[n] = h[3]]
      BY <1>1, <2>1 DEF Changed
    <2>3. QED
      BY <1>3, <2>2 DEF Tree
  <1> HIDE DEF h, n
  <1>5. \A k \in Nodes : tree'.st[k] = IF k = n THEN "reviewing" ELSE tree.st[k]
    BY <1>3, <1>4 DEF Tree
  <1>6. \A m \in Reviewed : tree'.cycle[m] = IF m = n THEN h[3] ELSE tree.cycle[m]
    BY <1>3, <1>4 DEF Tree
  <1>7. \A m \in Reviewed : tree.cycle[m] \in 0 .. MaxReviewCycles
    BY <1>3 DEF Tree
  <1>8. \A k \in Extras : k \in Nodes /\ tree'.st[k] = tree.st[k]
    BY <1>2, <1>5, Kinds DEF Work, Nodes
  <1>9. Redoable \subseteq Reviewed
    BY TreeAssumption DEF Reviewed
  <1>10. Unborn(tree')
    <2>1. ASSUME NEW m \in Redoable, NEW c \in 1 .. MaxReviewCycles, c > tree'.cycle[m]
          PROVE  tree'.st[Redo(m, c)] = "absent"
      <3>1. Redo(m, c) \in Extras
        BY DEF Extras
      <3>2. c > tree.cycle[m]
        BY <1>2, <1>6, <1>7, <1>9, <2>1
      <3>3. tree.st[Redo(m, c)] = "absent"
        BY <3>2 DEF Flow, Unborn
      <3>4. QED
        BY <1>8, <3>1, <3>3
    <2>2. QED
      BY <2>1 DEF Unborn
  <1>11. UnderReview(n, tree')
    <2>1. n \in Redoable => Redo(n, h[3]) \in Extras /\ tree.st[Redo(n, h[3])] = "absent"
      BY <1>2, <1>7 DEF Flow, Unborn, Extras
    <2>2. QED
      BY <1>2, <1>5, <1>6, <1>7, <1>8, <2>1, Kinds DEF UnderReview
  <1>12. ASSUME NEW m \in Reviewed
         PROVE  /\ m \notin Calm => UnderReview(m, tree')
                /\ tree'.st[m] # "absent"
    <2>1. tree.st[m] # "absent" /\ (m \notin Calm => UnderReview(m, tree))
      BY DEF Flow, Reviews
    <2>2. m \in Redoable /\ tree.cycle[m] > 0 => Redo(m, tree.cycle[m]) \in Extras
      BY <1>7 DEF Extras
    <2>3. QED
      BY <1>2, <1>5, <1>6, <1>8, <2>1, <2>2, Kinds DEF UnderReview
  <1>13. ASSUME NEW k \in Work, agents[k] > 0
         PROVE  tree'.st[k] \notin {"absent", "pending"}
    <2>1. tree.st[k] \notin {"absent", "pending"}
      BY <1>1, <1>13, Pending DEF Flow, Manned, h
    <2>2. QED
      BY <1>5, <2>1, Kinds
  <1>14. ASSUME NEW b \in Ops, Fits(b, tree, Calm, unsent), Before(h, b)
         PROVE  Fits(b, tree', Calm, unsent)
    <2>1. Free(b) \/ b[1] = "ask"
      BY <1>1, <1>14 DEF Before, Mark, History, Prepare
    <2>2. QED
      BY <1>14, <2>1, FitsMore
  <1>15. QED
    BY <1>1, <1>10, <1>11, <1>12, <1>13, <1>14, TreeStep DEF h, n

\* A review adds a node.
LEMMA RedoStep ==
    ASSUME IInv, Flow, NEW g \in Goroutines, Doing(g, "redo"), Done(g),
           tree' = IF Present(Op(g)[2]) THEN Changed(Op(g)) ELSE tree,
           UNCHANGED <<path, unsent, queue, jobs, agents, reviewers, faults>>
    PROVE  Flow'
  <1> DEFINE h == Op(g)
             n == h[2]
             x == Redo(n, tree.cycle[n])
  <1>1. /\ h \in Ops /\ h[1] = "redo" /\ todo[g] # <<>> /\ Fits(h, tree, Calm, unsent)
        /\ \A k \in Goroutines \ {g} : todo[k] = <<>>
    BY OpFits
  <1>2. n \in Reviewed /\ n \in Calm /\ n \in Redoable /\ UnderReview(n, tree)
    BY <1>1, Operands DEF Fits
  <1>3. tree \in Tree /\ \A m \in Reviewed : tree.cycle[m] \in 0 .. MaxReviewCycles
    BY DEF IInv, TypeOK, Tree
  <1>4. x \in Extras /\ tree.st[x] = "absent"
    BY <1>2, <1>3 DEF UnderReview, Extras
  <1>5. /\ tree'.cycle = tree.cycle
        /\ tree'.st = [tree.st EXCEPT ![x] = "pending"]
    <2>1. Present(n)
      BY <1>2, Kinds DEF Present, Flow, Reviews
    <2>2. tree' = [tree EXCEPT !.st[x] = "pending"]
      BY <1>1, <1>2, <2>1 DEF Changed, UnderReview
    <2>3. QED
      BY <1>3, <2>2 DEF Tree
  <1>6. \A m, c : Redo(m, c) = x => m = n /\ c = tree.cycle[n]
    BY DEF Redo
  <1> HIDE DEF h, n, x
  <1>7. /\ \A k \in Nodes : tree'.st[k] = IF k = x THEN "pending" ELSE tree.st[k]
        /\ \A m \in Reviewed : m # x /\ tree'.st[m] = tree.st[m]
    BY <1>3, <1>4, <1>5, Kinds DEF Tree, Work
  <1>8. Unborn(tree')
    <2>1. ASSUME NEW m \in Redoable, NEW c \in 1 .. MaxReviewCycles, c > tree'.cycle[m]
          PROVE  tree'.st[Redo(m, c)] = "absent"
      <3>1. Redo(m, c) \in Nodes
        BY DEF Extras, Work, Nodes
      <3>2. c > tree.cycle[m] /\ tree.st[Redo(m, c)] = "absent"
        BY <1>5, <2>1 DEF Flow, Unborn
      <3>3. m = n => c # tree.cycle[n]
        BY <1>2, <1>3, <3>2
      <3>4. QED
        BY <1>6, <1>7, <3>1, <3>2, <3>3
    <2>2. QED
      BY <2>1 DEF Unborn
  <1>9. ASSUME NEW m \in Reviewed
        PROVE  /\ m \notin Calm => UnderReview(m, tree')
               /\ tree'.st[m] # "absent"
    <2>1. tree.st[m] # "absent" /\ (m \notin Calm => UnderReview(m, tree))
      BY DEF Flow, Reviews
    <2>2. m \in Redoable /\ tree.cycle[m] > 0 => Redo(m, tree.cycle[m]) \in Nodes
      BY <1>3 DEF Extras, Work, Nodes
    <2>3. QED
      BY <1>2, <1>5, <1>6, <1>7, <2>1, <2>2 DEF UnderReview
  <1>10. ASSUME NEW k \in Work, agents[k] > 0
         PROVE  tree'.st[k] \notin {"absent", "pending"}
    <2>1. tree.st[k] \notin {"absent", "pending"}
      BY <1>1, <1>10, Pending DEF Flow, Manned, h
    <2>2. QED
      BY <1>4, <1>7, <2>1, Kinds
  <1>11. ASSUME NEW b \in Ops, Fits(b, tree, Calm, unsent), Before(h, b)
         PROVE  Fits(b, tree', Calm, unsent)
    <2>1. Free(b) \/ b[1] = "mark"
      BY <1>1, <1>11 DEF Before, Mark, History, Prepare
    <2>2. QED
      BY <1>11, <2>1, FitsMore
  <1>12. QED
    BY <1>1, <1>8, <1>9, <1>10, <1>11, TreeStep DEF h, n

\* The tree is changed.
LEMMA ReadTreeStep ==
    ASSUME IInv, Flow, NEW g \in Goroutines, ReadTree(g)
    PROVE  Flow'
  <1>1. PICK what \in {"mark", "cycle", "redo", "touch"} : Doing(g, what)
    BY DEF ReadTree
  <1>2. /\ Alone(g) /\ Op(g)[1] = what /\ todo[g] # <<>>
    BY <1>1, OpFits DEF Alone
  <1>3. /\ tree' = IF Present(Op(g)[2]) THEN Changed(Op(g)) ELSE tree
        /\ Done(g)
    BY <1>2 DEF ReadTree
  <1>4. UNCHANGED <<path, unsent, queue, jobs, agents, reviewers, faults>>
    BY DEF ReadTree, proxy
  <1>5. what = "touch" => tree' = tree
    BY <1>2, <1>3 DEF Changed
  <1>6. \A kind : HasFault(kind) => HasFault(kind)'
    BY <1>4 DEF HasFault
  <1>7. CASE what = "touch"
    BY <1>2, <1>3, <1>4, <1>5, <1>6, <1>7, DoneStep
  <1>8. QED
    BY <1>1, <1>3, <1>4, <1>7, MarkStep, CycleStep, RedoStep

\* Replies come in time: what the caller knows of a command is true.
LEMMA Punctual ==
    ASSUME TypeOK, Orderly', NEW ok \in BOOLEAN, Answered(ok)
    PROVE  /\ CarriedOut(ok) <=> ok
           /\ ok => UNCHANGED faults
  <1> DEFINE S == Faults \cup {"timeout", "reject"}
  <1>1. faults \in Seq(S) /\ Len(faults) \in Nat
    BY SeqMonotonic, LenProperties DEF TypeOK
  <1>2. \A k \in S : Append(faults, k)[Len(faults) + 1] = k
    BY <1>1, AppendProperties
  <1>3. ~ok => Fault("reject")
    BY FaultLast DEF Orderly, Answered
  <1>4. ~ok => faults' = Append(faults, "reject")
    BY <1>3 DEF Fault
  <1>5. ~ok => faults' # Append(faults, "timeout")
    BY <1>2, <1>4
  <1>6. QED
    BY <1>5 DEF Answered, NoFault, CarriedOut, Fault

\* A task is given to an agent.
LEMMA SendCreateStep ==
    ASSUME IInv, Flow, Orderly', NEW g \in Goroutines, SendCreate(g)
    PROVE  Flow'
  <1> DEFINE h == Op(g)
             n == h[2]
  <1>1. /\ h \in Ops /\ h[1] = "create" /\ todo[g] # <<>> /\ Fits(h, tree, Calm, unsent)
        /\ \A k \in Goroutines \ {g} : todo[k] = <<>>
    BY OpFits DEF SendCreate
  <1>2. PICK ok \in BOOLEAN :
           /\ Answered(ok)
           /\ agents' = IF CarriedOut(ok) THEN [agents EXCEPT ![n] = @ + 1] ELSE agents
           /\ Replace(g, IF ok THEN h[3] ELSE <<>>)
    BY DEF SendCreate
  <1>3. TypeOK
    BY DEF IInv
  <1>4. agents' = IF ok THEN [agents EXCEPT ![n] = @ + 1] ELSE agents
    BY <1>2, <1>3, Punctual
  <1>5. /\ UNCHANGED <<path, tree, unsent, queue, jobs, reviewers>>
        /\ \A kind : HasFault(kind) => HasFault(kind)'
    BY <1>2, <1>3, AnsweredFaults DEF SendCreate, disk
  <1>6. Calm' = Calm
    BY <1>5 DEF Calm
  <1>7. /\ n \in Named /\ n # Proposal /\ h[3] \in Seq(Then)
        /\ Ordered(h[3]) /\ \A i \in DOMAIN h[3] : h[3][i][2] \in Reviewed => h[3][i][2] \in Calm
        /\ n \in Work => tree.st[n] = "pending" /\ h[3] # <<>> /\ h[3][1] = Mark(n, "running")
    BY <1>1, Operands DEF Fits
  <1> DEFINE ops == IF ok THEN h[3] ELSE <<>>
  <1>8. ops = h[3] \/ ops = <<>>
    OBVIOUS
  <1>9. ok => ops = h[3]
    OBVIOUS
  <1>10. Replace(g, ops)
    BY <1>2
  <1> HIDE DEF h, n, ops
  <1>11. agents \in [Named -> Nat]
    BY <1>3 DEF TypeOK
  <1>12. agents'[Proposal] = agents[Proposal]
    BY <1>4, <1>7, <1>11 DEF Named
  <1>13. ops \in Seq(Then) /\ ops \in Seq(Ops) /\ Ordered(ops)
    <2>1. Then \subseteq Ops
      BY ThenGood DEF Good
    <2>2. <<>> \in Seq(Then) /\ Ordered(<<>>)
      BY EmptySeq, OrderedSeqs
    <2>3. ops \in Seq(Then)
      BY <1>7, <1>8, <2>2
    <2>4. QED
      BY <1>7, <1>8, <2>1, <2>2, <2>3, SeqMonotonic
  <1>14. \A i \in DOMAIN ops : /\ ops[i] \in Then
                               /\ i \in DOMAIN h[3] /\ ops[i] = h[3][i]
    BY <1>8, <1>13, SeqIs
  <1>15. ASSUME NEW a \in Then
         PROVE  /\ a[1] \in {"mark", "occupy"} /\ (a[1] = "mark" => a[3] = "running")
                /\ (a[2] \in Reviewed => a[2] \in Calm) => Fits(a, tree, Calm, unsent)
    <2>1. a[1] \in {"mark", "occupy"} /\ (a[1] = "mark" => a[3] = "running")
      BY DEF Then
    <2>2. QED
      BY <2>1 DEF Fits
  <1>16. \A i \in DOMAIN ops : Fits(ops[i], tree, Calm, unsent)
    BY <1>7, <1>14, <1>15
  <1>17. ASSUME NEW i \in DOMAIN ops, NEW b \in Ops, Before(h, b)
         PROVE  Before(ops[i], b)
    <2>1. Free(b) \/ (b[1] = "dispatch" /\ Apart(h, b[2]))
      BY <1>1, <1>17 DEF Before, Mark, History, Prepare
    <2>2. CASE b[1] = "dispatch" /\ Apart(h, b[2])
      <3>1. ops[i][1] \in {"mark", "occupy"} /\ i \in DOMAIN h[3] /\ ops[i] = h[3][i]
        BY <1>14, <1>15
      <3>2. ops[i][2] \notin b[2]
        BY <1>1, <2>2, <3>1 DEF Apart
      <3>3. Apart(ops[i], b[2])
        BY <3>1, <3>2 DEF Apart
      <3>4. QED
        BY <2>2, <3>1, <3>3 DEF Before
    <2>3. QED
      BY <2>1, <2>2, Followers
  <1>18. ops # <<>> => ops[1][1] # "ask"
    BY <1>13, <1>14, <1>15, SeqIs
  <1>19. Turns' /\ ~InSetup' /\ Work2Do'
    BY <1>1, <1>5, <1>6, <1>10, <1>12, <1>13, <1>16, <1>17, <1>18, Advance DEF h
  <1>20. Reviews' /\ Unborn(tree)' /\ Asked'
    BY <1>5, <1>6 DEF Flow, Reviews, Unborn, Asked
  <1>21. \A k \in Work : agents[k] > 0 => tree.st[k] # "pending"
    BY <1>1, Pending DEF h
  <1>22. \A k \in Work : k \in Named /\ agents'[k] = IF ok /\ k = n THEN agents[k] + 1 ELSE agents[k]
    BY <1>4, <1>11 DEF Named
  <1>23. ASSUME NEW k \in Work, ok, k = n
         PROVE  First(Mark(k, "running"))' /\ agents[k] = 0
    <2>1. ops # <<>> /\ ops[1] = Mark(k, "running")
      BY <1>7, <1>9, <1>23
    <2>2. todo'[g] = ops \o Tail(todo[g])
      BY <1>10, TodoOps DEF Replace
    <2>3. Tail(todo[g]) \in Seq(Ops)
      BY <1>1, TodoOps, HeadTailProperties
    <2>4. /\ ops \o Tail(todo[g]) \in Seq(Ops)
          /\ Len(ops \o Tail(todo[g])) = Len(ops) + Len(Tail(todo[g]))
          /\ \A i \in 1 .. (Len(ops) + Len(Tail(todo[g]))) :
                (ops \o Tail(todo[g]))[i] = IF i <= Len(ops) THEN ops[i] ELSE Tail(todo[g])[i - Len(ops)]
      BY <1>13, <2>3, ConcatProperties
    <2>5. Len(ops) \in Nat /\ Len(ops) > 0 /\ Len(Tail(todo[g])) \in Nat
      BY <1>13, <2>1, <2>3, SeqIs
    <2>6. Len(todo'[g]) > 0 /\ todo'[g][1] = Mark(k, "running") /\ todo'[g] \in Seq(Ops)
      BY <2>1, <2>2, <2>4, <2>5
    <2>7. todo'[g] # <<>> /\ Head(todo'[g]) = Mark(k, "running")
      BY <2>6, SeqIs
    <2>8. agents[k] = 0
      BY <1>7, <1>23, <1>11, <1>21 DEF Named
    <2>9. QED
      BY <2>7, <2>8 DEF First, Op
  <1>24. Manned'
    <2> SUFFICES ASSUME NEW k \in Work, agents'[k] > 0
                 PROVE  /\ tree'.st[k] # "absent"
                        /\ tree'.st[k] = "pending" => First(Mark(k, "running"))'
      BY DEF Manned
    <2>1. CASE ok /\ k = n
      BY <1>5, <1>7, <1>23, <2>1
    <2>2. CASE ~(ok /\ k = n)
      BY <1>5, <1>21, <1>22, <2>2 DEF Flow, Manned
    <2>3. QED
      BY <2>1, <2>2
  <1>25. Alike'
    BY <1>5, <1>11, <1>22, <1>23 DEF Flow, Alike, Named
  <1>26. QED
    BY <1>19, <1>20, <1>24, <1>25 DEF Flow

\* A review is sent, or kept to be sent later.
LEMMA ReviewMoves ==
    ASSUME IInv, Flow, NEW g \in Goroutines, todo[g] # <<>>, Done(g),
           Op(g)[1] \in {"ask", "retry"},
           UNCHANGED <<path, tree, queue, jobs, agents>>,
           \A kind : HasFault(kind) => HasFault(kind)',
           NEW n \in Reviewed, n \in Calm \/ n \in unsent, UnderReview(n, tree),
           \/ reviewers' = [reviewers EXCEPT ![n] = @ + 1] /\ unsent' = unsent \ {n}
           \/ reviewers' = reviewers /\ unsent' = unsent \cup {n}
    PROVE  Flow'
  <1>1. reviewers \in [Reviewed -> Nat] /\ jobs \in [Jobs -> Nat]
    BY DEF IInv, TypeOK
  <1>2. reviewers[n] = 0 /\ jobs[<<"review", n>>] = 0 /\ About(n, queue) = {}
    BY DEF Flow, Reviews, Single, Calm, Quiet
  <1>3. \A m \in Reviewed : /\ reviewers'[m] = reviewers[m] \/ (m = n /\ reviewers'[m] = 1 /\ n \notin unsent')
                            /\ m # n => (m \in unsent' <=> m \in unsent)
    BY <1>1, <1>2
  <1>4. \A m \in Reviewed : m # n => (m \in Calm' <=> m \in Calm)
    BY <1>3 DEF Calm, Quiet
  <1>5. Reviews'
    <2> SUFFICES ASSUME NEW m \in Reviewed
                 PROVE  /\ Single(m, unsent', reviewers', jobs, queue)
                        /\ m \notin Calm' => UnderReview(m, tree)
                        /\ tree.st[m] # "absent"
      BY DEF Reviews
    <2>1. /\ Single(m, unsent, reviewers, jobs, queue)
          /\ m \notin Calm => UnderReview(m, tree)
          /\ tree.st[m] # "absent"
      BY DEF Flow, Reviews
    <2>2. CASE m = n
      <3>1. reviewers'[n] = 0 \/ (reviewers'[n] = 1 /\ n \notin unsent')
        BY <1>2, <1>3
      <3>2. reviewers'[n] <= 1 /\ (n \in unsent' => reviewers'[n] = 0)
        BY <3>1
      <3>3. Single(n, unsent', reviewers', jobs, queue)
        BY <1>2, <3>2 DEF Single
      <3>4. QED
        BY <2>1, <2>2, <3>3
    <2>3. CASE m # n
      BY <1>3, <1>4, <2>1, <2>3 DEF Single
    <2>4. QED
      BY <2>2, <2>3
  <1>6. \A k \in Work : agents[k] > 0 => tree.st[k] # "pending"
    BY Pending
  <1>7. Unborn(tree)' /\ Asked' /\ Manned' /\ Alike'
    BY <1>6 DEF Flow, Unborn, Asked, Manned, Alike
  <1>8. <<>> \in Seq(Ops) /\ Ordered(<<>>) /\ DOMAIN <<>> = {} /\ Replace(g, <<>>)
    BY EmptySeq, OrderedSeqs DEF Done
  <1>9. ASSUME NEW b \in Ops, Fits(b, tree, Calm, unsent), Before(Op(g), b)
        PROVE  Fits(b, tree', Calm', unsent')
    <2>1. Free(b)
      BY <1>9, Followers
    <2>2. QED
      BY <1>9, <2>1, FitsMore
  <1>10. Turns' /\ ~InSetup' /\ Work2Do'
    BY <1>8, <1>9, Advance
  <1>11. QED
    BY <1>5, <1>7, <1>10 DEF Flow

LEMMA AskSteps ==
    ASSUME IInv, Flow, Orderly', NEW g \in Goroutines, AskReview(g) \/ NextReview(g)
    PROVE  Flow'
  <1>1. TypeOK /\ reviewers \in [Reviewed -> Nat]
    BY DEF IInv, TypeOK
  <1>2. UNCHANGED <<path, tree, queue, jobs, agents>>
    BY DEF AskReview, NextReview
  <1>3. CASE AskReview(g)
    <2>0. PICK n : n = Op(g)[2]
      OBVIOUS
    <2>1. PICK ok \in BOOLEAN :
             /\ SendReview(n, ok)
             /\ unsent' = IF ok THEN unsent ELSE unsent \cup {n}
             /\ Done(g)
      BY <1>3, <2>0 DEF AskReview
    <2>2. /\ Op(g) \in Ops /\ Op(g)[1] = "ask" /\ todo[g] # <<>> /\ n \in Reviewed
          /\ n \in Calm /\ UnderReview(n, tree)
      BY <1>3, <2>0, OpFits, Operands DEF AskReview, Fits, Flow, Work2Do
    <2>3. /\ Answered(ok)
          /\ reviewers' = IF ok THEN [reviewers EXCEPT ![n] = @ + 1] ELSE reviewers
      BY <1>1, <2>1, Punctual DEF SendReview
    <2>4. n \notin unsent
      BY <2>2 DEF Calm, Quiet
    <2>5. \A kind : HasFault(kind) => HasFault(kind)'
      BY <1>1, <2>3, AnsweredFaults
    <2>6. \/ reviewers' = [reviewers EXCEPT ![n] = @ + 1] /\ unsent' = unsent \ {n}
          \/ reviewers' = reviewers /\ unsent' = unsent \cup {n}
      BY <2>1, <2>3, <2>4
    <2>7. QED
      BY <1>2, <2>1, <2>2, <2>5, <2>6, ReviewMoves
  <1>4. CASE NextReview(g)
    <2>1. /\ Op(g) \in Ops /\ Op(g)[1] = "retry" /\ todo[g] # <<>>
          /\ Op(g)[2] \subseteq unsent /\ Op(g)[3] = tree /\ Op(g)[2] \subseteq Reviewed
      BY <1>4, OpFits, Operands DEF NextReview, Fits
    <2>2. \A b \in Ops : Before(Op(g), b) => Free(b)
      BY <2>1, Followers
    <2>3. CASE Op(g)[2] = {}
      <3> DEFINE a == <<"pick", tree>>
      <3>1. Replace(g, <<a>>) /\ UNCHANGED <<reviewers, unsent, faults>>
        BY <1>4, <2>1, <2>3 DEF NextReview
      <3>2. a \in Ops /\ a[1] # "ask"
        BY <1>1, OpsAre DEF TypeOK
      <3>3. Fits(a, tree, Calm, unsent)
        BY DEF Fits
      <3>4. \A b \in Ops : Before(Op(g), b) => Before(a, b)
        BY <2>2, Followers
      <3>5. \A kind : HasFault(kind) => HasFault(kind)'
        BY <3>1 DEF HasFault
      <3> HIDE DEF a
      <3>6. QED
        BY <1>2, <2>1, <3>1, <3>2, <3>3, <3>4, <3>5, OneStep
    <2>4. ASSUME NEW n \in Op(g)[2], NEW ok \in BOOLEAN, SendReview(n, ok),
                 IF ok THEN unsent' = unsent \ {n} /\ Done(g)
                       ELSE UNCHANGED unsent /\ Replace(g, <<<<"retry", Op(g)[2] \ {n}, Op(g)[3]>>>>)
          PROVE  Flow'
      <3>1. /\ Answered(ok)
            /\ reviewers' = IF ok THEN [reviewers EXCEPT ![n] = @ + 1] ELSE reviewers
        BY <1>1, <2>4, Punctual DEF SendReview
      <3>2. \A kind : HasFault(kind) => HasFault(kind)'
        BY <1>1, <3>1, AnsweredFaults
      <3>3. CASE ok
        <4>1. n \in Reviewed /\ n \in unsent /\ n \notin Calm
          BY <2>1 DEF Calm, Quiet
        <4>2. UnderReview(n, tree)
          BY <4>1 DEF Flow, Reviews
        <4>3. QED
          BY <1>2, <2>1, <2>4, <3>1, <3>2, <3>3, <4>1, <4>2, ReviewMoves
      <3>4. CASE ~ok
        <4> DEFINE a == <<"retry", Op(g)[2] \ {n}, tree>>
        <4>1. Replace(g, <<a>>) /\ UNCHANGED <<reviewers, unsent>>
          BY <2>1, <2>4, <3>1, <3>4
        <4>2. a \in Ops /\ a[1] # "ask"
          BY <1>1, <2>1, OpsAre DEF TypeOK
        <4>3. Fits(a, tree, Calm, unsent)
          BY <2>1 DEF Fits
        <4>4. \A b \in Ops : Before(Op(g), b) => Before(a, b)
          BY <2>2, Followers
        <4> HIDE DEF a
        <4>5. QED
          BY <1>2, <2>1, <3>2, <4>1, <4>2, <4>3, <4>4, OneStep
      <3>5. QED
        BY <3>3, <3>4
    <2>5. QED
      BY <1>4, <2>3, <2>4 DEF NextReview
  <1>5. QED
    BY <1>3, <1>4

-----------------------------------------------------------------------------
\* Events and the proxy

\* An event more at the end of the channel.
LEMMA QueueAppend ==
    ASSUME NEW q \in Seq(Event), NEW e \in Event, NEW n
    PROVE  /\ DOMAIN Append(q, e) = DOMAIN q \cup {Len(q) + 1} /\ Len(q) + 1 \notin DOMAIN q
           /\ Append(q, e)[Len(q) + 1] = e
           /\ \A i \in DOMAIN q : Append(q, e)[i] = q[i]
           /\ ~(e.kind \in ReviewKinds /\ e.node = n) => About(n, Append(q, e)) = About(n, q)
           /\ e.kind \in ReviewKinds /\ e.node = n =>
                 About(n, Append(q, e)) = About(n, q) \cup {Len(q) + 1}
  <1>1. /\ Len(q) \in Nat /\ DOMAIN q = 1 .. Len(q)
        /\ Append(q, e) \in Seq(Event) /\ Len(Append(q, e)) = Len(q) + 1
        /\ \A i \in 1 .. Len(q) : Append(q, e)[i] = q[i]
        /\ Append(q, e)[Len(q) + 1] = e
    BY AppendProperties, LenProperties
  <1>2. DOMAIN Append(q, e) = 1 .. (Len(q) + 1)
    BY <1>1, LenProperties
  <1>3. DOMAIN Append(q, e) = DOMAIN q \cup {Len(q) + 1} /\ Len(q) + 1 \notin DOMAIN q
    BY <1>1, <1>2
  <1>4. ~(e.kind \in ReviewKinds /\ e.node = n) => About(n, Append(q, e)) = About(n, q)
    BY <1>1, <1>3 DEF About
  <1>5. e.kind \in ReviewKinds /\ e.node = n =>
           About(n, Append(q, e)) = About(n, q) \cup {Len(q) + 1}
    BY <1>1, <1>3 DEF About
  <1>6. QED
    BY <1>1, <1>3, <1>4, <1>5

\* One less at its head.
LEMMA QueueTail ==
    ASSUME NEW q \in Seq(Event), q # <<>>, NEW n
    PROVE  /\ Head(q) \in Event /\ 1 \in DOMAIN q /\ Head(q) = q[1]
           /\ \A i \in DOMAIN Tail(q) : i + 1 \in DOMAIN q /\ Tail(q)[i] = q[i + 1] /\ i + 1 # 1
           /\ Head(q).kind \in ReviewKinds /\ Head(q).node = n =>
                 /\ About(n, q) # {}
                 /\ (\A i, j \in About(n, q) : i = j) => About(n, Tail(q)) = {}
           /\ ~(Head(q).kind \in ReviewKinds /\ Head(q).node = n) =>
                 /\ About(n, q) = {} <=> About(n, Tail(q)) = {}
                 /\ (\A i, j \in About(n, q) : i = j) => \A i, j \in About(n, Tail(q)) : i = j
  <1>1. /\ Head(q) \in Event /\ Len(q) \in Nat /\ Len(q) > 0 /\ DOMAIN q = 1 .. Len(q)
        /\ Head(q) = q[1]
    BY HeadTailProperties, SeqIs
  <1>2. /\ Tail(q) \in Seq(Event) /\ Len(Tail(q)) = Len(q) - 1
        /\ \A i \in 1 .. Len(Tail(q)) : Tail(q)[i] = q[i + 1]
        /\ DOMAIN Tail(q) = 1 .. (Len(q) - 1)
    BY HeadTailProperties, SeqIs
  <1>3. \A i \in DOMAIN Tail(q) : i + 1 \in DOMAIN q /\ Tail(q)[i] = q[i + 1] /\ i + 1 # 1
    BY <1>1, <1>2
  <1>4. \A i \in DOMAIN q : i = 1 \/ (i - 1 \in DOMAIN Tail(q) /\ Tail(q)[i - 1] = q[i])
    BY <1>1, <1>2
  <1>5. \A i \in About(n, Tail(q)) : i + 1 \in About(n, q) /\ i + 1 # 1 /\ i \in Nat
    BY <1>2, <1>3 DEF About
  <1>6. \A i \in About(n, q) : i = 1 \/ i - 1 \in About(n, Tail(q))
    BY <1>4 DEF About
  <1>7. 1 \in About(n, q) <=> (Head(q).kind \in ReviewKinds /\ Head(q).node = n)
    BY <1>1 DEF About
  <1>8. QED
    BY <1>1, <1>3, <1>5, <1>6, <1>7

\* A step in which no goroutine takes part.
LEMMA NewsStep ==
    ASSUME Flow, UNCHANGED <<path, tree, unsent, todo>>,
           \A n \in Reviewed : /\ Single(n, unsent, reviewers', jobs', queue')
                               /\ Quiet(n, unsent, reviewers', jobs', queue')
                                     <=> Quiet(n, unsent, reviewers, jobs, queue),
           (InSetup => Untouched)', Asked', Manned', Alike'
    PROVE  Flow' /\ Calm' = Calm
  <1>1. Calm' = Calm
    BY DEF Calm
  <1>2. Reviews'
    BY <1>1 DEF Flow, Reviews
  <1>3. Turns' /\ Unborn(tree)'
    BY DEF Flow, Turns, Unborn
  <1>4. Work2Do'
    BY <1>1 DEF Flow, Work2Do, Doing, Op
  <1>5. QED
    BY <1>1, <1>2, <1>3, <1>4 DEF Flow

\* A model call is done.
LEMMA JobDoneFlow == ASSUME IInv, Flow, NEW j \in Jobs, JobDone(j) PROVE Flow' /\ Calm' = Calm
  <1>1. /\ jobs \in [Jobs -> Nat] /\ queue \in Seq(Event) /\ jobs[j] > 0
        /\ reviewers \in [Reviewed -> Nat]
    BY DEF IInv, TypeOK, JobDone
  <1>2. PICK result \in Results(j) : queue' = Append(queue, [kind |-> result, node |-> j[2]])
    BY DEF JobDone
  <1>3. PICK e : e = [kind |-> result, node |-> j[2]]
    OBVIOUS
  <1>4. \/ j[1] = "summary" /\ e.kind = "summarized" /\ e.node \in Late
        \/ /\ j[1] = "review" /\ j = <<"review", e.node>> /\ e.node \in Reviewed
           /\ e.kind \in {"approved", "needsWork"}
           /\ e.kind = "needsWork" => e.node \in Redoable
    BY <1>2, <1>3 DEF Results, Jobs
  <1>5. e \in Event /\ queue' = Append(queue, e)
    BY <1>2, <1>3, <1>4 DEF Event
  <1>6. /\ jobs'[j] = jobs[j] - 1 /\ \A k \in Jobs \ {j} : jobs'[k] = jobs[k]
        /\ UNCHANGED <<path, tree, unsent, todo, agents, reviewers, faults>>
    BY <1>1 DEF JobDone, disk, proxy
  <1>7. ~InSetup
    BY <1>1 DEF Flow, Untouched
  <1>8. ~InSetup'
    BY <1>4, <1>5, <1>6, <1>7, <1>1, QueueAppend DEF InSetup, AgentKinds
  <1>9. Asked'
    BY <1>1, <1>4, <1>5, QueueAppend DEF Flow, Asked
  <1>10. Manned' /\ Alike'
    BY <1>6 DEF Flow, Manned, Alike, First, Op, HasFault
  <1>11. ASSUME NEW n \in Reviewed
         PROVE  /\ Single(n, unsent, reviewers', jobs', queue')
                /\ Quiet(n, unsent, reviewers', jobs', queue')
                      <=> Quiet(n, unsent, reviewers, jobs, queue)
    <2>1. Single(n, unsent, reviewers, jobs, queue) /\ <<"review", n>> \in Jobs
      BY DEF Flow, Reviews, Jobs
    <2>2. CASE j = <<"review", n>>
      <3>1. e.kind \in ReviewKinds /\ e.node = n
        BY <1>4, <2>2 DEF ReviewKinds
      <3>2. jobs[<<"review", n>>] = 1 /\ jobs'[<<"review", n>>] = 0
        BY <1>1, <1>6, <2>1, <2>2 DEF Single
      <3>3. n \notin unsent /\ ~(reviewers[n] > 0) /\ About(n, queue) = {}
        BY <2>1, <3>2 DEF Single
      <3>4. About(n, queue') = {Len(queue) + 1}
        <4>1. About(n, Append(queue, e)) = About(n, queue) \cup {Len(queue) + 1}
          BY <1>1, <1>5, <3>1, QueueAppend
        <4>2. QED
          BY <1>5, <3>3, <4>1
      <3>5. reviewers'[n] = 0
        BY <1>1, <1>6, <3>3
      <3>6. Single(n, unsent, reviewers', jobs', queue')
        BY <3>2, <3>3, <3>4, <3>5 DEF Single
      <3>7. ~Quiet(n, unsent, reviewers', jobs', queue') /\ ~Quiet(n, unsent, reviewers, jobs, queue)
        BY <3>2, <3>4 DEF Quiet
      <3>8. QED
        BY <3>6, <3>7
    <2>3. CASE j # <<"review", n>>
      <3>1. ~(e.kind \in ReviewKinds /\ e.node = n)
        BY <1>4, <2>3 DEF ReviewKinds
      <3>2. About(n, queue') = About(n, queue)
        BY <1>1, <1>5, <3>1, QueueAppend
      <3>3. jobs'[<<"review", n>>] = jobs[<<"review", n>>]
        BY <1>6, <2>1, <2>3
      <3>4. QED
        BY <1>6, <2>1, <3>2, <3>3 DEF Single, Quiet
    <2>4. QED
      BY <2>2, <2>3
  <1>12. QED
    BY <1>6, <1>8, <1>9, <1>10, <1>11, NewsStep

\* A reviewer has ended.
LEMMA ReviewerEndsFlow == ASSUME IInv, Flow, NEW k \in Reviewed, ReviewerEnds(k) PROVE Flow' /\ Calm' = Calm
  <1>1. /\ reviewers \in [Reviewed -> Nat] /\ queue \in Seq(Event) /\ reviewers[k] > 0
        /\ jobs \in [Jobs -> Nat] /\ TypeOK
    BY DEF IInv, TypeOK, ReviewerEnds
  <1>2. PICK kind \in {"reviewed", "reviewFailed"} :
           /\ queue' = Append(queue, [kind |-> kind, node |-> k])
           /\ NoFault \/ Fault("fail")
    BY DEF ReviewerEnds
  <1>3. PICK e : e = [kind |-> kind, node |-> k]
    OBVIOUS
  <1>4. /\ e.kind \in {"reviewed", "reviewFailed"} /\ e.node = k
        /\ e \in Event /\ queue' = Append(queue, e)
    BY <1>2, <1>3 DEF Event
  <1>5. /\ reviewers'[k] = reviewers[k] - 1 /\ \A n \in Reviewed \ {k} : reviewers'[n] = reviewers[n]
        /\ UNCHANGED <<path, tree, unsent, todo, agents, jobs>>
    BY <1>1 DEF ReviewerEnds, disk, proxy
  <1>6. ~InSetup
    BY <1>1 DEF Flow, Untouched
  <1>7. ~InSetup'
    BY <1>4, <1>5, <1>6, <1>1, QueueAppend DEF InSetup, AgentKinds
  <1>8. Asked'
    BY <1>1, <1>4, QueueAppend DEF Flow, Asked
  <1>9. \A f : HasFault(f) => HasFault(f)'
    BY <1>1, <1>2, FaultLast, FaultsGrow
  <1>10. Manned' /\ Alike'
    BY <1>5, <1>9 DEF Flow, Manned, Alike, First, Op
  <1>11. ASSUME NEW n \in Reviewed
         PROVE  /\ Single(n, unsent, reviewers', jobs', queue')
                /\ Quiet(n, unsent, reviewers', jobs', queue')
                      <=> Quiet(n, unsent, reviewers, jobs, queue)
    <2>1. Single(n, unsent, reviewers, jobs, queue) /\ <<"review", n>> \in Jobs
      BY DEF Flow, Reviews, Jobs
    <2>2. CASE k = n
      <3>1. e.kind \in ReviewKinds /\ e.node = n
        BY <1>4, <2>2 DEF ReviewKinds
      <3>2. reviewers[n] = 1 /\ reviewers'[n] = 0
        BY <1>1, <1>5, <2>1, <2>2 DEF Single
      <3>3. n \notin unsent /\ jobs[<<"review", n>>] = 0 /\ About(n, queue) = {}
        BY <2>1, <3>2 DEF Single
      <3>4. About(n, queue') = {Len(queue) + 1}
        <4>1. About(n, Append(queue, e)) = About(n, queue) \cup {Len(queue) + 1}
          BY <1>1, <1>4, <3>1, QueueAppend
        <4>2. QED
          BY <1>4, <3>3, <4>1
      <3>5. jobs'[<<"review", n>>] = 0
        BY <1>5, <3>3
      <3>6. Single(n, unsent, reviewers', jobs', queue')
        BY <3>2, <3>3, <3>4, <3>5 DEF Single
      <3>7. ~Quiet(n, unsent, reviewers', jobs', queue') /\ ~Quiet(n, unsent, reviewers, jobs, queue)
        BY <3>2, <3>4 DEF Quiet
      <3>8. QED
        BY <3>6, <3>7
    <2>3. CASE k # n
      <3>1. ~(e.kind \in ReviewKinds /\ e.node = n)
        BY <1>4, <2>3
      <3>2. About(n, queue') = About(n, queue)
        BY <1>1, <1>4, <3>1, QueueAppend
      <3>3. reviewers'[n] = reviewers[n]
        BY <1>5, <2>3
      <3>4. QED
        BY <1>5, <2>1, <3>2, <3>3 DEF Single, Quiet
    <2>4. QED
      BY <2>2, <2>3
  <1>12. QED
    BY <1>5, <1>7, <1>8, <1>10, <1>11, NewsStep

\* An agent has ended.
LEMMA AgentEndsFlow == ASSUME IInv, Flow, NEW k \in Named, AgentEnds(k) PROVE Flow' /\ Calm' = Calm
  <1>1. /\ agents \in [Named -> Nat] /\ queue \in Seq(Event) /\ agents[k] > 0 /\ TypeOK
    BY DEF IInv, TypeOK, AgentEnds
  <1>2. PICK kind \in AgentKinds :
           /\ queue' = Append(queue, [kind |-> kind, node |-> k])
           /\ NoFault \/ Fault("fail")
    BY DEF AgentEnds, AgentKinds
  <1>3. PICK e : e = [kind |-> kind, node |-> k]
    OBVIOUS
  <1>4. /\ e.kind \in AgentKinds /\ e.node = k
        /\ e \in Event /\ queue' = Append(queue, e)
    BY <1>2, <1>3 DEF Event, AgentKinds
  <1>5. /\ agents'[k] = agents[k] - 1 /\ \A n \in Named \ {k} : agents'[n] = agents[n]
        /\ UNCHANGED <<path, tree, unsent, todo, reviewers, jobs, meeting>>
    BY <1>1 DEF AgentEnds, disk
  <1>6. (InSetup => Untouched)'
    <2>1. CASE k = Proposal
      <3>1. Untouched /\ InSetup
        BY <1>1, <2>1 DEF Flow, InSetup
      <3>2. agents[Proposal] = 1 /\ queue = <<>> /\ path # "none"
        BY <1>1, <2>1, <3>1 DEF Untouched, Named
      <3>3. /\ Len(queue') = 1 /\ queue' # <<>> /\ DOMAIN queue' = {1} /\ queue'[1] = e
        BY <1>4, <3>2
      <3>4. agents'[Proposal] = 0 /\ \A n \in Named \ {Proposal} : agents'[n] = 0
        BY <1>5, <2>1, <3>1, <3>2 DEF Untouched
      <3>5. Untouched'
        BY <1>4, <1>5, <2>1, <3>1, <3>2, <3>3, <3>4 DEF Untouched
      <3>6. QED
        BY <3>5
    <2>2. CASE k # Proposal
      <3>1. ~InSetup
        BY <1>1, <2>2 DEF Flow, Untouched
      <3>2. agents'[Proposal] = agents[Proposal]
        BY <1>5, <2>2 DEF Named
      <3>3. ~InSetup'
        BY <1>1, <1>4, <1>5, <2>2, <3>1, <3>2, QueueAppend DEF InSetup
      <3>4. QED
        BY <3>3
    <2>3. QED
      BY <2>1, <2>2
  <1>7. Asked'
    BY <1>1, <1>4, QueueAppend DEF Flow, Asked, AgentKinds
  <1>8. \A f : HasFault(f) => HasFault(f)'
    BY <1>1, <1>2, FaultLast, FaultsGrow
  <1>9. \A n \in Work : n \in Named /\ agents'[n] <= agents[n] /\ agents'[n] \in Nat
    BY <1>1, <1>5 DEF Named
  <1>10. Manned'
    BY <1>1, <1>5, <1>9 DEF Flow, Manned, First, Op
  <1>11. Alike'
    BY <1>1, <1>8, <1>9 DEF Flow, Alike
  <1>12. ASSUME NEW n \in Reviewed
         PROVE  /\ Single(n, unsent, reviewers', jobs', queue')
                /\ Quiet(n, unsent, reviewers', jobs', queue')
                      <=> Quiet(n, unsent, reviewers, jobs, queue)
    <2>1. e.kind \notin ReviewKinds
      BY <1>4 DEF AgentKinds, ReviewKinds
    <2>2. About(n, queue') = About(n, queue)
      BY <1>1, <1>4, <2>1, QueueAppend
    <2>3. QED
      BY <1>5, <2>2 DEF Single, Quiet, Flow, Reviews
  <1>13. QED
    BY <1>5, <1>6, <1>7, <1>10, <1>11, <1>12, NewsStep

\* A meeting is over, and the user adds an agent.
LEMMA AgentsFlow == ASSUME IInv, Flow, MeetingOver \/ AddAgent PROVE Flow' /\ Calm' = Calm
  <1>1. /\ agents \in [Named -> Nat] /\ meeting \subseteq Work /\ TypeOK
    BY DEF IInv, TypeOK
  <1>2. UNCHANGED <<path, tree, unsent, todo, reviewers, jobs, queue>>
    BY DEF MeetingOver, AddAgent, disk
  <1>3. \A n \in Reviewed : /\ Single(n, unsent, reviewers', jobs', queue')
                            /\ Quiet(n, unsent, reviewers', jobs', queue')
                                  <=> Quiet(n, unsent, reviewers, jobs, queue)
    BY <1>2 DEF Flow, Reviews
  <1>4. Asked'
    BY <1>2 DEF Flow, Asked
  <1>5. Work \subseteq Named /\ Proposal \in Named
    BY DEF Named
  <1>6. CASE MeetingOver
    <2>1. PICK again \in SUBSET meeting, cancelled \in SUBSET meeting :
             agents' = [n \in Named |->
                IF n \in again /\ agents[n] = 0 /\ tree.st[n] = "error" THEN 1
                ELSE IF n \in cancelled THEN 0 ELSE agents[n]]
      BY <1>6 DEF MeetingOver
    <2>2. ~InSetup
      BY <1>6 DEF MeetingOver, Flow, Untouched
    <2>3. agents'[Proposal] = agents[Proposal]
      BY <1>1, <1>5, <2>1, Kinds
    <2>4. ~InSetup'
      BY <1>2, <2>2, <2>3 DEF InSetup
    <2>5. \A n \in Work : /\ agents'[n] > 0 => agents[n] > 0 \/ tree.st[n] = "error"
                          /\ agents'[n] <= 1 \/ agents'[n] = agents[n]
      BY <1>1, <1>5, <2>1
    <2>6. Manned'
      BY <1>2, <2>5 DEF Flow, Manned, First, Op
    <2>7. UNCHANGED faults
      BY <1>6 DEF MeetingOver
    <2>8. Alike'
      BY <1>2, <2>5, <2>7 DEF Flow, Alike, HasFault
    <2>9. QED
      BY <1>2, <1>3, <1>4, <2>4, <2>6, <2>8, NewsStep
  <1>7. CASE AddAgent
    <2>1. PICK n \in Named \ {Proposal} :
             /\ agents[n] > 0 \/ (n \in Work /\ tree.st[n] = "error")
             /\ agents' = [agents EXCEPT ![n] = @ + 1]
      BY <1>7 DEF AddAgent
    <2>2. ~InSetup
      BY <1>1, <2>1 DEF Flow, Untouched, AllPending, Work
    <2>3. ~InSetup'
      BY <1>1, <1>2, <2>1, <2>2 DEF InSetup
    <2>4. \A k \in Work : agents'[k] > 0 => agents[k] > 0 \/ tree.st[k] = "error"
      BY <1>1, <1>5, <2>1
    <2>5. Manned'
      BY <1>2, <2>4 DEF Flow, Manned, First, Op
    <2>6. Alike'
      BY <1>1, <1>7, FaultLast DEF AddAgent, Alike
    <2>7. QED
      BY <1>2, <1>3, <1>4, <2>3, <2>5, <2>6, NewsStep
  <1>8. QED
    BY <1>6, <1>7

-----------------------------------------------------------------------------
\* Setting up, and the handlers

\* A goroutine that has nothing to do is given ops.
LEMMA BeginList ==
    ASSUME IInv, NEW g \in Goroutines, NEW ops \in Seq(Ops), Begin(g, ops),
           \A k \in Goroutines : todo[k] = <<>>,
           Ordered(ops), \A i \in DOMAIN ops : Fits(ops[i], tree', Calm', unsent'),
           ops # <<>> => ops[1][1] # "ask"
    PROVE  Turns' /\ Work2Do'
  <1>1. /\ todo'[g] = ops /\ \A k \in Goroutines \ {g} : todo'[k] = <<>>
    BY TodoOps DEF Begin
  <1>2. Turns'
    BY <1>1 DEF Turns, Goroutines
  <1>3. ASSUME NEW k \in Goroutines
        PROVE  /\ Listed(todo'[k], tree', Calm', unsent')
               /\ Doing(k, "ask")' => UnderReview(Op(k)[2], tree)'
    <2>1. CASE k = g
      <3>1. ops # <<>> => Head(ops) = ops[1]
        BY SeqIs
      <3>2. ~Doing(g, "ask")'
        BY <1>1, <3>1 DEF Doing, Op
      <3>3. QED
        BY <1>1, <2>1, <3>2 DEF Listed
    <2>2. CASE k # g
      BY <1>1, <2>2, OrderedSeqs DEF Listed, Doing
    <2>3. QED
      BY <2>1, <2>2
  <1>4. QED
    BY <1>2, <1>3 DEF Work2Do

\* The run is started.
LEMMA StartFlow == ASSUME IInv, Flow, Orderly', NEW p \in Paths, Start(p) PROVE Flow'
  <1>1. TypeOK /\ agents \in [Named -> Nat] /\ queue \in Seq(Event)
    BY DEF IInv, TypeOK
  <1>2. path = "none" /\ Untouched /\ queue = <<>> /\ agents[Proposal] = 0
    BY DEF Start, Flow, InSetup, Untouched
  <1>3. path' # "none" /\ UNCHANGED <<tree, unsent, queue, jobs, reviewers, meeting>>
    BY TreeAssumption DEF Start, disk
  <1>4. Calm' = Calm /\ Reviewed \subseteq Calm
    <2>1. Calm' = Calm
      BY <1>3 DEF Calm
    <2>2. \A n \in Reviewed : <<"review", n>> \in Jobs /\ About(n, queue) = {}
      BY <1>2 DEF Jobs, About
    <2>3. QED
      BY <1>2, <2>1, <2>2 DEF Calm, Quiet, Untouched
  <1>5. Reviews' /\ Unborn(tree)' /\ Asked'
    BY <1>3, <1>4 DEF Flow, Reviews, Unborn, Asked
  <1>6. /\ \A k \in Named \ {Proposal} : agents'[k] = 0
        /\ agents'[Proposal] \in {0, 1}
    BY <1>1, <1>2 DEF Start, Untouched, Named
  <1>7. Manned' /\ Alike'
    <2>1. \A k \in Work : agents'[k] = 0
      BY <1>6, Kinds DEF Named
    <2>2. QED
      BY <2>1 DEF Manned, Alike
  <1>8. CASE p = "agent"
    <2>1. UNCHANGED todo
      BY <1>8 DEF Start
    <2>2. \A g \in Goroutines : todo'[g] = <<>>
      BY <1>2, <2>1 DEF Untouched
    <2>3. Turns' /\ Work2Do'
      BY <2>2, OrderedSeqs DEF Turns, Work2Do, Listed, Doing, Goroutines
    <2>4. Untouched'
      BY <1>2, <1>3, <1>6, <2>2 DEF Untouched
    <2>5. QED
      BY <1>5, <1>7, <2>3, <2>4 DEF Flow
  <1>9. CASE p # "agent"
    <2>1. PICK ops : /\ Begin("starter", ops) /\ UNCHANGED agents
                     /\ ops \in {<<Prepare, DispatchAll>>, <<Dispatch(Tasks, 0)>>}
      BY <1>9 DEF Start
    <2>2. {Prepare, DispatchAll, Dispatch(Tasks, 0)} \subseteq Ops
      BY OpsAre
    <2>3. ops \in Seq(Ops)
      BY <2>1, <2>2, GoodSeqs
    <2>4. Before(Prepare, DispatchAll)
      BY DEF Before, DispatchAll
    <2>5. Ordered(ops)
      BY <2>1, <2>4, OrderedSeqs
    <2>6. AllPending(Tasks, tree) /\ AllPending(Tasks, tree')
      BY <1>2, <1>3 DEF Untouched
    <2>7. /\ Fits(Prepare, tree', Calm', unsent') /\ Fits(DispatchAll, tree', Calm', unsent')
          /\ Fits(Dispatch(Tasks, 0), tree', Calm', unsent')
      BY <1>4, <2>6 DEF Fits, Prepare, DispatchAll, Dispatch
    <2>8. \A i \in DOMAIN ops : Fits(ops[i], tree', Calm', unsent')
      BY <2>1, <2>7
    <2>9. ops[1][1] # "ask"
      BY <2>1 DEF Prepare, Dispatch
    <2>10. Turns' /\ Work2Do'
      BY <1>2, <2>1, <2>3, <2>5, <2>8, <2>9, BeginList DEF Untouched, Goroutines
    <2>11. ~InSetup'
      BY <1>2, <1>3, <2>1 DEF InSetup
    <2>12. QED
      BY <1>5, <1>7, <2>10, <2>11 DEF Flow
  <1>10. QED
    BY <1>8, <1>9

\* The end of a handler adds what may come after anything.
LEMMA AddFree ==
    ASSUME NEW F \in SUBSET Ops, NEW s \in Seq(F), NEW q \in Seq(F), Ordered(s), Ordered(q),
           \A j \in DOMAIN q : Free(q[j])
    PROVE  s \o q \in Seq(F) /\ Ordered(s \o q)
  <1>1. s \in Seq(Ops) /\ q \in Seq(Ops)
    BY SeqMonotonic
  <1>2. \A i \in DOMAIN s, j \in DOMAIN q : Before(s[i], q[j])
    BY Followers
  <1>3. QED
    BY <1>1, <1>2, OrderedConcat, GoodSeqs

\* Operations that may come first.
Sound(t, calm, u) == {op \in Ops : Fits(op, t, calm, u) /\ op[1] # "ask"}

\* What the loop does for an event is in order, and relies on what is true of
\* the node of that event.
LEMMA HandlerFits ==
    ASSUME NEW e \in Event, NEW t, NEW calm, NEW u, NEW F,
           F = Sound(t, calm, u),
           e.kind \in AgentKinds /\ e.node = Proposal => AllPending(Tasks, t) /\ Reviewed \subseteq calm,
           e.kind \in {"reviewFailed", "approved", "needsWork"} => e.node \in calm,
           e.kind = "needsWork" => e.node \in Redoable /\ UnderReview(e.node, t)
    PROVE  /\ Handler(e) \in Seq(F) /\ Ordered(Handler(e))
           /\ SumUp(e.node) \in Seq(F) /\ Ordered(SumUp(e.node))
           /\ \A i \in DOMAIN SumUp(e.node) : Free(SumUp(e.node)[i])
  <1> DEFINE n == e.node
  <1>0. F = {op \in Ops : Fits(op, t, calm, u) /\ op[1] # "ask"}
    BY DEF Sound
  <1>1. n \in Uids
    BY TreeAssumption DEF Event, Uids, Named, Work
  <1>2. e.kind \in AgentKinds => n \in Named /\ (n = Proposal \/ n \notin Reviewed)
    BY UidsDiffer, TreeAssumption DEF Event, AgentKinds, Named, Reviewed, Work
  <1>3. e.kind \in ReviewKinds => n \in Reviewed
    BY DEF Event, ReviewKinds
  <1> HIDE DEF n
  <1>4. /\ {Touch(n), History(n), Release(n), Check(n)} \subseteq Ops
        /\ {OpenRecords, DispatchNext, IfNoMeeting, DispatchAll, Redispatch} \subseteq Ops
        /\ n \in Named => Trigger(n) \in Ops
        /\ n \in Reviewed => AddRedo(n) \in Ops
        /\ \A s \in {"complete", "error", "running"} : Mark(n, s) \in Ops
    BY <1>1, OpsAre DEF Status
  <1>5. /\ Free(Touch(n)) /\ Free(History(n)) /\ Free(Release(n)) /\ Free(Check(n))
        /\ Free(Trigger(n)) /\ Free(OpenRecords) /\ Free(DispatchNext) /\ Free(IfNoMeeting)
        /\ Free(Redispatch)
    BY PlainOps DEF Plain
  <1>6. /\ Touch(n) \in F /\ History(n) \in F /\ Release(n) \in F /\ Check(n) \in F
        /\ OpenRecords \in F /\ DispatchNext \in F /\ IfNoMeeting \in F /\ Redispatch \in F
        /\ n \in Named => Trigger(n) \in F
    <2>1. \A b : Free(b) => b[1] # "ask"
      BY DEF Free, Redispatch, Create
    <2>2. QED
      BY <1>0, <1>4, <1>5, <2>1, FitsOps, PlainOps
  <1>7. \A s \in {"complete", "error", "running"} :
           (n \in Reviewed => n \in calm) => Mark(n, s) \in F
    BY <1>0, <1>4, FitsOps DEF Mark
  <1>8. SumUp(n) \in Seq(F) /\ Ordered(SumUp(n)) /\ \A i \in DOMAIN SumUp(n) : Free(SumUp(n)[i])
    BY <1>5, <1>6, GoodSeqs, OrderedSeqs, Followers DEF SumUp
  <1>9. \A a, b, c, d \in F : Free(b) /\ Free(c) /\ Free(d) =>
           <<a, b, c, d>> \in Seq(F) /\ Ordered(<<a, b, c, d>>)
    BY GoodSeqs, OrderedSeqs, Followers
  <1>10. F \subseteq Ops
    BY <1>0
  <1>11. Ordered(<<DispatchNext>>) /\ <<DispatchNext>> \in Seq(F)
         /\ \A j \in DOMAIN <<DispatchNext>> : Free(<<DispatchNext>>[j])
    BY <1>5, <1>6, GoodSeqs, OrderedSeqs
  <1>12. CASE e.kind = "completed" /\ n = Proposal
    <2> DEFINE a == Mark(n, "complete")
    <2>1. a \in F /\ DispatchAll \in F
      <3>1. Fits(DispatchAll, t, calm, u) /\ DispatchAll[1] # "ask"
        BY <1>12 DEF Fits, DispatchAll, AgentKinds, n
      <3>2. n \in calm
        BY <1>12 DEF AgentKinds, n, Reviewed
      <3>3. QED
        BY <1>0, <1>4, <1>7, <3>1, <3>2
    <2>2. Before(a, DispatchAll)
      BY <1>12 DEF Before, DispatchAll
    <2>3. Handler(e) = <<a, DispatchAll, OpenRecords, Release(n)>>
      BY <1>12 DEF Handler, OnCompleted, n
    <2> HIDE DEF a
    <2>4. Handler(e) \in Seq(F)
      BY <1>6, <2>1, <2>3, GoodSeqs
    <2>5. Ordered(Handler(e))
      BY <1>5, <2>2, <2>3, OrderedSeqs, Followers
    <2>6. QED
      BY <1>8, <2>4, <2>5 DEF n
  <1>13. CASE e.kind \in AgentKinds /\ (e.kind = "completed" => n # Proposal)
    <2>1. PICK s \in {"complete", "error"}, d \in {IfNoMeeting, Trigger(n), DispatchNext} :
             Handler(e) = <<Mark(n, s), Release(n), Check(n), d>>
      <3>1. e.kind = "completed" => Handler(e) = <<Mark(n, "complete"), Release(n), Check(n), IfNoMeeting>>
        BY <1>13 DEF Handler, OnCompleted, n
      <3>2. e.kind = "failed" => Handler(e) = <<Mark(n, "error"), Release(n), Check(n), Trigger(n)>>
        BY DEF Handler, n
      <3>3. e.kind = "errored" => Handler(e) = <<Mark(n, "error"), Release(n), Check(n), DispatchNext>>
        BY DEF Handler, n
      <3>4. QED
        BY <1>13, <3>1, <3>2, <3>3 DEF AgentKinds
    <2>2. Mark(n, s) \in F
      BY <1>2, <1>7, <1>13 DEF n
    <2>3. d \in F /\ Free(d)
      BY <1>2, <1>5, <1>6, <1>13
    <2>4. Handler(e) \in Seq(F) /\ Ordered(Handler(e))
      BY <1>5, <1>6, <1>9, <2>1, <2>2, <2>3
    <2>5. QED
      BY <1>8, <2>4 DEF n
  <1>14. CASE e.kind \in {"reviewFailed", "approved"}
    <2>1. n \in Reviewed /\ n \in calm
      BY <1>3, <1>14 DEF ReviewKinds, n
    <2>2. /\ Approve(n) \in Seq(Ops) /\ Ordered(Approve(n))
      BY <2>1, ApproveFits
    <2>3. Approve(n) \in Seq(F)
      <3>1. Mark(n, "complete") \in F
        BY <1>7, <2>1
      <3>2. n \in Milestones => Merge(n) \in F
        BY <1>0, OpsAre, FitsOps DEF Merge
      <3>3. <<Mark(n, "complete"), History(n)>> \in Seq(F)
        BY <1>6, <3>1, GoodSeqs
      <3>4. n \in Milestones => <<Merge(n), Check(n)>> \in Seq(F)
        BY <1>6, <3>2, GoodSeqs
      <3>5. (IF n \in Milestones THEN <<Merge(n), Check(n)>> ELSE <<>>) \in Seq(F)
        BY <3>4, GoodSeqs
      <3>6. QED
        BY <3>3, <3>5, GoodSeqs DEF Approve
    <2>4. Approve(n) \o <<DispatchNext>> \in Seq(F) /\ Ordered(Approve(n) \o <<DispatchNext>>)
      BY <1>10, <1>11, <2>2, <2>3, AddFree
    <2>5. Handler(e) = Approve(n) \o <<DispatchNext>>
      BY <1>14 DEF Handler, n
    <2>6. QED
      BY <1>8, <2>4, <2>5 DEF n
  <1>15. CASE e.kind = "needsWork"
    <2> DEFINE a == AddRedo(n)
               b == Mark(n, "running")
    <2>1. n \in Reviewed /\ n \in calm /\ n \in Redoable /\ UnderReview(n, t)
      BY <1>3, <1>15 DEF ReviewKinds, n
    <2>2. a \in F
      BY <1>0, <1>4, <2>1 DEF Fits, AddRedo
    <2>3. b \in F
      BY <1>7, <2>1
    <2>4. Before(a, b)
      BY <2>1 DEF Before, AddRedo, Mark
    <2>5. Handler(e) = <<a, b, Redispatch, DispatchNext>>
      BY <1>15 DEF Handler, n
    <2> HIDE DEF a, b
    <2>6. Handler(e) \in Seq(F)
      BY <1>6, <2>2, <2>3, <2>5, GoodSeqs
    <2>7. Ordered(Handler(e))
      BY <1>5, <2>4, <2>5, OrderedSeqs, Followers
    <2>8. QED
      BY <1>8, <2>6, <2>7 DEF n
  <1>16. CASE e.kind = "summarized"
    <2>1. Handler(e) = SumUp(n)
      BY <1>16 DEF Handler, n
    <2>2. QED
      BY <1>8, <2>1 DEF n
  <1>17. CASE e.kind = "reviewed"
    <2>1. Handler(e) = <<>>
      BY <1>17 DEF Handler
    <2>2. QED
      BY <1>8, <2>1, GoodSeqs, OrderedSeqs DEF n
  <1>18. e.kind \in AgentKinds \cup {"reviewed", "reviewFailed", "approved", "needsWork", "summarized"}
    BY DEF Event, AgentKinds
  <1>19. QED
    BY <1>12, <1>13, <1>14, <1>15, <1>16, <1>17, <1>18

\* The review that an event is about moves on, or ends; the others stay where
\* they are.
LEMMA ReviewTaken ==
    ASSUME IInv, Flow, queue # <<>>, NEW e, e = Head(queue), queue' = Tail(queue),
           UNCHANGED <<unsent, reviewers>>,
           jobs' = IF e.kind \in {"reviewed", "completed"} /\ JobFor(e) \in Jobs
                   THEN [jobs EXCEPT ![JobFor(e)] = @ + 1] ELSE jobs,
           NEW n \in Reviewed
    PROVE  /\ Single(n, unsent, reviewers, jobs', queue')
           /\ e.kind \in ReviewKinds /\ e.node = n =>
                 /\ n \notin Calm
                 /\ e.kind # "reviewed" <=> n \in Calm'
           /\ n \in Calm => n \in Calm'
           /\ n \in Calm' => n \in Calm \/ (e.kind \in ReviewKinds /\ e.node = n)
  <1>1. /\ queue \in Seq(Event) /\ jobs \in [Jobs -> Nat] /\ reviewers \in [Reviewed -> Nat]
    BY DEF IInv, TypeOK
  <1>2. Single(n, unsent, reviewers, jobs, queue) /\ <<"review", n>> \in Jobs
    BY DEF Flow, Reviews, Jobs
  <1>3. e \in Event
    BY <1>1, QueueTail
  <1>4. jobs'[<<"review", n>>] = IF e.kind = "reviewed" /\ e.node = n THEN jobs[<<"review", n>>] + 1
                                 ELSE jobs[<<"review", n>>]
    <2>1. (e.kind = "reviewed" /\ e.node = n) => JobFor(e) = <<"review", n>>
      BY DEF JobFor
    <2>2. e.kind \in {"reviewed", "completed"} /\ JobFor(e) = <<"review", n>>
             => e.kind = "reviewed" /\ e.node = n
      BY DEF JobFor
    <2>3. QED
      BY <1>1, <1>2, <2>1, <2>2
  <1>5. n \in Calm' <=> Quiet(n, unsent, reviewers, jobs', queue')
    BY DEF Calm
  <1>6. n \in Calm <=> Quiet(n, unsent, reviewers, jobs, queue)
    BY DEF Calm
  <1>7. CASE e.kind \in ReviewKinds /\ e.node = n
    <2>1. About(n, queue) # {} /\ \A i, j \in About(n, queue) : i = j
      BY <1>1, <1>2, <1>7, QueueTail DEF Single
    <2>2. About(n, queue') = {}
      <3>1. Head(queue).kind \in ReviewKinds /\ Head(queue).node = n
        BY <1>7
      <3>2. (\A i, j \in About(n, queue) : i = j) => About(n, Tail(queue)) = {}
        <4>1. \A q \in Seq(Event) :
                 /\ q # <<>> /\ Head(q).kind \in ReviewKinds /\ Head(q).node = n
                 /\ \A i, j \in About(n, q) : i = j
                 => About(n, Tail(q)) = {}
          BY QueueTail
        <4>2. QED
          BY <1>1, <3>1, <4>1
      <3>3. QED
        BY <2>1, <3>2
    <2>3. n \notin unsent /\ reviewers[n] = 0 /\ jobs[<<"review", n>>] = 0
      BY <1>1, <1>2, <2>1 DEF Single
    <2>4. Single(n, unsent, reviewers, jobs', queue')
      BY <1>4, <2>2, <2>3 DEF Single
    <2>5. n \notin Calm
      BY <1>6, <2>1 DEF Quiet
    <2>6. e.kind # "reviewed" <=> n \in Calm'
      BY <1>4, <1>5, <1>7, <2>2, <2>3 DEF Quiet
    <2>7. QED
      BY <1>7, <2>4, <2>5, <2>6
  <1>8. CASE ~(e.kind \in ReviewKinds /\ e.node = n)
    <2>1. /\ About(n, queue) = {} <=> About(n, queue') = {}
          /\ (\A i, j \in About(n, queue) : i = j) => \A i, j \in About(n, queue') : i = j
      <3>1. /\ About(n, queue) = {} <=> About(n, Tail(queue)) = {}
            /\ (\A i, j \in About(n, queue) : i = j)
                  => \A i, j \in About(n, Tail(queue)) : i = j
        BY <1>1, <1>8, QueueTail
      <3>2. QED
        BY <3>1
    <2>2. jobs'[<<"review", n>>] = jobs[<<"review", n>>]
      BY <1>4, <1>8 DEF ReviewKinds
    <2>3. QED
      BY <1>2, <1>5, <1>6, <1>8, <2>1, <2>2 DEF Single, Quiet
  <1>9. QED
    BY <1>7, <1>8

\* The loop takes an event.
LEMMA HandleFlow == ASSUME IInv, Flow, Orderly', Handle PROVE Flow'
  <1>1. TypeOK /\ queue \in Seq(Event) /\ queue # <<>>
    BY DEF IInv, TypeOK, Handle
  <1>2. NoFault /\ todo["starter"] = <<>> /\ todo["loop"] = <<>>
    <2>1. ~Fault("overlap")
      BY <1>1, FaultLast DEF Orderly
    <2>2. NoFault
      BY <2>1 DEF Handle
    <2>3. ~HasFault("overlap")
      BY <2>2 DEF NoFault, Orderly, HasFault
    <2>4. QED
      BY <2>1, <2>2, <2>3 DEF Handle
  <1>3. PICK e : e = Head(queue)
    OBVIOUS
  <1>4. /\ e \in Event /\ 1 \in DOMAIN queue /\ e = queue[1] /\ queue' = Tail(queue)
        /\ \A i \in DOMAIN queue' : i + 1 \in DOMAIN queue /\ queue'[i] = queue[i + 1]
    BY <1>1, <1>3, QueueTail DEF Handle
  <1>5. /\ UNCHANGED <<path, tree, unsent, agents, reviewers, meeting>>
        /\ jobs' = IF e.kind \in {"reviewed", "completed"} /\ JobFor(e) \in Jobs
                   THEN [jobs EXCEPT ![JobFor(e)] = @ + 1] ELSE jobs
    BY <1>3 DEF Handle, disk, proxy
  <1>6. \A n \in Reviewed :
           /\ Single(n, unsent, reviewers, jobs', queue')
           /\ e.kind \in ReviewKinds /\ e.node = n =>
                 /\ n \notin Calm
                 /\ e.kind # "reviewed" => n \in Calm'
           /\ n \in Calm => n \in Calm'
           /\ n \in Calm' => n \in Calm \/ (e.kind \in ReviewKinds /\ e.node = n)
    BY <1>1, <1>3, <1>4, <1>5, ReviewTaken
  <1>7. ~InSetup'
    <2>1. CASE InSetup
      <3>1. Untouched
        BY <2>1 DEF Flow
      <3>2. path # "none" /\ agents[Proposal] = 0
        BY <1>1, <3>1 DEF Untouched
      <3>3. Len(queue) <= 1
        BY <3>1 DEF Untouched
      <3>4. queue' = <<>>
        <4>1. Len(queue) = 1
          <5>1. \A q \in Seq(Event) : q # <<>> => Len(q) \in Nat \ {0}
            BY EmptySeq
          <5>2. Len(queue) \in Nat \ {0}
            BY <1>1, <5>1
          <5>3. \A k \in Nat \ {0} : k <= 1 => k = 1
            OBVIOUS
          <5>4. QED
            BY <3>3, <5>2, <5>3
        <4>2. Tail(queue) \in Seq(Event) /\ Len(Tail(queue)) = 0
          BY <1>1, <4>1, HeadTailProperties
        <4>3. QED
          BY <1>4, <4>2, EmptySeq
      <3>5. QED
        BY <1>5, <3>2, <3>4 DEF InSetup
    <2>2. CASE ~InSetup
      BY <1>4, <1>5, <2>2 DEF InSetup
    <2>3. QED
      BY <2>1, <2>2
  <1>8. e.kind \in AgentKinds /\ e.node = Proposal =>
           AllPending(Tasks, tree') /\ Reviewed \subseteq Calm'
    <2> SUFFICES ASSUME e.kind \in AgentKinds, e.node = Proposal
                 PROVE  AllPending(Tasks, tree') /\ Reviewed \subseteq Calm'
      OBVIOUS
    <2>1. InSetup
      BY <1>4 DEF InSetup
    <2>2. Untouched
      BY <2>1 DEF Flow
    <2>3. \A n \in Reviewed : <<"review", n>> \in Jobs /\ About(n, queue) = {}
      BY <2>2 DEF Untouched, About, Jobs, AgentKinds, ReviewKinds
    <2>4. Reviewed \subseteq Calm
      BY <2>2, <2>3 DEF Calm, Quiet, Untouched
    <2>5. QED
      BY <1>5, <1>6, <2>2, <2>4 DEF Untouched
  <1>9. e.kind \in {"reviewFailed", "approved", "needsWork"} => e.node \in Calm'
    BY <1>4, <1>6 DEF Event, ReviewKinds
  <1>10. e.kind = "needsWork" => e.node \in Redoable /\ UnderReview(e.node, tree')
    <2> SUFFICES ASSUME e.kind = "needsWork"
                 PROVE  e.node \in Redoable /\ UnderReview(e.node, tree')
      OBVIOUS
    <2>1. e.node \in Redoable
      BY <1>4 DEF Flow, Asked
    <2>2. e.node \in Reviewed /\ e.node \notin Calm
      BY <1>4, <1>6 DEF Event, ReviewKinds
    <2>3. UnderReview(e.node, tree)
      BY <2>2 DEF Flow, Reviews
    <2>4. QED
      BY <1>5, <2>1, <2>3
  <1> DEFINE F == Sound(tree', Calm', unsent')
             more == IF e.kind = "completed" /\ e.node \notin Late THEN SumUp(e.node) ELSE <<>>
             ops == Handler(e) \o more
  <1>11. F \subseteq Ops /\ \A op \in F : op \in Ops /\ Fits(op, tree', Calm', unsent') /\ op[1] # "ask"
    BY DEF Sound
  <1>12. /\ Handler(e) \in Seq(F) /\ Ordered(Handler(e))
         /\ SumUp(e.node) \in Seq(F) /\ Ordered(SumUp(e.node))
         /\ \A i \in DOMAIN SumUp(e.node) : Free(SumUp(e.node)[i])
    <2>1. PICK t, calm, u : t = tree' /\ calm = Calm' /\ u = unsent'
      OBVIOUS
    <2>2. F = Sound(t, calm, u)
      BY <2>1
    <2>3. /\ e.kind \in AgentKinds /\ e.node = Proposal => AllPending(Tasks, t) /\ Reviewed \subseteq calm
          /\ e.kind \in {"reviewFailed", "approved", "needsWork"} => e.node \in calm
          /\ e.kind = "needsWork" => e.node \in Redoable /\ UnderReview(e.node, t)
      BY <1>8, <1>9, <1>10, <2>1
    <2> HIDE DEF F
    <2>4. QED
      BY <1>4, <2>2, <2>3, HandlerFits
  <1>13. Begin("loop", ops)
    BY <1>3 DEF Handle
  <1> HIDE DEF F
  <1>14. more \in Seq(F) /\ Ordered(more) /\ \A j \in DOMAIN more : Free(more[j])
    <2>1. <<>> \in Seq(F) /\ Ordered(<<>>) /\ DOMAIN <<>> = {}
      BY EmptySeq, OrderedSeqs
    <2>2. QED
      BY <1>12, <2>1
  <1> HIDE DEF more
  <1>15. ops \in Seq(F) /\ Ordered(ops)
    BY <1>11, <1>12, <1>14, AddFree
  <1> HIDE DEF ops
  <1>16. ops \in Seq(Ops)
    BY <1>11, <1>15, SeqMonotonic
  <1>17. /\ \A i \in DOMAIN ops : Fits(ops[i], tree', Calm', unsent')
         /\ ops # <<>> => ops[1][1] # "ask"
    BY <1>11, <1>15, SeqIs
  <1>18. Turns' /\ Work2Do'
    BY <1>2, <1>13, <1>15, <1>16, <1>17, BeginList DEF Goroutines
  <1>19. Reviews'
    BY <1>5, <1>6 DEF Flow, Reviews
  <1>20. Unborn(tree)' /\ Asked'
    BY <1>4, <1>5 DEF Flow, Unborn, Asked
  <1>21. Manned'
    <2>1. \A k \in Work : agents[k] > 0 => tree.st[k] # "absent" /\ tree.st[k] # "pending"
      <3>1. \A op : ~First(op)
        BY <1>2 DEF First, Goroutines
      <3>2. QED
        BY <3>1 DEF Flow, Manned
    <2>2. QED
      BY <1>5, <2>1 DEF Manned
  <1>22. Alike'
    BY <1>2, <1>5 DEF Flow, Alike, NoFault, HasFault
  <1>23. QED
    BY <1>7, <1>18, <1>19, <1>20, <1>21, <1>22 DEF Flow

-----------------------------------------------------------------------------
\* The invariant

\* At first nobody does anything, and no review is under way.
LEMMA InitFlow == Init => Flow
  <1> SUFFICES ASSUME Init PROVE Flow
    OBVIOUS
  <1>1. /\ \A k \in Work \cup {Proposal} : k \in Named /\ agents[k] = 0
        /\ \A n \in Reviewed : n \in Nodes \ Extras /\ tree.st[n] = "pending"
        /\ \A n \in Tasks : n \in Nodes \ Extras
        /\ Extras \subseteq Nodes
    BY UidsDiffer DEF Init, Named, Reviewed, Nodes, Work
  <1>2. \A n \in Reviewed : <<"review", n>> \in Jobs /\ About(n, queue) = {}
    BY DEF Init, Jobs, About
  <1>3. Calm = Reviewed /\ Reviews
    BY <1>1, <1>2 DEF Init, Calm, Quiet, Reviews, Single
  <1>4. Untouched
    BY <1>1 DEF Init, Untouched, AllPending
  <1>5. Turns /\ Work2Do
    BY OrderedSeqs DEF Init, Turns, Work2Do, Listed, Doing, Goroutines
  <1>6. Unborn(tree)
    BY <1>1 DEF Init, Unborn, Extras
  <1>7. Asked /\ Manned /\ Alike
    BY <1>1 DEF Init, Asked, Manned, Alike
  <1>8. QED
    BY <1>3, <1>4, <1>5, <1>6, <1>7 DEF Flow

\* One thing at most goes wrong in a step.
LEMMA FaultStep ==
    ASSUME [Next]_vars
    PROVE  NoFault \/ \E kind \in Faults : faults' = Append(faults, kind)
  <1>1. \A ok \in BOOLEAN : Answered(ok) => NoFault \/ \E kind \in Faults : faults' = Append(faults, kind)
    BY DEF Answered, Fault
  <1>2. \A kind : Fault(kind) => \E f \in Faults : faults' = Append(faults, f)
    BY DEF Fault
  <1>3. ASSUME NEW g \in Goroutines, Step(g)
        PROVE  NoFault \/ \E kind \in Faults : faults' = Append(faults, kind)
    <2>1. CASE \/ ReadTree(g) \/ WriteTree(g) \/ ReadOccupied(g) \/ WriteOccupied(g)
               \/ SaveHistories(g) \/ SaveFrontiers(g) \/ OpenHistories(g) \/ BuildHistory(g)
               \/ TakeWaiting(g) \/ DispatchOne(g) \/ NextRead(g) \/ NextPick(g)
               \/ CheckAbove(g) \/ BeginReview(g)
      BY <2>1 DEF ReadTree, WriteTree, ReadOccupied, WriteOccupied, SaveHistories, SaveFrontiers,
                  OpenHistories, BuildHistory, TakeWaiting, DispatchOne, NextRead, NextPick,
                  CheckAbove, BeginReview, NoFault
    <2>2. CASE SendCreate(g) \/ SendMerge(g)
      BY <1>1, <2>2 DEF SendCreate, SendMerge
    <2>3. CASE NextReview(g) \/ AskReview(g)
      BY <1>1, <2>3 DEF NextReview, AskReview, SendReview, NoFault
    <2>4. QED
      BY <1>3, <2>1, <2>2, <2>3 DEF Step
  <1>4. CASE UNCHANGED vars
    BY <1>4 DEF vars, NoFault
  <1>5. CASE Handle \/ SkipInMeeting \/ TriggerMeeting
    BY <1>1, <1>2, <1>5 DEF Handle, SkipInMeeting, TriggerMeeting, NoFault
  <1>6. CASE \E p \in Paths : Start(p)
    BY <1>1, <1>6 DEF Start
  <1>7. CASE (\E j \in Jobs : JobDone(j)) \/ MeetingOver
    BY <1>7 DEF JobDone, MeetingOver, NoFault
  <1>8. CASE \/ (\E n \in Named : AgentEnds(n)) \/ (\E n \in Reviewed : ReviewerEnds(n))
             \/ AddAgent
    BY <1>2, <1>8 DEF AgentEnds, ReviewerEnds, AddAgent
  <1>9. CASE Step("starter") \/ Step("loop")
    BY <1>3, <1>9 DEF Goroutines
  <1>10. QED
    BY <1>4, <1>5, <1>6, <1>7, <1>8, <1>9 DEF Next, LoopStep

\* A fault is not forgotten.
LEMMA FaultsKept ==
    ASSUME TypeOK, [Next]_vars
    PROVE  \A kind : HasFault(kind) => HasFault(kind)'
  BY FaultStep, FaultsGrow

\* Every step of an orderly run keeps the invariant.
LEMMA FlowStep == ASSUME IInv, Flow, [Next]_vars, Orderly' PROVE Flow'
  <1>1. ASSUME NEW g \in Goroutines, Step(g) PROVE Flow'
    BY <1>1, SideSteps, TakeSteps, NextSteps, DueSteps, ReadTreeStep, SendCreateStep, AskSteps
       DEF Step
  <1>2. CASE UNCHANGED vars
    <2>1. UNCHANGED <<path, tree, unsent, todo, agents, reviewers, jobs, queue, meeting, faults>>
      BY <1>2 DEF vars, disk, proxy
    <2>2. Asked' /\ Manned' /\ Alike'
      BY <2>1 DEF Flow, Asked, Manned, Alike, First, Op, HasFault
    <2>3. (InSetup => Untouched)'
      BY <2>1 DEF Flow, InSetup, Untouched
    <2>4. QED
      BY <2>1, <2>2, <2>3, NewsStep DEF Flow, Reviews
  <1>3. CASE LoopStep
    BY <1>1, <1>3, HandleFlow, LoopSteps DEF LoopStep, Goroutines
  <1>4. CASE Step("starter")
    BY <1>1, <1>4 DEF Goroutines
  <1>5. CASE \E p \in Paths : Start(p)
    BY <1>5, StartFlow
  <1>6. CASE \E j \in Jobs : JobDone(j)
    BY <1>6, JobDoneFlow
  <1>7. CASE (\E n \in Named : AgentEnds(n)) \/ (\E n \in Reviewed : ReviewerEnds(n))
    BY <1>7, AgentEndsFlow, ReviewerEndsFlow
  <1>8. CASE MeetingOver \/ AddAgent
    BY <1>8, AgentsFlow
  <1>9. QED
    BY <1>2, <1>3, <1>4, <1>5, <1>6, <1>7, <1>8 DEF Next

\* In a run whose goroutines take turns and whose replies come in time, what
\* each of them has to do relies only on what is so, and the review of a node
\* is in one place at most (dispatchNodeReview, DispatchReviewTask,
\* applyReviewDecision).
THEOREM FlowCorrect == Spec => [](Orderly => Flow)
  <1>1. Init => IInv /\ (Orderly => Flow)
    BY InitInv, InitFlow
  <1>2. IInv /\ (Orderly => Flow) /\ [Next]_vars => (Orderly => Flow)'
    <2> SUFFICES ASSUME IInv, Orderly => Flow, [Next]_vars, Orderly' PROVE Flow'
      OBVIOUS
    <2>1. Orderly
      BY FaultsKept DEF IInv, Orderly
    <2>2. QED
      BY <2>1, FlowStep
  <1>3. QED
    BY <1>1, <1>2, NextInv, PTL DEF Spec

\* No two agents work on the same node of the tree (DispatchNextPendingTask,
\* dispatchTasks, MayDispatch), for any plan, any number of agents and review
\* cycles, however often commands are refused and agents fail.
THEOREM OneAgentCorrect == Spec => []OneAgent
  <1>1. (Orderly => Flow) => OneAgent
    BY DEF Orderly, OneAgent, NoTwins, Flow, Alike
  <1>2. QED
    BY FlowCorrect, <1>1, PTL

-----------------------------------------------------------------------------
(***************************************************************************)
(* The course of a milestone, for runs in which commands are answered as   *)
(* well.  It depends on the operations that are still to be done, in       *)
(* whatever order.                                                         *)
(***************************************************************************)
Elems(s) == {s[i] : i \in DOMAIN s}
Held     == UNION {Elems(todo[g]) : g \in Goroutines}

\* Operation op is part of the review of n.
Carries(op, n) == \/ op[1] \in {"review", "cycle", "ask", "redo"} /\ op[2] = n
                  \/ op = Mark(n, "complete")

\* Node n is in review.
Live(n, H, calm) == n \notin calm \/ \E op \in H : Carries(op, n)

\* In tree t, the nodes below milestone m that are there are complete.
AllDone(m, t) == \A k \in Below(m) : t.st[k] \in {"absent", "complete"}

\* Milestone m, merged d times: what is in review or complete has nothing left
\* to start; what is in review is not complete; it is taken up again only with
\* work to do; once all is complete a check or a review is due; and it is
\* merged when it is complete.
Course(m, H, t, calm, d) ==
    /\ t.st[m] = "reviewing" => Live(m, H, calm) \/ Mark(m, "running") \in H
    /\ Live(m, H, calm) \/ t.st[m] = "complete" => \A k \in Below(m) : t.st[k] # "pending"
    /\ Live(m, H, calm) => t.st[m] # "complete"
    /\ Mark(m, "running") \in H =>
          t.st[m] # "complete" /\ (AllDone(m, t) => AddRedo(m) \in H)
    /\ AllDone(m, t) /\ t.st[m] # "complete" =>
          \/ Live(m, H, calm)
          \/ \E k \in Below(m) : t.st[k] # "absent" /\ Check(k) \in H
          \/ \A k \in Below(m) : t.st[k] = "absent"
    /\ d = IF t.st[m] = "complete" /\ Merge(m) \notin H THEN 1 ELSE 0
    /\ t.st[m] # "complete" => (Merge(m) \in H <=> Mark(m, "complete") \in H)

\* Operations that come together.
Paired(H) ==
    /\ \A op \in H : op[1] = "mark" /\ op[2] \in Milestones => op[3] \in {"running", "complete"}
    /\ \A k \in Work : Mark(k, "complete") \in H => Check(k) \in H
    /\ \A n \in Reviewed : (\E op \in H : op[1] = "cycle" /\ op[2] = n) => Ask(n) \in H
    /\ \A n \in Reviewed : AddRedo(n) \in H => Mark(n, "running") \in H

Prompt == Answers /\ ~HasFault("overlap")

OnCourse(H, t, calm, d) == Paired(H) /\ \A m \in Milestones : Course(m, H, t, calm, d[m])

Courses == unsent = {} /\ OnCourse(Held, tree, Calm, merged)

-----------------------------------------------------------------------------
\* Lemmas about the course of a milestone

\* The operations that it depends on.
Moves(op) == op[1] \in {"review", "cycle", "ask", "redo", "mark", "merge", "check"}

LEMMA CourseSame ==
    ASSUME NEW H, NEW K, \A op : Moves(op) => (op \in H <=> op \in K), NEW calm
    PROVE  /\ Paired(H) => Paired(K)
           /\ \A m, t, d : Course(m, H, t, calm, d) => Course(m, K, t, calm, d)
  <1>1. /\ \A n, s : Mark(n, s) \in H <=> Mark(n, s) \in K
        /\ \A n : Check(n) \in H <=> Check(n) \in K
        /\ \A n : Ask(n) \in H <=> Ask(n) \in K
        /\ \A n : AddRedo(n) \in H <=> AddRedo(n) \in K
        /\ \A n : Merge(n) \in H <=> Merge(n) \in K
    BY DEF Moves, Mark, Check, Ask, AddRedo, Merge
  <1>2. \A n : (\E op \in H : Carries(op, n)) <=> (\E op \in K : Carries(op, n))
    BY <1>1 DEF Moves, Carries
  <1>3. \A n : Live(n, H, calm) <=> Live(n, K, calm)
    BY <1>2 DEF Live
  <1>4. Paired(H) => Paired(K)
    BY <1>1 DEF Paired, Moves
  <1>5. ASSUME NEW m, NEW t, NEW d, Course(m, H, t, calm, d)
        PROVE  Course(m, K, t, calm, d)
    BY <1>1, <1>3, <1>5 DEF Course
  <1>6. QED
    BY <1>4, <1>5

LEMMA ElemsOf ==
    /\ Elems(<<>>) = {}
    /\ \A a : Elems(<<a>>) = {a}
    /\ \A a, b : Elems(<<a, b>>) = {a, b}
    /\ \A a, b, c : Elems(<<a, b, c>>) = {a, b, c}
    /\ \A a, b, c, d : Elems(<<a, b, c, d>>) = {a, b, c, d}
  BY DEF Elems

LEMMA ElemsConcat ==
    ASSUME NEW S, NEW s \in Seq(S), NEW q \in Seq(S)
    PROVE  Elems(s \o q) = Elems(s) \cup Elems(q)
  <1> DEFINE w == s \o q
  <1>1. /\ Len(s) \in Nat /\ DOMAIN s = 1 .. Len(s)
        /\ Len(q) \in Nat /\ DOMAIN q = 1 .. Len(q)
    BY SeqIs
  <1>2. /\ w \in Seq(S) /\ Len(w) = Len(s) + Len(q)
        /\ \A i \in 1 .. (Len(s) + Len(q)) : w[i] = IF i <= Len(s) THEN s[i] ELSE q[i - Len(s)]
    BY ConcatProperties
  <1>3. DOMAIN w = 1 .. (Len(s) + Len(q))
    BY <1>2, SeqIs
  <1> HIDE DEF w
  <1>4. ASSUME NEW i \in DOMAIN w PROVE w[i] \in Elems(s) \cup Elems(q)
    <2>1. CASE i <= Len(s)
      BY <1>1, <1>2, <1>3, <2>1 DEF Elems
    <2>2. CASE i > Len(s)
      <3>1. i - Len(s) \in DOMAIN q /\ w[i] = q[i - Len(s)]
        BY <1>1, <1>2, <1>3, <2>2
      <3>2. QED
        BY <3>1 DEF Elems
    <2>3. QED
      BY <1>1, <1>3, <2>1, <2>2
  <1>5. \A i \in DOMAIN s : i \in DOMAIN w /\ w[i] = s[i]
    BY <1>1, <1>2, <1>3
  <1>6. \A i \in DOMAIN q : i + Len(s) \in DOMAIN w /\ w[i + Len(s)] = q[i]
    BY <1>1, <1>2, <1>3
  <1>7. Elems(w) \subseteq Elems(s) \cup Elems(q)
    BY <1>4 DEF Elems
  <1>8. Elems(s) \subseteq Elems(w) /\ Elems(q) \subseteq Elems(w)
    BY <1>5, <1>6 DEF Elems
  <1>9. QED
    BY <1>7, <1>8 DEF w

LEMMA ElemsTail ==
    ASSUME NEW S, NEW s \in Seq(S), s # <<>>
    PROVE  Elems(s) = {Head(s)} \cup Elems(Tail(s))
  <1> DEFINE r == Tail(s)
  <1>1. /\ Len(s) \in Nat /\ Len(s) > 0 /\ DOMAIN s = 1 .. Len(s) /\ Head(s) = s[1]
    BY SeqIs
  <1>2. /\ r \in Seq(S) /\ Len(r) = Len(s) - 1
        /\ \A i \in 1 .. Len(r) : r[i] = s[i + 1]
    BY HeadTailProperties
  <1>3. DOMAIN r = 1 .. (Len(s) - 1)
    BY <1>2, SeqIs
  <1> HIDE DEF r
  <1>4. \A i \in DOMAIN s : i = 1 \/ (i - 1 \in DOMAIN r /\ r[i - 1] = s[i])
    BY <1>1, <1>2, <1>3
  <1>5. \A i \in DOMAIN r : i + 1 \in DOMAIN s /\ r[i] = s[i + 1]
    BY <1>1, <1>2, <1>3
  <1>6. 1 \in DOMAIN s
    BY <1>1
  <1>7. Elems(s) \subseteq {s[1]} \cup Elems(r)
    BY <1>4 DEF Elems
  <1>8. s[1] \in Elems(s) /\ Elems(r) \subseteq Elems(s)
    BY <1>5, <1>6 DEF Elems
  <1>9. QED
    BY <1>1, <1>7, <1>8 DEF r

\* A goroutine does its first operation, and ops takes its place.
LEMMA HeldStep ==
    ASSUME IInv, Flow, NEW g \in Goroutines, todo[g] # <<>>, NEW ops \in Seq(Ops), Replace(g, ops)
    PROVE  \E R \in SUBSET Ops :
              /\ Held = {Op(g)} \cup R /\ Held' = Elems(ops) \cup R
              /\ \A b \in R : Before(Op(g), b) /\ Fits(b, tree, Calm, unsent)
  <1> DEFINE s == todo[g]
             R == Elems(Tail(s))
  <1>1. s \in Seq(Ops) /\ s # <<>> /\ Op(g) = Head(s) /\ Listed(s, tree, Calm, unsent)
    BY TodoOps DEF Op, Flow, Work2Do
  <1>2. /\ todo'[g] = ops \o Tail(s)
        /\ \A k \in Goroutines \ {g} : todo[k] = <<>> /\ todo'[k] = <<>>
    BY TodoOps DEF Flow, Turns, Goroutines, Replace
  <1>3. Held = Elems(s) /\ Held' = Elems(ops \o Tail(s))
    <2>1. \A k \in Goroutines \ {g} : Elems(todo[k]) = {} /\ Elems(todo'[k]) = {}
      BY <1>2, ElemsOf
    <2>2. Held = Elems(todo[g]) /\ Held' = Elems(todo'[g])
      BY <2>1 DEF Held
    <2>3. QED
      BY <1>2, <2>2
  <1> HIDE DEF s
  <1>4. /\ Len(s) \in Nat /\ Len(s) > 0 /\ DOMAIN s = 1 .. Len(s) /\ Head(s) = s[1]
        /\ Tail(s) \in Seq(Ops) /\ Len(Tail(s)) = Len(s) - 1
        /\ \A i \in 1 .. Len(Tail(s)) : Tail(s)[i] = s[i + 1]
    BY <1>1, SeqIs, HeadTailProperties
  <1>5. DOMAIN Tail(s) = 1 .. (Len(s) - 1)
    BY <1>4, SeqIs
  <1>6. ASSUME NEW i \in DOMAIN Tail(s)
        PROVE  /\ Tail(s)[i] \in Ops /\ Before(Head(s), Tail(s)[i])
               /\ Fits(Tail(s)[i], tree, Calm, unsent)
    <2>1. i + 1 \in DOMAIN s /\ 1 \in DOMAIN s /\ 1 < i + 1 /\ Tail(s)[i] = s[i + 1]
      BY <1>4, <1>5
    <2>2. s[i + 1] \in Ops
      BY <1>1, <2>1, SeqIs
    <2>3. QED
      BY <1>1, <1>4, <2>1, <2>2 DEF Listed, Ordered
  <1>7. Held = {Op(g)} \cup R /\ Held' = Elems(ops) \cup R
    <2>1. Elems(s) = {Head(s)} \cup Elems(Tail(s))
      BY <1>1, ElemsTail
    <2>2. Elems(ops \o Tail(s)) = Elems(ops) \cup Elems(Tail(s))
      <3>1. \A x, y \in Seq(Ops) : Elems(x \o y) = Elems(x) \cup Elems(y)
        BY ElemsConcat
      <3>2. QED
        BY <1>4, <3>1
    <2>3. QED
      BY <1>1, <1>3, <2>1, <2>2
  <1>8. R \subseteq Ops /\ \A b \in R : Before(Op(g), b) /\ Fits(b, tree, Calm, unsent)
    BY <1>1, <1>6 DEF Elems
  <1>9. QED
    BY <1>7, <1>8

\* What may follow an operation, as far as milestones are concerned.
LEMMA MovesAfter ==
    ASSUME NEW a, NEW b, Before(a, b), Moves(b), b[1] # "check"
    PROVE  \/ b[1] = "ask" /\ a[1] = "cycle" /\ a[2] = b[2]
           \/ /\ b[1] = "mark" /\ b[2] \in Reviewed /\ b[3] = "running"
              /\ \/ a[1] \in {"redo", "occupy"}
                 \/ a[1] = "mark" /\ a[2] \notin Reviewed /\ a[3] = "running"
           \/ b[1] = "merge" /\ a \in {Mark(b[2], "complete"), History(b[2])}
  BY DEF Before, Free, Moves, Redispatch, Create

LEMMA OnCourseSame ==
    ASSUME NEW H, NEW K, \A op : Moves(op) => (op \in H <=> op \in K),
           NEW t, NEW calm, NEW d, OnCourse(H, t, calm, d)
    PROVE  OnCourse(K, t, calm, d)
  <1>1. Paired(H) => Paired(K)
    BY CourseSame
  <1>2. \A m : Course(m, H, t, calm, d[m]) => Course(m, K, t, calm, d[m])
    BY CourseSame
  <1>3. QED
    BY <1>1, <1>2 DEF OnCourse

\* A step that the milestones do not depend on.
LEMMA AsideStep ==
    ASSUME IInv, Flow, Courses, NEW g \in Goroutines, todo[g] # <<>>,
           NEW ops \in Seq(Ops), Replace(g, ops), UNCHANGED <<tree, merged>>,
           unsent' = {}, Calm' = Calm, ~Moves(Op(g)), \A i \in DOMAIN ops : ~Moves(ops[i])
    PROVE  Courses'
  <1>1. PICK R \in SUBSET Ops : Held = {Op(g)} \cup R /\ Held' = Elems(ops) \cup R
    BY HeldStep
  <1>2. PICK K : K = Held'
    OBVIOUS
  <1>3. \A op : Moves(op) => (op \in Held <=> op \in K)
    BY <1>1, <1>2 DEF Elems
  <1>4. OnCourse(K, tree, Calm, merged)
    BY <1>3, OnCourseSame DEF Courses
  <1>5. QED
    BY <1>2, <1>4 DEF Courses

\* Of these only checks matter to the milestones.
OnlyChecks(R) == \A b \in R : Moves(b) => b[1] = "check"

LEMMA Carried ==
    /\ \A n : /\ Carries(Review(n), n) /\ Carries(Ask(n), n) /\ Carries(AddRedo(n), n)
              /\ Carries(Mark(n, "complete"), n) /\ \A c : Carries(Cycle(n, c), n)
    /\ \A n, k : /\ ~Carries(Check(k), n) /\ ~Carries(Merge(k), n) /\ ~Carries(History(k), n)
                 /\ ~Carries(Occupy(k), n)
    /\ \A n, k, s : Carries(Mark(k, s), n) <=> k = n /\ s = "complete"
    /\ \A n, k : k # n => /\ ~Carries(Review(k), n) /\ ~Carries(Ask(k), n)
                          /\ ~Carries(AddRedo(k), n) /\ \A c : ~Carries(Cycle(k, c), n)
  BY DEF Carries, Review, Ask, AddRedo, Mark, Cycle, Check, Merge, History, Occupy

LEMMA Sift ==
    ASSUME NEW E, NEW R, OnlyChecks(R)
    PROVE  /\ \A m, calm : Live(m, E \cup R, calm) <=> Live(m, E, calm)
           /\ \A m, s : Mark(m, s) \in E \cup R <=> Mark(m, s) \in E
           /\ \A m : AddRedo(m) \in E \cup R <=> AddRedo(m) \in E
           /\ \A m : Merge(m) \in E \cup R <=> Merge(m) \in E
           /\ Paired(E) => Paired(E \cup R)
  <1>1. \A op \in R : /\ op[1] \notin {"review", "cycle", "ask", "redo", "mark", "merge"}
                      /\ \A n : ~Carries(op, n)
    BY DEF OnlyChecks, Moves, Carries, Mark
  <1>2. \A m, calm : Live(m, E \cup R, calm) <=> Live(m, E, calm)
    BY <1>1 DEF Live
  <1>3. /\ \A m, s : Mark(m, s) \notin R
        /\ \A m : AddRedo(m) \notin R /\ Merge(m) \notin R
    BY <1>1 DEF Mark, AddRedo, Merge
  <1>4. Paired(E) => Paired(E \cup R)
    BY <1>1, <1>3 DEF Paired
  <1>5. QED
    BY <1>2, <1>3, <1>4

\* After most operations there is nothing else that matters.
LEMMA ChecksFollow ==
    ASSUME NEW a, NEW R, \A b \in R : Before(a, b),
           a[1] \notin {"cycle", "redo", "occupy", "mark", "history"}
    PROVE  OnlyChecks(R)
  <1>1. \A n, s : Mark(n, s)[1] = "mark" /\ History(n)[1] = "history"
    BY DEF Mark, History
  <1>2. ASSUME NEW b \in R, Moves(b), b[1] # "check" PROVE FALSE
    BY <1>1, <1>2, MovesAfter
  <1>3. QED
    BY <1>2 DEF OnlyChecks

\* A check that finds its node not due, or not there, leaves nothing to do.
LEMMA CheckCourse ==
    ASSUME IInv, Flow, Courses, NEW g \in Goroutines, CheckAbove(g)
    PROVE  Courses'
  <1> DEFINE k == Op(g)[2]
             a == Above(k)
             due == /\ Present(k) /\ k # Proposal
                    /\ k \in Work => a \in Milestones
                    /\ Due(a)
  <1>1. /\ Op(g) \in Ops /\ Op(g)[1] = "check" /\ todo[g] # <<>>
    BY OpFits DEF CheckAbove
  <1>2. UNCHANGED <<tree, merged, unsent, jobs, queue, reviewers>>
    BY DEF CheckAbove, disk, proxy
  <1>3. PICK ops : ops = IF due THEN <<Review(a)>> ELSE <<>>
    OBVIOUS
  <1>4. Replace(g, ops)
    BY <1>3 DEF CheckAbove, Done
  <1>5. due => a \in Reviewed
    BY AboveUid DEF Present, Nodes, Reviewed
  <1>6. ops \in Seq(Ops)
    BY <1>3, <1>5, OpsAre, GoodSeqs
  <1>7. PICK R \in SUBSET Ops :
           /\ Held = {Op(g)} \cup R /\ Held' = Elems(ops) \cup R
           /\ \A b \in R : Before(Op(g), b)
    BY <1>1, <1>4, <1>6, HeldStep
  <1>8. OnlyChecks(R)
    BY <1>1, <1>7, ChecksFollow
  <1>9. PICK E : E = Elems(ops)
    OBVIOUS
  <1>10. E = IF due THEN {Review(a)} ELSE {}
    BY <1>3, <1>9, ElemsOf
  <1>11. Op(g) = Check(k)
    BY <1>1 DEF Ops, Check
  <1>12. PICK h : h = Op(g)
    OBVIOUS
  <1>13. Paired({h} \cup R) /\ \A m \in Milestones : Course(m, {h} \cup R, tree, Calm, merged[m])
    BY <1>7, <1>12 DEF Courses, OnCourse
  <1>14. /\ \A m : Live(m, {h} \cup R, Calm) <=> m \notin Calm
         /\ \A m : Live(m, E \cup R, Calm) <=> m \notin Calm \/ (due /\ m = a)
         /\ \A m, s : Mark(m, s) \notin {h} \cup R /\ Mark(m, s) \notin E \cup R
         /\ \A m : Merge(m) \notin {h} \cup R /\ Merge(m) \notin E \cup R
    <2>1. \A m : Live(m, {h}, Calm) <=> m \notin Calm
      BY <1>11, <1>12, Carried DEF Live
    <2>2. \A m : Live(m, E, Calm) <=> m \notin Calm \/ (due /\ m = a)
      BY <1>10, Carried DEF Live
    <2>3. /\ \A m, s : Mark(m, s) \notin {h} /\ Mark(m, s) \notin E
          /\ \A m : Merge(m) \notin {h} /\ Merge(m) \notin E
      BY <1>10, <1>11, <1>12 DEF Mark, Merge, Check, Review
    <2>4. ASSUME NEW S
          PROVE  /\ \A m : Live(m, S \cup R, Calm) <=> Live(m, S, Calm)
                 /\ \A m, s : Mark(m, s) \in S \cup R <=> Mark(m, s) \in S
                 /\ \A m : Merge(m) \in S \cup R <=> Merge(m) \in S
      BY <1>8, Sift
    <2> HIDE DEF due
    <2>5. QED
      BY <2>1, <2>2, <2>3, <2>4
  <1>15. Paired(E \cup R)
    <2>1. Paired(E)
      BY <1>10 DEF Paired, Review, Mark, Ask, AddRedo, Check
    <2>2. QED
      BY <1>8, <2>1, Sift
  <1>16. ASSUME NEW m \in Milestones
         PROVE  Course(m, E \cup R, tree, Calm, merged[m])
    <2>1. \A n \in Below(m) : Above(n) = m /\ n # Proposal
      BY DEF Below
    <2>2. \A n : n # k => (Check(n) \in {h} \cup R => Check(n) \in E \cup R)
      BY <1>11, <1>12 DEF Check
    <2>3. due /\ m = a => /\ tree.st[m] # "complete"
                          /\ \A n \in Below(m) : tree.st[n] # "pending"
      <3>1. m # Proposal /\ Below(m) \subseteq Nodes
        BY UidsDiffer DEF Below
      <3>2. QED
        BY <3>1 DEF Due, AllComplete, Children, Present
    <2>4. AllDone(m, tree) => AllComplete(m)
      BY UidsDiffer DEF AllDone, AllComplete, Children, Present
    <2>5. k \in Below(m) /\ tree.st[k] # "absent" /\ AllDone(m, tree) /\ tree.st[m] # "complete"
          /\ tree.st[m] # "reviewing" => due /\ m = a
      BY <2>1, <2>4 DEF Present, Due, Below
    <2>6. Course(m, {h} \cup R, tree, Calm, merged[m])
      BY <1>13
    <2> HIDE DEF due, a, k
    <2>7. QED
      BY <1>14, <2>1, <2>2, <2>3, <2>5, <2>6 DEF Course
  <1>17. PICK K : K = Held'
    OBVIOUS
  <1>18. OnCourse(K, tree, Calm, merged)
    BY <1>7, <1>9, <1>15, <1>16, <1>17 DEF OnCourse
  <1>19. Calm' = Calm
    BY <1>2 DEF Calm
  <1>20. QED
    BY <1>2, <1>17, <1>18, <1>19 DEF Courses

\* The review of n, which was due or under way, goes on with E.
LEMMA TakeUp ==
    ASSUME NEW H, NEW t, NEW calm, NEW calm2, NEW d, OnCourse(H, t, calm, d),
           NEW n \in Reviewed, Live(n, H, calm),
           \A m \in Milestones \ {n} : Live(m, H, calm) => m \notin calm,
           \A m, s : Mark(m, s) \notin H, \A m : Merge(m) \notin H,
           NEW R, OnlyChecks(R), \A k : Check(k) \in H => Check(k) \in R,
           NEW E, Paired(E), Live(n, E, calm2),
           \A m \in Milestones \ {n} : Live(m, E, calm2) <=> m \notin calm,
           \A m \in Milestones \ {n} : Merge(m) \notin E /\ \A s : Mark(m, s) \notin E,
           Mark(n, "running") \in E => AddRedo(n) \in E,
           n \in Milestones => (Merge(n) \in E <=> Mark(n, "complete") \in E)
    PROVE  OnCourse(E \cup R, t, calm2, d)
  <1>1. /\ \A m : Live(m, E \cup R, calm2) <=> Live(m, E, calm2)
        /\ \A m, s : Mark(m, s) \in E \cup R <=> Mark(m, s) \in E
        /\ \A m : AddRedo(m) \in E \cup R <=> AddRedo(m) \in E
        /\ \A m : Merge(m) \in E \cup R <=> Merge(m) \in E
        /\ Paired(E \cup R)
    BY Sift
  <1>2. \A m : m \notin calm => Live(m, H, calm)
    BY DEF Live
  <1>3. ASSUME NEW m \in Milestones PROVE Course(m, E \cup R, t, calm2, d[m])
    <2>1. Course(m, H, t, calm, d[m])
      BY DEF OnCourse
    <2>2. CASE m = n
      <3>1. /\ Live(m, H, calm) /\ Live(m, E \cup R, calm2)
            /\ Mark(m, "running") \in E \cup R => AddRedo(m) \in E \cup R
            /\ Merge(m) \in E \cup R <=> Mark(m, "complete") \in E \cup R
        BY <1>1, <2>2
      <3>2. QED
        BY <2>1, <3>1 DEF Course
    <2>3. CASE m # n
      <3>1. /\ Live(m, H, calm) <=> Live(m, E \cup R, calm2)
            /\ \A s : Mark(m, s) \notin E \cup R
            /\ Merge(m) \notin E \cup R
        BY <1>1, <1>2, <2>3
      <3>2. \A k : Check(k) \in H => Check(k) \in E \cup R
        OBVIOUS
      <3>3. QED
        BY <2>1, <3>1, <3>2 DEF Course
    <2>4. QED
      BY <2>2, <2>3
  <1>4. QED
    BY <1>1, <1>3 DEF OnCourse

\* The operations that approve a node.
LEMMA ApproveElems ==
    ASSUME NEW n \in Reviewed, NEW calm
    PROVE  LET E == Elems(Approve(n)) IN
           /\ Paired(E) /\ Live(n, E, calm)
           /\ \A m : m # n => (Live(m, E, calm) <=> m \notin calm)
           /\ \A m : m # n => Merge(m) \notin E /\ \A s : Mark(m, s) \notin E
           /\ Mark(n, "running") \notin E
           /\ n \in Milestones => Merge(n) \in E /\ Mark(n, "complete") \in E
  <1> DEFINE E == Elems(Approve(n))
             F == IF n \in Milestones THEN {Merge(n), Check(n)} ELSE {}
  <1>1. n \notin Work
    BY Kinds
  <1>2. E = {Mark(n, "complete"), History(n)} \cup F
    <2>1. Elems(<<Mark(n, "complete"), History(n), Merge(n), Check(n)>>)
             = {Mark(n, "complete"), History(n), Merge(n), Check(n)}
      BY ElemsOf
    <2>2. Elems(<<Mark(n, "complete"), History(n)>>) = {Mark(n, "complete"), History(n)}
      BY ElemsOf
    <2>3. /\ n \in Milestones =>
                 Approve(n) = <<Mark(n, "complete"), History(n), Merge(n), Check(n)>>
          /\ n \notin Milestones => Approve(n) = <<Mark(n, "complete"), History(n)>>
      BY Concats DEF Approve
    <2>4. QED
      BY <2>1, <2>2, <2>3
  <1> HIDE DEF E
  <1>3. \A op \in E : /\ op \in {Mark(n, "complete"), History(n), Merge(n), Check(n)}
                      /\ op[1] \in {"mark", "history", "merge", "check"} /\ op[2] = n
                      /\ op[1] = "mark" => op[3] = "complete"
    BY <1>2 DEF Mark, History, Merge, Check
  <1>4. Paired(E)
    BY <1>1, <1>3 DEF Paired, Mark, AddRedo
  <1>5. Live(n, E, calm)
    BY <1>2, Carried DEF Live
  <1>6. ASSUME NEW m, m # n PROVE Live(m, E, calm) <=> m \notin calm
    BY <1>3, <1>6, Carried DEF Live
  <1>7. ASSUME NEW m, m # n PROVE Merge(m) \notin E /\ \A s : Mark(m, s) \notin E
    BY <1>3, <1>7 DEF Merge, Mark
  <1>8. Mark(n, "running") \notin E
    BY <1>3 DEF Mark
  <1>9. n \in Milestones => Merge(n) \in E /\ Mark(n, "complete") \in E
    BY <1>2
  <1>10. QED
    BY <1>4, <1>5, <1>6, <1>7, <1>8, <1>9 DEF E

\* Those that send it into its next review.
LEMMA CycleElems ==
    ASSUME NEW n \in Reviewed, NEW calm, NEW c
    PROVE  LET E == {Cycle(n, c), Ask(n)} IN
           /\ Paired(E) /\ Live(n, E, calm)
           /\ \A m : m # n => (Live(m, E, calm) <=> m \notin calm)
           /\ \A m : Merge(m) \notin E /\ \A s : Mark(m, s) \notin E
  <1> DEFINE E == {Cycle(n, c), Ask(n)}
  <1>1. Paired(E)
    BY DEF Paired, Cycle, Ask, AddRedo, Mark
  <1>2. Live(n, E, calm) /\ \A m : m # n => (Live(m, E, calm) <=> m \notin calm)
    BY Carried DEF Live
  <1>3. \A m : Merge(m) \notin E /\ \A s : Mark(m, s) \notin E
    BY DEF Merge, Mark, Cycle, Ask
  <1>4. QED
    BY <1>1, <1>2, <1>3

\* Those that take it up again.
LEMMA RedoElems ==
    ASSUME NEW n \in Reviewed, NEW calm
    PROVE  LET E == {AddRedo(n), Mark(n, "running")} IN
           /\ Paired(E) /\ Live(n, E, calm)
           /\ \A m : m # n => (Live(m, E, calm) <=> m \notin calm)
           /\ \A m : m # n => Merge(m) \notin E /\ \A s : Mark(m, s) \notin E
           /\ AddRedo(n) \in E /\ Merge(n) \notin E /\ Mark(n, "complete") \notin E
  <1> DEFINE E == {AddRedo(n), Mark(n, "running")}
  <1>1. Paired(E)
    BY DEF Paired, AddRedo, Mark
  <1>2. Live(n, E, calm) /\ \A m : m # n => (Live(m, E, calm) <=> m \notin calm)
    BY Carried DEF Live
  <1>3. \A m : m # n => Merge(m) \notin E /\ \A s : Mark(m, s) \notin E
    BY DEF Merge, Mark, AddRedo
  <1>4. Merge(n) \notin E /\ Mark(n, "complete") \notin E
    BY DEF Merge, Mark, AddRedo
  <1>5. QED
    BY <1>1, <1>2, <1>3, <1>4

\* The review of node n is begun, or the node is approved unseen.
LEMMA BeginCourse ==
    ASSUME IInv, Flow, Courses, NEW g \in Goroutines, BeginReview(g)
    PROVE  Courses'
  <1> DEFINE n == Op(g)[2]
             c == tree.cycle[n]
  <1>1. /\ Op(g) \in Ops /\ Op(g)[1] = "review" /\ todo[g] # <<>>
    BY OpFits DEF BeginReview
  <1>2. n \in Reviewed /\ Op(g) = Review(n)
    BY <1>1, Operands DEF Ops, Review
  <1>3. UNCHANGED <<tree, merged, unsent, jobs, queue, reviewers>>
    BY DEF BeginReview, disk, proxy
  <1>4. PICK ops : ops = IF c >= MaxReviewCycles THEN Approve(n) ELSE <<Cycle(n, c + 1), Ask(n)>>
    OBVIOUS
  <1>5. Replace(g, ops)
    BY <1>4 DEF BeginReview
  <1>6. ops \in Seq(Ops)
    <2>1. c \in 0 .. MaxReviewCycles /\ MaxReviewCycles \in Nat
      BY <1>2, TreeAssumption DEF IInv, TypeOK, Tree
    <2>2. ~(c >= MaxReviewCycles) => <<Cycle(n, c + 1), Ask(n)>> \in Seq(Ops)
      <3>1. ~(c >= MaxReviewCycles) => c + 1 \in 1 .. MaxReviewCycles
        BY <2>1
      <3>2. Ask(n) \in Ops /\ (c + 1 \in 1 .. MaxReviewCycles => Cycle(n, c + 1) \in Ops)
        BY <1>2, OpsAre
      <3>3. QED
        BY <3>1, <3>2, GoodSeqs
    <2>3. Approve(n) \in Seq(Ops)
      BY <1>2, ApproveFits
    <2>4. QED
      BY <1>4, <2>2, <2>3
  <1>7. PICK R \in SUBSET Ops :
           /\ Held = {Op(g)} \cup R /\ Held' = Elems(ops) \cup R
           /\ \A b \in R : Before(Op(g), b)
    BY <1>1, <1>5, <1>6, HeldStep
  <1>8. OnlyChecks(R)
    BY <1>1, <1>7, ChecksFollow
  <1>9. PICK E, H, K : E = Elems(ops) /\ H = Held /\ K = Held'
    OBVIOUS
  <1>10. H = {Review(n)} \cup R /\ OnCourse(H, tree, Calm, merged)
    BY <1>2, <1>7, <1>9 DEF Courses
  <1>11. /\ Live(n, H, Calm)
         /\ \A m : m # n => (Live(m, H, Calm) => m \notin Calm)
         /\ \A m, s : Mark(m, s) \notin H
         /\ \A m : Merge(m) \notin H
         /\ \A k : Check(k) \in H => Check(k) \in R
    <2>1. /\ \A m : Live(m, H, Calm) <=> Live(m, {Review(n)}, Calm)
          /\ \A m, s : Mark(m, s) \in H <=> Mark(m, s) \in {Review(n)}
          /\ \A m : Merge(m) \in H <=> Merge(m) \in {Review(n)}
      BY <1>8, <1>10, Sift
    <2>2. /\ Live(n, {Review(n)}, Calm)
          /\ \A m : m # n => (Live(m, {Review(n)}, Calm) => m \notin Calm)
      BY Carried DEF Live
    <2>3. /\ \A m, s : Mark(m, s) # Review(n) /\ \A k : Merge(k) # Review(n) /\ Check(k) # Review(n)
      BY DEF Mark, Merge, Check, Review
    <2>4. QED
      BY <1>10, <2>1, <2>2, <2>3
  <1>12. /\ Paired(E) /\ Live(n, E, Calm)
         /\ \A m : m # n => (Live(m, E, Calm) <=> m \notin Calm)
         /\ \A m : m # n => Merge(m) \notin E /\ \A s : Mark(m, s) \notin E
         /\ Mark(n, "running") \notin E
         /\ n \in Milestones => (Merge(n) \in E <=> Mark(n, "complete") \in E)
    <2>1. CASE ops = Approve(n)
      BY <1>2, <1>9, <2>1, ApproveElems
    <2>2. CASE ops = <<Cycle(n, c + 1), Ask(n)>>
      <3>1. E = {Cycle(n, c + 1), Ask(n)}
        BY <1>9, <2>2, ElemsOf
      <3>2. QED
        BY <1>2, <3>1, CycleElems
    <2>3. QED
      BY <1>4, <2>1, <2>2
  <1> HIDE DEF n, c
  <1>13. OnCourse(E \cup R, tree, Calm, merged)
    BY <1>2, <1>8, <1>10, <1>11, <1>12, TakeUp
  <1>14. Calm' = Calm
    BY <1>3 DEF Calm
  <1>15. K = E \cup R
    BY <1>7, <1>9
  <1>16. QED
    BY <1>3, <1>9, <1>13, <1>14, <1>15 DEF Courses

\* Every command of such a run is answered well.
LEMMA Obliged ==
    ASSUME TypeOK, Prompt', NEW ok \in BOOLEAN, Answered(ok)
    PROVE  ok
  BY FaultLast DEF Prompt, Answers, Answered

\* The review of node n is sent.
LEMMA AskCourse ==
    ASSUME IInv, Flow, Courses, Prompt', NEW g \in Goroutines, AskReview(g)
    PROVE  Courses'
  <1> DEFINE n == Op(g)[2]
  <1>1. /\ Op(g) \in Ops /\ Op(g)[1] = "ask" /\ todo[g] # <<>>
    BY OpFits DEF AskReview
  <1>2. n \in Reviewed /\ Op(g) = Ask(n)
    BY <1>1, Operands DEF Ops, Ask
  <1>3. UNCHANGED <<tree, merged, jobs, queue>> /\ Replace(g, <<>>)
    BY DEF AskReview, Done
  <1>4. unsent' = unsent /\ reviewers' = [reviewers EXCEPT ![n] = @ + 1]
    BY Obliged DEF AskReview, SendReview, CarriedOut, IInv
  <1>5. /\ n \notin Calm'
        /\ \A m \in Reviewed \ {n} : m \in Calm <=> m \in Calm'
    <2>1. reviewers \in [Reviewed -> Nat]
      BY DEF IInv, TypeOK
    <2>2. reviewers'[n] > 0 /\ \A m \in Reviewed \ {n} : reviewers'[m] = reviewers[m]
      BY <1>2, <1>4, <2>1
    <2>3. QED
      BY <1>3, <1>4, <2>2 DEF Calm, Quiet
  <1>6. PICK R \in SUBSET Ops :
           /\ Held = {Op(g)} \cup R /\ Held' = Elems(<<>>) \cup R
           /\ \A b \in R : Before(Op(g), b)
    BY <1>1, <1>3, HeldStep, EmptySeq
  <1>7. OnlyChecks(R)
    BY <1>1, <1>6, ChecksFollow
  <1>8. PICK H, K, calm : H = Held /\ K = Held' /\ calm = Calm'
    OBVIOUS
  <1>9. H = {Ask(n)} \cup R /\ OnCourse(H, tree, Calm, merged) /\ K = {} \cup R
    BY <1>2, <1>6, <1>8, ElemsOf DEF Courses
  <1>10. /\ Live(n, H, Calm)
         /\ \A m : m # n => (Live(m, H, Calm) => m \notin Calm)
         /\ \A m, s : Mark(m, s) \notin H
         /\ \A m : Merge(m) \notin H
         /\ \A k : Check(k) \in H => Check(k) \in R
    <2>1. /\ \A m : Live(m, H, Calm) <=> Live(m, {Ask(n)}, Calm)
          /\ \A m, s : Mark(m, s) \in H <=> Mark(m, s) \in {Ask(n)}
          /\ \A m : Merge(m) \in H <=> Merge(m) \in {Ask(n)}
      BY <1>7, <1>9, Sift
    <2>2. /\ Live(n, {Ask(n)}, Calm)
          /\ \A m : m # n => (Live(m, {Ask(n)}, Calm) => m \notin Calm)
      BY Carried DEF Live
    <2>3. /\ \A m, s : Mark(m, s) # Ask(n) /\ \A k : Merge(k) # Ask(n) /\ Check(k) # Ask(n)
      BY DEF Mark, Merge, Check, Ask
    <2>4. QED
      BY <1>9, <2>1, <2>2, <2>3
  <1>11. PICK E : E = {}
    OBVIOUS
  <1>12. Paired(E) /\ Live(n, E, calm) /\ \A m \in Milestones \ {n} : Live(m, E, calm) <=> m \notin Calm
    BY <1>5, <1>8, <1>11 DEF Paired, Live, Reviewed
  <1> HIDE DEF n
  <1>13. OnCourse(E \cup R, tree, calm, merged)
    BY <1>2, <1>7, <1>9, <1>10, <1>11, <1>12, TakeUp
  <1>14. QED
    BY <1>3, <1>4, <1>8, <1>9, <1>11, <1>13 DEF Courses

\* Milestone k is merged.
LEMMA MergeCourse ==
    ASSUME IInv, Flow, Courses, Prompt', NEW g \in Goroutines, SendMerge(g)
    PROVE  Courses'
  <1> DEFINE k == Op(g)[2]
  <1>1. /\ Op(g) \in Ops /\ Op(g)[1] = "merge" /\ todo[g] # <<>>
    BY OpFits DEF SendMerge
  <1>2. k \in Milestones /\ Op(g) = Merge(k)
    BY <1>1, Operands DEF Ops, Merge
  <1>3. UNCHANGED <<tree, unsent, jobs, queue, reviewers>> /\ Replace(g, <<>>)
    BY DEF SendMerge, Done, disk
  <1>4. merged' = [merged EXCEPT ![k] = @ + 1] /\ merged \in [Milestones -> Nat]
    BY Obliged DEF SendMerge, CarriedOut, IInv, TypeOK
  <1>5. PICK R \in SUBSET Ops :
           /\ Held = {Op(g)} \cup R /\ Held' = Elems(<<>>) \cup R
           /\ \A b \in R : Before(Op(g), b)
    BY <1>1, <1>3, HeldStep, EmptySeq
  <1>6. OnlyChecks(R)
    BY <1>1, <1>5, ChecksFollow
  <1>7. PICK H, K, d : H = Held /\ K = Held' /\ d = merged'
    OBVIOUS
  <1>8. H = {Merge(k)} \cup R /\ OnCourse(H, tree, Calm, merged) /\ K = {} \cup R
    BY <1>2, <1>5, <1>7, ElemsOf DEF Courses
  <1>9. ASSUME NEW S
        PROVE  /\ \A m : Live(m, S \cup R, Calm) <=> Live(m, S, Calm)
               /\ \A m, s : Mark(m, s) \in S \cup R <=> Mark(m, s) \in S
               /\ \A m : AddRedo(m) \in S \cup R <=> AddRedo(m) \in S
               /\ \A m : Merge(m) \in S \cup R <=> Merge(m) \in S
               /\ Paired(S) => Paired(S \cup R)
    BY <1>6, Sift
  <1>10. /\ \A m : Live(m, H, Calm) <=> m \notin Calm
         /\ \A m : Live(m, K, Calm) <=> m \notin Calm
         /\ \A m, s : Mark(m, s) \notin H /\ Mark(m, s) \notin K
         /\ \A m : (Merge(m) \in H <=> m = k) /\ Merge(m) \notin K
         /\ \A n : Check(n) \in H => Check(n) \in K
    <2>1. /\ \A m : Live(m, {Merge(k)}, Calm) <=> m \notin Calm
          /\ \A m : Live(m, {}, Calm) <=> m \notin Calm
      BY Carried DEF Live
    <2>2. /\ \A m, s : Mark(m, s) # Merge(k)
          /\ \A m : Merge(m) = Merge(k) <=> m = k
          /\ \A n : Check(n) # Merge(k)
      BY DEF Mark, Merge, Check
    <2>3. /\ \A m : Live(m, H, Calm) <=> Live(m, {Merge(k)}, Calm)
          /\ \A m, s : Mark(m, s) \in H <=> Mark(m, s) \in {Merge(k)}
          /\ \A m : Merge(m) \in H <=> Merge(m) \in {Merge(k)}
      BY <1>8, <1>9
    <2>4. /\ \A m : Live(m, K, Calm) <=> Live(m, {}, Calm)
          /\ \A m, s : Mark(m, s) \notin K
          /\ \A m : Merge(m) \notin K
      <3>1. PICK S : S = {}
        OBVIOUS
      <3>2. K = S \cup R
        BY <1>8, <3>1
      <3>3. /\ \A m : Live(m, K, Calm) <=> Live(m, S, Calm)
            /\ \A m, s : Mark(m, s) \in K <=> Mark(m, s) \in S
            /\ \A m : Merge(m) \in K <=> Merge(m) \in S
        BY <1>9, <3>2
      <3>4. QED
        BY <3>1, <3>3
    <2>5. \A n : Check(n) \in H => Check(n) \in K
      BY <1>8, <2>2
    <2>6. QED
      BY <2>1, <2>2, <2>3, <2>4, <2>5
  <1>11. Paired(K)
    <2>1. Paired({})
      BY DEF Paired
    <2>2. QED
      BY <1>8, <1>9, <2>1
  <1>12. \A m \in Milestones : d[m] = IF m = k THEN merged[m] + 1 ELSE merged[m]
    BY <1>4, <1>7
  <1> HIDE DEF k
  <1>13. ASSUME NEW m \in Milestones PROVE Course(m, K, tree, Calm, d[m])
    <2>1. Course(m, H, tree, Calm, merged[m])
      BY <1>8 DEF OnCourse
    <2>2. CASE m = k
      <3>1. tree.st[m] = "complete" /\ merged[m] = 0
        BY <1>10, <2>1, <2>2 DEF Course
      <3>2. d[m] = 1
        BY <1>12, <2>2, <3>1
      <3>3. QED
        BY <1>10, <2>1, <3>1, <3>2 DEF Course
    <2>3. CASE m # k
      <3>1. d[m] = merged[m] /\ Merge(m) \notin H
        BY <1>10, <1>12, <2>3
      <3>2. QED
        BY <1>10, <2>1, <3>1 DEF Course
    <2>4. QED
      BY <2>2, <2>3
  <1>14. Calm' = Calm
    BY <1>3 DEF Calm
  <1>15. OnCourse(K, tree, Calm, d)
    BY <1>11, <1>13 DEF OnCourse
  <1>16. QED
    BY <1>3, <1>7, <1>8, <1>14, <1>15 DEF Courses

\* What follows a task that was dispatched.
LEMMA ThenIs ==
    ASSUME NEW op \in Then
    PROVE  /\ op \in Ops
           /\ op[1] \in {"mark", "occupy"}
           /\ op[1] = "mark" => op[2] \in Uids /\ op[3] = "running"
           /\ \A n : ~Carries(op, n)
           /\ \A n : op # Merge(n) /\ op # Check(n) /\ op # AddRedo(n)
           /\ \A n, s : op = Mark(n, s) => op[2] = n /\ s = "running"
  <1>1. op \in Ops
    BY ThenGood DEF Good
  <1>2. /\ op[1] \in {"mark", "occupy"}
        /\ op[1] = "mark" => op[2] \in Uids /\ op[3] = "running"
    BY DEF Then
  <1>3. \A n, s : op = Mark(n, s) => op[1] = "mark" /\ op[2] = n /\ s = op[3]
    BY DEF Mark
  <1>4. \A n : ~Carries(op, n)
    BY <1>2, <1>3 DEF Carries
  <1>5. \A n : op # Merge(n) /\ op # Check(n) /\ op # AddRedo(n)
    BY <1>2 DEF Merge, Check, AddRedo
  <1>6. QED
    BY <1>1, <1>2, <1>3, <1>4, <1>5

\* Task n was dispatched: its milestone, if it is marked, has work to do.
LEMMA CreateCourse ==
    ASSUME IInv, Flow, Courses, Prompt', NEW g \in Goroutines, SendCreate(g)
    PROVE  Courses'
  <1> DEFINE n == Op(g)[2]
             then == Op(g)[3]
  <1>1. /\ Op(g) \in Ops /\ Op(g)[1] = "create" /\ todo[g] # <<>>
        /\ Fits(Op(g), tree, Calm, unsent)
    BY OpFits DEF SendCreate
  <1>2. then \in Seq(Then)
    BY <1>1, Operands
  <1>3. UNCHANGED <<tree, merged, unsent, jobs, queue, reviewers>>
    BY DEF SendCreate, disk
  <1>4. Replace(g, then)
    BY Obliged DEF SendCreate, IInv
  <1>5. then \in Seq(Ops)
    <2>1. Then \subseteq Ops
      BY ThenIs
    <2>2. QED
      BY <1>2, <2>1, SeqMonotonic
  <1>6. PICK R \in SUBSET Ops :
           /\ Held = {Op(g)} \cup R /\ Held' = Elems(then) \cup R
           /\ \A b \in R : Before(Op(g), b)
    BY <1>1, <1>4, <1>5, HeldStep
  <1>7. OnlyChecks(R)
    BY <1>1, <1>6, ChecksFollow
  <1>8. PICK h, H, K, E : h = Op(g) /\ H = Held /\ K = Held' /\ E = Elems(then)
    OBVIOUS
  <1>9. H = {h} \cup R /\ OnCourse(H, tree, Calm, merged) /\ K = E \cup R /\ h[1] = "create"
    BY <1>1, <1>6, <1>8 DEF Courses
  <1>10. /\ E \subseteq Then
         /\ \A op \in E : op[2] \in Reviewed =>
               /\ op[2] \in Calm /\ n \in Work /\ op[2] = Above(n) /\ tree.st[n] = "pending"
    <2>1. \A i \in DOMAIN then : then[i] \in Then
      BY <1>2, SeqIs
    <2>2. QED
      BY <1>1, <1>8, <2>1 DEF Elems, Fits
  <1>11. ASSUME NEW S
         PROVE  /\ \A m : Live(m, S \cup R, Calm) <=> Live(m, S, Calm)
                /\ \A m, s : Mark(m, s) \in S \cup R <=> Mark(m, s) \in S
                /\ \A m : AddRedo(m) \in S \cup R <=> AddRedo(m) \in S
                /\ \A m : Merge(m) \in S \cup R <=> Merge(m) \in S
                /\ Paired(S) => Paired(S \cup R)
    BY <1>7, Sift
  <1>12. /\ \A m : ~Carries(h, m) /\ h # Merge(m) /\ h # Check(m)
         /\ \A m, s : h # Mark(m, s)
    BY <1>9 DEF Carries, Mark, Merge, Check
  <1>13. /\ \A m : Live(m, H, Calm) <=> m \notin Calm
         /\ \A m : Live(m, K, Calm) <=> m \notin Calm
         /\ \A m, s : Mark(m, s) \notin H
         /\ \A m, s : Mark(m, s) \in K => Mark(m, s) \in E
         /\ \A m : Mark(m, "complete") \notin K
         /\ \A m : Merge(m) \notin H /\ Merge(m) \notin K
         /\ \A k : Check(k) \in H => Check(k) \in K
    <2>1. /\ \A m : Live(m, {h}, Calm) <=> m \notin Calm
          /\ \A m : Live(m, E, Calm) <=> m \notin Calm
      BY <1>10, <1>12, ThenIs DEF Live
    <2>2. \A m : Mark(m, "complete") \notin E /\ Merge(m) \notin E
      BY <1>10, ThenIs
    <2>3. /\ \A m : Live(m, H, Calm) <=> Live(m, {h}, Calm)
          /\ \A m, s : Mark(m, s) \in H <=> Mark(m, s) \in {h}
          /\ \A m : Merge(m) \in H <=> Merge(m) \in {h}
      BY <1>9, <1>11
    <2>4. /\ \A m : Live(m, K, Calm) <=> Live(m, E, Calm)
          /\ \A m, s : Mark(m, s) \in K <=> Mark(m, s) \in E
          /\ \A m : Merge(m) \in K <=> Merge(m) \in E
      BY <1>9, <1>11
    <2>5. \A k : Check(k) \in H => Check(k) \in K
      BY <1>9, <1>12
    <2>6. QED
      BY <1>12, <2>1, <2>2, <2>3, <2>4, <2>5
  <1>14. Paired(K)
    <2>1. \A op \in E : /\ op[1] \in {"mark", "occupy"} /\ (op[1] = "mark" => op[3] = "running")
                        /\ \A m : op # AddRedo(m) /\ op # Mark(m, "complete")
      BY <1>10, ThenIs
    <2>2. Paired(E)
      BY <2>1 DEF Paired
    <2>3. QED
      BY <1>9, <1>11, <2>2
  <1>15. ASSUME NEW m \in Milestones PROVE Course(m, K, tree, Calm, merged[m])
    <2>1. Course(m, H, tree, Calm, merged[m])
      BY <1>9 DEF OnCourse
    <2>2. ASSUME Mark(m, "running") \in K
          PROVE  tree.st[m] # "complete" /\ ~AllDone(m, tree)
      <3>1. Mark(m, "running") \in E /\ Mark(m, "running")[2] = m /\ m \in Reviewed
        BY <1>13, <2>2 DEF Mark, Reviewed
      <3>2. n \in Work /\ m = Above(n) /\ tree.st[n] = "pending"
        BY <1>10, <3>1
      <3>3. n \in Below(m)
        BY <3>2, Kinds DEF Below
      <3>4. QED
        BY <2>1, <3>2, <3>3 DEF Course, AllDone
    <2>3. QED
      BY <1>13, <2>1, <2>2 DEF Course
  <1>16. OnCourse(K, tree, Calm, merged)
    BY <1>14, <1>15 DEF OnCourse
  <1>17. Calm' = Calm
    BY <1>3 DEF Calm
  <1>18. QED
    BY <1>3, <1>8, <1>16, <1>17 DEF Courses

-----------------------------------------------------------------------------
\* Changes of the tree

\* A change of the tree puts nothing in the place of its operation.
LEMMA HeldDone ==
    ASSUME IInv, Flow, Courses, NEW g \in Goroutines, todo[g] # <<>>, Done(g)
    PROVE  \E R \in SUBSET Ops :
              /\ Held = {Op(g)} \cup R /\ Held' = R
              /\ OnCourse({Op(g)} \cup R, tree, Calm, merged)
              /\ \A b \in R : Before(Op(g), b)
  <1>1. Replace(g, <<>>) /\ <<>> \in Seq(Ops)
    BY EmptySeq DEF Done
  <1>2. PICK R \in SUBSET Ops :
           /\ Held = {Op(g)} \cup R /\ Held' = Elems(<<>>) \cup R
           /\ \A b \in R : Before(Op(g), b)
    BY <1>1, HeldStep
  <1>3. Held' = R /\ OnCourse({Op(g)} \cup R, tree, Calm, merged)
    BY <1>2, ElemsOf DEF Courses
  <1>4. QED
    BY <1>2, <1>3

\* What may follow the mark of node n.
LEMMA AfterMark ==
    ASSUME NEW n, NEW s, NEW R, \A b \in R : Before(Mark(n, s), b)
    PROVE  /\ \A m : \A b \in R : ~Carries(b, m)
           /\ \A m, x : Mark(m, x) \in R => x = "running" /\ n \notin Reviewed /\ s = "running"
           /\ \A m : Merge(m) \in R => n = m /\ s = "complete"
           /\ \A m : AddRedo(m) \notin R
           /\ Paired(R)
  <1> DEFINE h == Mark(n, s)
  <1>1. h[1] = "mark" /\ h[2] = n /\ h[3] = s
    BY DEF Mark
  <1>2. \A k, x : h = Mark(k, x) => n = k /\ s = x
    BY DEF Mark
  <1>3. \A k : h # History(k)
    BY DEF Mark, History
  <1> HIDE DEF h
  <1>4. ASSUME NEW b \in R, Moves(b), b[1] # "check"
        PROVE  \/ b[1] = "mark" /\ b[3] = "running" /\ n \notin Reviewed /\ s = "running"
               \/ b[1] = "merge" /\ n = b[2] /\ s = "complete"
    <2>1. Before(h, b)
      BY DEF h
    <2>2. QED
      BY <1>1, <1>2, <1>3, <1>4, <2>1, MovesAfter
  <1>5. \A b \in R : b[1] \notin {"review", "cycle", "ask", "redo"}
    BY <1>4 DEF Moves
  <1>6. \A m, x : Mark(m, x) \in R => x = "running" /\ n \notin Reviewed /\ s = "running"
    BY <1>4 DEF Moves, Mark
  <1>7. \A m : Merge(m) \in R => n = m /\ s = "complete"
    BY <1>4 DEF Moves, Merge
  <1>8. \A m : AddRedo(m) \notin R
    BY <1>5 DEF AddRedo
  <1>9. \A m : \A b \in R : ~Carries(b, m)
    BY <1>5, <1>6 DEF Carries
  <1>10. \A b \in R : b[1] = "mark" => b[3] = "running"
    BY <1>4 DEF Moves
  <1>11. Paired(R)
    BY <1>5, <1>6, <1>8, <1>10 DEF Paired
  <1>12. QED
    BY <1>6, <1>7, <1>8, <1>9, <1>11

\* Node n is marked.
LEMMA MarkCourse ==
    ASSUME IInv, Flow, Courses, NEW g \in Goroutines, Doing(g, "mark"), Done(g),
           UNCHANGED <<unsent, jobs, queue, reviewers, merged>>,
           tree' = IF Present(Op(g)[2]) THEN Changed(Op(g)) ELSE tree
    PROVE  Courses'
  <1>1. /\ Op(g) \in Ops /\ Op(g)[1] = "mark" /\ todo[g] # <<>>
        /\ Fits(Op(g), tree, Calm, unsent)
    BY OpFits
  <1>2. PICK n, s : n = Op(g)[2] /\ s = Op(g)[3]
    OBVIOUS
  <1>3. Op(g) = Mark(n, s)
    BY <1>1, <1>2 DEF Ops, Mark
  <1>4. /\ n \in Uids /\ s \notin {"absent", "pending"}
        /\ n \in Reviewed => n \in Calm /\ n \in Nodes /\ tree.st[n] # "absent"
    <2>1. n \in Uids /\ s # "absent"
      BY <1>1, <1>2, Operands
    <2>2. s # "pending" /\ (n \in Reviewed => n \in Calm)
      BY <1>1, <1>2 DEF Fits
    <2>3. n \in Reviewed => n \in Nodes /\ tree.st[n] # "absent"
      BY Kinds DEF Flow, Reviews
    <2>4. QED
      BY <2>1, <2>2, <2>3
  <1>5. PICK R \in SUBSET Ops :
           /\ Held = {Op(g)} \cup R /\ Held' = R
           /\ OnCourse({Op(g)} \cup R, tree, Calm, merged)
           /\ \A b \in R : Before(Op(g), b)
    BY <1>1, HeldDone
  <1>6. PICK H, t : H = {Mark(n, s)} \cup R /\ t = tree'
    OBVIOUS
  <1>7. Paired(H) /\ \A m \in Milestones : Course(m, H, tree, Calm, merged[m])
    BY <1>3, <1>5, <1>6 DEF OnCourse
  <1>8. \A k \in Nodes : t.st[k] = IF k = n /\ tree.st[n] # "absent" THEN s ELSE tree.st[k]
    <2>1. tree \in Tree
      BY DEF IInv, TypeOK
    <2>2. CASE Present(n)
      <3>1. t = [tree EXCEPT !.st[n] = s]
        BY <1>1, <1>2, <1>6, <2>2 DEF Changed
      <3>2. QED
        BY <2>1, <2>2, <3>1 DEF Tree, Present
    <2>3. CASE ~Present(n)
      BY <1>2, <1>6, <2>3 DEF Present
    <2>4. QED
      BY <2>2, <2>3
  <1>9. /\ \A m : \A b \in R : ~Carries(b, m)
        /\ \A m, x : Mark(m, x) \in R => x = "running" /\ n \notin Reviewed /\ s = "running"
        /\ \A m : Merge(m) \in R => n = m /\ s = "complete"
        /\ \A m : AddRedo(m) \notin R
        /\ Paired(R)
    BY <1>3, <1>5, AfterMark
  <1>10. /\ \A m : Live(m, R, Calm) <=> m \notin Calm
         /\ \A m : Live(m, H, Calm) <=> m \notin Calm \/ (m = n /\ s = "complete")
         /\ \A m, x : Mark(m, x) \in H <=> (m = n /\ x = s) \/ Mark(m, x) \in R
         /\ \A m : AddRedo(m) \notin H
         /\ \A m : Merge(m) \in H <=> Merge(m) \in R
         /\ \A k : Check(k) \in H <=> Check(k) \in R
    <2>1. /\ \A m : Carries(Mark(n, s), m) <=> m = n /\ s = "complete"
          /\ \A m, x : Mark(m, x) = Mark(n, s) <=> m = n /\ x = s
          /\ \A m : Mark(n, s) # AddRedo(m) /\ Mark(n, s) # Merge(m) /\ Mark(n, s) # Check(m)
      BY Carried DEF Mark, AddRedo, Merge, Check
    <2>2. QED
      BY <1>6, <1>9, <2>1 DEF Live
  <1>11. /\ n \in Milestones => s \in {"running", "complete"}
         /\ n \in Work /\ s = "complete" => Check(n) \in R
    <2>1. Mark(n, s) \in H /\ Mark(n, s)[1] = "mark" /\ Mark(n, s)[2] = n /\ Mark(n, s)[3] = s
      BY <1>6 DEF Mark
    <2>2. QED
      BY <1>7, <1>10, <2>1 DEF Paired
  <1>12. ASSUME NEW m \in Milestones PROVE Course(m, R, t, Calm, merged[m])
    <2>1. Course(m, H, tree, Calm, merged[m])
      BY <1>7
    <2>2. m \in Reviewed /\ m \in Nodes /\ Below(m) \subseteq Work /\ Below(m) \subseteq Nodes
          /\ m \notin Below(m)
      BY BelowMilestone, Kinds DEF Reviewed
    <2>3. CASE n = m
      <3>1. /\ t.st[m] = s /\ m \in Calm
            /\ \A k \in Below(m) : t.st[k] = tree.st[k]
        BY <1>4, <1>8, <2>2, <2>3
      <3>2. AllDone(m, t) <=> AllDone(m, tree)
        BY <3>1 DEF AllDone
      <3>3. s \in {"running", "complete"}
        BY <1>11, <2>3
      <3>4. CASE s = "running"
        <4>1. tree.st[m] # "complete" /\ ~AllDone(m, tree)
          BY <1>10, <2>1, <2>3, <3>4 DEF Course
        <4>2. /\ ~Live(m, R, Calm) /\ \A x : Mark(m, x) \notin R
              /\ Merge(m) \notin R /\ merged[m] = 0
          BY <1>9, <1>10, <2>1, <2>2, <2>3, <3>1, <3>4, <4>1 DEF Course
        <4>3. QED
          BY <3>1, <3>2, <3>4, <4>1, <4>2 DEF Course
      <3>5. CASE s = "complete"
        <4>1. Live(m, H, Calm) /\ Mark(m, "complete") \in H
          BY <1>10, <2>3, <3>5
        <4>2. /\ tree.st[m] # "complete" /\ \A k \in Below(m) : tree.st[k] # "pending"
              /\ Merge(m) \in R /\ merged[m] = 0
          BY <1>10, <2>1, <4>1 DEF Course
        <4>3. ~Live(m, R, Calm) /\ \A x : Mark(m, x) \notin R
          BY <1>9, <1>10, <3>1, <3>5
        <4>4. QED
          BY <3>1, <3>5, <4>2, <4>3 DEF Course
      <3>6. QED
        BY <3>3, <3>4, <3>5
    <2>4. CASE n # m
      <3>1. /\ t.st[m] = tree.st[m]
            /\ Live(m, R, Calm) <=> Live(m, H, Calm)
            /\ \A x : Mark(m, x) \in H <=> Mark(m, x) \in R
            /\ Merge(m) \notin R /\ Merge(m) \notin H
            /\ \A k : Check(k) \in H <=> Check(k) \in R
            /\ AddRedo(m) \notin H
        BY <1>8, <1>9, <1>10, <2>2, <2>4
      <3>2. \A k \in Below(m) : tree.st[k] # "pending" => t.st[k] # "pending"
        BY <1>4, <1>8, <2>2
      <3>3. CASE n \in Below(m) /\ tree.st[n] # "absent"
        <4>1. t.st[n] = s /\ s # "absent"
          BY <1>4, <1>8, <2>2, <3>3
        <4>2. AllDone(m, t) => s = "complete"
          BY <3>3, <4>1 DEF AllDone
        <4>3. s = "complete" => Check(n) \in R
          BY <1>11, <2>2, <3>3
        <4>4. Mark(m, "running") \in R => ~AllDone(m, t)
          BY <1>9, <4>2
        <4>5. QED
          BY <2>1, <3>1, <3>2, <3>3, <4>1, <4>2, <4>3, <4>4 DEF Course
      <3>4. CASE ~(n \in Below(m) /\ tree.st[n] # "absent")
        <4>1. \A k \in Below(m) : t.st[k] = tree.st[k]
          BY <1>8, <2>2, <3>4
        <4>2. AllDone(m, t) <=> AllDone(m, tree)
          BY <4>1 DEF AllDone
        <4>3. Mark(m, "running") \in R => ~AllDone(m, t)
          BY <2>1, <3>1, <4>2 DEF Course
        <4>4. QED
          BY <2>1, <3>1, <4>1, <4>2, <4>3 DEF Course
      <3>5. QED
        BY <3>3, <3>4
    <2>5. QED
      BY <2>3, <2>4
  <1>13. OnCourse(R, t, Calm, merged)
    BY <1>9, <1>12 DEF OnCourse
  <1>14. Calm' = Calm
    BY DEF Calm
  <1>15. QED
    BY <1>5, <1>6, <1>13, <1>14 DEF Courses

\* Node n goes into its next review.
LEMMA CycleCourse ==
    ASSUME IInv, Flow, Courses, NEW g \in Goroutines, Doing(g, "cycle"), Done(g),
           UNCHANGED <<unsent, jobs, queue, reviewers, merged>>,
           tree' = IF Present(Op(g)[2]) THEN Changed(Op(g)) ELSE tree
    PROVE  Courses'
  <1>1. /\ Op(g) \in Ops /\ Op(g)[1] = "cycle" /\ todo[g] # <<>>
    BY OpFits
  <1>2. PICK n, c : n = Op(g)[2] /\ c = Op(g)[3]
    OBVIOUS
  <1>3. Op(g) = Cycle(n, c) /\ n \in Reviewed
    BY <1>1, <1>2, Operands DEF Ops, Cycle
  <1>4. PICK R \in SUBSET Ops :
           /\ Held = {Op(g)} \cup R /\ Held' = R
           /\ OnCourse({Op(g)} \cup R, tree, Calm, merged)
           /\ \A b \in R : Before(Op(g), b)
    BY <1>1, HeldDone
  <1>5. PICK H, t : H = {Cycle(n, c)} \cup R /\ t = tree'
    OBVIOUS
  <1>6. Paired(H) /\ \A m \in Milestones : Course(m, H, tree, Calm, merged[m])
    BY <1>3, <1>4, <1>5 DEF OnCourse
  <1>7. \A k \in Nodes : t.st[k] = IF k = n THEN "reviewing" ELSE tree.st[k]
    <2>1. tree \in Tree
      BY DEF IInv, TypeOK
    <2>2. n \in Nodes /\ Present(n)
      BY <1>3, Kinds DEF Present, Flow, Reviews
    <2>3. t = [tree EXCEPT !.st[n] = "reviewing", !.cycle[n] = c]
      BY <1>1, <1>2, <1>5, <2>2 DEF Changed
    <2>4. QED
      BY <2>1, <2>2, <2>3 DEF Tree
  <1>8. /\ \A b \in R : b[1] \notin {"review", "cycle", "redo", "mark", "merge"}
        /\ \A b \in R : b[1] = "ask" => b[2] = n
    <2>1. ASSUME NEW b \in R, Moves(b), b[1] # "check" PROVE b[1] = "ask" /\ b[2] = n
      <3>1. \A k, s : Cycle(n, c) # Mark(k, s) /\ Cycle(n, c) # History(k)
        BY DEF Cycle, Mark, History
      <3>2. Before(Cycle(n, c), b) /\ Cycle(n, c)[1] = "cycle" /\ Cycle(n, c)[2] = n
        BY <1>3, <1>4 DEF Cycle
      <3>3. QED
        BY <2>1, <3>1, <3>2, MovesAfter
    <2>2. QED
      BY <2>1 DEF Moves
  <1>9. Ask(n) \in R
    <2>1. Cycle(n, c) \in H /\ Cycle(n, c)[1] = "cycle" /\ Cycle(n, c)[2] = n
      BY <1>5 DEF Cycle
    <2>2. Ask(n) \in H
      BY <1>3, <1>6, <2>1 DEF Paired
    <2>3. QED
      BY <1>5, <2>2 DEF Ask, Cycle
  <1>10. /\ \A m, x : Mark(m, x) \notin R /\ Mark(m, x) \notin H
         /\ \A m : Merge(m) \notin R /\ Merge(m) \notin H
         /\ \A m : AddRedo(m) \notin R
         /\ \A k : Check(k) \in H <=> Check(k) \in R
    BY <1>5, <1>8 DEF Mark, Merge, AddRedo, Check, Cycle
  <1>11. /\ Live(n, H, Calm) /\ Live(n, R, Calm)
         /\ \A m : m # n => (Live(m, H, Calm) <=> Live(m, R, Calm))
    <2>1. /\ Carries(Cycle(n, c), n) /\ Carries(Ask(n), n)
          /\ \A m : m # n => ~Carries(Cycle(n, c), m)
      BY Carried
    <2>2. QED
      BY <1>5, <1>9, <2>1 DEF Live
  <1>12. Paired(R)
    BY <1>8, <1>10 DEF Paired
  <1>13. ASSUME NEW m \in Milestones PROVE Course(m, R, t, Calm, merged[m])
    <2>1. Course(m, H, tree, Calm, merged[m])
      BY <1>6
    <2>2. m \in Nodes /\ \A k \in Below(m) : k \in Nodes /\ t.st[k] = tree.st[k]
      BY <1>3, <1>7, BelowMilestone, Kinds DEF Reviewed
    <2>3. AllDone(m, t) <=> AllDone(m, tree)
      BY <2>2 DEF AllDone
    <2>4. CASE m = n
      BY <1>7, <1>10, <1>11, <2>1, <2>2, <2>4 DEF Course
    <2>5. CASE m # n
      <3>1. t.st[m] = tree.st[m]
        BY <1>7, <2>2, <2>5
      <3>2. QED
        BY <1>10, <1>11, <2>1, <2>2, <2>3, <2>5, <3>1 DEF Course
    <2>6. QED
      BY <2>4, <2>5
  <1>14. OnCourse(R, t, Calm, merged)
    BY <1>12, <1>13 DEF OnCourse
  <1>15. Calm' = Calm
    BY DEF Calm
  <1>16. QED
    BY <1>4, <1>5, <1>14, <1>15 DEF Courses

\* A review has a task added below node n.
LEMMA RedoCourse ==
    ASSUME IInv, Flow, Courses, NEW g \in Goroutines, Doing(g, "redo"), Done(g),
           UNCHANGED <<unsent, jobs, queue, reviewers, merged>>,
           tree' = IF Present(Op(g)[2]) THEN Changed(Op(g)) ELSE tree
    PROVE  Courses'
  <1>1. /\ Op(g) \in Ops /\ Op(g)[1] = "redo" /\ todo[g] # <<>>
        /\ Fits(Op(g), tree, Calm, unsent)
    BY OpFits
  <1>2. PICK n, x : n = Op(g)[2] /\ x = Redo(n, tree.cycle[n])
    OBVIOUS
  <1>3. Op(g) = AddRedo(n) /\ n \in Reviewed /\ n \in Calm /\ n \in Redoable /\ UnderReview(n, tree)
    BY <1>1, <1>2, Operands DEF Ops, AddRedo, Fits
  <1>4. tree \in Tree /\ tree.cycle[n] \in 1 .. MaxReviewCycles
    BY <1>3 DEF IInv, TypeOK, UnderReview, Tree
  <1>5. x \in Extras /\ x \in Work /\ x \in Nodes /\ Above(x) = n
    <2>1. x \in Extras
      BY <1>2, <1>3, <1>4 DEF Extras
    <2>2. x[1] = n
      BY <1>2 DEF Redo
    <2>3. QED
      BY <2>1, <2>2, AboveUid, Kinds DEF Work
  <1>6. PICK R \in SUBSET Ops :
           /\ Held = {Op(g)} \cup R /\ Held' = R
           /\ OnCourse({Op(g)} \cup R, tree, Calm, merged)
           /\ \A b \in R : Before(Op(g), b)
    BY <1>1, HeldDone
  <1>7. PICK H, t : H = {AddRedo(n)} \cup R /\ t = tree'
    OBVIOUS
  <1>8. Paired(H) /\ \A m \in Milestones : Course(m, H, tree, Calm, merged[m])
    BY <1>3, <1>6, <1>7 DEF OnCourse
  <1>9. \A k \in Nodes : t.st[k] = IF k = x THEN "pending" ELSE tree.st[k]
    <2>1. n \in Nodes /\ Present(n)
      BY <1>3, Kinds DEF Present, Flow, Reviews
    <2>2. t = [tree EXCEPT !.st[x] = "pending"]
      <3>1. tree.cycle[n] > 0 /\ Op(g)[1] = "redo" /\ Op(g)[2] = n /\ n \in Reviewed
        BY <1>1, <1>2, <1>3 DEF UnderReview
      <3>2. t = Changed(Op(g))
        BY <1>2, <1>7, <2>1
      <3>3. QED
        BY <1>2, <3>1, <3>2 DEF Changed
    <2>3. QED
      BY <1>4, <1>5, <2>2 DEF Tree
  <1>10. \A b \in R : /\ b[1] \notin {"review", "cycle", "ask", "redo", "merge"}
                      /\ b[1] = "mark" => b[3] = "running"
    <2>1. ASSUME NEW b \in R, Moves(b), b[1] # "check" PROVE b[1] = "mark" /\ b[3] = "running"
      <3>1. \A k, s : AddRedo(n) # Mark(k, s) /\ AddRedo(n) # History(k)
        BY DEF AddRedo, Mark, History
      <3>2. Before(AddRedo(n), b) /\ AddRedo(n)[1] = "redo"
        BY <1>3, <1>6 DEF AddRedo
      <3>3. QED
        BY <2>1, <3>1, <3>2, MovesAfter
    <2>2. QED
      BY <2>1 DEF Moves
  <1>11. /\ \A m : Mark(m, "complete") \notin R /\ Mark(m, "complete") \notin H
         /\ \A m, s : Mark(m, s) \in H <=> Mark(m, s) \in R
         /\ \A m : Merge(m) \notin R /\ Merge(m) \notin H
         /\ \A m : AddRedo(m) \in H <=> m = n
         /\ \A m : AddRedo(m) \notin R
         /\ \A k : Check(k) \in H <=> Check(k) \in R
    BY <1>7, <1>10 DEF Mark, Merge, AddRedo, Check
  <1>12. Mark(n, "running") \in R
    BY <1>3, <1>8, <1>11 DEF Paired
  <1>13. /\ \A m : Live(m, R, Calm) <=> m \notin Calm
         /\ \A m : m # n => (Live(m, H, Calm) <=> Live(m, R, Calm))
         /\ Live(n, H, Calm)
    <2>1. \A b \in R : \A m : ~Carries(b, m)
      BY <1>10, <1>11 DEF Carries
    <2>2. Carries(AddRedo(n), n) /\ \A m : m # n => ~Carries(AddRedo(n), m)
      BY Carried
    <2>3. QED
      BY <1>7, <2>1, <2>2 DEF Live
  <1>14. Paired(R)
    <2>1. \A op \in R : op[1] = "mark" => op[3] \in {"running", "complete"}
      BY <1>10
    <2>2. \A op \in R : op[1] # "cycle"
      BY <1>10
    <2>3. QED
      BY <1>11, <2>1, <2>2 DEF Paired
  <1>15. ASSUME NEW m \in Milestones PROVE Course(m, R, t, Calm, merged[m])
    <2>1. Course(m, H, tree, Calm, merged[m])
      BY <1>8
    <2>2. m \in Nodes /\ t.st[m] = tree.st[m] /\ Below(m) \subseteq Nodes
      BY <1>5, <1>9, Kinds DEF Reviewed, Below
    <2>3. CASE m = n
      <3>1. x \in Below(m) /\ t.st[x] = "pending"
        BY <1>5, <1>9, <2>3, Kinds DEF Below
      <3>2. ~AllDone(m, t) /\ tree.st[m] = "reviewing"
        BY <1>3, <2>3, <3>1 DEF AllDone, UnderReview
      <3>3. QED
        BY <1>3, <1>11, <1>12, <1>13, <2>1, <2>2, <2>3, <3>2 DEF Course
    <2>4. CASE m # n
      <3>1. \A k \in Below(m) : t.st[k] = tree.st[k]
        BY <1>5, <1>9, <2>2, <2>4 DEF Below
      <3>2. AllDone(m, t) <=> AllDone(m, tree)
        BY <3>1 DEF AllDone
      <3>3. QED
        BY <1>11, <1>13, <2>1, <2>2, <2>4, <3>1, <3>2 DEF Course
    <2>5. QED
      BY <2>3, <2>4
  <1>16. OnCourse(R, t, Calm, merged)
    BY <1>14, <1>15 DEF OnCourse
  <1>17. Calm' = Calm
    BY DEF Calm
  <1>18. QED
    BY <1>6, <1>7, <1>16, <1>17 DEF Courses

\* The tree is read, and written at once.
LEMMA TreeCourse ==
    ASSUME IInv, Flow, Courses, NEW g \in Goroutines, ReadTree(g)
    PROVE  Courses'
  <1>1. PICK what \in {"mark", "cycle", "redo", "touch"} : Doing(g, what)
    BY DEF ReadTree
  <1>2. /\ Alone(g) /\ Op(g)[1] = what /\ todo[g] # <<>>
    BY <1>1, OpFits DEF Alone
  <1>3. /\ tree' = IF Present(Op(g)[2]) THEN Changed(Op(g)) ELSE tree
        /\ Done(g)
        /\ UNCHANGED <<unsent, jobs, queue, reviewers, merged>>
    BY <1>2 DEF ReadTree, proxy
  <1>4. CASE what = "touch"
    <2>1. tree' = tree
      BY <1>2, <1>3, <1>4 DEF Changed
    <2>2. Replace(g, <<>>) /\ <<>> \in Seq(Ops) /\ DOMAIN <<>> = {}
      BY <1>3, EmptySeq DEF Done
    <2>3. ~Moves(Op(g)) /\ unsent' = {} /\ Calm' = Calm
      BY <1>2, <1>3, <1>4 DEF Moves, Courses, Calm
    <2>4. QED
      BY <1>2, <1>3, <2>1, <2>2, <2>3, AsideStep
  <1>5. QED
    BY <1>1, <1>3, <1>4, MarkCourse, CycleCourse, RedoCourse

-----------------------------------------------------------------------------
\* The other steps

\* A goroutine does something else.
LEMMA AsideOne ==
    ASSUME IInv, Flow, Courses, NEW g \in Goroutines, todo[g] # <<>>,
           NEW ops, ops = <<>> \/ \E a \in Ops : ops = <<a>> /\ ~Moves(a), Replace(g, ops),
           UNCHANGED <<tree, merged, unsent, reviewers, jobs, queue>>, ~Moves(Op(g))
    PROVE  Courses'
  <1>1. ops \in Seq(Ops) /\ \A i \in DOMAIN ops : ~Moves(ops[i])
    <2>1. CASE ops = <<>>
      BY <2>1, EmptySeq
    <2>2. ASSUME NEW a \in Ops, ops = <<a>>, ~Moves(a)
          PROVE  ops \in Seq(Ops) /\ \A i \in DOMAIN ops : ~Moves(ops[i])
      BY <2>2, GoodSeqs
    <2>3. QED
      BY <2>1, <2>2
  <1>2. unsent' = {} /\ Calm' = Calm
    BY DEF Courses, Calm
  <1>3. QED
    BY <1>1, <1>2, AsideStep

LEMMA SideCourse ==
    ASSUME IInv, Flow, Courses, NEW g \in Goroutines,
           \/ ReadOccupied(g) \/ WriteOccupied(g) \/ WriteTree(g)
           \/ SaveHistories(g) \/ SaveFrontiers(g) \/ OpenHistories(g) \/ BuildHistory(g)
    PROVE  Courses'
  <1>1. CASE WriteOccupied(g) \/ WriteTree(g)
    <2>1. PICK what \in {"put", "putOccupied"} : Doing(g, what)
      BY <1>1 DEF WriteOccupied, WriteTree
    <2>2. QED
      BY <2>1, OpFits DEF Fits
  <1>2. CASE ReadOccupied(g)
    <2>1. PICK what \in {"occupy", "release"} : Doing(g, what)
      BY <1>2 DEF ReadOccupied
    <2>2. Alone(g) /\ Op(g)[1] = what /\ todo[g] # <<>>
      BY <2>1, OpFits DEF Alone
    <2>3. Replace(g, <<>>)
      BY <1>2, <2>2 DEF ReadOccupied, Done
    <2>4. QED
      BY <1>2, <2>2, <2>3, AsideOne DEF ReadOccupied, proxy, Moves
  <1>3. CASE SaveHistories(g)
    <2>1. Op(g)[1] = "prepare" /\ todo[g] # <<>>
      BY <1>3, OpFits DEF SaveHistories
    <2> DEFINE a == <<"frontiers">>
    <2>2. a \in Ops /\ ~Moves(a) /\ Replace(g, <<a>>)
      BY <1>3, OpsAre DEF SaveHistories, Moves
    <2> HIDE DEF a
    <2>3. QED
      BY <1>3, <2>1, <2>2, AsideOne DEF SaveHistories, proxy, Moves
  <1>4. CASE SaveFrontiers(g) \/ OpenHistories(g) \/ BuildHistory(g)
    <2>1. PICK what \in {"frontiers", "openRecords", "history"} : Doing(g, what)
      BY <1>4 DEF SaveFrontiers, OpenHistories, BuildHistory
    <2>2. Op(g)[1] = what /\ todo[g] # <<>>
      BY <2>1, OpFits
    <2>3. Replace(g, <<>>) /\ UNCHANGED <<tree, merged, unsent, reviewers, jobs, queue>>
      BY <1>4 DEF SaveFrontiers, OpenHistories, BuildHistory, proxy, Done
    <2>4. QED
      BY <2>1, <2>2, <2>3, AsideOne DEF Moves
  <1>5. QED
    BY <1>1, <1>2, <1>3, <1>4

LEMMA DispatchCourse ==
    ASSUME IInv, Flow, Courses, NEW g \in Goroutines,
           TakeWaiting(g) \/ DispatchOne(g) \/ NextRead(g) \/ NextReview(g) \/ NextPick(g)
    PROVE  Courses'
  <1>1. TypeOK /\ unsent = {}
    BY DEF IInv, Courses
  <1>2. CASE TakeWaiting(g)
    <2> DEFINE a == Dispatch(Tasks, 0)
    <2>1. Op(g)[1] = "dispatchAll" /\ todo[g] # <<>>
      BY <1>2, OpFits DEF TakeWaiting
    <2>2. Replace(g, <<>>) \/ Replace(g, <<a>>)
      BY <1>2 DEF TakeWaiting, Done
    <2>3. a \in Ops /\ ~Moves(a)
      BY OpsAre DEF Dispatch, Moves
    <2> HIDE DEF a
    <2>4. QED
      BY <1>2, <2>1, <2>2, <2>3, AsideOne DEF TakeWaiting, proxy, disk, Moves
  <1>3. CASE DispatchOne(g)
    <2>1. /\ Op(g)[1] = "dispatch" /\ todo[g] # <<>> /\ Op(g) \in Ops
      BY <1>3, OpFits DEF DispatchOne
    <2>2. UNCHANGED <<tree, merged, unsent, queue, jobs, reviewers>>
      BY <1>3 DEF DispatchOne, disk, proxy
    <2>3. CASE Replace(g, <<>>)
      BY <2>1, <2>2, <2>3, AsideOne DEF Moves
    <2>4. ASSUME NEW n \in Op(g)[2],
                 Replace(g, <<Create(n, <<Mark(n, "running"), Mark(Above(n), "running"), Occupy(n)>>),
                              Dispatch(Op(g)[2] \ {n}, Op(g)[3] + 1)>>)
          PROVE  Courses'
      <3> DEFINE then == <<Mark(n, "running"), Mark(Above(n), "running"), Occupy(n)>>
                 a == Create(n, then)
                 d == Dispatch(Op(g)[2] \ {n}, Op(g)[3] + 1)
      <3>1. Op(g)[2] \subseteq Tasks /\ Op(g)[3] \in Nat
        BY <2>1, Operands
      <3>2. n \in Tasks /\ n \in Work /\ Above(n) \in Milestones
        BY <3>1, Kinds DEF Work
      <3>3. then \in Seq(Then)
        <4>1. Mark(n, "running") \in Then /\ Mark(Above(n), "running") \in Then /\ Occupy(n) \in Then
          BY <3>2 DEF Then, Mark, Occupy, Uids, Named, Reviewed
        <4>2. QED
          BY <4>1, GoodSeqs
      <3>4. n \in Named
        BY <3>2 DEF Named
      <3>5. a \in Ops /\ d \in Ops
        <4>1. Op(g)[2] \ {n} \in SUBSET Tasks /\ Op(g)[3] + 1 \in Nat
          BY <3>1
        <4>2. d \in Ops
          BY <4>1, OpsAre
        <4> HIDE DEF then, d
        <4>3. a \in Ops
          BY <3>3, <3>4, OpsAre
        <4>4. QED
          BY <4>2, <4>3
      <3>6. ~Moves(a) /\ ~Moves(d)
        BY DEF Moves, Create, Dispatch
      <3> HIDE DEF a, d
      <3>7. PICK ops : ops = <<a, d>>
        OBVIOUS
      <3>8. ops \in Seq(Ops) /\ \A i \in DOMAIN ops : ~Moves(ops[i])
        BY <3>5, <3>6, <3>7, GoodSeqs
      <3>9. Replace(g, ops)
        <4>1. Replace(g, <<a, d>>)
          BY <2>4 DEF a, d
        <4>2. QED
          BY <3>7, <4>1
      <3>10. ~Moves(Op(g)) /\ unsent' = {} /\ Calm' = Calm
        BY <1>1, <2>1, <2>2 DEF Moves, Calm
      <3>11. QED
        BY <2>1, <2>2, <3>8, <3>9, <3>10, AsideStep
    <2>5. QED
      BY <1>3, <2>3, <2>4 DEF DispatchOne, Done
  <1>4. CASE NextRead(g)
    <2> DEFINE a == <<"retry", unsent, tree>>
    <2>1. /\ Op(g)[1] = "next" /\ todo[g] # <<>> /\ Replace(g, <<a>>)
      BY <1>4, OpFits DEF NextRead
    <2>2. a \in Ops /\ ~Moves(a)
      BY <1>1, OpsAre DEF TypeOK, Moves
    <2> HIDE DEF a
    <2>3. QED
      BY <1>4, <2>1, <2>2, AsideOne DEF NextRead, proxy, disk, Moves
  <1>5. CASE NextReview(g)
    <2>1. /\ Op(g)[1] = "retry" /\ todo[g] # <<>> /\ Op(g) \in Ops /\ Op(g)[2] = {}
      BY <1>1, <1>5, OpFits DEF NextReview, Fits
    <2> DEFINE a == <<"pick", Op(g)[3]>>
    <2>2. Replace(g, <<a>>) /\ UNCHANGED <<tree, merged, unsent, queue, jobs, reviewers>>
      BY <1>5, <2>1 DEF NextReview
    <2>3. Op(g)[3] \in Tree
      BY <2>1, Operands
    <2>4. a \in Ops /\ ~Moves(a)
      BY <2>3, OpsAre DEF Moves
    <2> HIDE DEF a
    <2>5. QED
      BY <2>1, <2>2, <2>4, AsideOne DEF Moves
  <1>6. CASE NextPick(g)
    <2>1. /\ Op(g)[1] = "pick" /\ todo[g] # <<>> /\ ~Moves(Op(g))
          /\ UNCHANGED <<tree, merged, unsent, queue, jobs, reviewers>>
      BY <1>6, OpFits DEF NextPick, Moves, disk, proxy
    <2>2. CASE Replace(g, <<>>)
      BY <2>1, <2>2, AsideOne
    <2>3. ASSUME NEW n \in Work,
                 Replace(g, <<Create(n, <<Mark(n, "running"), Occupy(n)>>
                                        \o (IF Above(n) \in Milestones
                                            THEN <<Mark(Above(n), "running")>> ELSE <<>>))>>)
          PROVE  Courses'
      <3> DEFINE end == IF Above(n) \in Milestones THEN <<Mark(Above(n), "running")>> ELSE <<>>
                 then == <<Mark(n, "running"), Occupy(n)>> \o end
                 a == Create(n, then)
      <3>1. /\ Mark(n, "running") \in Then /\ Occupy(n) \in Then
            /\ Above(n) \in Milestones => Mark(Above(n), "running") \in Then
        BY DEF Then, Mark, Occupy, Uids, Named, Reviewed
      <3>2. then \in Seq(Then)
        <4>1. <<Mark(n, "running"), Occupy(n)>> \in Seq(Then) /\ end \in Seq(Then)
          BY <3>1, GoodSeqs, EmptySeq
        <4> HIDE DEF end
        <4>2. QED
          BY <4>1, ConcatProperties
      <3>3. n \in Named
        BY DEF Named
      <3>4. a \in Ops /\ ~Moves(a) /\ Replace(g, <<a>>)
        BY <2>3, <3>2, <3>3, OpsAre DEF Moves, Create
      <3> HIDE DEF a
      <3>5. QED
        BY <2>1, <3>4, AsideOne
    <2>4. QED
      BY <1>6, <2>2, <2>3 DEF NextPick, Done
  <1>7. QED
    BY <1>2, <1>3, <1>4, <1>5, <1>6

LEMMA LoopCourse ==
    ASSUME IInv, Flow, Courses, SkipInMeeting \/ TriggerMeeting
    PROVE  Courses'
  <1> DEFINE g == "loop"
             a == DispatchNext
  <1>1. g \in Goroutines /\ UNCHANGED <<tree, merged, unsent, reviewers, jobs, queue>>
    BY DEF SkipInMeeting, TriggerMeeting, disk, proxy, Goroutines
  <1>2. PICK what \in {"ifNoMeeting", "trigger"} : Doing(g, what)
    BY DEF SkipInMeeting, TriggerMeeting
  <1>3. todo[g] # <<>> /\ ~Moves(Op(g))
    BY <1>1, <1>2, OpFits DEF Moves
  <1>4. Replace(g, <<>>) \/ Replace(g, <<a>>)
    BY DEF SkipInMeeting, TriggerMeeting
  <1>5. a \in Ops /\ ~Moves(a)
    BY OpsAre DEF DispatchNext, Moves
  <1> HIDE DEF g, a
  <1>6. QED
    BY <1>1, <1>3, <1>4, <1>5, AsideOne

\* A run is started: there is nothing to do yet that matters.
LEMMA StartCourse ==
    ASSUME IInv, Flow, Courses, NEW p \in Paths, Start(p)
    PROVE  Courses'
  <1>1. path = "none" /\ todo \in [Goroutines -> Seq(Ops)]
    BY TodoOps DEF Start
  <1>2. \A g \in Goroutines : todo[g] = <<>>
    BY <1>1 DEF Flow, InSetup, Untouched
  <1>3. UNCHANGED <<tree, merged, unsent, reviewers, jobs, queue>>
    BY DEF Start, disk
  <1>4. Held = {}
    BY <1>2, ElemsOf DEF Held
  <1>5. \A op \in Held' : ~Moves(op)
    <2>1. \A g \in Goroutines :
             \/ todo'[g] = <<>> \/ todo'[g] = <<Prepare, DispatchAll>>
             \/ todo'[g] = <<Dispatch(Tasks, 0)>>
      BY <1>1, <1>2 DEF Start, Begin
    <2>2. ~Moves(Prepare) /\ ~Moves(DispatchAll) /\ ~Moves(Dispatch(Tasks, 0))
      BY DEF Moves, Prepare, DispatchAll, Dispatch
    <2>3. /\ Elems(<<Prepare, DispatchAll>>) = {Prepare, DispatchAll}
          /\ Elems(<<Dispatch(Tasks, 0)>>) = {Dispatch(Tasks, 0)}
          /\ Elems(<<>>) = {}
      BY ElemsOf
    <2>4. ASSUME NEW g \in Goroutines
          PROVE  Elems(todo'[g]) \in {{Prepare, DispatchAll}, {Dispatch(Tasks, 0)}, {}}
      BY <2>1, <2>3
    <2>5. \A g \in Goroutines : \A op \in Elems(todo'[g]) : ~Moves(op)
      BY <2>2, <2>4
    <2>6. QED
      BY <2>5 DEF Held
  <1>6. PICK K : K = Held'
    OBVIOUS
  <1>7. OnCourse(K, tree, Calm, merged)
    BY <1>4, <1>5, <1>6, OnCourseSame DEF Courses
  <1>8. Calm' = Calm
    BY <1>3 DEF Calm
  <1>9. QED
    BY <1>3, <1>6, <1>7, <1>8 DEF Courses

\* No goroutine takes part.
LEMMA NewsCourse ==
    ASSUME IInv, Flow, Courses,
           \/ \E j \in Jobs : JobDone(j)
           \/ \E n \in Named : AgentEnds(n)
           \/ \E n \in Reviewed : ReviewerEnds(n)
           \/ MeetingOver \/ AddAgent \/ UNCHANGED vars
    PROVE  Courses'
  <1>1. UNCHANGED <<todo, tree, merged, unsent>>
    BY DEF JobDone, AgentEnds, ReviewerEnds, MeetingOver, AddAgent, vars, disk, proxy
  <1>2. Calm' = Calm
    <2>1. CASE UNCHANGED vars
      BY <2>1 DEF vars, disk, proxy, Calm
    <2>2. QED
      BY <2>1, JobDoneFlow, AgentEndsFlow, ReviewerEndsFlow, AgentsFlow
  <1>3. Held' = Held
    BY <1>1 DEF Held
  <1>4. QED
    BY <1>1, <1>2, <1>3 DEF Courses

\* Operations for something else than a milestone come in.
LEMMA ComeIn ==
    ASSUME NEW K, NEW t, NEW calm, NEW d, OnCourse({}, t, calm, d), Paired(K),
           \A m \in Milestones : /\ \A op \in K : ~Carries(op, m)
                                 /\ Merge(m) \notin K /\ \A s : Mark(m, s) \notin K
    PROVE  OnCourse(K, t, calm, d)
  <1> SUFFICES ASSUME NEW m \in Milestones PROVE Course(m, K, t, calm, d[m])
    BY DEF OnCourse
  <1>1. PICK H : H = {}
    OBVIOUS
  <1>2. Course(m, H, t, calm, d[m])
    BY <1>1 DEF OnCourse
  <1>3. /\ Live(m, H, calm) <=> Live(m, K, calm)
        /\ Merge(m) \notin K /\ Merge(m) \notin H /\ \A s : Mark(m, s) \notin K /\ Mark(m, s) \notin H
        /\ \A k : Check(k) \notin H
    BY <1>1 DEF Live
  <1>4. QED
    BY <1>2, <1>3 DEF Course

\* What the loop does for an agent that has ended.
LEMMA EndedElems ==
    ASSUME NEW e \in Event, e.kind \in AgentKinds
    PROVE  LET E == Elems(Handler(e)) IN
           /\ Paired(E)
           /\ \A m \in Milestones : /\ \A op \in E : ~Carries(op, m)
                                    /\ Merge(m) \notin E /\ \A s : Mark(m, s) \notin E
  <1> DEFINE n == e.node
             E == Elems(Handler(e))
  <1>1. n \notin Milestones /\ Proposal \notin Work
    BY UidsDiffer, TreeAssumption DEF Event, AgentKinds, Named, Reviewed, Work
  <1>2. PICK s, b, c, d :
           /\ Handler(e) = <<Mark(n, s), b, c, d>>
           /\ {b[1], c[1], d[1]} \subseteq
                 {"dispatchAll", "openRecords", "release", "check", "ifNoMeeting", "trigger", "next"}
           /\ s = "complete" /\ n # Proposal => c = Check(n)
    <2>1. CASE e.kind = "completed" /\ n = Proposal
      <3>1. Handler(e) = <<Mark(n, "complete"), DispatchAll, OpenRecords, Release(n)>>
        BY <2>1 DEF Handler, OnCompleted
      <3>2. DispatchAll[1] = "dispatchAll" /\ OpenRecords[1] = "openRecords" /\ Release(n)[1] = "release"
        BY DEF DispatchAll, OpenRecords, Release
      <3>3. QED
        BY <2>1, <3>1, <3>2
    <2>2. CASE e.kind = "completed" /\ n # Proposal
      <3>1. Handler(e) = <<Mark(n, "complete"), Release(n), Check(n), IfNoMeeting>>
        BY <2>2 DEF Handler, OnCompleted
      <3>2. Release(n)[1] = "release" /\ Check(n)[1] = "check" /\ IfNoMeeting[1] = "ifNoMeeting"
        BY DEF Check, IfNoMeeting, Release
      <3>3. QED
        BY <3>1, <3>2
    <2>3. CASE e.kind = "failed"
      <3>1. Handler(e) = <<Mark(n, "error"), Release(n), Check(n), Trigger(n)>>
        BY <2>3 DEF Handler
      <3>2. Release(n)[1] = "release" /\ Check(n)[1] = "check" /\ Trigger(n)[1] = "trigger"
        BY DEF Check, Trigger, Release
      <3>3. QED
        BY <3>1, <3>2
    <2>4. CASE e.kind = "errored"
      <3>1. Handler(e) = <<Mark(n, "error"), Release(n), Check(n), DispatchNext>>
        BY <2>4 DEF Handler
      <3>2. Release(n)[1] = "release" /\ Check(n)[1] = "check" /\ DispatchNext[1] = "next"
        BY DEF Check, DispatchNext, Release
      <3>3. QED
        BY <3>1, <3>2
    <2>5. QED
      BY <2>1, <2>2, <2>3, <2>4 DEF AgentKinds
  <1>3. E = {Mark(n, s), b, c, d}
    <2>1. Elems(<<Mark(n, s), b, c, d>>) = {Mark(n, s), b, c, d}
      BY ElemsOf
    <2>2. QED
      BY <1>2, <2>1
  <1> HIDE DEF E, n
  <1>4. \A op \in E : \/ op = Mark(n, s)
                      \/ op[1] \notin {"mark", "cycle", "review", "ask", "redo", "merge"}
    BY <1>2, <1>3
  <1>5. /\ \A k, x : Mark(k, x) \in E => k = n /\ x = s
        /\ \A k : Merge(k) \notin E /\ AddRedo(k) \notin E
        /\ \A op \in E : op[1] = "mark" => op[2] = n
        /\ \A op \in E : op[1] # "cycle"
    BY <1>4 DEF Mark, Merge, AddRedo
  <1>6. \A op \in E, m \in Milestones : ~Carries(op, m)
    BY <1>1, <1>4, <1>5, Carried DEF Carries
  <1>7. \A k \in Work : Mark(k, "complete") \in E => Check(k) \in E
    BY <1>1, <1>2, <1>3, <1>5
  <1>8. Paired(E)
    BY <1>1, <1>5, <1>7 DEF Paired
  <1>9. QED
    BY <1>1, <1>5, <1>6, <1>8 DEF E

LEMMA HandlerOps ==
    ASSUME NEW e \in Event
    PROVE  Handler(e) \in Seq(Ops) /\ (e.kind = "completed" => SumUp(e.node) \in Seq(Ops))
  <1> DEFINE r == Uids
  <1>1. e.node \in r
    BY TreeAssumption DEF Event, Uids, Named, Work
  <1>2. Tasks \subseteq r
    BY DEF Uids, Named, Work
  <1>3. e \in Told(r)
    BY <1>2 DEF Told, Ready
  <1>4. Good(r) \subseteq Ops
    BY DEF Good
  <1> HIDE DEF r
  <1>5. /\ Handler(e) \in Seq(Good(r))
        /\ e.kind = "completed" => SumUp(e.node) \in Seq(Good(r))
    BY <1>1, <1>3, HandlerType
  <1>6. QED
    BY <1>4, <1>5, SeqMonotonic

\* The loop approves the node of a review that has ended.
LEMMA ApproveCourse ==
    ASSUME NEW n \in Reviewed, NEW t, NEW calm, NEW calm2, NEW d, OnCourse({}, t, calm, d),
           n \notin calm, \A m \in Reviewed \ {n} : m \in calm <=> m \in calm2
    PROVE  OnCourse(Elems(Approve(n)) \cup {DispatchNext}, t, calm2, d)
  <1>1. PICK H : H = {}
    OBVIOUS
  <1>2. PICK E : E = Elems(Approve(n))
    OBVIOUS
  <1>3. PICK R : R = {DispatchNext}
    OBVIOUS
  <1>4. /\ OnCourse(H, t, calm, d) /\ Live(n, H, calm)
        /\ \A m \in Milestones \ {n} : Live(m, H, calm) => m \notin calm
        /\ \A m, s : Mark(m, s) \notin H
        /\ \A m : Merge(m) \notin H
        /\ \A k : Check(k) \in H => Check(k) \in R
    BY <1>1 DEF Live
  <1>5. OnlyChecks(R)
    BY <1>3 DEF OnlyChecks, Moves, DispatchNext
  <1>6. /\ Paired(E) /\ Live(n, E, calm2)
        /\ \A m : m # n => (Live(m, E, calm2) <=> m \notin calm2)
        /\ \A m : m # n => Merge(m) \notin E /\ \A s : Mark(m, s) \notin E
        /\ Mark(n, "running") \notin E
        /\ n \in Milestones => Merge(n) \in E /\ Mark(n, "complete") \in E
    BY <1>2, ApproveElems
  <1>7. \A m \in Milestones \ {n} : Live(m, E, calm2) <=> m \notin calm
    BY <1>6 DEF Reviewed
  <1>8. OnCourse(E \cup R, t, calm2, d)
    BY <1>4, <1>5, <1>6, <1>7, TakeUp
  <1>9. QED
    BY <1>2, <1>3, <1>8

\* Or it takes up again what has to be done over.
LEMMA ReturnCourse ==
    ASSUME NEW n \in Reviewed, NEW t, NEW calm, NEW calm2, NEW d, OnCourse({}, t, calm, d),
           n \notin calm, \A m \in Reviewed \ {n} : m \in calm <=> m \in calm2
    PROVE  OnCourse({AddRedo(n), Mark(n, "running"), Redispatch, DispatchNext}, t, calm2, d)
  <1>1. PICK H : H = {}
    OBVIOUS
  <1>2. PICK E : E = {AddRedo(n), Mark(n, "running")}
    OBVIOUS
  <1>3. PICK R : R = {Redispatch, DispatchNext}
    OBVIOUS
  <1>4. /\ OnCourse(H, t, calm, d) /\ Live(n, H, calm)
        /\ \A m \in Milestones \ {n} : Live(m, H, calm) => m \notin calm
        /\ \A m, s : Mark(m, s) \notin H
        /\ \A m : Merge(m) \notin H
        /\ \A k : Check(k) \in H => Check(k) \in R
    BY <1>1 DEF Live
  <1>5. OnlyChecks(R)
    BY <1>3 DEF OnlyChecks, Moves, DispatchNext, Redispatch, Create
  <1>6. /\ Paired(E) /\ Live(n, E, calm2)
        /\ \A m : m # n => (Live(m, E, calm2) <=> m \notin calm2)
        /\ \A m : m # n => Merge(m) \notin E /\ \A s : Mark(m, s) \notin E
        /\ AddRedo(n) \in E /\ Merge(n) \notin E /\ Mark(n, "complete") \notin E
    BY <1>2, RedoElems
  <1>7. \A m \in Milestones \ {n} : Live(m, E, calm2) <=> m \notin calm
    BY <1>6 DEF Reviewed
  <1>8. OnCourse(E \cup R, t, calm2, d)
    BY <1>4, <1>5, <1>6, <1>7, TakeUp
  <1>9. E \cup R = {AddRedo(n), Mark(n, "running"), Redispatch, DispatchNext}
    BY <1>2, <1>3
  <1>10. QED
    BY <1>8, <1>9

\* The loop takes an event.
LEMMA HandleCourse == ASSUME IInv, Flow, Courses, Prompt', Handle PROVE Courses'
  <1>1. TypeOK /\ queue \in Seq(Event) /\ queue # <<>>
    BY DEF IInv, TypeOK, Handle
  <1>2. todo["starter"] = <<>> /\ todo["loop"] = <<>>
    <2>1. ~Fault("overlap")
      BY <1>1, FaultLast DEF Prompt
    <2>2. NoFault
      BY <2>1 DEF Handle
    <2>3. ~HasFault("overlap")
      BY <2>2 DEF NoFault, Prompt, HasFault
    <2>4. QED
      BY <2>1, <2>2, <2>3 DEF Handle
  <1>3. PICK e : e = Head(queue)
    OBVIOUS
  <1>4. e \in Event /\ queue' = Tail(queue)
    BY <1>1, <1>3, QueueTail DEF Handle
  <1>5. /\ UNCHANGED <<tree, unsent, reviewers, merged>>
        /\ jobs' = IF e.kind \in {"reviewed", "completed"} /\ JobFor(e) \in Jobs
                   THEN [jobs EXCEPT ![JobFor(e)] = @ + 1] ELSE jobs
    BY <1>3 DEF Handle, disk, proxy
  <1>6. \A n \in Reviewed :
           /\ e.kind \in ReviewKinds /\ e.node = n =>
                 /\ n \notin Calm
                 /\ e.kind # "reviewed" <=> n \in Calm'
           /\ n \in Calm => n \in Calm'
           /\ n \in Calm' => n \in Calm \/ (e.kind \in ReviewKinds /\ e.node = n)
    BY <1>1, <1>3, <1>4, <1>5, ReviewTaken
  <1>7. Calm \subseteq Reviewed /\ Calm' \subseteq Reviewed
    BY DEF Calm
  <1> DEFINE more == IF e.kind = "completed" /\ e.node \notin Late THEN SumUp(e.node) ELSE <<>>
  <1>8. Handler(e) \in Seq(Ops) /\ more \in Seq(Ops)
    BY <1>4, HandlerOps, EmptySeq
  <1>9. Begin("loop", Handler(e) \o more)
    BY <1>3 DEF Handle
  <1>10. \A op \in Elems(more) : ~Moves(op)
    <2>1. Elems(SumUp(e.node)) = {Touch(e.node), History(e.node)} /\ Elems(<<>>) = {}
      BY ElemsOf DEF SumUp
    <2>2. ~Moves(Touch(e.node)) /\ ~Moves(History(e.node))
      BY DEF Moves, Touch, History
    <2>3. QED
      BY <2>1, <2>2
  <1>11. e.kind # "completed" => Elems(more) = {}
    BY ElemsOf
  <1> HIDE DEF more
  <1>12. Held = {} /\ Held' = Elems(Handler(e)) \cup Elems(more)
    <2>1. todo \in [Goroutines -> Seq(Ops)]
      BY TodoOps
    <2>2. todo'["loop"] = Handler(e) \o more /\ todo'["starter"] = <<>>
      BY <1>2, <1>9, <2>1 DEF Begin, Goroutines
    <2>3. Elems(Handler(e) \o more) = Elems(Handler(e)) \cup Elems(more)
      <3>1. \A x, y \in Seq(Ops) : Elems(x \o y) = Elems(x) \cup Elems(y)
        BY ElemsConcat
      <3>2. QED
        BY <1>8, <3>1
    <2>4. Elems(<<>>) = {}
      BY ElemsOf
    <2>5. QED
      BY <1>2, <2>2, <2>3, <2>4 DEF Held, Goroutines
  <1>13. PICK K, calm : K = Held' /\ calm = Calm'
    OBVIOUS
  <1>14. OnCourse({}, tree, Calm, merged) /\ unsent = {}
    BY <1>12 DEF Courses
  <1>15. OnCourse(K, tree, calm, merged)
    <2>1. CASE e.kind \in {"reviewFailed", "approved", "needsWork"}
      <3>1. /\ e.node \in Reviewed /\ e.node \notin Calm
            /\ \A m \in Reviewed \ {e.node} : m \in Calm <=> m \in calm
        BY <1>4, <1>6, <1>13, <2>1 DEF Event, ReviewKinds
      <3>2. CASE e.kind = "needsWork"
        <4>1. Handler(e) = <<AddRedo(e.node), Mark(e.node, "running"), Redispatch, DispatchNext>>
          BY <3>2 DEF Handler
        <4>2. Elems(Handler(e)) = {AddRedo(e.node), Mark(e.node, "running"), Redispatch, DispatchNext}
          BY <4>1, ElemsOf
        <4>3. K = {AddRedo(e.node), Mark(e.node, "running"), Redispatch, DispatchNext}
          BY <1>11, <1>12, <1>13, <3>2, <4>2
        <4>4. QED
          BY <1>14, <3>1, <4>3, ReturnCourse
      <3>3. CASE e.kind # "needsWork"
        <4>1. Handler(e) = Approve(e.node) \o <<DispatchNext>>
          BY <2>1, <3>3 DEF Handler
        <4>2. Approve(e.node) \in Seq(Ops) /\ <<DispatchNext>> \in Seq(Ops)
          <5>1. /\ Mark(e.node, "complete") \in Ops /\ History(e.node) \in Ops /\ Check(e.node) \in Ops
                /\ e.node \in Milestones => Merge(e.node) \in Ops
                /\ DispatchNext \in Ops
            BY <3>1, OpsAre DEF Status, Uids, Nodes
          <5>2. QED
            BY <5>1, GoodSeqs, EmptySeq DEF Approve
        <4>3. Elems(Approve(e.node) \o <<DispatchNext>>)
                 = Elems(Approve(e.node)) \cup Elems(<<DispatchNext>>)
          <5>1. \A x, y \in Seq(Ops) : Elems(x \o y) = Elems(x) \cup Elems(y)
            BY ElemsConcat
          <5>2. QED
            BY <4>2, <5>1
        <4>4. Elems(<<DispatchNext>>) = {DispatchNext}
          BY ElemsOf
        <4>5. K = Elems(Approve(e.node)) \cup {DispatchNext}
          BY <1>11, <1>12, <1>13, <2>1, <4>1, <4>3, <4>4
        <4>6. QED
          BY <1>14, <3>1, <4>5, ApproveCourse
      <3>4. QED
        BY <3>2, <3>3
    <2>2. CASE e.kind \in AgentKinds
      <3>1. calm = Calm
        BY <1>6, <1>7, <1>13, <2>2 DEF AgentKinds, ReviewKinds
      <3>2. PICK E : E = Elems(Handler(e))
        OBVIOUS
      <3>3. /\ Paired(E)
            /\ \A m \in Milestones : /\ \A op \in E : ~Carries(op, m)
                                     /\ Merge(m) \notin E /\ \A s : Mark(m, s) \notin E
        BY <1>4, <2>2, <3>2, EndedElems
      <3>4. OnCourse(E, tree, calm, merged)
        BY <1>14, <3>1, <3>3, ComeIn
      <3>5. \A op : Moves(op) => (op \in E <=> op \in K)
        BY <1>10, <1>12, <1>13, <3>2
      <3>6. QED
        BY <3>4, <3>5, OnCourseSame
    <2>3. CASE e.kind \in {"reviewed", "summarized"}
      <3>1. calm = Calm
        <4>1. e.kind = "reviewed" => e.node \in Reviewed
          BY <1>4 DEF Event
        <4>2. QED
          BY <1>6, <1>7, <1>13, <2>3, <4>1 DEF ReviewKinds
      <3>2. \A op \in Elems(Handler(e)) : ~Moves(op)
        <4>1. Handler(e) = <<>> \/ Handler(e) = <<Touch(e.node), History(e.node)>>
          BY <2>3 DEF Handler, SumUp
        <4>2. Elems(<<Touch(e.node), History(e.node)>>) = {Touch(e.node), History(e.node)}
              /\ Elems(<<>>) = {}
          BY ElemsOf
        <4>3. ~Moves(Touch(e.node)) /\ ~Moves(History(e.node))
          BY DEF Moves, Touch, History
        <4>4. QED
          BY <4>1, <4>2, <4>3
      <3>3. PICK H : H = {}
        OBVIOUS
      <3>4. \A op : Moves(op) => (op \in H <=> op \in K)
        BY <1>10, <1>12, <1>13, <3>2, <3>3
      <3>5. OnCourse(H, tree, calm, merged)
        BY <1>14, <3>1, <3>3
      <3>6. QED
        BY <3>4, <3>5, OnCourseSame
    <2>4. QED
      BY <1>4, <2>1, <2>2, <2>3 DEF Event, AgentKinds
  <1>16. QED
    BY <1>5, <1>13, <1>14, <1>15 DEF Courses

-----------------------------------------------------------------------------
\* The theorems

\* At first no node is complete, and nothing is due.
LEMMA InitCourse == Init => Courses
  <1> SUFFICES ASSUME Init PROVE Courses
    OBVIOUS
  <1>1. Flow
    BY InitFlow
  <1>2. Held = {} /\ unsent = {}
    BY ElemsOf DEF Init, Held
  <1>3. \A n \in Reviewed : n \in Calm
    <2>1. \A n \in Reviewed : <<"review", n>> \in Jobs /\ About(n, queue) = {}
      BY DEF Init, Jobs, About
    <2>2. QED
      BY <2>1 DEF Init, Calm, Quiet
  <1>4. /\ \A n \in Nodes : tree.st[n] = IF n \in Extras THEN "absent" ELSE "pending"
        /\ \A m \in Milestones : m \in Nodes \ Extras /\ m \in Reviewed /\ merged[m] = 0
    BY UidsDiffer DEF Init, Reviewed, Nodes
  <1>5. PICK H, calm, t : H = {} /\ calm = Calm /\ t = tree
    OBVIOUS
  <1>6. Paired(H)
    BY <1>5 DEF Paired
  <1>7. ASSUME NEW m \in Milestones PROVE Course(m, H, t, calm, merged[m])
    <2>1. ~Live(m, H, calm) /\ t.st[m] = "pending" /\ merged[m] = 0
      BY <1>3, <1>4, <1>5, <1>7 DEF Live
    <2>2. AllDone(m, t) => \A k \in Below(m) : t.st[k] = "absent"
      BY <1>4, <1>5 DEF AllDone, Below
    <2>3. QED
      BY <1>5, <2>1, <2>2 DEF Course
  <1>8. OnCourse(H, t, calm, merged)
    BY <1>6, <1>7 DEF OnCourse
  <1>9. QED
    BY <1>2, <1>5, <1>8 DEF Courses

\* Every step of such a run keeps the milestones on their course.
LEMMA CourseStep == ASSUME IInv, Flow, Courses, [Next]_vars, Prompt' PROVE Courses'
  <1>1. ASSUME NEW g \in Goroutines, Step(g) PROVE Courses'
    BY <1>1, TreeCourse, SideCourse, DispatchCourse, CreateCourse, CheckCourse, BeginCourse,
       AskCourse, MergeCourse
       DEF Step
  <1>2. CASE LoopStep
    BY <1>1, <1>2, HandleCourse, LoopCourse DEF LoopStep, Goroutines
  <1>3. CASE Step("starter")
    BY <1>1, <1>3 DEF Goroutines
  <1>4. CASE \E p \in Paths : Start(p)
    BY <1>4, StartCourse
  <1>5. QED
    BY <1>2, <1>3, <1>4, NewsCourse DEF Next

\* While commands are answered and the goroutines take turns, every milestone
\* keeps its course: it is not complete while a review of it is under way or
\* work is left to start, a check or a review is due once all below it is
\* complete, and it is merged once when it is complete, however often agents
\* and reviews fail and whatever reviews add (checkMilestoneCompletion,
\* dispatchNodeReview, applyReviewDecision, completeNode).
THEOREM CourseCorrect == Spec => [](Prompt => Courses)
  <1>1. Init => IInv /\ (Orderly => Flow) /\ (Prompt => Courses)
    BY InitInv, InitFlow, InitCourse
  <1>2. /\ IInv /\ (Orderly => Flow) /\ (Prompt => Courses) /\ [Next]_vars
        => (Prompt => Courses)'
    <2> SUFFICES ASSUME IInv, Orderly => Flow, Prompt => Courses, [Next]_vars, Prompt'
                 PROVE  Courses'
      OBVIOUS
    <2>1. Prompt
      BY FaultsKept DEF IInv, Prompt, Answers
    <2>2. Orderly
      BY <2>1 DEF Orderly, Prompt, Answers
    <2>3. QED
      BY <2>1, <2>2, CourseStep
  <1>3. Spec => [](Orderly => Flow)
    BY FlowCorrect
  <1>4. QED
    BY <1>1, <1>2, <1>3, InitInv, NextInv, PTL DEF Spec

\* When such a run has come to rest, each milestone that has tasks, all of them
\* complete, is complete itself, and was merged into main once: its review is
\* never forgotten, left hanging or done twice (checkMilestoneCompletion,
\* MergeMilestoneToMain).
THEOREM MergedOnceCorrect ==
    Spec => [](AtRest /\ Prompt =>
                  \A m \in Milestones : Children(m) # {} /\ AllComplete(m)
                                          => tree.st[m] = "complete" /\ merged[m] = 1)
  <1>1. ASSUME Courses, AtRest, NEW m \in Milestones, Children(m) # {}, AllComplete(m)
        PROVE  tree.st[m] = "complete" /\ merged[m] = 1
    <2>1. Held = {}
      BY <1>1, ElemsOf DEF Held, AtRest
    <2>2. \A n \in Reviewed : <<"review", n>> \in Jobs /\ About(n, queue) = {}
      BY <1>1 DEF AtRest, Jobs, About
    <2>3. m \in Calm
      BY <1>1, <2>2 DEF Calm, Quiet, AtRest, Courses, Reviewed
    <2>4. PICK H : H = {}
      OBVIOUS
    <2>5. Course(m, H, tree, Calm, merged[m])
      BY <1>1, <2>1, <2>4 DEF Courses, OnCourse
    <2>6. ~Live(m, H, Calm) /\ Merge(m) \notin H /\ \A k : Check(k) \notin H
      BY <2>3, <2>4 DEF Live
    <2>7. Below(m) \subseteq Nodes /\ m # Proposal
      BY UidsDiffer DEF Below
    <2>8. AllDone(m, tree)
      BY <1>1, <2>7 DEF AllComplete, Children, Present, AllDone
    <2>9. ~\A k \in Below(m) : tree.st[k] = "absent"
      BY <1>1, <2>7 DEF Children, Present
    <2>10. tree.st[m] = "complete"
      BY <2>5, <2>6, <2>8, <2>9 DEF Course
    <2>11. QED
      BY <2>5, <2>6, <2>10 DEF Course
  <1>2. (Prompt => Courses) =>
           (AtRest /\ Prompt =>
               \A m \in Milestones : Children(m) # {} /\ AllComplete(m)
                                       => tree.st[m] = "complete" /\ merged[m] = 1)
    BY <1>1
  <1>3. QED
    BY <1>2, CourseCorrect, PTL

-----------------------------------------------------------------------------
(***************************************************************************)
(* The work on a tree, for runs in which nothing goes wrong: while a task  *)
(* is pending, something under way will have it dispatched.                *)
(***************************************************************************)
Smooth == faults = <<>>

\* Nodes that an agent works on, or whose completion is not taken notice of.
Busy == {n \in Named : \/ agents[n] > 0
                       \/ \E i \in DOMAIN queue : queue[i].kind = "completed" /\ queue[i].node = n}

\* Operations that come to dispatching tasks.
Drives(op) == \/ op[1] \in {"next", "ifNoMeeting", "retry", "pick", "create", "dispatchAll"}
              \/ op[1] = "dispatch" /\ op[3] = 0

\* The reviews have not added anything to tree t yet.
Bare(t) == \A k \in Extras : t.st[k] = "absent"

\* What holds of an operation that is still to be done; w says whether the
\* tasks of the run still wait to be dispatched.
Sane(op, t, w) ==
    /\ op[1] # "trigger"
    /\ op[1] = "mark" => op[3] \in {"running", "complete"}
    /\ op[1] = "dispatchAll" => Bare(t) /\ (Tasks # {} => w)
    /\ op[1] = "dispatch" /\ op[3] = 0 => Bare(t) /\ op[2] = Tasks
    /\ op[1] = "create" => \A i \in DOMAIN op[3] : op[3][i][2] \in Work => op[3][i][2] = op[2]

Planned(H, t, w) ==
    /\ \A op \in H : Sane(op, t, w)
    /\ \A n \in Reviewed : AddRedo(n) \in H => DispatchNext \in H

\* A node at work is busy until it is marked complete; one that is not yet at
\* work is not occupied.
Tended(H, t, occ, busy) ==
    \A k \in Work :
       /\ t.st[k] \in {"absent", "pending", "running", "complete"}
       /\ t.st[k] \in {"absent", "pending"} =>
             k \notin occ /\ (Occupy(k) \in H => Mark(k, "running") \in H)
       /\ t.st[k] = "running" => k \in busy \/ Mark(k, "complete") \in H
       /\ Mark(k, "running") \in H => t.st[k] # "absent" /\ k \in busy

Going(H, p, busy, calm) ==
    p = "none" \/ busy # {} \/ (\E n \in Reviewed : n \notin calm) \/ \E op \in H : Drives(op)

Driven(H, t, p, busy, calm) ==
    (\E k \in Work : t.st[k] = "pending") => Going(H, p, busy, calm)

Working ==
    /\ meeting = {}
    /\ \A i \in DOMAIN queue : queue[i].kind \notin {"failed", "errored", "reviewFailed"}
    /\ InSetup /\ path # "none" => (Tasks # {} => waiting)
    /\ Planned(Held, tree, waiting)
    /\ Tended(Held, tree, occupied, Busy)
    /\ Driven(Held, tree, path, Busy, Calm)

-----------------------------------------------------------------------------
\* Lemmas about the work on a tree

\* When nothing goes wrong, every command is answered.
LEMMA NoFaults ==
    ASSUME TypeOK, Smooth'
    PROVE  /\ \A kind : ~Fault(kind)
           /\ \A ok \in BOOLEAN : Answered(ok) => ok
           /\ [Next]_vars => Smooth
           /\ Prompt' /\ Orderly'
  <1>0. faults \in Seq(Faults)
    BY DEF TypeOK
  <1>1. \A k \in Faults : Append(faults, k) # <<>>
    BY <1>0, AppendProperties
  <1>2. \A kind : ~Fault(kind)
    BY <1>1 DEF Fault, Smooth
  <1>3. \A ok \in BOOLEAN : Answered(ok) => ok
    BY <1>2 DEF Answered
  <1>4. [Next]_vars => Smooth
    BY <1>1, FaultStep DEF Smooth, NoFault
  <1>5. \A kind : ~HasFault(kind)'
    BY DEF Smooth, HasFault
  <1>6. QED
    BY <1>2, <1>3, <1>4, <1>5 DEF Prompt, Answers, Orderly

\* What may not follow.
LEMMA FollowedBy ==
    ASSUME NEW a, NEW b, Before(a, b)
    PROVE  /\ b[1] = "redo" => FALSE
           /\ b[1] = "dispatchAll" => a[1] \in {"prepare", "frontiers", "mark"}
           /\ b[1] = "dispatch" => a[1] \in {"create", "mark", "occupy"}
           /\ b[1] = "mark" => /\ b[2] \in Reviewed
                               /\ a[1] \in {"redo", "occupy", "mark"}
  BY DEF Before, Free, Redispatch, Create, Prepare, Mark

\* The operation at hand is one of those to be done.
LEMMA OpHeld ==
    ASSUME IInv, NEW g \in Goroutines, todo[g] # <<>>
    PROVE  Op(g) \in Held
  <1>1. todo[g] \in Seq(Ops)
    BY TodoOps
  <1>2. 1 \in DOMAIN todo[g] /\ Op(g) = todo[g][1]
    BY <1>1, SeqIs, HeadTailProperties DEF Op
  <1>3. QED
    BY <1>2 DEF Held, Elems

\* A goroutine does something that only it notices.
LEMMA WorkTurn ==
    ASSUME IInv, Flow, Working, NEW g \in Goroutines, todo[g] # <<>>,
           NEW ops \in Seq(Ops), Replace(g, ops), Op(g)[1] # "mark",
           UNCHANGED <<path, tree, waiting, occupied, meeting, queue, agents>>, Calm' \subseteq Calm,
           \A i \in DOMAIN ops : /\ Sane(ops[i], tree, waiting) /\ ops[i][1] \notin {"redo", "occupy"}
                                 /\ ops[i][1] = "mark" => ops[i][2] \notin Work,
           (\E k \in Work : tree.st[k] = "pending") /\ Drives(Op(g))
              => \E i \in DOMAIN ops : Drives(ops[i])
    PROVE  Working'
  <1>1. PICK R \in SUBSET Ops : /\ Held = {Op(g)} \cup R /\ Held' = Elems(ops) \cup R
                                /\ \A b \in R : Before(Op(g), b)
    BY HeldStep
  <1>2. Busy' = Busy
    BY DEF Busy
  <1>3. InSetup' <=> InSetup
    BY DEF InSetup
  <1>4. PICK a, E, H, K, t, w, occ, p, calm, calm2, busy :
           /\ a = Op(g) /\ E = Elems(ops) /\ H = Held /\ K = Held'
           /\ t = tree /\ w = waiting /\ occ = occupied /\ p = path
           /\ calm = Calm /\ calm2 = Calm' /\ busy = Busy
    OBVIOUS
  <1>5. Planned(H, t, w) /\ Tended(H, t, occ, busy) /\ Driven(H, t, p, busy, calm)
    BY <1>4 DEF Working
  <1>6. /\ H = {a} \cup R /\ K = E \cup R /\ a[1] # "mark" /\ \A b \in R : Before(a, b)
        /\ calm2 \subseteq calm
        /\ \A op \in E : /\ Sane(op, t, w) /\ op[1] \notin {"redo", "occupy"}
                         /\ op[1] = "mark" => op[2] \notin Work
        /\ (\E k \in Work : t.st[k] = "pending") /\ Drives(a) => \E op \in E : Drives(op)
    BY <1>1, <1>4 DEF Elems
  <1>7. Planned(K, t, w)
    <2>1. \A op \in K : Sane(op, t, w)
      BY <1>5, <1>6 DEF Planned
    <2>2. \A n : AddRedo(n) \notin K
      BY <1>6, FollowedBy DEF AddRedo
    <2>3. QED
      BY <2>1, <2>2 DEF Planned
  <1>8. Tended(K, t, occ, busy)
    <2>1. \A k \in Work : \A s : Mark(k, s) \notin E /\ Mark(k, s) # a
      BY <1>6 DEF Mark
    <2>2. \A k : Occupy(k) \notin E
      BY <1>6 DEF Occupy
    <2>3. QED
      BY <1>5, <1>6, <2>1, <2>2 DEF Tended
  <1>9. Driven(K, t, p, busy, calm2)
    BY <1>5, <1>6 DEF Driven, Going
  <1>10. /\ Planned(Held, tree, waiting)' /\ Tended(Held, tree, occupied, Busy)'
         /\ Driven(Held, tree, path, Busy, Calm)'
    BY <1>2, <1>4, <1>7, <1>8, <1>9
  <1>11. QED
    BY <1>3, <1>10 DEF Working

\* It comes to do nothing, or one thing more.
LEMMA WorkOne ==
    ASSUME IInv, Flow, Working, NEW g \in Goroutines, todo[g] # <<>>,
           NEW ops, \/ ops = <<>>
                    \/ \E a \in Ops : /\ ops = <<a>> /\ Sane(a, tree, waiting)
                                      /\ a[1] \notin {"redo", "occupy", "mark"}
                                      /\ Drives(Op(g)) => Drives(a),
           Replace(g, ops), Op(g)[1] # "mark",
           ops = <<>> /\ Drives(Op(g)) => \A k \in Work : tree.st[k] # "pending",
           UNCHANGED <<path, tree, waiting, occupied, meeting, queue, agents>>, Calm' \subseteq Calm
    PROVE  Working'
  <1>1. CASE ops = <<>>
    <2>1. ops \in Seq(Ops) /\ DOMAIN ops = {}
      BY <1>1, EmptySeq
    <2>2. QED
      BY <1>1, <2>1, WorkTurn
  <1>2. ASSUME NEW a \in Ops, ops = <<a>>, Sane(a, tree, waiting),
               a[1] \notin {"redo", "occupy", "mark"}, Drives(Op(g)) => Drives(a)
        PROVE  Working'
    <2>1. ops \in Seq(Ops) /\ DOMAIN ops = {1} /\ ops[1] = a
      BY <1>2, GoodSeqs
    <2>2. QED
      BY <1>2, <2>1, WorkTurn
  <1>3. QED
    BY <1>1, <1>2

-----------------------------------------------------------------------------
\* The steps

LEMMA SideWork ==
    ASSUME IInv, Flow, Working, NEW g \in Goroutines,
           \/ SaveHistories(g) \/ SaveFrontiers(g) \/ OpenHistories(g) \/ BuildHistory(g)
           \/ NextRead(g) \/ CheckAbove(g)
    PROVE  Working'
  <1>1. TypeOK
    BY DEF IInv
  <1>2. UNCHANGED <<path, tree, waiting, occupied, meeting, queue, agents, unsent, jobs, reviewers>>
    BY DEF SaveHistories, SaveFrontiers, OpenHistories, BuildHistory, NextRead, CheckAbove, disk, proxy
  <1>3. Calm' \subseteq Calm
    BY <1>2 DEF Calm
  <1>4. CASE SaveFrontiers(g) \/ OpenHistories(g) \/ BuildHistory(g)
    <2>1. PICK what \in {"frontiers", "openRecords", "history"} : Doing(g, what)
      BY <1>4 DEF SaveFrontiers, OpenHistories, BuildHistory
    <2>2. Op(g)[1] = what /\ todo[g] # <<>>
      BY <2>1, OpFits
    <2>3. Replace(g, <<>>)
      BY <1>4 DEF SaveFrontiers, OpenHistories, BuildHistory, Done
    <2>4. ~Drives(Op(g)) /\ Op(g)[1] # "mark"
      BY <2>1, <2>2 DEF Drives
    <2>5. QED
      BY <1>2, <1>3, <2>2, <2>3, <2>4, WorkOne
  <1>5. CASE SaveHistories(g)
    <2> DEFINE a == <<"frontiers">>
    <2>1. Op(g)[1] = "prepare" /\ todo[g] # <<>>
      BY <1>5, OpFits DEF SaveHistories
    <2>2. a \in Ops /\ Sane(a, tree, waiting) /\ a[1] \notin {"redo", "occupy", "mark"} /\ Replace(g, <<a>>)
      BY <1>5, OpsAre DEF SaveHistories, Sane
    <2>3. ~Drives(Op(g)) /\ Op(g)[1] # "mark"
      BY <2>1 DEF Drives
    <2> HIDE DEF a
    <2>4. QED
      BY <1>2, <1>3, <2>1, <2>2, <2>3, WorkOne
  <1>6. CASE NextRead(g)
    <2> DEFINE a == <<"retry", unsent, tree>>
    <2>1. Op(g)[1] = "next" /\ todo[g] # <<>>
      BY <1>6, OpFits DEF NextRead
    <2>2. a \in Ops
      BY <1>1, OpsAre DEF TypeOK
    <2>3. Sane(a, tree, waiting) /\ a[1] \notin {"redo", "occupy", "mark"} /\ Replace(g, <<a>>) /\ Drives(a)
      BY <1>6 DEF NextRead, Sane, Drives
    <2> HIDE DEF a
    <2>4. QED
      BY <1>2, <1>3, <2>1, <2>2, <2>3, WorkOne
  <1>7. CASE CheckAbove(g)
    <2> DEFINE k == Op(g)[2]
               a == Review(Above(k))
    <2>1. /\ Op(g) \in Ops /\ Op(g)[1] = "check" /\ todo[g] # <<>>
      BY <1>7, OpFits DEF CheckAbove
    <2>2. ~Drives(Op(g)) /\ Op(g)[1] # "mark"
      BY <2>1 DEF Drives
    <2>3. Replace(g, <<>>) \/ (Present(k) /\ k # Proposal /\ Replace(g, <<a>>))
      BY <1>7 DEF CheckAbove, Done
    <2>4. CASE Replace(g, <<>>)
      BY <1>2, <1>3, <2>1, <2>2, <2>4, WorkOne
    <2>5. CASE Present(k) /\ k # Proposal /\ Replace(g, <<a>>)
      <3>1. CASE Above(k) \in Reviewed
        <4>1. a \in Ops /\ Sane(a, tree, waiting) /\ a[1] \notin {"redo", "occupy", "mark"}
          BY <3>1, OpsAre DEF Review, Sane
        <4>2. Replace(g, <<a>>)
          BY <2>5
        <4> HIDE DEF a
        <4>3. QED
          BY <1>2, <1>3, <2>1, <2>2, <4>1, <4>2, WorkOne
      <3>2. QED
        BY <2>5, <3>1, AboveUid DEF Present, Nodes, Reviewed
    <2>6. QED
      BY <2>3, <2>4, <2>5
  <1>8. QED
    BY <1>4, <1>5, <1>6, <1>7

LEMMA SendWork ==
    ASSUME IInv, Flow, Courses, Working, Smooth', NEW g \in Goroutines,
           \/ NextReview(g) \/ BeginReview(g) \/ AskReview(g) \/ SendMerge(g)
    PROVE  Working'
  <1>1. TypeOK /\ unsent = {}
    BY DEF IInv, Courses
  <1>2. UNCHANGED <<path, tree, waiting, occupied, meeting, queue, agents, jobs>>
    BY DEF NextReview, BeginReview, AskReview, SendMerge, disk, proxy
  <1>3. CASE NextReview(g)
    <2>1. /\ Op(g)[1] = "retry" /\ todo[g] # <<>> /\ Op(g) \in Ops /\ Op(g)[2] = {}
      BY <1>1, <1>3, OpFits DEF NextReview, Fits
    <2> DEFINE a == <<"pick", Op(g)[3]>>
    <2>2. Replace(g, <<a>>) /\ UNCHANGED <<unsent, reviewers>>
      BY <1>3, <2>1 DEF NextReview
    <2>3. Op(g)[3] \in Tree
      BY <2>1, Operands
    <2>4. /\ a \in Ops /\ Sane(a, tree, waiting) /\ a[1] \notin {"redo", "occupy", "mark"} /\ Drives(a)
      BY <2>3, OpsAre DEF Sane, Drives
    <2>5. Calm' \subseteq Calm
      BY <1>2, <2>2 DEF Calm
    <2> HIDE DEF a
    <2>6. QED
      BY <1>2, <2>1, <2>2, <2>4, <2>5, WorkOne
  <1>4. CASE AskReview(g)
    <2> DEFINE n == Op(g)[2]
    <2>1. /\ Op(g) \in Ops /\ Op(g)[1] = "ask" /\ todo[g] # <<>>
      BY <1>4, OpFits DEF AskReview
    <2>2. n \in Reviewed
      BY <2>1, Operands
    <2>3. unsent' = unsent /\ reviewers' = [reviewers EXCEPT ![n] = @ + 1] /\ Replace(g, <<>>)
      BY <1>1, <1>4, NoFaults DEF AskReview, SendReview, CarriedOut, Done
    <2>4. Calm' \subseteq Calm
      <3>1. reviewers \in [Reviewed -> Nat]
        BY <1>1 DEF TypeOK
      <3>2. \A m \in Reviewed : reviewers'[m] = 0 => reviewers[m] = 0
        BY <2>2, <2>3, <3>1
      <3>3. QED
        BY <1>2, <2>3, <3>2 DEF Calm, Quiet
    <2>5. ~Drives(Op(g)) /\ Op(g)[1] # "mark"
      BY <2>1 DEF Drives
    <2>6. QED
      BY <1>2, <2>1, <2>3, <2>4, <2>5, WorkOne
  <1>5. CASE SendMerge(g)
    <2>1. /\ Op(g)[1] = "merge" /\ todo[g] # <<>>
      BY <1>5, OpFits DEF SendMerge
    <2>2. Replace(g, <<>>) /\ UNCHANGED <<unsent, reviewers>>
      BY <1>5 DEF SendMerge, Done, disk
    <2>3. Calm' \subseteq Calm
      BY <1>2, <2>2 DEF Calm
    <2>4. ~Drives(Op(g)) /\ Op(g)[1] # "mark"
      BY <2>1 DEF Drives
    <2>5. QED
      BY <1>2, <2>1, <2>2, <2>3, <2>4, WorkOne
  <1>6. CASE BeginReview(g)
    <2> DEFINE n == Op(g)[2]
               c == tree.cycle[n]
    <2>1. /\ Op(g) \in Ops /\ Op(g)[1] = "review" /\ todo[g] # <<>>
      BY <1>6, OpFits DEF BeginReview
    <2>2. n \in Reviewed /\ n \notin Work
      BY <2>1, Operands, Kinds
    <2>3. Calm' \subseteq Calm
      BY <1>2, <1>6 DEF Calm, BeginReview, disk, proxy
    <2>4. ~Drives(Op(g)) /\ Op(g)[1] # "mark"
      BY <2>1 DEF Drives
    <2>5. PICK ops : ops = IF c >= MaxReviewCycles THEN Approve(n) ELSE <<Cycle(n, c + 1), Ask(n)>>
      OBVIOUS
    <2>6. Replace(g, ops)
      BY <1>6, <2>5 DEF BeginReview
    <2>7. ops \in Seq(Ops)
      <3>1. c \in 0 .. MaxReviewCycles /\ MaxReviewCycles \in Nat
        BY <1>1, <2>2, TreeAssumption DEF TypeOK, Tree
      <3>2. ~(c >= MaxReviewCycles) => c + 1 \in 1 .. MaxReviewCycles
        BY <3>1
      <3>3. Ask(n) \in Ops /\ (c + 1 \in 1 .. MaxReviewCycles => Cycle(n, c + 1) \in Ops)
        BY <2>2, OpsAre
      <3>4. ~(c >= MaxReviewCycles) => <<Cycle(n, c + 1), Ask(n)>> \in Seq(Ops)
        BY <3>2, <3>3, GoodSeqs
      <3>5. Approve(n) \in Seq(Ops)
        BY <2>2, ApproveFits
      <3>6. QED
        BY <2>5, <3>4, <3>5
    <2>8. ASSUME NEW i \in DOMAIN ops
          PROVE  /\ Sane(ops[i], tree, waiting) /\ ops[i][1] \notin {"redo", "occupy"}
                 /\ ops[i][1] = "mark" => ops[i][2] \notin Work
      <3>1. /\ n \in Milestones =>
                 Approve(n) = <<Mark(n, "complete"), History(n), Merge(n), Check(n)>>
            /\ n \notin Milestones => Approve(n) = <<Mark(n, "complete"), History(n)>>
        BY Concats DEF Approve
      <3>2. ops[i] \in {Mark(n, "complete"), History(n), Merge(n), Check(n), Cycle(n, c + 1), Ask(n)}
        BY <2>5, <3>1
      <3>3. QED
        BY <2>2, <3>2 DEF Sane, Mark, History, Merge, Check, Cycle, Ask
    <2> HIDE DEF n, c
    <2>9. QED
      BY <1>2, <2>1, <2>3, <2>4, <2>6, <2>7, <2>8, WorkTurn
  <1>7. QED
    BY <1>3, <1>4, <1>5, <1>6

\* There is no meeting.
LEMMA LoopWork ==
    ASSUME IInv, Flow, Working, SkipInMeeting \/ TriggerMeeting
    PROVE  Working'
  <1> DEFINE g == "loop"
             a == DispatchNext
  <1>1. g \in Goroutines
    BY DEF Goroutines
  <1>2. PICK what \in {"ifNoMeeting", "trigger"} : Doing(g, what)
    BY DEF SkipInMeeting, TriggerMeeting
  <1>3. todo[g] # <<>> /\ Op(g)[1] = what
    BY <1>1, <1>2, OpFits
  <1>4. Op(g)[1] # "trigger"
    BY <1>1, <1>3, OpHeld DEF Working, Planned, Sane
  <1>5. SkipInMeeting
    BY <1>2, <1>3, <1>4 DEF TriggerMeeting, Doing
  <1>6. UNCHANGED <<path, tree, waiting, occupied, meeting, queue, agents, unsent, jobs, reviewers>>
    BY <1>5 DEF SkipInMeeting, disk, proxy
  <1>7. Replace(g, <<a>>)
    BY <1>5 DEF SkipInMeeting, Working
  <1>8. a \in Ops /\ Sane(a, tree, waiting) /\ a[1] \notin {"redo", "occupy", "mark"} /\ Drives(a)
    BY OpsAre DEF DispatchNext, Sane, Drives
  <1>9. Calm' \subseteq Calm /\ Op(g)[1] # "mark"
    BY <1>3, <1>6 DEF Calm
  <1> HIDE DEF a, g
  <1>10. QED
    BY <1>1, <1>3, <1>6, <1>7, <1>8, <1>9, WorkOne

\* When nobody is at work on a task, one is picked.
LEMMA PickWork ==
    ASSUME IInv, Flow, Courses, Working, NEW g \in Goroutines, DispatchOne(g) \/ NextPick(g)
    PROVE  Working'
  <1>1. UNCHANGED <<path, tree, waiting, occupied, meeting, queue, agents, unsent, jobs, reviewers>>
    BY DEF DispatchOne, NextPick, disk, proxy
  <1>2. Calm' \subseteq Calm
    BY <1>1 DEF Calm
  <1>3. PICK what \in {"dispatch", "pick"} : Doing(g, what)
    BY DEF DispatchOne, NextPick
  <1>4. /\ Op(g) \in Ops /\ Op(g)[1] = what /\ todo[g] # <<>>
        /\ Fits(Op(g), tree, Calm, unsent)
    BY <1>3, OpFits
  <1>5. Op(g) \in Held /\ Sane(Op(g), tree, waiting)
    BY <1>4, OpHeld DEF Working, Planned
  <1>6. CASE DispatchOne(g)
    <2>1. /\ Op(g)[1] = "dispatch" /\ Op(g)[2] \subseteq Tasks /\ Op(g)[3] \in Nat
      BY <1>4, <1>6, OpFits, Operands DEF DispatchOne
    <2>2. CASE Replace(g, <<>>) /\ (Op(g)[2] = {} \/ Op(g)[3] = MaxAgents)
      <3>1. ASSUME Drives(Op(g)), NEW k \in Work, tree.st[k] = "pending" PROVE FALSE
        <4>1. Op(g)[3] = 0 /\ MaxAgents # 0
          BY <2>1, <3>1, TreeAssumption DEF Drives
        <4>2. Tasks = {} /\ Bare(tree)
          BY <1>5, <2>1, <2>2, <4>1 DEF Sane
        <4>3. QED
          BY <3>1, <4>2 DEF Bare, Work
      <3>2. QED
        BY <1>1, <1>2, <1>4, <2>1, <2>2, <3>1, WorkOne
    <2>3. ASSUME NEW n \in Op(g)[2],
                 Replace(g, <<Create(n, <<Mark(n, "running"), Mark(Above(n), "running"), Occupy(n)>>),
                              Dispatch(Op(g)[2] \ {n}, Op(g)[3] + 1)>>)
          PROVE  Working'
      <3> DEFINE then == <<Mark(n, "running"), Mark(Above(n), "running"), Occupy(n)>>
                 a == Create(n, then)
                 d == Dispatch(Op(g)[2] \ {n}, Op(g)[3] + 1)
      <3>1. n \in Tasks /\ n \in Work /\ Above(n) \in Milestones /\ Above(n) \notin Work
        BY <2>1, <2>3, Kinds DEF Work, Reviewed
      <3>2. then \in Seq(Then)
        <4>1. Mark(n, "running") \in Then /\ Mark(Above(n), "running") \in Then /\ Occupy(n) \in Then
          BY <3>1 DEF Then, Mark, Occupy, Uids, Named, Reviewed
        <4>2. QED
          BY <4>1, GoodSeqs
      <3>3. n \in Named /\ Op(g)[2] \ {n} \in SUBSET Tasks /\ Op(g)[3] + 1 \in Nat
        BY <2>1, <3>1 DEF Named
      <3>4. a \in Ops /\ d \in Ops
        <4>1. d \in Ops
          BY <3>3, OpsAre
        <4> HIDE DEF then, d
        <4>2. a \in Ops
          BY <3>2, <3>3, OpsAre
        <4>3. QED
          BY <4>1, <4>2
      <3>5. Sane(a, tree, waiting)
        <4>1. \A i \in DOMAIN then : then[i][2] \in Work => then[i][2] = n
          <5>1. \A i \in DOMAIN then : then[i] \in {Mark(n, "running"), Mark(Above(n), "running"), Occupy(n)}
            OBVIOUS
          <5>2. QED
            BY <3>1, <5>1 DEF Mark, Occupy
        <4>2. a[1] = "create" /\ a[2] = n /\ a[3] = then
          BY DEF Create
        <4> HIDE DEF a, then
        <4>3. QED
          BY <4>1, <4>2 DEF Sane
      <3>6. Sane(d, tree, waiting)
        BY <2>1 DEF Dispatch, Sane
      <3>7. /\ Drives(a) /\ a[1] = "create" /\ d[1] = "dispatch"
        BY DEF Drives, Create, Dispatch
      <3>8. Replace(g, <<a, d>>)
        BY <2>3
      <3> HIDE DEF a, d
      <3>9. PICK ops : ops = <<a, d>>
        OBVIOUS
      <3>10. ops \in Seq(Ops) /\ DOMAIN ops = {1, 2} /\ ops[1] = a /\ ops[2] = d
        BY <3>4, <3>9, GoodSeqs
      <3>11. Replace(g, ops)
        BY <3>8, <3>9
      <3>12. QED
        BY <1>1, <1>2, <1>4, <2>1, <3>5, <3>6, <3>7, <3>10, <3>11, WorkTurn
    <2>4. QED
      BY <1>6, <2>2, <2>3 DEF DispatchOne, Done
  <1>7. CASE NextPick(g)
    <2>1. Op(g)[1] = "pick" /\ Op(g)[2] = tree /\ todo[g] # <<>> /\ Drives(Op(g))
      BY <1>4, <1>7, OpFits DEF NextPick, Fits, Drives
    <2>2. CASE Replace(g, <<>>) /\ \A n \in Work : ~MayDispatch(tree, n)
      <3>1. ASSUME NEW k \in Work, tree.st[k] = "pending" PROVE FALSE
        <4>1. k \notin occupied
          BY <3>1 DEF Working, Tended
        <4>2. /\ Above(k) # Proposal /\ tree.st[Above(k)] = "reviewing"
          BY <2>2, <3>1, <4>1 DEF MayDispatch
        <4>3. k \in Nodes /\ k # Proposal
          BY Kinds
        <4>4. Above(k) \in Milestones
          BY <4>2, <4>3, AboveUid DEF Reviewed
        <4>5. PICK m \in Milestones : m = Above(k)
          BY <4>4
        <4>6. k \in Below(m)
          BY <4>3, <4>5 DEF Below
        <4>7. Course(m, Held, tree, Calm, merged[m])
          BY DEF Courses, OnCourse
        <4>8. Mark(m, "running") \in Held
          BY <3>1, <4>2, <4>5, <4>6, <4>7 DEF Course
        <4>9. PICK R \in SUBSET Ops : /\ Held = {Op(g)} \cup R
                                      /\ \A b \in R : Before(Op(g), b)
          BY <1>4, <2>2, HeldStep, EmptySeq
        <4>10. Mark(m, "running") \in R
          BY <2>1, <4>8, <4>9 DEF Mark
        <4>11. QED
          BY <2>1, <4>9, <4>10, FollowedBy DEF Mark
      <3>2. QED
        BY <1>1, <1>2, <1>4, <2>1, <2>2, <3>1, WorkOne
    <2>3. ASSUME NEW n \in Work,
                 Replace(g, <<Create(n, <<Mark(n, "running"), Occupy(n)>>
                                        \o (IF Above(n) \in Milestones
                                            THEN <<Mark(Above(n), "running")>> ELSE <<>>))>>)
          PROVE  Working'
      <3> DEFINE end == IF Above(n) \in Milestones THEN <<Mark(Above(n), "running")>> ELSE <<>>
                 then == <<Mark(n, "running"), Occupy(n)>> \o end
                 a == Create(n, then)
      <3>1. /\ Mark(n, "running") \in Then /\ Occupy(n) \in Then
            /\ Above(n) \in Milestones => Mark(Above(n), "running") \in Then
        BY DEF Then, Mark, Occupy, Uids, Named, Reviewed
      <3>2. then \in Seq(Then)
        <4>1. <<Mark(n, "running"), Occupy(n)>> \in Seq(Then) /\ end \in Seq(Then)
          BY <3>1, GoodSeqs, EmptySeq
        <4> HIDE DEF end
        <4>2. QED
          BY <4>1, ConcatProperties
      <3>3. \A i \in DOMAIN then : then[i][2] \in Work => then[i][2] = n
        <4>1. Above(n) \in Milestones => then = <<Mark(n, "running"), Occupy(n), Mark(Above(n), "running")>>
          BY Concats
        <4>2. Above(n) \notin Milestones => then = <<Mark(n, "running"), Occupy(n)>>
          BY Concats
        <4>3. \A i \in DOMAIN then :
                 \/ then[i] \in {Mark(n, "running"), Occupy(n)}
                 \/ Above(n) \in Milestones /\ then[i] = Mark(Above(n), "running")
          BY <4>1, <4>2
        <4>4. Above(n) \in Milestones => Above(n) \notin Work
          BY Kinds DEF Reviewed
        <4> HIDE DEF then
        <4>5. QED
          BY <4>3, <4>4 DEF Mark, Occupy
      <3>4. n \in Named
        BY DEF Named
      <3> HIDE DEF then
      <3>5. a \in Ops
        BY <3>2, <3>4, OpsAre
      <3>6. Sane(a, tree, waiting) /\ a[1] \notin {"redo", "occupy", "mark"} /\ Drives(a)
        BY <3>3 DEF Create, Sane, Drives
      <3>7. Replace(g, <<a>>)
        BY <2>3 DEF then
      <3> HIDE DEF a
      <3>8. QED
        BY <1>1, <1>2, <2>1, <3>5, <3>6, <3>7, WorkOne
    <2>4. QED
      BY <1>7, <2>1, <2>2, <2>3 DEF NextPick, Done
  <1>8. QED
    BY <1>6, <1>7

\* The tasks that waited are taken.
LEMMA TakeWork ==
    ASSUME IInv, Flow, Working, NEW g \in Goroutines, TakeWaiting(g)
    PROVE  Working'
  <1>1. /\ Op(g) \in Ops /\ Op(g)[1] = "dispatchAll" /\ todo[g] # <<>> /\ ~InSetup
    BY OpFits DEF TakeWaiting
  <1>2. /\ UNCHANGED <<path, tree, occupied, meeting, queue, agents, unsent, jobs, reviewers>>
        /\ waiting' = FALSE
    BY DEF TakeWaiting, disk, proxy
  <1>3. PICK ops : ops = IF waiting THEN <<Dispatch(Tasks, 0)>> ELSE <<>>
    OBVIOUS
  <1>4. Replace(g, ops)
    BY <1>3 DEF TakeWaiting, Done
  <1>5. ops \in Seq(Ops)
    <2>1. Dispatch(Tasks, 0) \in Ops
      BY OpsAre
    <2>2. QED
      BY <1>3, <2>1, GoodSeqs
  <1>6. PICK R \in SUBSET Ops : /\ Held = {Op(g)} \cup R /\ Held' = Elems(ops) \cup R
                                /\ \A b \in R : Before(Op(g), b)
    BY <1>1, <1>4, <1>5, HeldStep
  <1>7. Elems(ops) = IF waiting THEN {Dispatch(Tasks, 0)} ELSE {}
    BY <1>3, ElemsOf
  <1>8. PICK a, E, H, K, t, occ, p, calm, busy :
           /\ a = Op(g) /\ E = Elems(ops) /\ H = Held /\ K = Held'
           /\ t = tree /\ occ = occupied /\ p = path /\ calm = Calm /\ busy = Busy
    OBVIOUS
  <1>9. Planned(H, t, waiting) /\ Tended(H, t, occ, busy) /\ Driven(H, t, p, busy, calm)
    BY <1>8 DEF Working
  <1>10. /\ H = {a} \cup R /\ K = E \cup R /\ a[1] = "dispatchAll" /\ \A b \in R : Before(a, b)
    BY <1>1, <1>6, <1>8
  <1>11. Bare(t) /\ (Tasks # {} => waiting)
    BY <1>9, <1>10 DEF Planned, Sane
  <1>12. \A op \in E : op = Dispatch(Tasks, 0)
    BY <1>7, <1>8
  <1>13. Planned(K, t, FALSE)
    <2>1. ASSUME NEW b \in R PROVE Sane(b, t, FALSE)
      <3>1. b[1] # "dispatchAll" /\ Sane(b, t, waiting)
        BY <1>9, <1>10, FollowedBy DEF Planned
      <3>2. QED
        BY <3>1 DEF Sane
    <2>2. ASSUME NEW b \in E PROVE Sane(b, t, FALSE)
      BY <1>11, <1>12, <2>2 DEF Sane, Dispatch
    <2>3. \A n : AddRedo(n) \notin K
      BY <1>10, <1>12, FollowedBy DEF AddRedo, Dispatch
    <2>4. QED
      BY <1>10, <2>1, <2>2, <2>3 DEF Planned
  <1>14. Tended(K, t, occ, busy)
    <2>1. \A k \in Work : /\ Occupy(k) \notin E
                          /\ \A s : Mark(k, s) \notin E /\ Mark(k, s) # a
      BY <1>10, <1>12 DEF Mark, Occupy, Dispatch
    <2>2. QED
      BY <1>9, <1>10, <2>1 DEF Tended
  <1>15. Driven(K, t, p, busy, calm)
    <2>1. CASE Tasks = {}
      BY <1>11, <2>1 DEF Driven, Bare, Work
    <2>2. CASE Tasks # {}
      <3>1. Dispatch(Tasks, 0) \in K /\ Drives(Dispatch(Tasks, 0))
        BY <1>7, <1>8, <1>10, <1>11, <2>2 DEF Dispatch, Drives
      <3>2. QED
        BY <3>1 DEF Driven, Going
    <2>3. QED
      BY <2>1, <2>2
  <1>16. Busy' = Busy /\ Calm' = Calm /\ ~InSetup'
    BY <1>1, <1>2 DEF Busy, Calm, InSetup
  <1>17. /\ Planned(Held, tree, waiting)' /\ Tended(Held, tree, occupied, Busy)'
         /\ Driven(Held, tree, path, Busy, Calm)'
    BY <1>2, <1>8, <1>13, <1>14, <1>15, <1>16
  <1>18. QED
    BY <1>2, <1>16, <1>17 DEF Working

\* An agent is given to node n.
LEMMA CreateWork ==
    ASSUME IInv, Flow, Working, Smooth', NEW g \in Goroutines, SendCreate(g)
    PROVE  Working'
  <1> DEFINE n == Op(g)[2]
             then == Op(g)[3]
  <1>1. /\ Op(g) \in Ops /\ Op(g)[1] = "create" /\ todo[g] # <<>> /\ ~InSetup
        /\ Fits(Op(g), tree, Calm, unsent) /\ TypeOK
    BY OpFits DEF SendCreate, IInv
  <1>2. n \in Named /\ n # Proposal /\ then \in Seq(Then) /\ then \in Seq(Ops)
    <2>1. n \in Named /\ then \in Seq(Then)
      BY <1>1, Operands
    <2>2. Then \subseteq Ops
      BY DEF Then, Ops, Status
    <2>3. QED
      BY <1>1, <2>1, <2>2, SeqMonotonic DEF Fits
  <1>3. /\ agents' = [agents EXCEPT ![n] = @ + 1] /\ Replace(g, then)
        /\ UNCHANGED <<path, tree, waiting, occupied, meeting, queue, unsent, jobs, reviewers>>
    BY <1>1, NoFaults DEF SendCreate, CarriedOut, disk
  <1>4. PICK R \in SUBSET Ops : /\ Held = {Op(g)} \cup R /\ Held' = Elems(then) \cup R
                                /\ \A b \in R : Before(Op(g), b)
    BY <1>1, <1>2, <1>3, HeldStep
  <1>5. Busy' = Busy \cup {n}
    <2>1. agents \in [Named -> Nat]
      BY <1>1 DEF TypeOK
    <2>2. \A k \in Named : agents'[k] = IF k = n THEN agents[k] + 1 ELSE agents[k]
      BY <1>2, <1>3, <2>1
    <2>3. agents'[n] > 0 /\ \A k \in Named \ {n} : agents'[k] = agents[k]
      BY <1>2, <2>1, <2>2
    <2> HIDE DEF n
    <2>4. QED
      BY <1>2, <1>3, <2>3 DEF Busy
  <1>6. Calm' = Calm /\ ~InSetup'
    <2>1. Proposal \in Named /\ agents \in [Named -> Nat]
      BY <1>1 DEF Named, TypeOK
    <2>2. agents'[Proposal] = agents[Proposal]
      BY <1>2, <1>3, <2>1
    <2>3. QED
      BY <1>1, <1>3, <2>2 DEF Calm, InSetup
  <1>7. PICK a, E, H, K, t, w, occ, p, calm, busy, busy2 :
           /\ a = Op(g) /\ E = Elems(then) /\ H = Held /\ K = Held'
           /\ t = tree /\ w = waiting /\ occ = occupied /\ p = path
           /\ calm = Calm /\ busy = Busy /\ busy2 = Busy \cup {n}
    OBVIOUS
  <1>8. Planned(H, t, w) /\ Tended(H, t, occ, busy)
    BY <1>7 DEF Working
  <1>9. H = {a} \cup R /\ K = E \cup R /\ a[1] = "create" /\ \A b \in R : Before(a, b)
    BY <1>1, <1>4, <1>7
  <1>10. \A op \in E : /\ (op[1] = "mark" /\ op[3] = "running") \/ op[1] = "occupy"
                       /\ op[2] \in Work => op[2] = n
    <2>1. \A i \in DOMAIN then : then[i] \in Then
      BY <1>2, SeqIs
    <2>2. \A i \in DOMAIN then : then[i][2] \in Work => then[i][2] = n
      BY <1>1, <1>7, <1>8, <1>9 DEF Planned, Sane
    <2>3. QED
      BY <1>7, <2>1, <2>2 DEF Elems, Then
  <1>11. n \in Work => t.st[n] = "pending" /\ Mark(n, "running") \in E
    <2>1. n \in Work => tree.st[n] = "pending" /\ then # <<>> /\ then[1] = Mark(n, "running")
      BY <1>1 DEF Fits
    <2>2. then # <<>> => 1 \in DOMAIN then
      BY <1>2, SeqIs, EmptySeq, HeadTailProperties
    <2>3. QED
      BY <1>7, <2>1, <2>2 DEF Elems
  <1> HIDE DEF n, then
  <1>12. Planned(K, t, w)
    <2>1. \A op \in E : Sane(op, t, w)
      BY <1>10 DEF Sane
    <2>2. \A k : AddRedo(k) \notin K
      BY <1>9, <1>10, FollowedBy DEF AddRedo
    <2>3. QED
      BY <1>8, <1>9, <2>1, <2>2 DEF Planned
  <1>13. Tended(K, t, occ, busy2)
    <2>1. \A k \in Work : /\ Occupy(k) \in E => k = n
                          /\ Mark(k, "running") \in E => k = n
                          /\ \A s : Mark(k, s) # a
      BY <1>9, <1>10 DEF Mark, Occupy
    <2>2. busy \subseteq busy2 /\ n \in busy2
      BY <1>7
    <2>3. QED
      BY <1>8, <1>9, <1>11, <2>1, <2>2 DEF Tended
  <1>14. Driven(K, t, p, busy2, calm)
    BY <1>7 DEF Driven, Going
  <1>15. /\ Planned(Held, tree, waiting)' /\ Tended(Held, tree, occupied, Busy)'
         /\ Driven(Held, tree, path, Busy, Calm)'
    BY <1>3, <1>5, <1>6, <1>7, <1>12, <1>13, <1>14
  <1>16. QED
    BY <1>3, <1>6, <1>15 DEF Working

\* A node is entered into the list of occupied nodes, or taken out of it.
LEMMA OccupiedWork ==
    ASSUME IInv, Flow, Working, NEW g \in Goroutines,
           ReadOccupied(g) \/ WriteOccupied(g) \/ WriteTree(g)
    PROVE  Working'
  <1>1. CASE WriteOccupied(g) \/ WriteTree(g)
    <2>1. PICK what \in {"put", "putOccupied"} : Doing(g, what)
      BY <1>1 DEF WriteOccupied, WriteTree
    <2>2. QED
      BY <2>1, OpFits DEF Fits
  <1>2. CASE ReadOccupied(g)
    <2> DEFINE n == Op(g)[2]
    <2>1. PICK what \in {"occupy", "release"} : Doing(g, what)
      BY <1>2 DEF ReadOccupied
    <2>2. /\ Op(g) \in Ops /\ Op(g)[1] = what /\ todo[g] # <<>> /\ Alone(g)
      BY <2>1, OpFits DEF Alone
    <2>3. /\ occupied' = IF what = "occupy" THEN occupied \cup {n} ELSE occupied \ {n}
          /\ Replace(g, <<>>)
          /\ UNCHANGED <<path, tree, waiting, meeting, queue, agents, unsent, jobs, reviewers>>
      BY <1>2, <2>1, <2>2 DEF ReadOccupied, Done, Doing, proxy
    <2>4. PICK R \in SUBSET Ops : /\ Held = {Op(g)} \cup R /\ Held' = Elems(<<>>) \cup R
                                  /\ \A b \in R : Before(Op(g), b)
      BY <2>2, <2>3, HeldStep, EmptySeq
    <2>5. PICK a, H, K, t, w, occ, occ2, p, calm, busy :
             /\ a = Op(g) /\ H = Held /\ K = Held'
             /\ t = tree /\ w = waiting /\ occ = occupied /\ occ2 = occupied' /\ p = path
             /\ calm = Calm /\ busy = Busy
      OBVIOUS
    <2>6. Planned(H, t, w) /\ Tended(H, t, occ, busy) /\ Driven(H, t, p, busy, calm)
      BY <2>5 DEF Working
    <2>7. H = {a} \cup K /\ a[1] = what /\ \A b \in K : Before(a, b)
      BY <2>2, <2>4, <2>5, ElemsOf
    <2>8. Planned(K, t, w)
      <3>1. \A k : AddRedo(k) \notin K
        BY <2>7, FollowedBy DEF AddRedo
      <3>2. QED
        BY <2>6, <2>7, <3>1 DEF Planned
    <2>9. \A k \in Work : \A s : Mark(k, s) # a /\ Mark(k, s) \notin K
      <3>1. \A k \in Work : k \notin Reviewed
        BY Kinds
      <3>2. QED
        BY <2>7, <3>1, FollowedBy DEF Mark
    <2>10. \A k \in Work : t.st[k] \in {"absent", "pending"} => k \notin occ2
      <3>1. what = "occupy" => a = Occupy(n)
        BY <2>2, <2>5 DEF Ops, Occupy
      <3>2. ASSUME NEW k \in Work, t.st[k] \in {"absent", "pending"}, k \in occ2 PROVE FALSE
        <4>1. k \notin occ /\ Occupy(k) \notin H
          BY <2>6, <2>7, <2>9, <3>2 DEF Tended
        <4>2. what = "occupy" /\ k = n
          BY <2>3, <2>5, <3>2, <4>1
        <4>3. QED
          BY <2>7, <3>1, <4>1, <4>2
      <3>3. QED
        BY <3>2
    <2>11. Tended(K, t, occ2, busy)
      BY <2>6, <2>7, <2>9, <2>10 DEF Tended
    <2>12. Driven(K, t, p, busy, calm)
      <3>1. ~Drives(a)
        BY <2>7 DEF Drives
      <3>2. QED
        BY <2>6, <2>7, <3>1 DEF Driven, Going
    <2>13. Busy' = Busy /\ Calm' = Calm /\ (InSetup' <=> InSetup)
      BY <2>3 DEF Busy, Calm, InSetup
    <2>14. /\ Planned(Held, tree, waiting)' /\ Tended(Held, tree, occupied, Busy)'
           /\ Driven(Held, tree, path, Busy, Calm)'
      BY <2>3, <2>5, <2>8, <2>11, <2>12, <2>13
    <2>15. QED
      BY <2>3, <2>13, <2>14 DEF Working
  <1>3. QED
    BY <1>1, <1>2

\* The status of node n changes.
LEMMA StatusWork ==
    ASSUME IInv, Flow, Working, NEW g \in Goroutines, NEW what \in {"mark", "cycle"}, Doing(g, what),
           Done(g), tree' = IF Present(Op(g)[2]) THEN Changed(Op(g)) ELSE tree,
           UNCHANGED <<path, waiting, occupied, meeting, queue, agents, unsent, jobs, reviewers>>
    PROVE  Working'
  <1> DEFINE n == Op(g)[2]
             s == IF what = "mark" THEN Op(g)[3] ELSE "reviewing"
  <1>1. Op(g) \in Ops /\ Op(g)[1] = what /\ todo[g] # <<>>
    BY OpFits
  <1>2. what = "cycle" => n \in Reviewed /\ n \notin Work
    BY <1>1, Operands, Kinds
  <1>3. \A k \in Nodes : tree'.st[k] = IF k = n /\ tree.st[k] # "absent" THEN s ELSE tree.st[k]
    <2>1. tree \in Tree
      BY DEF IInv, TypeOK
    <2>2. CASE Present(n)
      <3>1. tree'.st = [tree.st EXCEPT ![n] = s]
        BY <1>1, <2>1, <2>2 DEF Changed, Tree
      <3>2. QED
        BY <2>1, <2>2, <3>1 DEF Tree, Present
    <2>3. CASE ~Present(n)
      BY <2>3 DEF Present
    <2>4. QED
      BY <2>2, <2>3
  <1>4. PICK R \in SUBSET Ops : /\ Held = {Op(g)} \cup R /\ Held' = Elems(<<>>) \cup R
                                /\ \A b \in R : Before(Op(g), b)
    BY <1>1, HeldStep, EmptySeq DEF Done
  <1>5. PICK a, H, K, t, t2, w, occ, p, calm, busy :
           /\ a = Op(g) /\ H = Held /\ K = Held' /\ t = tree /\ t2 = tree' /\ w = waiting
           /\ occ = occupied /\ p = path /\ calm = Calm /\ busy = Busy
    OBVIOUS
  <1>6. Planned(H, t, w) /\ Tended(H, t, occ, busy) /\ Driven(H, t, p, busy, calm)
    BY <1>5 DEF Working
  <1>7. H = {a} \cup K /\ a[1] = what /\ \A b \in K : Before(a, b)
    BY <1>1, <1>4, <1>5, ElemsOf
  <1>8. what = "mark" => a = Mark(n, s) /\ s \in {"running", "complete"}
    BY <1>1, <1>5, <1>6, <1>7 DEF Ops, Mark, Planned, Sane
  <1>9. \A k \in Work : t2.st[k] = IF k = n /\ t.st[k] # "absent" THEN s ELSE t.st[k]
    BY <1>3, <1>5, Kinds
  <1> HIDE DEF n, s
  <1>10. Planned(K, t2, w)
    <2>1. Bare(t) => Bare(t2)
      BY <1>9 DEF Bare, Work
    <2>2. \A op \in K : Sane(op, t2, w)
      BY <1>6, <1>7, <2>1 DEF Planned, Sane
    <2>3. \A k : AddRedo(k) \notin K
      BY <1>7, FollowedBy DEF AddRedo
    <2>4. QED
      BY <2>2, <2>3 DEF Planned
  <1>11. ASSUME NEW k \in Work
         PROVE  /\ t2.st[k] \in {"absent", "pending", "running", "complete"}
                /\ t2.st[k] \in {"absent", "pending"} =>
                      k \notin occ /\ (Occupy(k) \in K => Mark(k, "running") \in K)
                /\ t2.st[k] = "running" => k \in busy \/ Mark(k, "complete") \in K
                /\ Mark(k, "running") \in K => t2.st[k] # "absent" /\ k \in busy
    <2>1. /\ t.st[k] \in {"absent", "pending", "running", "complete"}
          /\ t.st[k] \in {"absent", "pending"} =>
                k \notin occ /\ (Occupy(k) \in H => Mark(k, "running") \in H)
          /\ t.st[k] = "running" => k \in busy \/ Mark(k, "complete") \in H
          /\ Mark(k, "running") \in H => t.st[k] # "absent" /\ k \in busy
      BY <1>6 DEF Tended
    <2>2. CASE k # n \/ t.st[k] = "absent"
      <3>1. t2.st[k] = t.st[k]
        BY <1>9, <2>2
      <3>2. \A x : Mark(k, x) = a => k = n /\ x = s
        BY <1>7, <1>8 DEF Mark
      <3>3. QED
        BY <1>7, <2>1, <2>2, <3>1, <3>2
    <2>3. CASE k = n /\ t.st[k] # "absent"
      <3>1. what = "mark" /\ t2.st[k] = s /\ s \in {"running", "complete"} /\ a = Mark(k, s)
        BY <1>2, <1>8, <1>9, <2>3 DEF n
      <3>2. s = "running" => k \in busy
        BY <1>7, <2>1, <3>1
      <3>3. QED
        BY <1>7, <2>1, <3>1, <3>2
    <2>4. QED
      BY <2>2, <2>3
  <1>12. Tended(K, t2, occ, busy)
    BY <1>11 DEF Tended
  <1>13. Driven(K, t2, p, busy, calm)
    <2>1. ~Drives(a)
      BY <1>7 DEF Drives
    <2>2. \A k \in Work : t2.st[k] = "pending" => t.st[k] = "pending"
      BY <1>2, <1>8, <1>9 DEF n
    <2>3. QED
      BY <1>6, <1>7, <2>1, <2>2 DEF Driven, Going
  <1>14. Busy' = Busy /\ Calm' = Calm /\ (InSetup' <=> InSetup)
    BY DEF Busy, Calm, InSetup
  <1>15. /\ Planned(Held, tree, waiting)' /\ Tended(Held, tree, occupied, Busy)'
         /\ Driven(Held, tree, path, Busy, Calm)'
    BY <1>5, <1>10, <1>12, <1>13, <1>14
  <1>16. QED
    BY <1>14, <1>15 DEF Working

\* The review of node n adds a task; the next one is dispatched after that.
LEMMA RedoWork ==
    ASSUME IInv, Flow, Working, NEW g \in Goroutines, Doing(g, "redo"), Done(g),
           tree' = IF Present(Op(g)[2]) THEN Changed(Op(g)) ELSE tree,
           UNCHANGED <<path, waiting, occupied, meeting, queue, agents, unsent, jobs, reviewers>>
    PROVE  Working'
  <1> DEFINE n == Op(g)[2]
             x == Redo(n, tree.cycle[n])
  <1>1. Op(g) \in Ops /\ Op(g)[1] = "redo" /\ todo[g] # <<>> /\ Fits(Op(g), tree, Calm, unsent)
    BY OpFits
  <1>2. n \in Reviewed /\ n \in Redoable /\ UnderReview(n, tree) /\ Op(g) = AddRedo(n)
    BY <1>1, Operands DEF Fits, Ops, AddRedo
  <1>3. tree \in Tree /\ x \in Extras /\ x \in Work /\ tree.st[x] = "absent"
    <2>1. tree \in Tree /\ \A m \in Reviewed : tree.cycle[m] \in 0 .. MaxReviewCycles
      BY DEF IInv, TypeOK, Tree
    <2>2. x \in Extras /\ tree.st[x] = "absent"
      BY <1>2, <2>1 DEF UnderReview, Extras
    <2>3. QED
      BY <2>1, <2>2 DEF Work
  <1>4. \A k \in Work : tree'.st[k] = IF k = x THEN "pending" ELSE tree.st[k]
    <2>1. Present(n)
      BY <1>2, Kinds DEF Present, Flow, Reviews
    <2>2. tree'.st = [tree.st EXCEPT ![x] = "pending"]
      BY <1>1, <1>2, <1>3, <2>1 DEF Changed, UnderReview, Tree
    <2>3. QED
      BY <1>3, <2>2, Kinds DEF Tree
  <1>5. PICK R \in SUBSET Ops : /\ Held = {Op(g)} \cup R /\ Held' = Elems(<<>>) \cup R
                                /\ \A b \in R : Before(Op(g), b)
    BY <1>1, HeldStep, EmptySeq DEF Done
  <1>6. PICK a, H, K, t, t2, w, occ, p, calm, busy :
           /\ a = Op(g) /\ H = Held /\ K = Held' /\ t = tree /\ t2 = tree' /\ w = waiting
           /\ occ = occupied /\ p = path /\ calm = Calm /\ busy = Busy
    OBVIOUS
  <1>7. Planned(H, t, w) /\ Tended(H, t, occ, busy)
    BY <1>6 DEF Working
  <1>8. H = {a} \cup K /\ a[1] = "redo" /\ a = AddRedo(n) /\ \A b \in K : Before(a, b)
    BY <1>1, <1>2, <1>5, <1>6, ElemsOf
  <1>9. /\ \A k \in Work : t2.st[k] = IF k = x THEN "pending" ELSE t.st[k]
        /\ t.st[x] = "absent"
    BY <1>3, <1>4, <1>6
  <1>10. DispatchNext \in K
    <2>1. DispatchNext \in H /\ DispatchNext # a
      BY <1>2, <1>7, <1>8 DEF Planned, DispatchNext
    <2>2. QED
      BY <1>8, <2>1
  <1> HIDE DEF n, x
  <1>11. Planned(K, t2, w)
    <2>1. \A op \in K : Sane(op, t2, w)
      <3>1. \A op \in K : op[1] \notin {"dispatchAll", "dispatch"}
        BY <1>8, FollowedBy
      <3>2. QED
        BY <1>7, <1>8, <3>1 DEF Planned, Sane
    <2>2. QED
      BY <1>10, <2>1 DEF Planned
  <1>12. Tended(K, t2, occ, busy)
    <2>1. \A k \in Work : \A y : Mark(k, y) # a
      BY <1>8 DEF Mark
    <2>2. QED
      BY <1>7, <1>8, <1>9, <2>1 DEF Tended
  <1>13. Driven(K, t2, p, busy, calm)
    BY <1>10 DEF Driven, Going, Drives, DispatchNext
  <1>14. Busy' = Busy /\ Calm' = Calm /\ (InSetup' <=> InSetup)
    BY DEF Busy, Calm, InSetup
  <1>15. /\ Planned(Held, tree, waiting)' /\ Tended(Held, tree, occupied, Busy)'
         /\ Driven(Held, tree, path, Busy, Calm)'
    BY <1>6, <1>11, <1>12, <1>13, <1>14
  <1>16. QED
    BY <1>14, <1>15 DEF Working

LEMMA TreeWork ==
    ASSUME IInv, Flow, Working, NEW g \in Goroutines, ReadTree(g)
    PROVE  Working'
  <1>1. PICK what \in {"mark", "cycle", "redo", "touch"} : Doing(g, what)
    BY DEF ReadTree
  <1>2. /\ Alone(g) /\ Op(g)[1] = what /\ todo[g] # <<>>
    BY <1>1, OpFits DEF Alone
  <1>3. /\ tree' = IF Present(Op(g)[2]) THEN Changed(Op(g)) ELSE tree
        /\ Done(g)
        /\ UNCHANGED <<path, waiting, occupied, meeting, queue, agents, unsent, jobs, reviewers>>
    BY <1>2 DEF ReadTree, proxy
  <1>4. CASE what = "touch"
    <2>1. tree' = tree
      BY <1>2, <1>3, <1>4 DEF Changed
    <2>2. Replace(g, <<>>) /\ ~Drives(Op(g)) /\ Op(g)[1] # "mark" /\ Calm' \subseteq Calm
      BY <1>2, <1>3, <1>4 DEF Done, Drives, Calm
    <2>3. QED
      BY <1>2, <1>3, <2>1, <2>2, WorkOne
  <1>5. QED
    BY <1>1, <1>3, <1>4, StatusWork, RedoWork

-----------------------------------------------------------------------------
\* Events, and the start of a run

\* Operations for an event come in.
LEMMA ComeToWork ==
    ASSUME NEW K, NEW t, NEW w, NEW occ, NEW p, NEW calm, NEW calm2, NEW busy, NEW busy2,
           Tended({}, t, occ, busy), Driven({}, t, p, busy, calm),
           \A op \in K : Sane(op, t, w), \A n \in Reviewed : AddRedo(n) \in K => DispatchNext \in K,
           \A k \in Work : Occupy(k) \notin K /\ Mark(k, "running") \notin K,
           \A k \in Work \cap busy : k \in busy2 \/ Mark(k, "complete") \in K,
           \/ \E op \in K : Drives(op)
           \/ calm2 = calm /\ busy2 = busy
    PROVE  Planned(K, t, w) /\ Tended(K, t, occ, busy2) /\ Driven(K, t, p, busy2, calm2)
  <1>1. PICK H : H = {}
    OBVIOUS
  <1>2. Tended(H, t, occ, busy) /\ Driven(H, t, p, busy, calm)
    BY <1>1
  <1>3. Planned(K, t, w)
    BY DEF Planned
  <1>4. Tended(K, t, occ, busy2)
    BY <1>1, <1>2 DEF Tended
  <1>5. Driven(K, t, p, busy2, calm2)
    BY <1>1, <1>2 DEF Driven, Going
  <1>6. QED
    BY <1>3, <1>4, <1>5

\* What the loop does for a completed task.
LEMMA CompletedOps ==
    ASSUME NEW n, NEW t, NEW w, n = Proposal => Bare(t) /\ (Tasks # {} => w)
    PROVE  LET E == Elems(OnCompleted(n)) IN
           /\ \A op \in E : Sane(op, t, w)
           /\ \A k : AddRedo(k) \notin E /\ Occupy(k) \notin E /\ Mark(k, "running") \notin E
           /\ Mark(n, "complete") \in E
           /\ \E op \in E : Drives(op)
  <1> DEFINE E == Elems(OnCompleted(n))
  <1>1. PICK a, b, c : /\ E = {Mark(n, "complete"), a, b, c}
                       /\ {a[1], b[1], c[1]} \subseteq
                             {"dispatchAll", "openRecords", "release", "check", "ifNoMeeting"}
                       /\ a[1] = "dispatchAll" \/ c[1] = "ifNoMeeting"
                       /\ n # Proposal => "dispatchAll" \notin {a[1], b[1], c[1]}
    <2>1. CASE n = Proposal
      <3>1. E = {Mark(n, "complete"), DispatchAll, OpenRecords, Release(n)}
        <4>1. OnCompleted(n) = <<Mark(n, "complete"), DispatchAll, OpenRecords, Release(n)>>
          BY <2>1 DEF OnCompleted
        <4>2. QED
          BY <4>1, ElemsOf
      <3>2. DispatchAll[1] = "dispatchAll" /\ OpenRecords[1] = "openRecords" /\ Release(n)[1] = "release"
        BY DEF DispatchAll, OpenRecords, Release
      <3>3. QED
        BY <2>1, <3>1, <3>2
    <2>2. CASE n # Proposal
      <3>1. E = {Mark(n, "complete"), Release(n), Check(n), IfNoMeeting}
        <4>1. OnCompleted(n) = <<Mark(n, "complete"), Release(n), Check(n), IfNoMeeting>>
          BY <2>2 DEF OnCompleted
        <4>2. QED
          BY <4>1, ElemsOf
      <3>2. Release(n)[1] = "release" /\ Check(n)[1] = "check" /\ IfNoMeeting[1] = "ifNoMeeting"
        BY DEF Check, IfNoMeeting, Release
      <3>3. QED
        BY <3>1, <3>2
    <2>3. QED
      BY <2>1, <2>2
  <1> HIDE DEF E
  <1>2. \A op \in E : \/ op = Mark(n, "complete")
                      \/ /\ op[1] \notin {"trigger", "mark", "dispatch", "create", "redo", "occupy"}
                         /\ op[1] = "dispatchAll" => n = Proposal
    BY <1>1
  <1>3. \A op \in E : Sane(op, t, w)
    BY <1>2 DEF Sane, Mark
  <1>4. \A k : AddRedo(k) \notin E /\ Occupy(k) \notin E /\ Mark(k, "running") \notin E
    BY <1>2 DEF AddRedo, Occupy, Mark
  <1>5. \E op \in E : Drives(op)
    BY <1>1 DEF Drives
  <1>6. QED
    BY <1>1, <1>3, <1>4, <1>5 DEF E

\* And for the outcome of a review.
LEMMA OutcomeOps ==
    ASSUME NEW e \in Event, e.kind \in {"approved", "needsWork"}, NEW t, NEW w
    PROVE  LET E == Elems(Handler(e)) IN
           /\ \A op \in E : Sane(op, t, w)
           /\ \A k : Occupy(k) \notin E
           /\ \A k \in Work : Mark(k, "running") \notin E
           /\ DispatchNext \in E
  <1> DEFINE n == e.node
             E == Elems(Handler(e))
  <1>1. n \in Reviewed /\ n \notin Work
    BY Kinds DEF Event
  <1>2. /\ Sane(DispatchNext, t, w) /\ \A s \in {"running", "complete"} : Sane(Mark(n, s), t, w)
        /\ Sane(History(n), t, w) /\ Sane(Merge(n), t, w) /\ Sane(Check(n), t, w)
        /\ Sane(AddRedo(n), t, w)
    BY DEF Sane, DispatchNext, Mark, History, Merge, Check, AddRedo
  <1>3. Sane(Redispatch, t, w)
    <2>1. DOMAIN Redispatch[3] = {}
      BY DEF Redispatch, Create
    <2>2. Redispatch[1] = "create"
      BY DEF Redispatch, Create
    <2>3. QED
      BY <2>1, <2>2 DEF Sane
  <1>4. DispatchNext \in E
        /\ E \subseteq {DispatchNext, Mark(n, "running"), Mark(n, "complete"), History(n), Merge(n),
                        Check(n), AddRedo(n), Redispatch}
    <2>1. CASE e.kind = "needsWork"
      <3>1. Handler(e) = <<AddRedo(n), Mark(n, "running"), Redispatch, DispatchNext>>
        BY <2>1 DEF Handler
      <3>2. E = {AddRedo(n), Mark(n, "running"), Redispatch, DispatchNext}
        BY <3>1, ElemsOf
      <3>3. QED
        BY <3>2
    <2>2. CASE e.kind = "approved"
      <3>1. Handler(e) = Approve(n) \o <<DispatchNext>>
        BY <2>2 DEF Handler
      <3>2. /\ Mark(n, "complete") \in Ops /\ History(n) \in Ops /\ Check(n) \in Ops
            /\ n \in Milestones => Merge(n) \in Ops
            /\ DispatchNext \in Ops
        BY <1>1, OpsAre DEF Status, Uids, Nodes
      <3>3. Approve(n) \in Seq(Ops) /\ <<DispatchNext>> \in Seq(Ops)
        BY <3>2, GoodSeqs, EmptySeq DEF Approve
      <3>4. \A x, y \in Seq(Ops) : Elems(x \o y) = Elems(x) \cup Elems(y)
        BY ElemsConcat
      <3>5. Elems(<<DispatchNext>>) = {DispatchNext}
        BY ElemsOf
      <3>6. E = Elems(Approve(n)) \cup {DispatchNext}
        BY <3>1, <3>3, <3>4, <3>5
      <3>7. Elems(Approve(n)) \subseteq {Mark(n, "complete"), History(n), Merge(n), Check(n)}
        <4>1. Elems(<<Mark(n, "complete"), History(n)>>) = {Mark(n, "complete"), History(n)}
              /\ Elems(<<Merge(n), Check(n)>>) = {Merge(n), Check(n)} /\ Elems(<<>>) = {}
          BY ElemsOf
        <4>2. CASE n \in Milestones
          <5>1. <<Mark(n, "complete"), History(n)>> \in Seq(Ops) /\ <<Merge(n), Check(n)>> \in Seq(Ops)
            BY <3>2, <4>2, GoodSeqs
          <5>2. Approve(n) = <<Mark(n, "complete"), History(n)>> \o <<Merge(n), Check(n)>>
            BY <4>2 DEF Approve
          <5>3. Elems(<<Mark(n, "complete"), History(n)>> \o <<Merge(n), Check(n)>>)
                   = Elems(<<Mark(n, "complete"), History(n)>>) \cup Elems(<<Merge(n), Check(n)>>)
            BY <3>4, <5>1
          <5>4. Elems(Approve(n)) = {Mark(n, "complete"), History(n)} \cup {Merge(n), Check(n)}
            BY <4>1, <5>2, <5>3
          <5>5. QED
            BY <5>4
        <4>3. CASE n \notin Milestones
          <5>1. <<Mark(n, "complete"), History(n)>> \in Seq(Ops) /\ <<>> \in Seq(Ops)
            BY <3>2, GoodSeqs, EmptySeq
          <5>2. Approve(n) = <<Mark(n, "complete"), History(n)>> \o <<>>
            BY <4>3 DEF Approve
          <5>3. QED
            BY <3>4, <4>1, <5>1, <5>2
        <4>4. QED
          BY <4>2, <4>3
      <3>8. QED
        BY <3>6, <3>7
    <2>3. QED
      BY <2>1, <2>2
  <1>5. \A k : Occupy(k) \notin E
    BY <1>4 DEF Occupy, DispatchNext, Mark, History, Merge, Check, AddRedo, Redispatch, Create
  <1>6. \A k \in Work : Mark(k, "running") \notin E
    BY <1>1, <1>4 DEF DispatchNext, Mark, History, Merge, Check, AddRedo, Redispatch, Create
  <1>7. QED
    BY <1>2, <1>3, <1>4, <1>5, <1>6

\* The loop takes an event.
LEMMA HandleWork == ASSUME IInv, Flow, Working, Smooth', Handle PROVE Working'
  <1>1. TypeOK /\ queue \in Seq(Event) /\ queue # <<>>
    BY DEF IInv, TypeOK, Handle
  <1>2. todo["starter"] = <<>> /\ todo["loop"] = <<>>
    <2>1. ~Fault("overlap") /\ Prompt'
      BY <1>1, NoFaults
    <2>2. NoFault
      BY <2>1 DEF Handle
    <2>3. ~HasFault("overlap")
      BY <2>1, <2>2 DEF NoFault, Prompt, HasFault
    <2>4. QED
      BY <2>1, <2>2, <2>3 DEF Handle
  <1>3. PICK e : e = Head(queue)
    OBVIOUS
  <1>4. /\ e \in Event /\ queue' = Tail(queue) /\ 1 \in DOMAIN queue /\ e = queue[1]
        /\ \A i \in DOMAIN queue' : i + 1 \in DOMAIN queue /\ queue'[i] = queue[i + 1]
    <2>1. queue' = Tail(queue)
      BY DEF Handle
    <2>2. QED
      BY <1>1, <1>3, <2>1, QueueTail
  <1>5. \A i \in DOMAIN queue : i = 1 \/ (i - 1 \in DOMAIN queue' /\ queue'[i - 1] = queue[i])
    <2>1. Len(queue) \in Nat /\ Len(queue) > 0 /\ DOMAIN queue = 1 .. Len(queue)
      BY <1>1, HeadTailProperties, SeqIs
    <2>2. /\ \A i \in 1 .. (Len(queue) - 1) : Tail(queue)[i] = queue[i + 1]
          /\ DOMAIN Tail(queue) = 1 .. (Len(queue) - 1)
      BY <1>1, HeadTailProperties, SeqIs
    <2>3. QED
      BY <1>4, <2>1, <2>2
  <1>6. /\ UNCHANGED <<path, tree, unsent, reviewers, waiting, occupied, meeting, agents>>
        /\ jobs' = IF e.kind \in {"reviewed", "completed"} /\ JobFor(e) \in Jobs
                   THEN [jobs EXCEPT ![JobFor(e)] = @ + 1] ELSE jobs
    BY <1>3 DEF Handle, disk, proxy
  <1>7. e.kind \notin {"failed", "errored", "reviewFailed"}
    BY <1>4 DEF Working
  <1>8. \A n \in Named : /\ n \in Busy => n \in Busy' \/ (e.kind = "completed" /\ e.node = n)
                         /\ n \in Busy' => n \in Busy
    BY <1>4, <1>5, <1>6 DEF Busy
  <1>9. e.kind \in {"reviewed", "summarized"} => Calm' = Calm
    <2>1. \A n \in Reviewed :
             /\ e.kind \in ReviewKinds /\ e.node = n =>
                   /\ n \notin Calm
                   /\ e.kind # "reviewed" <=> n \in Calm'
             /\ n \in Calm => n \in Calm'
             /\ n \in Calm' => n \in Calm \/ (e.kind \in ReviewKinds /\ e.node = n)
      BY <1>1, <1>3, <1>4, <1>6, ReviewTaken
    <2>2. Calm \subseteq Reviewed /\ Calm' \subseteq Reviewed
      BY DEF Calm
    <2>3. QED
      BY <2>1, <2>2 DEF ReviewKinds
  <1> DEFINE more == IF e.kind = "completed" /\ e.node \notin Late THEN SumUp(e.node) ELSE <<>>
  <1>10. Handler(e) \in Seq(Ops) /\ more \in Seq(Ops)
    BY <1>4, HandlerOps, EmptySeq
  <1>11. Begin("loop", Handler(e) \o more)
    BY <1>3 DEF Handle
  <1>12. \A op \in Elems(more) : op[1] \in {"touch", "history"}
    <2>1. Elems(SumUp(e.node)) = {Touch(e.node), History(e.node)} /\ Elems(<<>>) = {}
      BY ElemsOf DEF SumUp
    <2>2. QED
      BY <2>1 DEF Touch, History
  <1> HIDE DEF more
  <1>13. Held = {} /\ Held' = Elems(Handler(e)) \cup Elems(more)
    <2>1. todo \in [Goroutines -> Seq(Ops)]
      BY TodoOps
    <2>2. todo'["loop"] = Handler(e) \o more /\ todo'["starter"] = <<>>
      BY <1>2, <1>11, <2>1 DEF Begin, Goroutines
    <2>3. Elems(Handler(e) \o more) = Elems(Handler(e)) \cup Elems(more)
      <3>1. \A x, y \in Seq(Ops) : Elems(x \o y) = Elems(x) \cup Elems(y)
        BY ElemsConcat
      <3>2. QED
        BY <1>10, <3>1
    <2>4. Elems(<<>>) = {}
      BY ElemsOf
    <2>5. QED
      BY <1>2, <2>2, <2>3, <2>4 DEF Held, Goroutines
  <1>14. PICK H, E, M, K, t, w, occ, p, calm, calm2, busy, busy2 :
            /\ H = Held /\ E = Elems(Handler(e)) /\ M = Elems(more) /\ K = Held'
            /\ t = tree /\ w = waiting /\ occ = occupied /\ p = path
            /\ calm = Calm /\ calm2 = Calm' /\ busy = Busy /\ busy2 = Busy'
    OBVIOUS
  <1>15. Tended(H, t, occ, busy) /\ Driven(H, t, p, busy, calm) /\ H = {} /\ K = E \cup M
    BY <1>13, <1>14 DEF Working
  <1>16. \A op \in M : /\ op[1] \in {"touch", "history"} /\ Sane(op, t, w)
                       /\ \A k, s : op # Mark(k, s) /\ op # AddRedo(k) /\ op # Occupy(k)
    BY <1>12, <1>14 DEF Sane, Mark, AddRedo, Occupy
  <1>17. /\ busy \subseteq Named /\ busy2 \subseteq busy
         /\ \A k \in busy : k \in busy2 \/ (e.kind = "completed" /\ e.node = k)
    BY <1>8, <1>14 DEF Busy
  <1>18. /\ \A op \in E : Sane(op, t, w)
         /\ \A k \in Reviewed : AddRedo(k) \in E => DispatchNext \in E
         /\ \A k \in Work : Occupy(k) \notin E /\ Mark(k, "running") \notin E
         /\ \A k \in busy : k \in busy2 \/ Mark(k, "complete") \in E
         /\ (\E op \in E : Drives(op)) \/ (calm2 = calm /\ busy2 = busy)
    <2>1. CASE e.kind = "completed"
      <3>1. e.node = Proposal => Bare(t) /\ (Tasks # {} => w)
        <4>1. e.node = Proposal => InSetup
          BY <1>4, <2>1 DEF InSetup, AgentKinds
        <4>2. e.node = Proposal => Untouched
          BY <4>1 DEF Flow
        <4>3. e.node = Proposal => Bare(t) /\ path # "none"
          BY <1>1, <1>14, <4>2 DEF Untouched, Bare
        <4>4. QED
          BY <1>14, <4>1, <4>3 DEF Working
      <3>2. E = Elems(OnCompleted(e.node))
        BY <1>14, <2>1 DEF Handler
      <3>3. /\ \A op \in E : Sane(op, t, w)
            /\ \A k : AddRedo(k) \notin E /\ Occupy(k) \notin E /\ Mark(k, "running") \notin E
            /\ Mark(e.node, "complete") \in E
            /\ \E op \in E : Drives(op)
        BY <3>1, <3>2, CompletedOps
      <3>4. QED
        BY <1>17, <3>3
    <2>2. CASE e.kind \in {"approved", "needsWork"}
      <3>1. /\ \A op \in E : Sane(op, t, w)
            /\ \A k : Occupy(k) \notin E
            /\ \A k \in Work : Mark(k, "running") \notin E
            /\ DispatchNext \in E
        BY <1>4, <1>14, <2>2, OutcomeOps
      <3>2. Drives(DispatchNext)
        BY DEF Drives, DispatchNext
      <3>3. QED
        BY <1>17, <2>2, <3>1, <3>2
    <2>3. CASE e.kind \in {"reviewed", "summarized"}
      <3>1. Handler(e) = <<>> \/ Handler(e) = <<Touch(e.node), History(e.node)>>
        BY <2>3 DEF Handler, SumUp
      <3>2. Elems(<<Touch(e.node), History(e.node)>>) = {Touch(e.node), History(e.node)}
            /\ Elems(<<>>) = {}
        BY ElemsOf
      <3>3. \A op \in E : op[1] \in {"touch", "history"}
        BY <1>14, <3>1, <3>2 DEF Touch, History
      <3>4. \A op \in E : /\ Sane(op, t, w)
                          /\ \A k, s : op # Mark(k, s) /\ op # AddRedo(k) /\ op # Occupy(k)
        BY <3>3 DEF Sane, Mark, AddRedo, Occupy
      <3>5. calm2 = calm /\ busy2 = busy
        BY <1>9, <1>14, <1>17, <2>3
      <3>6. QED
        BY <3>4, <3>5
    <2>4. QED
      BY <1>4, <1>7, <2>1, <2>2, <2>3 DEF Event
  <1>19. Planned(K, t, w) /\ Tended(K, t, occ, busy2) /\ Driven(K, t, p, busy2, calm2)
    <2>1. Tended({}, t, occ, busy) /\ Driven({}, t, p, busy, calm)
      BY <1>15
    <2>2. /\ \A op \in K : Sane(op, t, w)
          /\ \A k \in Reviewed : AddRedo(k) \in K => DispatchNext \in K
          /\ \A k \in Work : Occupy(k) \notin K /\ Mark(k, "running") \notin K
          /\ \A k \in Work \cap busy : k \in busy2 \/ Mark(k, "complete") \in K
          /\ (\E op \in K : Drives(op)) \/ (calm2 = calm /\ busy2 = busy)
      BY <1>15, <1>16, <1>18
    <2>3. QED
      BY <2>1, <2>2, ComeToWork
  <1>20. /\ Planned(Held, tree, waiting)' /\ Tended(Held, tree, occupied, Busy)'
         /\ Driven(Held, tree, path, Busy, Calm)'
    BY <1>6, <1>14, <1>19
  <1>21. InSetup' => InSetup
    BY <1>4, <1>6 DEF InSetup
  <1>22. \A i \in DOMAIN queue' : queue'[i].kind \notin {"failed", "errored", "reviewFailed"}
    BY <1>4 DEF Working
  <1>23. QED
    BY <1>6, <1>20, <1>21, <1>22 DEF Working

\* A run is started: all its tasks will be dispatched.
LEMMA StartWork ==
    ASSUME IInv, Flow, Working, Smooth', NEW q \in Paths, Start(q)
    PROVE  Working'
  <1>1. path = "none" /\ todo \in [Goroutines -> Seq(Ops)] /\ TypeOK
    BY TodoOps DEF Start, IInv
  <1>2. InSetup /\ Untouched
    BY <1>1 DEF Flow, InSetup
  <1>3. UNCHANGED <<tree, occupied, unsent, reviewers, jobs, queue, meeting>>
        /\ waiting' = (Tasks # {}) /\ path' = q
    BY DEF Start, disk
  <1>4. Held = {}
    BY <1>2, ElemsOf DEF Held, Untouched
  <1>5. queue = <<>> /\ agents[Proposal] = 0 /\ Bare(tree)
    BY <1>1, <1>2 DEF Untouched, Bare
  <1>6. \A op \in {Prepare, DispatchAll, Dispatch(Tasks, 0)} : Sane(op, tree, waiting')
    <2>1. Sane(Prepare, tree, waiting')
      BY DEF Sane, Prepare
    <2>2. Sane(DispatchAll, tree, waiting')
      BY <1>3, <1>5 DEF Sane, DispatchAll
    <2>3. Sane(Dispatch(Tasks, 0), tree, waiting')
      <3>1. Dispatch(Tasks, 0)[1] = "dispatch" /\ Dispatch(Tasks, 0)[2] = Tasks
        BY DEF Dispatch
      <3>2. QED
        BY <1>5, <3>1 DEF Sane
    <2>4. QED
      BY <2>1, <2>2, <2>3
  <1>7. /\ q = "agent" => Held' = {} /\ agents'[Proposal] > 0
        /\ q = "skeleton" => Held' = {Prepare, DispatchAll}
        /\ q = "direct" => Held' = {Dispatch(Tasks, 0)}
        /\ q # "agent" => agents' = agents
    <2>1. /\ Elems(<<Prepare, DispatchAll>>) = {Prepare, DispatchAll}
          /\ Elems(<<Dispatch(Tasks, 0)>>) = {Dispatch(Tasks, 0)}
          /\ Elems(<<>>) = {}
      BY ElemsOf
    <2>2. CASE q = "agent"
      <3>1. PICK ok \in BOOLEAN :
               Answered(ok) /\ agents' = IF CarriedOut(ok) THEN [agents EXCEPT ![Proposal] = 1] ELSE agents
        BY <2>2 DEF Start
      <3>2. ok
        BY <1>1, <3>1, NoFaults
      <3>3. agents \in [Named -> Nat] /\ Proposal \in Named
        BY <1>1 DEF TypeOK, Named
      <3>4. agents'[Proposal] = 1
        BY <3>1, <3>2, <3>3 DEF CarriedOut
      <3>5. todo' = todo
        BY <2>2 DEF Start
      <3>6. QED
        BY <1>4, <2>2, <3>4, <3>5 DEF Held
    <2>3. CASE q = "skeleton"
      <3>1. todo' = [todo EXCEPT !["starter"] = <<Prepare, DispatchAll>>] /\ agents' = agents
        BY <2>3 DEF Start, Begin
      <3>2. todo'["starter"] = <<Prepare, DispatchAll>> /\ todo'["loop"] = <<>>
        BY <1>1, <1>2, <3>1 DEF Untouched, Goroutines
      <3>3. QED
        BY <2>1, <2>3, <3>1, <3>2 DEF Held, Goroutines
    <2>4. CASE q = "direct"
      <3>1. todo' = [todo EXCEPT !["starter"] = <<Dispatch(Tasks, 0)>>] /\ agents' = agents
        BY <2>4 DEF Start, Begin
      <3>2. todo'["starter"] = <<Dispatch(Tasks, 0)>> /\ todo'["loop"] = <<>>
        BY <1>1, <1>2, <3>1 DEF Untouched, Goroutines
      <3>3. QED
        BY <2>1, <2>4, <3>1, <3>2 DEF Held, Goroutines
    <2>5. QED
      BY <2>2, <2>3, <2>4, TreeAssumption
  <1>8. \A n \in Named \ {Proposal} : agents'[n] = agents[n]
    <2>1. agents \in [Named -> Nat]
      BY <1>1 DEF TypeOK
    <2>2. agents' = agents \/ agents' = [agents EXCEPT ![Proposal] = 1]
      BY DEF Start
    <2>3. QED
      BY <2>1, <2>2
  <1>9. Busy \subseteq Busy' /\ (q = "agent" => Proposal \in Busy')
    <2>1. Proposal \in Named
      BY DEF Named
    <2>2. \A n \in Busy : n # Proposal
      BY <1>5 DEF Busy
    <2>3. QED
      BY <1>3, <1>7, <1>8, <2>1, <2>2 DEF Busy
  <1>10. PICK K, t, w, occ, busy, busy2, calm, p :
            /\ K = Held' /\ t = tree /\ w = waiting' /\ occ = occupied
            /\ busy = Busy /\ busy2 = Busy' /\ calm = Calm' /\ p = path'
    OBVIOUS
  <1>11. /\ \A op \in K : Sane(op, t, w) /\ op[1] \in {"prepare", "dispatchAll", "dispatch"}
         /\ busy2 # {} \/ \E op \in K : Drives(op)
    <2>1. \A op \in K : op \in {Prepare, DispatchAll, Dispatch(Tasks, 0)}
      BY <1>3, <1>7, <1>10, TreeAssumption
    <2>2. Drives(DispatchAll) /\ Drives(Dispatch(Tasks, 0))
      BY DEF Drives, DispatchAll, Dispatch
    <2>3. busy2 # {} \/ \E op \in K : Drives(op)
      BY <1>7, <1>9, <1>10, <2>2, TreeAssumption
    <2>4. \A op \in {Prepare, DispatchAll, Dispatch(Tasks, 0)} :
             op[1] \in {"prepare", "dispatchAll", "dispatch"}
      BY DEF Prepare, DispatchAll, Dispatch
    <2>5. QED
      BY <1>6, <1>10, <2>1, <2>3, <2>4
  <1>12. \A k, s : Mark(k, s) \notin K /\ AddRedo(k) \notin K /\ Occupy(k) \notin K
    BY <1>11 DEF Mark, AddRedo, Occupy
  <1>13. PICK H : H = {}
    OBVIOUS
  <1>14. Tended(H, t, occ, busy)
    BY <1>4, <1>10, <1>13 DEF Working
  <1>15. Planned(K, t, w)
    BY <1>11, <1>12 DEF Planned
  <1>16. Tended(K, t, occ, busy2)
    BY <1>9, <1>10, <1>12, <1>13, <1>14 DEF Tended
  <1>17. Driven(K, t, p, busy2, calm)
    BY <1>11 DEF Driven, Going
  <1>18. /\ Planned(Held, tree, waiting)' /\ Tended(Held, tree, occupied, Busy)'
         /\ Driven(Held, tree, path, Busy, Calm)'
    BY <1>3, <1>10, <1>15, <1>16, <1>17
  <1>19. /\ meeting' = {} /\ queue' = <<>> /\ (Tasks # {} => waiting')
    BY <1>3, <1>5 DEF Working
  <1>20. \A i \in DOMAIN queue' : queue'[i].kind \notin {"failed", "errored", "reviewFailed"}
    BY <1>3 DEF Working
  <1>21. QED
    BY <1>18, <1>19, <1>20 DEF Working

\* No goroutine takes part.
LEMMA NewsWork ==
    ASSUME IInv, Flow, Working, Smooth',
           \/ \E j \in Jobs : JobDone(j)
           \/ \E n \in Named : AgentEnds(n)
           \/ \E n \in Reviewed : ReviewerEnds(n)
           \/ MeetingOver \/ AddAgent \/ UNCHANGED vars
    PROVE  Working'
  <1>1. UNCHANGED <<path, todo, tree, waiting, occupied>>
    BY DEF JobDone, AgentEnds, ReviewerEnds, MeetingOver, AddAgent, vars, disk, proxy
  <1>2. Calm' = Calm
    <2>1. CASE UNCHANGED vars
      BY <2>1 DEF vars, disk, proxy, Calm
    <2>2. QED
      BY <2>1, JobDoneFlow, AgentEndsFlow, ReviewerEndsFlow, AgentsFlow
  <1>3. Held' = Held
    BY <1>1 DEF Held
  <1>4. TypeOK /\ queue \in Seq(Event) /\ agents \in [Named -> Nat] /\ \A kind : ~Fault(kind)
    BY NoFaults DEF IInv, TypeOK
  <1>5. /\ meeting' = {} /\ Busy \subseteq Busy'
        /\ InSetup' => InSetup
        /\ \A i \in DOMAIN queue' : queue'[i].kind \notin {"failed", "errored", "reviewFailed"}
    <2>1. ASSUME NEW e \in Event, queue' = Append(queue, e),
                 e.kind \notin {"failed", "errored", "reviewFailed"}, meeting' = meeting,
                 \/ agents' = agents /\ e.kind # "completed"
                 \/ /\ e.kind = "completed" /\ e.node \in Named /\ agents[e.node] > 0
                    /\ agents' = [agents EXCEPT ![e.node] = @ - 1]
          PROVE  /\ meeting' = {} /\ Busy \subseteq Busy'
                 /\ InSetup' => InSetup
                 /\ \A i \in DOMAIN queue' : queue'[i].kind \notin {"failed", "errored", "reviewFailed"}
      <3>1. /\ DOMAIN queue' = DOMAIN queue \cup {Len(queue) + 1}
            /\ queue'[Len(queue) + 1] = e
            /\ \A i \in DOMAIN queue : queue'[i] = queue[i]
        BY <1>4, <2>1, QueueAppend
      <3>2. \A n \in Named : n # e.node \/ e.kind # "completed" => agents'[n] = agents[n]
        BY <1>4, <2>1
      <3>3. Busy \subseteq Busy'
        BY <2>1, <3>1, <3>2 DEF Busy
      <3>4. InSetup' => InSetup
        <4>1. Proposal \in Named
          BY DEF Named
        <4>2. CASE e.kind # "completed"
          BY <1>1, <2>1, <3>1, <4>2 DEF InSetup, AgentKinds
        <4>3. CASE e.kind = "completed"
          BY <1>1, <2>1, <3>1, <3>2, <4>1, <4>3 DEF InSetup
        <4>4. QED
          BY <4>2, <4>3
      <3>5. \A i \in DOMAIN queue' : queue'[i].kind \notin {"failed", "errored", "reviewFailed"}
        BY <2>1, <3>1 DEF Working
      <3>6. QED
        BY <2>1, <3>3, <3>4, <3>5 DEF Working
    <2>2. CASE \E j \in Jobs : JobDone(j)
      <3>1. PICK j \in Jobs : JobDone(j)
        BY <2>2
      <3>2. PICK result \in Results(j) : queue' = Append(queue, [kind |-> result, node |-> j[2]])
        BY <3>1 DEF JobDone
      <3>3. PICK e : e = [kind |-> result, node |-> j[2]]
        OBVIOUS
      <3>4. e.kind \in {"approved", "needsWork", "summarized"} /\ e \in Event
        BY <3>2, <3>3 DEF Results, Jobs, Event
      <3>5. agents' = agents /\ meeting' = meeting
        BY <3>1 DEF JobDone, proxy
      <3>6. queue' = Append(queue, e)
        BY <3>2, <3>3
      <3>7. QED
        BY <2>1, <3>4, <3>5, <3>6
    <2>3. CASE \E n \in Named : AgentEnds(n)
      <3>1. PICK n \in Named : AgentEnds(n)
        BY <2>3
      <3>2. PICK e : e = [kind |-> "completed", node |-> n]
        OBVIOUS
      <3>3. queue' = Append(queue, e) /\ agents[n] > 0 /\ agents' = [agents EXCEPT ![n] = @ - 1]
            /\ meeting' = meeting
        BY <1>4, <3>1, <3>2 DEF AgentEnds
      <3>4. e \in Event /\ e.kind = "completed" /\ e.node = n
        BY <3>2 DEF Event
      <3>5. QED
        BY <2>1, <3>3, <3>4
    <2>4. CASE \E n \in Reviewed : ReviewerEnds(n)
      <3>1. PICK n \in Reviewed : ReviewerEnds(n)
        BY <2>4
      <3>2. PICK e : e = [kind |-> "reviewed", node |-> n]
        OBVIOUS
      <3>3. queue' = Append(queue, e) /\ agents' = agents /\ meeting' = meeting
        BY <1>4, <3>1, <3>2 DEF ReviewerEnds
      <3>4. e \in Event /\ e.kind = "reviewed" /\ e.node = n
        BY <3>2 DEF Event
      <3>5. QED
        BY <2>1, <3>3, <3>4
    <2>5. ~MeetingOver /\ ~AddAgent
      BY <1>4 DEF MeetingOver, AddAgent, Working
    <2>6. CASE UNCHANGED vars
      <3>1. UNCHANGED <<meeting, queue, agents, path>>
        BY <2>6 DEF vars, proxy
      <3>2. QED
        BY <3>1 DEF Working, Busy, InSetup
    <2>7. QED
      BY <2>2, <2>3, <2>4, <2>5, <2>6
  <1>6. PICK H, t, w, occ, p, calm, busy, busy2 :
           /\ H = Held /\ t = tree /\ w = waiting /\ occ = occupied /\ p = path
           /\ calm = Calm /\ busy = Busy /\ busy2 = Busy'
    OBVIOUS
  <1>7. Planned(H, t, w) /\ Tended(H, t, occ, busy) /\ Driven(H, t, p, busy, calm) /\ busy \subseteq busy2
    BY <1>5, <1>6 DEF Working
  <1>8. Tended(H, t, occ, busy2) /\ Driven(H, t, p, busy2, calm)
    BY <1>7 DEF Tended, Driven, Going
  <1>9. /\ Planned(Held, tree, waiting)' /\ Tended(Held, tree, occupied, Busy)'
        /\ Driven(Held, tree, path, Busy, Calm)'
    BY <1>1, <1>2, <1>3, <1>6, <1>7, <1>8
  <1>10. InSetup' /\ path' # "none" => (Tasks # {} => waiting')
    BY <1>1, <1>5 DEF Working
  <1>11. QED
    BY <1>5, <1>9, <1>10 DEF Working

\* At first every task is pending, and the run is not started.
LEMMA InitWork == Init => Working
  <1> SUFFICES ASSUME Init PROVE Working
    OBVIOUS
  <1>1. Held = {}
    <2>1. \A g \in Goroutines : todo[g] = <<>>
      BY DEF Init
    <2>2. QED
      BY <2>1, ElemsOf DEF Held
  <1>2. \A k \in Work : tree.st[k] \in {"absent", "pending"}
    BY Kinds DEF Init
  <1>3. PICK H, t, w, occ, p, calm, busy :
           /\ H = Held /\ t = tree /\ w = waiting /\ occ = occupied /\ p = path
           /\ calm = Calm /\ busy = Busy
    OBVIOUS
  <1>4. H = {} /\ occ = {} /\ p = "none" /\ \A k \in Work : t.st[k] \in {"absent", "pending"}
    BY <1>1, <1>2, <1>3 DEF Init
  <1>5. Planned(H, t, w) /\ Tended(H, t, occ, busy) /\ Driven(H, t, p, busy, calm)
    BY <1>4 DEF Planned, Tended, Driven, Going
  <1>6. meeting = {} /\ path = "none" /\ \A i \in DOMAIN queue : FALSE
    BY SeqIs DEF Init
  <1>7. QED
    BY <1>3, <1>5, <1>6 DEF Working

-----------------------------------------------------------------------------
\* The theorems

\* Every step of a run without a fault keeps the work going.
LEMMA WorkStep == ASSUME IInv, Flow, Courses, Working, [Next]_vars, Smooth' PROVE Working'
  <1>1. ASSUME NEW g \in Goroutines, Step(g) PROVE Working'
    BY <1>1, TreeWork, OccupiedWork, SideWork, TakeWork, PickWork, CreateWork, SendWork DEF Step
  <1>2. CASE LoopStep
    BY <1>1, <1>2, HandleWork, LoopWork DEF LoopStep, Goroutines
  <1>3. CASE Step("starter")
    BY <1>1, <1>3 DEF Goroutines
  <1>4. CASE \E p \in Paths : Start(p)
    BY <1>4, StartWork
  <1>5. QED
    BY <1>2, <1>3, <1>4, NewsWork DEF Next

\* While nothing goes wrong, no task is forgotten: as long as one is pending,
\* an agent is at work, a completion or a review is under way, or a goroutine
\* is about to dispatch tasks; and a running task has an agent, or its
\* completion is about to be written (handleTaskCompleted, applyReviewDecision,
\* DispatchNextPendingTask, dispatchTasks).
THEOREM WorkCorrect == Spec => [](Smooth => Working)
  <1>1. Init => IInv /\ (Orderly => Flow) /\ (Prompt => Courses) /\ (Smooth => Working)
    BY InitInv, InitFlow, InitCourse, InitWork
  <1>2. /\ IInv /\ (Orderly => Flow) /\ (Prompt => Courses) /\ (Smooth => Working) /\ [Next]_vars
        => (Smooth => Working)'
    <2> SUFFICES ASSUME IInv, Orderly => Flow, Prompt => Courses, Smooth => Working,
                        [Next]_vars, Smooth'
                 PROVE  Working'
      OBVIOUS
    <2>1. Smooth
      BY NoFaults DEF IInv
    <2>2. Orderly /\ Prompt
      BY <2>1, SeqIs DEF Smooth, Orderly, Prompt, Answers, HasFault
    <2>3. QED
      BY <2>1, <2>2, WorkStep
  <1>3. Spec => [](Orderly => Flow)
    BY FlowCorrect
  <1>4. Spec => [](Prompt => Courses)
    BY CourseCorrect
  <1>5. QED
    BY <1>1, <1>2, <1>3, <1>4, InitInv, NextInv, PTL DEF Spec

\* When a run has come to rest, each milestone that has tasks, all of them
\* complete, has been reviewed to its end and merged once, if commands were
\* answered and the goroutines took turns; and if nothing went wrong no task is
\* left over, those that reviews have added included (checkMilestoneCompletion,
\* applyReviewDecision, DispatchNextPendingTask).
THEOREM NothingLeftCorrect == Spec => []NothingLeft
  <1>1. ASSUME Courses, Working, AtRest PROVE ~Resumable
    <2>1. Held = {}
      BY <1>1, ElemsOf DEF Held, AtRest
    <2>2. Busy = {}
      <3>1. \A n \in Named : agents[n] = 0
        BY <1>1 DEF AtRest
      <3>2. DOMAIN queue = {}
        BY <1>1, SeqIs DEF AtRest
      <3>3. QED
        BY <3>1, <3>2 DEF Busy
    <2>3. ASSUME NEW n \in Reviewed PROVE n \in Calm
      <3>1. <<"review", n>> \in Jobs /\ About(n, queue) = {}
        BY <1>1 DEF AtRest, Jobs, About
      <3>2. QED
        BY <1>1, <3>1 DEF Calm, Quiet, AtRest, Courses
    <2>4. PICK H, busy, calm : H = Held /\ busy = Busy /\ calm = Calm
      OBVIOUS
    <2>5. Tended(H, tree, occupied, busy) /\ Driven(H, tree, path, busy, calm)
      BY <1>1, <2>4 DEF Working
    <2>6. ~Going(H, path, busy, calm)
      BY <1>1, <2>1, <2>2, <2>3, <2>4 DEF Going, AtRest
    <2>7. \A k \in Work : tree.st[k] \in {"absent", "complete"}
      BY <2>1, <2>2, <2>4, <2>5, <2>6 DEF Tended, Driven
    <2>8. QED
      BY <2>7 DEF Resumable, Present
  <1>2. /\ Smooth => Prompt
        /\ (Prompt => Courses) /\ (Smooth => Working) /\ AtRest /\ Smooth => ~Resumable
    <2>1. Smooth => Prompt
      BY SeqIs DEF Smooth, Prompt, Answers, HasFault
    <2>2. QED
      BY <1>1, <2>1
  <1>3. /\ (Prompt => Courses) /\ (Smooth => Working)
        /\ (AtRest /\ Prompt =>
              \A m \in Milestones : Children(m) # {} /\ AllComplete(m)
                                      => tree.st[m] = "complete" /\ merged[m] = 1)
        => NothingLeft
    BY <1>2 DEF NothingLeft, Prompt, Smooth
  <1>4. QED
    BY <1>3, CourseCorrect, WorkCorrect, MergedOnceCorrect, PTL

-----------------------------------------------------------------------------
(***************************************************************************)
(* The frontiers, whatever goes wrong: while the skeleton's are being      *)
(* saved, nobody else has anything to do.                                  *)
(***************************************************************************)
\* Nobody but the starter has anything to do.
Still ==
    /\ todo["loop"] = <<>> /\ queue = <<>> /\ meeting = {}
    /\ \A j \in Jobs : jobs[j] = 0
    /\ \A n \in Named : agents[n] = 0
    /\ \A n \in Reviewed : reviewers[n] = 0
    /\ \A n \in Work : tree.st[n] # "error"
Opening == todo["starter"] \in {<<Prepare, DispatchAll>>, <<<<"frontiers">>, DispatchAll>>}
Fresh == /\ path = "none" => Still /\ todo["starter"] = <<>>
         /\ path = "skeleton" => Tasks \subseteq frontiers \/ (Opening /\ Still)

LEMMA FreshStep == ASSUME IInv, Fresh, [Next]_vars PROVE Fresh'
  <1>1. /\ TypeOK /\ todo \in [Goroutines -> Seq(Ops)] /\ Goroutines = {"loop", "starter"}
        /\ "loop" \in Goroutines /\ "starter" \in Goroutines
    BY TodoOps DEF IInv, Goroutines
  <1>2. frontiers \subseteq frontiers' /\ (path # "none" => path' = path)
    <2>1. ASSUME NEW g, Step(g) PROVE frontiers \subseteq frontiers' /\ path' = path
      <3>1. CASE \/ ReadTree(g) \/ WriteTree(g) \/ ReadOccupied(g) \/ WriteOccupied(g)
                 \/ SaveHistories(g) \/ SaveFrontiers(g) \/ OpenHistories(g)
        BY <3>1 DEF ReadTree, WriteTree, ReadOccupied, WriteOccupied, SaveHistories, SaveFrontiers,
                    OpenHistories
      <3>2. CASE BuildHistory(g)
        BY <3>2 DEF BuildHistory, MilestoneHistory, TaskHistory
      <3>3. CASE \/ TakeWaiting(g) \/ DispatchOne(g) \/ SendCreate(g) \/ NextRead(g) \/ NextReview(g)
                 \/ NextPick(g) \/ CheckAbove(g) \/ BeginReview(g) \/ AskReview(g) \/ SendMerge(g)
        BY <3>3 DEF TakeWaiting, DispatchOne, SendCreate, NextRead, NextReview, NextPick, CheckAbove,
                    BeginReview, AskReview, SendMerge, disk
      <3>4. QED
        BY <2>1, <3>1, <3>2, <3>3 DEF Step
    <2>2. CASE Handle \/ SkipInMeeting \/ TriggerMeeting \/ MeetingOver \/ AddAgent \/ UNCHANGED vars
      BY <2>2 DEF Handle, SkipInMeeting, TriggerMeeting, MeetingOver, AddAgent, vars, disk
    <2>3. CASE \/ (\E j \in Jobs : JobDone(j)) \/ (\E n \in Named : AgentEnds(n))
               \/ (\E n \in Reviewed : ReviewerEnds(n)) \/ (\E p \in Paths : Start(p))
      BY <2>3 DEF JobDone, AgentEnds, ReviewerEnds, Start, disk
    <2>4. QED
      BY <2>1, <2>2, <2>3 DEF Next, LoopStep
  <1>3. ASSUME Still, todo["starter"] = <<>> \/ Opening
        PROVE  \/ UNCHANGED vars \/ (\E p \in Paths : Start(p))
               \/ SaveHistories("starter") \/ SaveFrontiers("starter")
    <2>1. ~Handle /\ ~SkipInMeeting /\ ~TriggerMeeting /\ ~MeetingOver
      BY <1>3 DEF Still, Handle, SkipInMeeting, TriggerMeeting, Doing, MeetingOver
    <2>2. ~(\E j \in Jobs : JobDone(j)) /\ ~(\E n \in Named : AgentEnds(n))
      BY <1>3 DEF Still, JobDone, AgentEnds
    <2>3. ~(\E n \in Reviewed : ReviewerEnds(n)) /\ ~AddAgent
      BY <1>3 DEF Still, ReviewerEnds, AddAgent
    <2>4. ~Step("loop")
      BY <1>3 DEF Still, Step, Doing, ReadTree, WriteTree, ReadOccupied, WriteOccupied, SaveHistories,
                  SaveFrontiers, OpenHistories, BuildHistory, TakeWaiting, DispatchOne, SendCreate,
                  NextRead, NextReview, NextPick, CheckAbove, BeginReview, AskReview, SendMerge
    <2>5. Step("starter") => SaveHistories("starter") \/ SaveFrontiers("starter")
      <3>1. todo["starter"] # <<>> => Op("starter")[1] \in {"prepare", "frontiers"}
        BY <1>3 DEF Opening, Op, Prepare
      <3>2. QED
        BY <3>1 DEF Step, Doing, ReadTree, WriteTree, ReadOccupied, WriteOccupied,
                    OpenHistories, BuildHistory, TakeWaiting, DispatchOne, SendCreate,
                    NextRead, NextReview, NextPick, CheckAbove, BeginReview, AskReview, SendMerge
    <2>6. QED
      BY <2>1, <2>2, <2>3, <2>4, <2>5 DEF Next, LoopStep
  <1>4. CASE UNCHANGED vars
    BY <1>4 DEF Fresh, Still, Opening, vars, disk, proxy
  <1>5. CASE path = "none" /\ \E p \in Paths : Start(p)
    <2>1. PICK p \in Paths : Start(p)
      BY <1>5
    <2>2. path' = p /\ p # "none" /\ Still
      BY <1>5, <2>1, TreeAssumption DEF Start, Fresh
    <2>3. CASE p = "skeleton"
      <3>1. todo' = [todo EXCEPT !["starter"] = <<Prepare, DispatchAll>>]
        BY <2>1, <2>3 DEF Start, Begin
      <3>2. todo'["starter"] = <<Prepare, DispatchAll>> /\ todo'["loop"] = todo["loop"]
        BY <1>1, <3>1
      <3>3. UNCHANGED <<tree, queue, meeting, jobs, agents, reviewers>>
        BY <2>1, <2>3 DEF Start, disk
      <3>4. QED
        BY <2>2, <2>3, <3>2, <3>3 DEF Fresh, Still, Opening
    <2>4. QED
      BY <2>2, <2>3 DEF Fresh
  <1>6. CASE SaveFrontiers("starter") /\ path # "none"
    BY <1>2, <1>6 DEF SaveFrontiers, Fresh
  <1>7. CASE SaveHistories("starter") /\ path = "skeleton" /\ Opening /\ Still
    <2>1. Op("starter")[1] = "prepare"
      BY <1>7 DEF SaveHistories, Doing
    <2>2. todo["starter"] = <<Prepare, DispatchAll>>
      BY <1>7, <2>1 DEF Opening, Op
    <2>3. todo'["starter"] = <<<<"frontiers">>>> \o Tail(<<Prepare, DispatchAll>>)
          /\ todo'["loop"] = todo["loop"]
      BY <1>1, <1>7, <2>2 DEF SaveHistories, Replace
    <2>4. todo'["starter"] = <<<<"frontiers">>, DispatchAll>>
      <3>1. ASSUME NEW a, NEW b, NEW d PROVE <<d>> \o Tail(<<a, b>>) = <<d, b>>
        <4>1. Tail(<<a, b>>) = <<b>>
          OBVIOUS
        <4>2. <<d>> \o <<b>> = <<d, b>>
          <5> DEFINE S == {b, d}
                     v == <<d>> \o <<b>>
                     w == <<d, b>>
          <5>1. <<d>> \in Seq(S) /\ <<b>> \in Seq(S) /\ w \in Seq(S) /\ Len(w) = 2
            OBVIOUS
          <5>2. v \in Seq(S) /\ Len(v) = 2 /\ \A i \in 1 .. 2 : v[i] = IF i <= 1 THEN d ELSE <<b>>[i - 1]
            BY <5>1, ConcatProperties
          <5>3. \A i \in 1 .. 2 : v[i] = w[i]
            BY <5>2
          <5> HIDE DEF v, w, S
          <5>4. v = w
            BY <5>1, <5>2, <5>3, SeqEqual
          <5>5. QED
            BY <5>4 DEF v, w
        <4>3. QED
          BY <4>1, <4>2
      <3>2. QED
        BY <2>3, <3>1
    <2>5. UNCHANGED <<path, tree, queue, meeting, jobs, agents, reviewers>>
      BY <1>7 DEF SaveHistories, proxy
    <2>6. QED
      BY <1>7, <2>3, <2>4, <2>5 DEF Fresh, Still, Opening
  <1>8. CASE path = "none"
    <2>1. Still /\ todo["starter"] = <<>>
      BY <1>8 DEF Fresh
    <2>2. ~SaveHistories("starter") /\ ~SaveFrontiers("starter")
      BY <2>1 DEF SaveHistories, SaveFrontiers, Doing
    <2>3. QED
      BY <1>3, <1>4, <1>5, <1>8, <2>1, <2>2
  <1>9. CASE path = "skeleton" /\ ~(Tasks \subseteq frontiers)
    <2>1. Opening /\ Still
      BY <1>9 DEF Fresh
    <2>2. ~\E p \in Paths : Start(p)
      BY <1>9 DEF Start
    <2>3. QED
      BY <1>3, <1>4, <1>6, <1>7, <1>9, <2>1, <2>2
  <1>10. CASE path # "none" /\ (path = "skeleton" => Tasks \subseteq frontiers)
    BY <1>2, <1>10 DEF Fresh
  <1>11. QED
    BY <1>8, <1>9, <1>10

\* In a run whose skeleton the proxy made, no agent is given a planned task
\* that has no frontier yet, whatever goes wrong (prepareHistoriesAndDispatch).
THEOREM FrontiersFirstCorrect ==
    Spec => [](path = "skeleton" => \A n \in Tasks : agents[n] > 0 => n \in frontiers)
  <1>1. Init => Fresh
    <2>1. Init => \A n \in Work : tree.st[n] # "error"
      BY Kinds DEF Init
    <2>2. QED
      BY <2>1 DEF Init, Fresh, Still, Goroutines
  <1>2. IInv /\ Fresh /\ [Next]_vars => Fresh'
    BY FreshStep
  <1>3. IInv /\ Fresh => (path = "skeleton" => \A n \in Tasks : agents[n] > 0 => n \in frontiers)
    BY DEF Fresh, Still, Named, Work
  <1>4. QED
    BY <1>1, <1>2, <1>3, InitInv, NextInv, PTL DEF Spec

-----------------------------------------------------------------------------
(***************************************************************************)
(* The histories, for runs in which commands may be refused and agents may *)
(* fail, twice at most.                                                    *)
(***************************************************************************)
\* At most two things have gone wrong, and nothing that gives a node two agents.
Few == NoTwins /\ Len(faults) <= 2

Failing == {"failed", "errored"}

\* Channel q holds an event of one of these kinds about k.
Comes(k, kinds, q) == \E i \in DOMAIN q : q[i].kind \in kinds /\ q[i].node = k

\* The completion, or a failure, of k is not written to the tree yet.
Closing(k, H, q) == Comes(k, {"completed"}, q) \/ Mark(k, "complete") \in H
Breaking(k, H, q) == Comes(k, Failing, q) \/ Mark(k, "error") \in H

\* A meeting may come of what the loop is doing.
Stirring(H) == \E op \in H : op[1] = "trigger" \/ (op[1] = "mark" /\ op[3] = "error")

\* The failures in q are one at most.
Lone(q) == \A i, j \in DOMAIN q : q[i].kind \in Failing /\ q[j].kind \in Failing => i = j
Failed(q) == \E i \in DOMAIN q : q[i].kind \in Failing
\* Those of k are one at most.
Sole(k, q) == \A i, j \in DOMAIN q : /\ q[i].kind \in Failing /\ q[i].node = k
                                     /\ q[j].kind \in Failing /\ q[j].node = k
                                     => i = j

\* A meeting has put an agent to k again.
Again(k, H, t, ag, q) ==
    t.st[k] = "error" /\ (ag[k] > 0 \/ Closing(k, H, q) \/ Breaking(k, H, q))

\* What follows the creation of a task concerns that task; and only a cycle
\* puts a node in review.
Own(op) ==
    /\ op[1] = "create" => \A i \in DOMAIN op[3] : op[3][i][2] \in Work => op[3][i][2] = op[2]
    /\ op[1] = "mark" => op[3] # "reviewing"

\* What may be of a node: one that may still fail is not complete.
Fate(k, H, t, ag, q, mt, c) ==
    /\ Comes(k, AgentKinds, q) =>
          t.st[k] # "absent" /\ (t.st[k] = "pending" => Mark(k, "running") \in H)
    /\ Mark(k, "complete") \in H \/ Mark(k, "error") \in H => t.st[k] \notin {"absent", "pending"}
    /\ Mark(k, "running") \in H => t.st[k] = "pending"
    /\ Breaking(k, H, q) => t.st[k] # "complete" /\ ~Closing(k, H, q) /\ ag[k] = 0
    /\ c <= 1 /\ ag[k] > 0 => t.st[k] # "complete" /\ ~Closing(k, H, q)
    /\ t.st[k] = "error" /\ Breaking(k, H, q) => mt = {}
    /\ t.st[k] = "error" /\ Comes(k, Failing, q) => ~Stirring(H) /\ Lone(q)
    /\ Sole(k, q)
    /\ ~(Comes(k, Failing, q) /\ Mark(k, "error") \in H)

\* The first fault leads to one failure, which leads to one meeting, which
\* leads to agents at work again.
Chain(H, t, ag, q, mt) ==
    /\ Lone(q)
    /\ Failed(q) => ~Stirring(H) /\ mt = {}
    /\ Stirring(H) => mt = {}
    /\ (\E k \in Work : Again(k, H, t, ag, q)) => ~Failed(q) /\ ~Stirring(H) /\ mt = {}

Fates(H, t, ag, q, mt, c) ==
    /\ \A op \in H : Own(op)
    /\ \A k \in Work : Fate(k, H, t, ag, q, mt, c)
    /\ c <= 1 => Chain(H, t, ag, q, mt)
    /\ c = 0 => /\ ~Failed(q) /\ ~Stirring(H) /\ mt = {}
                /\ \A k \in Work : t.st[k] # "error"

\* The summary of k is still to be entered in the histories.
Owed(k, H, jb, q) ==
    History(k) \in H \/ (k \in Late /\ (jb[<<"summary", k>>] > 0 \/ Comes(k, {"summarized"}, q)))

Kept(H, t, jb, q, rec) ==
    /\ \A n \in Milestones :
          /\ rec[n].shows \subseteq {k \in Below(n) : t.st[k] = "complete"}
          /\ rec[n].kept => \A k \in Below(n) : t.st[k] = "complete" => k \in rec[n].shows \/ Owed(k, H, jb, q)
          /\ t.st[n] = "complete" \/ Mark(n, "complete") \in H => rec[n].kept \/ History(n) \in H
    /\ \A k \in Work : Mark(k, "complete") \in H => Owed(k, H, jb, q)
    /\ Prepare \in H => Bare(t)

\* One meeting may come of it at most.
Once == \A g \in Goroutines : \A i, j \in DOMAIN todo[g] :
            todo[g][i][1] = "trigger" /\ todo[g][j][1] = "trigger" => i = j

Recorded == /\ Once
            /\ Fates(Held, tree, agents, queue, meeting, Len(faults))
            /\ Kept(Held, tree, jobs, queue, records)

-----------------------------------------------------------------------------
\* What an operation that comes in next to those of E may be, unless it is the
\* loop's for an event.
Mild(op, E) ==
    /\ op[1] \notin {"trigger", "prepare"} /\ Own(op)
    /\ op[1] = "mark" => /\ op[2] \in Reviewed /\ op[3] # "error"
                         /\ op[3] = "complete" => History(op[2]) \in E

\* What has gone wrong before a step after which little has.
LEMMA FewFaults ==
    ASSUME TypeOK, Few', [Next]_vars
    PROVE  /\ Few /\ Orderly /\ Orderly'
           /\ \A kind \in {"overlap", "timeout", "add"} : ~Fault(kind)
           /\ Len(faults) \in 0 .. 2 /\ Len(faults') \in 0 .. 2 /\ Len(faults) <= Len(faults')
           /\ NoFault => Len(faults') = Len(faults)
           /\ \A kind : Fault(kind) => Len(faults') = Len(faults) + 1
  <1>1. faults \in Seq(Faults) /\ Len(faults) \in Nat
    BY LenProperties DEF TypeOK
  <1>2. \A kind \in Faults : Len(Append(faults, kind)) = Len(faults) + 1
    BY <1>1, AppendProperties
  <1>3. \A kind : Fault(kind) => Len(faults') = Len(faults) + 1
    BY <1>2 DEF Fault
  <1>4. NoFault => Len(faults') = Len(faults)
    BY DEF NoFault
  <1>5. Len(faults') = Len(faults) \/ Len(faults') = Len(faults) + 1
    BY <1>2, <1>4, FaultStep
  <1>6. NoTwins
    BY FaultsKept DEF Few, NoTwins
  <1>7. \A kind \in {"overlap", "timeout", "add"} : ~Fault(kind)
    BY FaultLast DEF Few, NoTwins
  <1>8. Len(faults') <= 2
    BY DEF Few
  <1>9. Orderly /\ Orderly'
    BY <1>6 DEF Few, NoTwins, Orderly
  <1>10. /\ Len(faults) \in 0 .. 2 /\ Len(faults') \in 0 .. 2 /\ Len(faults) <= Len(faults')
    <2>1. PICK a, b : a = Len(faults) /\ b = Len(faults')
      OBVIOUS
    <2>2. a \in Nat /\ (b = a \/ b = a + 1) /\ b <= 2
      BY <1>1, <1>5, <1>8, <2>1
    <2>3. a \in 0 .. 2 /\ b \in 0 .. 2 /\ a <= b
      BY <2>2
    <2>4. QED
      BY <2>1, <2>3
  <1>11. Few
    BY <1>6, <1>10 DEF Few
  <1>12. QED
    BY <1>3, <1>4, <1>7, <1>9, <1>10, <1>11

\* A goroutine does something that no meeting comes of.
LEMMA OnceStep ==
    ASSUME IInv, Flow, Once, NEW g \in Goroutines, todo[g] # <<>>, NEW ops \in Seq(Ops),
           Replace(g, ops), \A op \in Elems(ops) : op[1] # "trigger"
    PROVE  Once' /\ (Op(g)[1] = "trigger" => \A op \in Held' : op[1] # "trigger")
  <1> DEFINE s == todo[g]
             r == Tail(s)
             w == ops \o r
  <1>1. s \in Seq(Ops) /\ s # <<>> /\ Op(g) = Head(s)
    BY TodoOps DEF Op
  <1>2. /\ todo'[g] = w
        /\ \A k \in Goroutines \ {g} : todo'[k] = <<>>
    BY TodoOps DEF Flow, Turns, Goroutines, Replace
  <1>3. Held' = Elems(todo'[g])
    <2>1. \A k \in Goroutines \ {g} : Elems(todo'[k]) = {}
      BY <1>2, ElemsOf
    <2>2. QED
      BY <2>1 DEF Held
  <1>4. \A i, j \in DOMAIN s : s[i][1] = "trigger" /\ s[j][1] = "trigger" => i = j
    BY DEF Once
  <1> HIDE DEF s
  <1>5. /\ Len(s) \in Nat /\ Len(s) > 0 /\ DOMAIN s = 1 .. Len(s) /\ Head(s) = s[1]
        /\ r \in Seq(Ops) /\ Len(r) = Len(s) - 1
        /\ \A i \in 1 .. Len(r) : r[i] = s[i + 1]
    BY <1>1, SeqIs, HeadTailProperties
  <1>6. Len(ops) \in Nat /\ DOMAIN ops = 1 .. Len(ops)
    BY SeqIs
  <1>7. /\ w \in Seq(Ops) /\ Len(w) = Len(ops) + Len(r)
        /\ \A i \in 1 .. (Len(ops) + Len(r)) : w[i] = IF i <= Len(ops) THEN ops[i] ELSE r[i - Len(ops)]
    BY <1>5, ConcatProperties
  <1>8. DOMAIN w = 1 .. (Len(ops) + Len(r))
    BY <1>7, SeqIs
  <1> HIDE DEF w, r
  <1>9. \A i \in DOMAIN w : w[i][1] = "trigger" =>
           i - Len(ops) + 1 \in DOMAIN s /\ i - Len(ops) + 1 # 1 /\ w[i] = s[i - Len(ops) + 1]
    <2> SUFFICES ASSUME NEW i \in DOMAIN w, w[i][1] = "trigger"
                 PROVE  i - Len(ops) + 1 \in DOMAIN s /\ i - Len(ops) + 1 # 1 /\ w[i] = s[i - Len(ops) + 1]
      OBVIOUS
    <2>1. ~(i <= Len(ops))
      BY <1>6, <1>7, <1>8 DEF Elems
    <2>2. i - Len(ops) \in 1 .. Len(r) /\ w[i] = r[i - Len(ops)]
      BY <1>5, <1>6, <1>7, <1>8, <2>1
    <2>3. QED
      BY <1>5, <1>6, <1>8, <2>2
  <1>10. \A i, j \in DOMAIN w : w[i][1] = "trigger" /\ w[j][1] = "trigger" => i = j
    <2> SUFFICES ASSUME NEW i \in DOMAIN w, NEW j \in DOMAIN w, w[i][1] = "trigger", w[j][1] = "trigger"
                 PROVE  i = j
      OBVIOUS
    <2>1. i - Len(ops) + 1 = j - Len(ops) + 1
      BY <1>4, <1>9
    <2>2. QED
      BY <1>5, <1>6, <1>8, <2>1
  <1>11. Once'
    <2>1. \A k \in Goroutines \ {g} : DOMAIN todo'[k] = {}
      BY <1>2, SeqIs
    <2>2. QED
      BY <1>2, <1>10, <2>1 DEF Once
  <1>12. ASSUME Op(g)[1] = "trigger", NEW op \in Held', op[1] = "trigger" PROVE FALSE
    <2>1. PICK i \in DOMAIN w : op = w[i]
      BY <1>2, <1>3, <1>12 DEF Elems
    <2>2. 1 \in DOMAIN s /\ s[1][1] = "trigger"
      BY <1>1, <1>5, <1>12
    <2>3. QED
      BY <1>4, <1>9, <1>12, <2>1, <2>2
  <1>13. QED
    BY <1>11, <1>12

\* A goroutine does something that says nothing of a node at work.
LEMMA TurnFates ==
    ASSUME IInv, Flow, Recorded, Few', [Next]_vars, NEW g \in Goroutines, todo[g] # <<>>,
           NEW ops \in Seq(Ops), Replace(g, ops), \A k \in Work : \A s : Op(g) # Mark(k, s),
           UNCHANGED <<tree, agents, queue, meeting>>, \A op \in Elems(ops) : Mild(op, Elems(ops))
    PROVE  Fates(Held, tree, agents, queue, meeting, Len(faults))'
  <1>1. PICK R \in SUBSET Ops : /\ Held = {Op(g)} \cup R /\ Held' = Elems(ops) \cup R
                                /\ \A b \in R : Before(Op(g), b)
    BY HeldStep
  <1>2. PICK a, E, H, K, t, ag, q, mt, c, c2 :
           /\ a = Op(g) /\ E = Elems(ops) /\ H = Held /\ K = Held' /\ t = tree /\ ag = agents
           /\ q = queue /\ mt = meeting /\ c = Len(faults) /\ c2 = Len(faults')
    OBVIOUS
  <1>3. c \in 0 .. 2 /\ c2 \in 0 .. 2 /\ c <= c2
    BY <1>2, FewFaults DEF IInv
  <1>4. Fates(H, t, ag, q, mt, c)
    BY <1>2 DEF Recorded
  <1>5. /\ H = {a} \cup R /\ K = E \cup R /\ \A op \in E : Mild(op, E)
        /\ \A k \in Work : \A s : a # Mark(k, s)
    BY <1>1, <1>2
  <1>6. \A k \in Work : \A s : Mark(k, s) \in H <=> Mark(k, s) \in K
    <2>1. \A k \in Work : \A s : Mark(k, s) \notin E
      BY <1>5, Kinds DEF Mild, Mark
    <2>2. QED
      BY <1>5, <2>1
  <1>7. Stirring(K) => Stirring(H)
    BY <1>5 DEF Stirring, Mild
  <1>8. \A op \in K : Own(op)
    BY <1>4, <1>5 DEF Fates, Mild
  <1>9. \A k \in Work : /\ Closing(k, K, q) <=> Closing(k, H, q)
                        /\ Breaking(k, K, q) <=> Breaking(k, H, q)
    BY <1>6 DEF Closing, Breaking
  <1>10. ASSUME NEW k \in Work PROVE Fate(k, K, t, ag, q, mt, c2)
    <2>1. Fate(k, H, t, ag, q, mt, c)
      BY <1>4 DEF Fates
    <2>2. QED
      BY <1>3, <1>6, <1>7, <1>9, <2>1 DEF Fate
  <1>11. Chain(H, t, ag, q, mt) => Chain(K, t, ag, q, mt)
    BY <1>7, <1>9 DEF Chain, Again
  <1>12. Fates(K, t, ag, q, mt, c2)
    BY <1>3, <1>4, <1>7, <1>8, <1>10, <1>11 DEF Fates
  <1>13. QED
    BY <1>2, <1>12

\* Nor has it to do with the histories.
LEMMA TurnKept ==
    ASSUME IInv, Flow, Recorded, Few', [Next]_vars, NEW g \in Goroutines, todo[g] # <<>>,
           NEW ops \in Seq(Ops), Replace(g, ops), Op(g)[1] \notin {"mark", "history"},
           UNCHANGED <<tree, agents, queue, meeting, jobs, records>>,
           \A op \in Elems(ops) : Mild(op, Elems(ops))
    PROVE  Recorded'
  <1>1. \A k \in Work : \A s : Op(g) # Mark(k, s)
    BY DEF Mark
  <1>2. Fates(Held, tree, agents, queue, meeting, Len(faults))'
    BY <1>1, TurnFates
  <1>3. PICK R \in SUBSET Ops : /\ Held = {Op(g)} \cup R /\ Held' = Elems(ops) \cup R
                                /\ \A b \in R : Before(Op(g), b)
    BY HeldStep
  <1>4. PICK a, E, H, K, t, q, jb, rec :
           /\ a = Op(g) /\ E = Elems(ops) /\ H = Held /\ K = Held' /\ t = tree
           /\ q = queue /\ jb = jobs /\ rec = records
    OBVIOUS
  <1>5. Kept(H, t, jb, q, rec)
    BY <1>4 DEF Recorded
  <1>6. /\ H = {a} \cup R /\ K = E \cup R /\ a[1] \notin {"mark", "history"}
        /\ \A op \in E : Mild(op, E)
    BY <1>3, <1>4
  <1>7. \A k : Owed(k, H, jb, q) => Owed(k, K, jb, q)
    BY <1>6 DEF Owed, History
  <1>8. \A k : History(k) \in H => History(k) \in K
    BY <1>6 DEF History
  <1>9. \A k : Mark(k, "complete") \in K =>
           Mark(k, "complete") \in H \/ (k \in Reviewed /\ History(k) \in K)
    BY <1>6 DEF Mild, Mark
  <1>10. Prepare \in K => Prepare \in H
    BY <1>6 DEF Mild, Prepare
  <1>11. Kept(K, t, jb, q, rec)
    BY <1>5, <1>7, <1>8, <1>9, <1>10, Kinds DEF Kept
  <1>12. Once'
    BY OnceStep DEF Recorded, Mild
  <1>13. QED
    BY <1>2, <1>4, <1>11, <1>12 DEF Recorded

\* It comes to do nothing, or one thing more.
LEMMA TurnOne ==
    ASSUME IInv, Flow, Recorded, Few', [Next]_vars, NEW g \in Goroutines, todo[g] # <<>>,
           NEW ops, \/ ops = <<>>
                    \/ \E a \in Ops : /\ ops = <<a>> /\ Own(a)
                                      /\ a[1] \notin {"trigger", "prepare", "mark"},
           Replace(g, ops), Op(g)[1] \notin {"mark", "history"},
           UNCHANGED <<tree, agents, queue, meeting, jobs, records>>
    PROVE  Recorded'
  <1>1. CASE ops = <<>>
    <2>1. ops \in Seq(Ops) /\ Elems(ops) = {}
      BY <1>1, EmptySeq, ElemsOf
    <2>2. QED
      BY <2>1, TurnKept
  <1>2. ASSUME NEW a \in Ops, ops = <<a>>, Own(a), a[1] \notin {"trigger", "prepare", "mark"}
        PROVE  Recorded'
    <2>1. ops \in Seq(Ops) /\ Elems(ops) = {a}
      BY <1>2, GoodSeqs, ElemsOf
    <2>2. \A op \in Elems(ops) : Mild(op, Elems(ops))
      BY <1>2, <2>1 DEF Mild
    <2>3. QED
      BY <2>1, <2>2, TurnKept
  <1>3. QED
    BY <1>1, <1>2

-----------------------------------------------------------------------------
\* The steps of the goroutines

LEMMA SideKept ==
    ASSUME IInv, Flow, Recorded, Few', [Next]_vars, NEW g \in Goroutines,
           \/ SaveFrontiers(g) \/ NextRead(g) \/ CheckAbove(g) \/ TakeWaiting(g)
           \/ ReadOccupied(g) \/ NextReview(g) \/ AskReview(g) \/ SendMerge(g)
    PROVE  Recorded'
  <1>1. TypeOK
    BY DEF IInv
  <1>2. UNCHANGED <<tree, agents, queue, meeting, jobs, records>>
    BY DEF SaveFrontiers, NextRead, CheckAbove, TakeWaiting, ReadOccupied, NextReview, AskReview,
           SendMerge, disk, proxy
  <1>3. PICK what \in {"frontiers", "next", "check", "dispatchAll", "occupy", "release", "retry",
                       "ask", "merge"} : Doing(g, what)
    BY DEF SaveFrontiers, NextRead, CheckAbove, TakeWaiting, ReadOccupied, NextReview, AskReview,
           SendMerge
  <1>4. /\ Op(g) \in Ops /\ Op(g)[1] = what /\ todo[g] # <<>> /\ Alone(g)
        /\ Op(g)[1] \notin {"mark", "history"}
    BY <1>3, OpFits DEF Alone
  <1>5. CASE Replace(g, <<>>)
    BY <1>2, <1>4, <1>5, TurnOne
  <1>6. ASSUME NEW a \in Ops, Replace(g, <<a>>),
               a[1] \notin {"trigger", "prepare", "mark", "create"}
        PROVE  Recorded'
    BY <1>2, <1>4, <1>6, TurnOne DEF Own
  <1>7. CASE SaveFrontiers(g) \/ AskReview(g) \/ SendMerge(g) \/ ReadOccupied(g)
    BY <1>4, <1>5, <1>7 DEF SaveFrontiers, AskReview, SendMerge, ReadOccupied, Done
  <1>8. CASE NextRead(g)
    <2> DEFINE a == <<"retry", unsent, tree>>
    <2>1. a \in Ops /\ a[1] = "retry" /\ Replace(g, <<a>>)
      BY <1>1, <1>8, OpsAre DEF TypeOK, NextRead
    <2> HIDE DEF a
    <2>2. QED
      BY <1>6, <2>1
  <1>9. CASE CheckAbove(g)
    <2> DEFINE k == Op(g)[2]
               a == Review(Above(k))
    <2>1. Replace(g, <<>>) \/ (Present(k) /\ k # Proposal /\ Replace(g, <<a>>))
      BY <1>9 DEF CheckAbove, Done
    <2>2. CASE Present(k) /\ k # Proposal /\ Replace(g, <<a>>)
      <3>1. Above(k) \in Reviewed
        BY <2>2, AboveUid DEF Present, Nodes, Reviewed
      <3>2. a \in Ops /\ a[1] = "review"
        BY <3>1, OpsAre DEF Review
      <3> HIDE DEF a
      <3>3. QED
        BY <1>6, <2>2, <3>2
    <2>3. QED
      BY <1>5, <2>1, <2>2
  <1>10. CASE TakeWaiting(g)
    <2> DEFINE a == Dispatch(Tasks, 0)
    <2>1. Replace(g, <<>>) \/ Replace(g, <<a>>)
      BY <1>10 DEF TakeWaiting, Done
    <2>2. a \in Ops /\ a[1] = "dispatch"
      BY OpsAre DEF Dispatch
    <2> HIDE DEF a
    <2>3. QED
      BY <1>5, <1>6, <2>1, <2>2
  <1>11. CASE NextReview(g)
    <2>1. Op(g)[1] = "retry" /\ Op(g)[2] \subseteq Reviewed /\ Op(g)[3] \in Tree
      BY <1>4, <1>11, OpFits, Operands DEF NextReview
    <2>2. \/ Replace(g, <<>>)
          \/ Replace(g, <<<<"pick", Op(g)[3]>>>>)
          \/ \E n \in Op(g)[2] : Replace(g, <<<<"retry", Op(g)[2] \ {n}, Op(g)[3]>>>>)
      BY <1>11 DEF NextReview, Done
    <2>3. CASE Replace(g, <<<<"pick", Op(g)[3]>>>>)
      <3> DEFINE a == <<"pick", Op(g)[3]>>
      <3>1. a \in Ops /\ a[1] = "pick" /\ Replace(g, <<a>>)
        BY <2>1, <2>3, OpsAre
      <3> HIDE DEF a
      <3>2. QED
        BY <1>6, <3>1
    <2>4. ASSUME NEW n \in Op(g)[2], Replace(g, <<<<"retry", Op(g)[2] \ {n}, Op(g)[3]>>>>)
          PROVE  Recorded'
      <3> DEFINE a == <<"retry", Op(g)[2] \ {n}, Op(g)[3]>>
      <3>1. Op(g)[2] \ {n} \in SUBSET Reviewed
        BY <2>1
      <3>2. a \in Ops /\ a[1] = "retry" /\ Replace(g, <<a>>)
        BY <2>1, <2>4, <3>1, OpsAre
      <3> HIDE DEF a
      <3>3. QED
        BY <1>6, <3>2
    <2>5. QED
      BY <1>5, <2>2, <2>3, <2>4
  <1>12. QED
    BY <1>7, <1>8, <1>9, <1>10, <1>11

\* The review of a node that begins, or does not.
LEMMA BeginKept ==
    ASSUME IInv, Flow, Recorded, Few', [Next]_vars, NEW g \in Goroutines, BeginReview(g)
    PROVE  Recorded'
  <1> DEFINE n == Op(g)[2]
             c == tree.cycle[n]
  <1>1. TypeOK /\ UNCHANGED <<tree, agents, queue, meeting, jobs, records>>
    BY DEF IInv, BeginReview, disk, proxy
  <1>2. Op(g) \in Ops /\ Op(g)[1] = "review" /\ todo[g] # <<>>
    BY OpFits DEF BeginReview
  <1>3. n \in Reviewed
    BY <1>2, Operands
  <1>4. PICK ops : ops = IF c >= MaxReviewCycles THEN Approve(n) ELSE <<Cycle(n, c + 1), Ask(n)>>
    OBVIOUS
  <1>5. Replace(g, ops)
    BY <1>4 DEF BeginReview
  <1>6. ops \in Seq(Ops)
    <2>1. c \in 0 .. MaxReviewCycles /\ MaxReviewCycles \in Nat
      BY <1>1, <1>3, TreeAssumption DEF TypeOK, Tree
    <2>2. ~(c >= MaxReviewCycles) => c + 1 \in 1 .. MaxReviewCycles
      BY <2>1
    <2>3. Ask(n) \in Ops /\ (c + 1 \in 1 .. MaxReviewCycles => Cycle(n, c + 1) \in Ops)
      BY <1>3, OpsAre
    <2>4. ~(c >= MaxReviewCycles) => <<Cycle(n, c + 1), Ask(n)>> \in Seq(Ops)
      BY <2>2, <2>3, GoodSeqs
    <2>5. Approve(n) \in Seq(Ops)
      BY <1>3, ApproveFits
    <2>6. QED
      BY <1>4, <2>4, <2>5
  <1>7. \A op \in Elems(ops) : Mild(op, Elems(ops))
    <2>1. Elems(Approve(n)) \subseteq {Mark(n, "complete"), History(n), Merge(n), Check(n)}
          /\ History(n) \in Elems(Approve(n))
      <3>1. /\ n \in Milestones =>
                 Approve(n) = <<Mark(n, "complete"), History(n), Merge(n), Check(n)>>
            /\ n \notin Milestones => Approve(n) = <<Mark(n, "complete"), History(n)>>
        BY Concats DEF Approve
      <3>2. QED
        BY <3>1, ElemsOf
    <2>2. Elems(<<Cycle(n, c + 1), Ask(n)>>) = {Cycle(n, c + 1), Ask(n)}
      BY ElemsOf
    <2>3. \/ /\ History(n) \in Elems(ops)
             /\ Elems(ops) \subseteq {Mark(n, "complete"), History(n), Merge(n), Check(n)}
          \/ Elems(ops) = {Cycle(n, c + 1), Ask(n)}
      BY <1>4, <2>1, <2>2
    <2> HIDE DEF n, c
    <2>4. QED
      BY <1>3, <2>3 DEF Mild, Own, n, Mark, History, Merge, Check, Cycle, Ask
  <1> HIDE DEF n, c
  <1>8. QED
    BY <1>1, <1>2, <1>5, <1>6, <1>7, TurnKept

\* A task is picked: what will follow its creation concerns that task.
LEMMA PickKept ==
    ASSUME IInv, Flow, Recorded, Few', [Next]_vars, NEW g \in Goroutines, DispatchOne(g) \/ NextPick(g)
    PROVE  Recorded'
  <1>1. UNCHANGED <<tree, agents, queue, meeting, jobs, records>>
    BY DEF DispatchOne, NextPick, disk, proxy
  <1>2. PICK what \in {"dispatch", "pick"} : Doing(g, what)
    BY DEF DispatchOne, NextPick
  <1>3. /\ Op(g) \in Ops /\ Op(g)[1] = what /\ todo[g] # <<>>
        /\ Op(g)[1] \notin {"mark", "history"}
    BY <1>2, OpFits
  <1>4. CASE Replace(g, <<>>)
    BY <1>1, <1>3, <1>4, TurnOne
  <1>5. CASE DispatchOne(g)
    <2>1. /\ Op(g)[1] = "dispatch" /\ Op(g)[2] \subseteq Tasks /\ Op(g)[3] \in Nat
      BY <1>3, <1>5, OpFits, Operands DEF DispatchOne
    <2>2. ASSUME NEW n \in Op(g)[2],
                 Replace(g, <<Create(n, <<Mark(n, "running"), Mark(Above(n), "running"), Occupy(n)>>),
                              Dispatch(Op(g)[2] \ {n}, Op(g)[3] + 1)>>)
          PROVE  Recorded'
      <3> DEFINE then == <<Mark(n, "running"), Mark(Above(n), "running"), Occupy(n)>>
                 a == Create(n, then)
                 d == Dispatch(Op(g)[2] \ {n}, Op(g)[3] + 1)
      <3>1. n \in Tasks /\ n \in Work /\ Above(n) \in Milestones /\ Above(n) \notin Work
        BY <2>1, <2>2, Kinds DEF Work, Reviewed
      <3>2. then \in Seq(Then)
        <4>1. Mark(n, "running") \in Then /\ Mark(Above(n), "running") \in Then /\ Occupy(n) \in Then
          BY <3>1 DEF Then, Mark, Occupy, Uids, Named, Reviewed
        <4>2. QED
          BY <4>1, GoodSeqs
      <3>3. n \in Named /\ Op(g)[2] \ {n} \in SUBSET Tasks /\ Op(g)[3] + 1 \in Nat
        BY <2>1, <3>1 DEF Named
      <3>4. a \in Ops /\ d \in Ops
        <4>1. d \in Ops
          BY <3>3, OpsAre
        <4> HIDE DEF then, d
        <4>2. a \in Ops
          BY <3>2, <3>3, OpsAre
        <4>3. QED
          BY <4>1, <4>2
      <3>5. Own(a)
        <4>1. \A i \in DOMAIN then : then[i][2] \in Work => then[i][2] = n
          <5>1. \A i \in DOMAIN then : then[i] \in {Mark(n, "running"), Mark(Above(n), "running"), Occupy(n)}
            OBVIOUS
          <5>2. QED
            BY <3>1, <5>1 DEF Mark, Occupy
        <4>2. a[1] = "create" /\ a[2] = n /\ a[3] = then
          BY DEF Create
        <4> HIDE DEF a, then
        <4>3. QED
          BY <4>1, <4>2 DEF Own
      <3>6. a[1] = "create" /\ d[1] = "dispatch"
        BY DEF Create, Dispatch
      <3>7. Replace(g, <<a, d>>)
        BY <2>2
      <3> HIDE DEF a, d
      <3>8. PICK ops : ops = <<a, d>>
        OBVIOUS
      <3>9. ops \in Seq(Ops) /\ Elems(ops) = {a, d}
        BY <3>4, <3>8, GoodSeqs, ElemsOf
      <3>10. \A op \in Elems(ops) : Mild(op, Elems(ops))
        BY <3>5, <3>6, <3>9 DEF Mild, Own
      <3>11. Replace(g, ops)
        BY <3>7, <3>8
      <3>12. QED
        BY <1>1, <1>3, <3>9, <3>10, <3>11, TurnKept
    <2>3. QED
      BY <1>4, <1>5, <2>2 DEF DispatchOne, Done
  <1>6. CASE NextPick(g)
    <2>1. ASSUME NEW n \in Work,
                 Replace(g, <<Create(n, <<Mark(n, "running"), Occupy(n)>>
                                        \o (IF Above(n) \in Milestones
                                            THEN <<Mark(Above(n), "running")>> ELSE <<>>))>>)
          PROVE  Recorded'
      <3> DEFINE end == IF Above(n) \in Milestones THEN <<Mark(Above(n), "running")>> ELSE <<>>
                 then == <<Mark(n, "running"), Occupy(n)>> \o end
                 a == Create(n, then)
      <3>1. /\ Mark(n, "running") \in Then /\ Occupy(n) \in Then
            /\ Above(n) \in Milestones => Mark(Above(n), "running") \in Then
        BY DEF Then, Mark, Occupy, Uids, Named, Reviewed
      <3>2. then \in Seq(Then)
        <4>1. <<Mark(n, "running"), Occupy(n)>> \in Seq(Then) /\ end \in Seq(Then)
          BY <3>1, GoodSeqs, EmptySeq
        <4> HIDE DEF end
        <4>2. QED
          BY <4>1, ConcatProperties
      <3>3. \A i \in DOMAIN then : then[i][2] \in Work => then[i][2] = n
        <4>1. Above(n) \in Milestones => then = <<Mark(n, "running"), Occupy(n), Mark(Above(n), "running")>>
          BY Concats
        <4>2. Above(n) \notin Milestones => then = <<Mark(n, "running"), Occupy(n)>>
          BY Concats
        <4>3. \A i \in DOMAIN then :
                 \/ then[i] \in {Mark(n, "running"), Occupy(n)}
                 \/ Above(n) \in Milestones /\ then[i] = Mark(Above(n), "running")
          BY <4>1, <4>2
        <4>4. Above(n) \in Milestones => Above(n) \notin Work
          BY Kinds DEF Reviewed
        <4> HIDE DEF then
        <4>5. QED
          BY <4>3, <4>4 DEF Mark, Occupy
      <3>4. n \in Named
        BY DEF Named
      <3> HIDE DEF then
      <3>5. a \in Ops
        BY <3>2, <3>4, OpsAre
      <3>6. Own(a) /\ a[1] = "create"
        BY <3>3 DEF Create, Own
      <3>7. Replace(g, <<a>>)
        BY <2>1 DEF then
      <3> HIDE DEF a
      <3>8. QED
        BY <1>1, <1>3, <3>5, <3>6, <3>7, TurnOne
    <2>2. QED
      BY <1>4, <1>6, <2>1 DEF NextPick, Done
  <1>7. QED
    BY <1>5, <1>6

\* After a completion: nothing is dispatched during a meeting.
LEMMA SkipKept ==
    ASSUME IInv, Flow, Recorded, Few', [Next]_vars, SkipInMeeting
    PROVE  Recorded'
  <1> DEFINE g == "loop"
             a == DispatchNext
  <1>1. g \in Goroutines /\ Doing(g, "ifNoMeeting")
    BY DEF Goroutines, SkipInMeeting
  <1>2. Op(g)[1] = "ifNoMeeting" /\ todo[g] # <<>> /\ Op(g)[1] \notin {"mark", "history"}
    BY <1>1, OpFits
  <1>3. UNCHANGED <<tree, agents, queue, meeting, jobs, records>>
    BY DEF SkipInMeeting, disk, proxy
  <1>4. Replace(g, <<a>>) \/ Replace(g, <<>>)
    BY DEF SkipInMeeting
  <1>5. a \in Ops /\ Own(a) /\ a[1] \notin {"trigger", "prepare", "mark"}
    BY OpsAre DEF DispatchNext, Own
  <1> HIDE DEF a, g
  <1>6. QED
    BY <1>1, <1>2, <1>3, <1>4, <1>5, TurnOne

\* A meeting starts, or none does: nobody failed twice by then, unless there
\* were two faults.
LEMMA TriggerKept ==
    ASSUME IInv, Flow, Recorded, Few', [Next]_vars, TriggerMeeting
    PROVE  Recorded'
  <1> DEFINE g == "loop"
  <1>1. g \in Goroutines /\ Doing(g, "trigger")
    BY DEF Goroutines, TriggerMeeting
  <1>2. Op(g)[1] = "trigger" /\ todo[g] # <<>> /\ Op(g)[1] \notin {"mark", "history"}
    BY <1>1, OpFits
  <1>3. UNCHANGED <<tree, agents, queue, jobs, records>>
    BY DEF TriggerMeeting, disk, proxy
  <1>4. \/ meeting' = meeting /\ Replace(g, <<DispatchNext>>)
        \/ meeting = {} /\ Replace(g, <<>>) /\ NoFault
    <2>1. ASSUME NEW ok \in BOOLEAN, Answered(ok), ok PROVE NoFault
      <3>1. TypeOK /\ Orderly'
        BY FewFaults DEF IInv
      <3>2. QED
        BY <2>1, <3>1, Punctual DEF NoFault
    <2>2. QED
      BY <2>1 DEF TriggerMeeting
  <1>5. CASE meeting' = meeting /\ Replace(g, <<DispatchNext>>)
    <2> DEFINE a == DispatchNext
    <2>1. a \in Ops /\ Own(a) /\ a[1] \notin {"trigger", "prepare", "mark"}
      BY OpsAre DEF DispatchNext, Own
    <2>2. Replace(g, <<a>>)
      BY <1>5
    <2> HIDE DEF a, g
    <2>3. QED
      BY <1>1, <1>2, <1>3, <1>5, <2>1, <2>2, TurnOne
  <1>6. CASE meeting = {} /\ Replace(g, <<>>) /\ NoFault
    <2> HIDE DEF g
    <2>1. /\ Once' /\ \A op \in Held' : op[1] # "trigger"
      <3>1. <<>> \in Seq(Ops) /\ \A op \in Elems(<<>>) : op[1] # "trigger"
        BY EmptySeq, ElemsOf
      <3>2. QED
        BY <1>1, <1>2, <1>6, <3>1, OnceStep DEF Recorded
    <2>2. PICK R \in SUBSET Ops : /\ Held = {Op(g)} \cup R /\ Held' = Elems(<<>>) \cup R
                                  /\ \A b \in R : Before(Op(g), b)
      BY <1>1, <1>2, <1>6, HeldStep, EmptySeq
    <2>3. PICK a, H, K, t, ag, q, mt2, c, c2, jb, rec :
             /\ a = Op(g) /\ H = Held /\ K = Held' /\ t = tree /\ ag = agents /\ q = queue
             /\ mt2 = meeting' /\ c = Len(faults) /\ c2 = Len(faults') /\ jb = jobs /\ rec = records
      OBVIOUS
    <2>4. PICK mt : mt = {}
      OBVIOUS
    <2>5. Fates(H, t, ag, q, mt, c) /\ Kept(H, t, jb, q, rec)
      BY <1>6, <2>3, <2>4 DEF Recorded
    <2>6. c2 = c
      BY <1>6, <2>3 DEF NoFault
    <2>7. H = {a} \cup K /\ a[1] = "trigger" /\ \A b \in K : Before(a, b) /\ b[1] # "trigger"
      BY <1>2, <2>1, <2>2, <2>3, ElemsOf
    <2>8. Stirring(H) /\ ~Stirring(K) /\ \A k, s : Mark(k, s) \notin H /\ Mark(k, s) \notin K
      <3>1. \A b \in K : b[1] # "mark"
        BY <2>7, FollowedBy
      <3>2. QED
        BY <2>7, <3>1 DEF Stirring, Mark
    <2>9. \A k : /\ Closing(k, K, q) <=> Closing(k, H, q)
                 /\ Breaking(k, K, q) <=> Breaking(k, H, q)
      BY <2>8 DEF Closing, Breaking
    <2>10. ASSUME NEW k \in Work PROVE Fate(k, K, t, ag, q, mt2, c)
      <3>1. Fate(k, H, t, ag, q, mt, c)
        BY <2>5 DEF Fates
      <3>2. ~(t.st[k] = "error" /\ Breaking(k, H, q))
        BY <2>8, <3>1 DEF Fate, Breaking
      <3>3. QED
        BY <2>8, <2>9, <3>1, <3>2 DEF Fate
    <2>11. ASSUME c <= 1 PROVE Chain(K, t, ag, q, mt2)
      <3>1. Chain(H, t, ag, q, mt)
        BY <2>5, <2>11 DEF Fates
      <3>2. \A k \in Work : Again(k, K, t, ag, q) => Again(k, H, t, ag, q)
        BY <2>9 DEF Again
      <3>3. QED
        BY <2>8, <3>1, <3>2 DEF Chain
    <2>12. Fates(K, t, ag, q, mt2, c)
      BY <2>5, <2>7, <2>8, <2>10, <2>11 DEF Fates
    <2>13. Kept(K, t, jb, q, rec)
      <3>1. \A k : History(k) \in H => History(k) \in K
        BY <2>7 DEF History
      <3>2. \A k : Owed(k, H, jb, q) => Owed(k, K, jb, q)
        BY <3>1 DEF Owed
      <3>3. QED
        BY <2>5, <2>7, <3>1, <3>2 DEF Kept
    <2>14. QED
      BY <1>3, <2>1, <2>3, <2>6, <2>12, <2>13 DEF Recorded
  <1>7. QED
    BY <1>4, <1>5, <1>6

\* An agent is given to node n, which is pending and has none.
LEMMA CreateKept ==
    ASSUME IInv, Flow, Recorded, Few', [Next]_vars, NEW g \in Goroutines, SendCreate(g)
    PROVE  Recorded'
  <1> DEFINE n == Op(g)[2]
             then == Op(g)[3]
  <1>1. /\ Op(g) \in Ops /\ Op(g)[1] = "create" /\ todo[g] # <<>>
        /\ Fits(Op(g), tree, Calm, unsent) /\ TypeOK /\ Orderly'
    BY OpFits, FewFaults DEF SendCreate, IInv
  <1>2. UNCHANGED <<tree, queue, meeting, jobs, records>>
    BY DEF SendCreate, disk
  <1>3. \/ UNCHANGED agents /\ Replace(g, <<>>)
        \/ /\ agents' = [agents EXCEPT ![n] = @ + 1] /\ Replace(g, then)
           /\ UNCHANGED faults
    <2>1. PICK ok \in BOOLEAN : /\ Answered(ok)
                                /\ agents' = IF CarriedOut(ok) THEN [agents EXCEPT ![n] = @ + 1] ELSE agents
                                /\ Replace(g, IF ok THEN then ELSE <<>>)
      BY DEF SendCreate
    <2>3. (CarriedOut(ok) <=> ok) /\ (ok => UNCHANGED faults)
      BY <1>1, <2>1, Punctual
    <2>4. QED
      BY <2>1, <2>3
  <1>4. CASE UNCHANGED agents /\ Replace(g, <<>>)
    BY <1>1, <1>2, <1>4, TurnOne
  <1>5. CASE /\ agents' = [agents EXCEPT ![n] = @ + 1] /\ Replace(g, then)
             /\ UNCHANGED faults
    <2>1. n \in Named /\ then \in Seq(Then) /\ then \in Seq(Ops)
      <3>1. n \in Named /\ then \in Seq(Then)
        BY <1>1, Operands
      <3>2. Then \subseteq Ops
        BY DEF Then, Ops, Status
      <3>3. QED
        BY <1>1, <3>1, <3>2, SeqMonotonic DEF Fits
    <2>2. PICK R \in SUBSET Ops : /\ Held = {Op(g)} \cup R /\ Held' = Elems(then) \cup R
                                  /\ \A b \in R : Before(Op(g), b)
      BY <1>1, <1>5, <2>1, HeldStep
    <2>3. \A k \in Work : agents'[k] = IF k = n THEN agents[k] + 1 ELSE agents[k]
      <3>1. agents \in [Named -> Nat]
        BY <1>1 DEF TypeOK
      <3>2. QED
        BY <1>5, <2>1, <3>1 DEF Named
    <2>4. PICK a, E, H, K, t, ag, ag2, q, mt, c, jb, rec :
             /\ a = Op(g) /\ E = Elems(then) /\ H = Held /\ K = Held' /\ t = tree /\ ag = agents
             /\ ag2 = agents' /\ q = queue /\ mt = meeting /\ c = Len(faults)
             /\ jb = jobs /\ rec = records
      OBVIOUS
    <2>5. Fates(H, t, ag, q, mt, c) /\ Kept(H, t, jb, q, rec)
      BY <2>4 DEF Recorded
    <2>6. H = {a} \cup R /\ K = E \cup R /\ a[1] = "create" /\ \A b \in R : Before(a, b)
      BY <1>1, <2>2, <2>4
    <2>7. \A op \in E : /\ (op[1] = "mark" /\ op[3] = "running") \/ op[1] = "occupy"
                        /\ op[2] \in Work => op[2] = n
      <3>1. \A i \in DOMAIN then : then[i] \in Then
        BY <2>1, SeqIs
      <3>2. \A i \in DOMAIN then : then[i][2] \in Work => then[i][2] = n
        BY <1>1, <2>4, <2>5, <2>6 DEF Fates, Own
      <3>3. QED
        BY <2>4, <3>1, <3>2 DEF Elems, Then
    <2>8. n \in Work => t.st[n] = "pending" /\ Mark(n, "running") \in E
      <3>1. n \in Work => tree.st[n] = "pending" /\ then # <<>> /\ then[1] = Mark(n, "running")
        BY <1>1 DEF Fits
      <3>2. then # <<>> => 1 \in DOMAIN then
        BY <2>1, SeqIs, EmptySeq, HeadTailProperties
      <3>3. QED
        BY <2>4, <3>1, <3>2 DEF Elems
    <2>9. Once'
      <3>1. \A op \in Elems(then) : op[1] # "trigger"
        BY <2>4, <2>7
      <3>2. QED
        BY <1>1, <1>5, <2>1, <3>1, OnceStep DEF Recorded
    <2>10. \A k \in Work : ag2[k] = IF k = n THEN ag[k] + 1 ELSE ag[k]
      BY <2>3, <2>4
    <2>11. c \in 0 .. 2 /\ c = Len(faults')
      <3>1. Len(faults) \in 0 .. 2
        BY <1>1, FewFaults
      <3>2. QED
        BY <1>5, <2>4, <3>1
    <2> HIDE DEF n, then
    <2>12. \A k, s : Mark(k, s) \notin H /\ Mark(k, s) \notin R
      <3>1. \A b \in R : b[1] = "mark" => FALSE
        BY <2>6, FollowedBy
      <3>2. QED
        BY <2>6, <3>1 DEF Mark
    <2>13. \A k \in Work : \A s : Mark(k, s) \in K => k = n /\ s = "running"
      <3>1. \A k \in Work : \A s : Mark(k, s) \in E => k = n /\ s = "running"
        BY <2>7 DEF Mark
      <3>2. QED
        BY <2>6, <2>12, <3>1
    <2>14. Stirring(K) => Stirring(H)
      BY <2>6, <2>7 DEF Stirring
    <2>15. \A k \in Work : /\ Closing(k, K, q) <=> Closing(k, H, q)
                           /\ Breaking(k, K, q) <=> Breaking(k, H, q)
      BY <2>12, <2>13 DEF Closing, Breaking
    <2>16. ASSUME NEW k \in Work PROVE Fate(k, K, t, ag2, q, mt, c)
      <3>1. Fate(k, H, t, ag, q, mt, c)
        BY <2>5 DEF Fates
      <3>2. CASE k = n
        <4>1. t.st[k] = "pending" /\ Mark(k, "running") \in K
          BY <2>6, <2>8, <3>2
        <4>2. ~Comes(k, AgentKinds, q)
          BY <2>12, <3>1, <4>1 DEF Fate
        <4>3. ~Comes(k, {"completed"}, q) /\ ~Comes(k, Failing, q)
          BY <4>2 DEF Comes, Failing, AgentKinds
        <4>4. ~Closing(k, K, q) /\ ~Breaking(k, K, q)
          BY <2>13, <4>3 DEF Closing, Breaking
        <4>5. QED
          BY <2>13, <3>1, <4>1, <4>2, <4>3, <4>4 DEF Fate
      <3>3. CASE k # n
        <4>1. ag2[k] = ag[k] /\ \A s : Mark(k, s) \in K <=> Mark(k, s) \in H
          BY <2>10, <2>12, <2>13, <3>3
        <4>2. QED
          BY <2>14, <2>15, <3>1, <4>1 DEF Fate
      <3>4. QED
        BY <3>2, <3>3
    <2>17. Chain(H, t, ag, q, mt) => Chain(K, t, ag2, q, mt)
      <3>1. \A k \in Work : Again(k, K, t, ag2, q) => Again(k, H, t, ag, q)
        BY <2>8, <2>10, <2>15 DEF Again
      <3>2. QED
        BY <2>14, <3>1 DEF Chain
    <2>18. \A op \in K : Own(op)
      BY <2>5, <2>6, <2>7 DEF Fates, Own
    <2>19. Fates(K, t, ag2, q, mt, c)
      BY <2>5, <2>14, <2>16, <2>17, <2>18 DEF Fates
    <2>20. Kept(K, t, jb, q, rec)
      <3>1. \A k : History(k) \in H => History(k) \in K
        BY <2>6 DEF History
      <3>2. \A k : Owed(k, H, jb, q) => Owed(k, K, jb, q)
        BY <3>1 DEF Owed
      <3>3. /\ \A k : Mark(k, "complete") \notin K
            /\ Prepare \in K => Prepare \in H
        <4>1. \A k : Mark(k, "complete") \notin E
          BY <2>7 DEF Mark
        <4>2. Prepare \notin E
          BY <2>7 DEF Prepare
        <4>3. QED
          BY <2>6, <2>12, <4>1, <4>2
      <3>4. QED
        BY <2>5, <3>1, <3>2, <3>3 DEF Kept
    <2>21. QED
      BY <1>2, <2>4, <2>9, <2>11, <2>19, <2>20 DEF Recorded
  <1>6. QED
    BY <1>3, <1>4, <1>5

-----------------------------------------------------------------------------
\* The steps that write histories

LEMMA ShownIs ==
    ASSUME TypeOK, NEW m \in Milestones
    PROVE  Shown(m) = {k \in Below(m) : tree.st[k] = "complete"}
  <1>1. \A k \in Below(m) : k \in Nodes
    BY DEF Below
  <1>2. QED
    BY <1>1 DEF Shown, Children, Present

LEMMA RecordsKept ==
    ASSUME IInv, Flow, Recorded, Few', [Next]_vars, NEW g \in Goroutines,
           SaveHistories(g) \/ OpenHistories(g) \/ BuildHistory(g)
    PROVE  Recorded'
  <1>1. TypeOK /\ UNCHANGED <<tree, agents, queue, meeting, jobs>>
    BY DEF IInv, SaveHistories, OpenHistories, BuildHistory, proxy
  <1>2. PICK what \in {"prepare", "openRecords", "history"} : Doing(g, what)
    BY DEF SaveHistories, OpenHistories, BuildHistory
  <1>3. /\ Op(g) \in Ops /\ Op(g)[1] = what /\ todo[g] # <<>> /\ Fits(Op(g), tree, Calm, unsent)
    BY <1>2, OpFits
  <1>4. PICK ops : ops = IF what = "prepare" THEN <<<<"frontiers">>>> ELSE <<>>
    OBVIOUS
  <1>5. ops \in Seq(Ops) /\ Elems(ops) = IF what = "prepare" THEN {<<"frontiers">>} ELSE {}
    <2>1. <<"frontiers">> \in Ops
      BY OpsAre
    <2>2. QED
      BY <1>4, <2>1, GoodSeqs, ElemsOf
  <1>6. Replace(g, ops)
    <2>1. CASE SaveHistories(g)
      BY <1>3, <1>4, <2>1, OpFits DEF SaveHistories
    <2>2. CASE OpenHistories(g) \/ BuildHistory(g)
      BY <1>3, <1>4, <2>2, OpFits DEF OpenHistories, BuildHistory, Done
    <2>3. QED
      BY <2>1, <2>2
  <1>7. \A op \in Elems(ops) : op[1] = "frontiers" /\ Mild(op, Elems(ops))
    BY <1>5 DEF Mild, Own
  <1>8. Fates(Held, tree, agents, queue, meeting, Len(faults))'
    <2>1. \A k \in Work : \A s : Op(g) # Mark(k, s)
      BY <1>3 DEF Mark
    <2>2. QED
      BY <1>1, <1>3, <1>5, <1>6, <1>7, <2>1, TurnFates
  <1>9. Once'
    BY <1>3, <1>5, <1>6, <1>7, OnceStep DEF Recorded
  <1>10. PICK R \in SUBSET Ops : /\ Held = {Op(g)} \cup R /\ Held' = Elems(ops) \cup R
                                 /\ \A b \in R : Before(Op(g), b)
    BY <1>3, <1>5, <1>6, HeldStep
  <1>11. PICK a, H, K, t, q, jb, rec, rec2 :
            /\ a = Op(g) /\ H = Held /\ K = Held' /\ t = tree /\ q = queue /\ jb = jobs
            /\ rec = records /\ rec2 = records'
    OBVIOUS
  <1>12. Kept(H, t, jb, q, rec)
    BY <1>11 DEF Recorded
  <1>13. /\ H = {a} \cup R /\ a[1] = what /\ \A b \in R : Before(a, b)
         /\ \A op \in K : op \in R \/ op[1] = "frontiers"
         /\ R \subseteq K
    BY <1>3, <1>7, <1>10, <1>11
  <1>14. /\ \A k : Mark(k, "complete") \notin H /\ Mark(k, "complete") \notin K
         /\ \A k : History(k) \in H /\ a # History(k) => History(k) \in K
         /\ Prepare \in K => Prepare \in H
    <2>1. \A b \in R : b[1] # "mark"
      BY <1>13, FollowedBy
    <2>2. QED
      BY <1>13, <2>1 DEF Mark, History, Prepare
  <1>15. \A m \in Milestones : Shown(m) = {k \in Below(m) : t.st[k] = "complete"} /\ Below(m) \subseteq Work
    BY <1>1, <1>11, ShownIs, BelowMilestone
  <1>16. ASSUME \A m \in Milestones :
                   /\ rec2[m].shows \subseteq {k \in Below(m) : t.st[k] = "complete"}
                   /\ rec2[m].kept => \A k \in Below(m) : t.st[k] = "complete" =>
                                         k \in rec2[m].shows \/ Owed(k, K, jb, q)
                   /\ t.st[m] = "complete" => rec2[m].kept \/ History(m) \in K
         PROVE  Recorded'
    <2>1. Kept(K, t, jb, q, rec2)
      BY <1>12, <1>14, <1>16 DEF Kept
    <2>2. QED
      BY <1>1, <1>8, <1>9, <1>11, <2>1 DEF Recorded
  <1>17. CASE SaveHistories(g)
    <2>1. what = "prepare"
      BY <1>3, <1>17, OpFits DEF SaveHistories
    <2>2. AllPending(Tasks, t)
      BY <1>3, <1>11, <2>1 DEF Fits
    <2>3. a = Prepare
      BY <1>3, <1>11, <2>1 DEF Ops, Prepare
    <2>4. Bare(t)
      BY <1>12, <1>13, <2>3 DEF Kept
    <2>5. \A k \in Work : t.st[k] # "complete"
      BY <2>2, <2>4 DEF Bare, AllPending, Work
    <2>6. \A m \in Milestones : rec2[m].kept /\ rec2[m].shows = {}
      BY <1>11, <1>17 DEF SaveHistories
    <2>7. QED
      BY <1>15, <1>16, <2>5, <2>6
  <1>18. CASE OpenHistories(g)
    <2>1. \A m \in Milestones : rec2[m].kept /\ rec2[m].shows = Shown(m)
      BY <1>11, <1>18 DEF OpenHistories
    <2>2. QED
      BY <1>15, <1>16, <2>1
  <1>19. CASE BuildHistory(g)
    <2> DEFINE n == Op(g)[2]
    <2>1. a = History(n)
      BY <1>3, <1>11, <1>19, OpFits DEF BuildHistory, Ops, History
    <2>2. /\ rec \in [Milestones -> [kept : BOOLEAN, shows : SUBSET Work]]
          /\ t = tree /\ tree \in Tree
      BY <1>1, <1>11 DEF TypeOK
    <2>3. CASE Present(n) /\ n \in Milestones
      <3>1. rec2 = [rec EXCEPT ![n] = [kept |-> TRUE, shows |-> Shown(n)]]
        <4>1. n \notin Work
          BY <2>3, Kinds DEF Reviewed
        <4>2. QED
          BY <1>11, <1>19, <2>3, <4>1 DEF BuildHistory, MilestoneHistory
      <3> HIDE DEF n
      <3>2. /\ rec2[n].kept /\ rec2[n].shows = Shown(n)
            /\ \A m \in Milestones \ {n} : rec2[m] = rec[m]
        BY <2>2, <2>3, <3>1
      <3>3. \A k \in Work : a # History(k)
        BY <2>1, <2>3, Kinds DEF History, Reviewed
      <3>4. \A k \in Work : Owed(k, H, jb, q) => Owed(k, K, jb, q)
        BY <1>14, <3>3 DEF Owed
      <3>5. \A m \in Milestones \ {n} : a # History(m)
        BY <2>1 DEF History
      <3>6. QED
        BY <1>12, <1>14, <1>15, <1>16, <2>3, <3>2, <3>4, <3>5 DEF Kept
    <2>4. CASE Present(n) /\ n \in Work
      <3>1. rec2 = UpdateRecord(n)
        <4>1. n \notin Milestones
          BY <2>4, Kinds DEF Reviewed
        <4>2. QED
          BY <1>11, <1>19, <2>4, <4>1 DEF BuildHistory, TaskHistory
      <3>2. \A m \in Milestones : a # History(m)
        BY <2>1, <2>4, Kinds DEF History, Reviewed
      <3>3. \A k \in Work : k # n => (Owed(k, H, jb, q) => Owed(k, K, jb, q))
        <4>1. \A k \in Work : k # n => a # History(k)
          BY <2>1 DEF History
        <4>2. QED
          BY <1>14, <4>1 DEF Owed
      <3>4. \A m \in Milestones : n \in Below(m) <=> m = Above(n)
        BY <2>4, Kinds DEF Below
      <3>5. \A m \in Milestones :
               /\ rec2[m].kept = rec[m].kept
               /\ m = Above(n) /\ rec[m].kept =>
                     rec2[m].shows = (rec[m].shows \ {n}) \cup (Shown(m) \cap {n})
               /\ ~(m = Above(n) /\ rec[m].kept) => rec2[m].shows = rec[m].shows
        <4>1. PICK b : b = Above(n)
          OBVIOUS
        <4>2. CASE b \in Milestones /\ rec[b].kept
          <5>1. rec2 = [rec EXCEPT ![b].shows = (@ \ {n}) \cup (Shown(b) \cap {n})]
            BY <1>11, <3>1, <4>1, <4>2 DEF UpdateRecord
          <5>2. QED
            BY <2>2, <4>1, <4>2, <5>1
        <4>3. CASE ~(b \in Milestones /\ rec[b].kept)
          <5>1. rec2 = rec
            BY <1>11, <3>1, <4>1, <4>3 DEF UpdateRecord
          <5>2. QED
            BY <4>1, <4>3, <5>1
        <4>4. QED
          BY <4>2, <4>3
      <3> HIDE DEF n
      <3>6. ASSUME NEW m \in Milestones
            PROVE  /\ rec2[m].shows \subseteq {k \in Below(m) : t.st[k] = "complete"}
                   /\ rec2[m].kept => \A k \in Below(m) : t.st[k] = "complete" =>
                                         k \in rec2[m].shows \/ Owed(k, K, jb, q)
                   /\ t.st[m] = "complete" => rec2[m].kept \/ History(m) \in K
        <4>1. /\ rec[m].shows \subseteq {k \in Below(m) : t.st[k] = "complete"}
              /\ rec[m].kept => \A k \in Below(m) : t.st[k] = "complete" =>
                                         k \in rec[m].shows \/ Owed(k, H, jb, q)
              /\ t.st[m] = "complete" => rec[m].kept \/ History(m) \in H
          BY <1>12 DEF Kept
        <4>2. CASE m = Above(n) /\ rec[m].kept
          BY <1>15, <3>3, <3>5, <4>1, <4>2
        <4>3. CASE ~(m = Above(n) /\ rec[m].kept)
          <5>1. rec[m].kept => n \notin Below(m)
            BY <3>4, <4>3
          <5>2. QED
            BY <1>14, <1>15, <3>2, <3>3, <3>5, <4>1, <4>3, <5>1
        <4>4. QED
          BY <4>2, <4>3
      <3>7. QED
        BY <1>16, <3>6
    <2>5. CASE ~Present(n) \/ n \notin Milestones \cup Work
      <3>1. rec2 = rec
        BY <1>11, <1>19, <2>5 DEF BuildHistory
      <3>2. t.st[n] = "absent" \/ n \notin Milestones \cup Work
        BY <2>2, <2>5, Kinds DEF Present, Reviewed
      <3> HIDE DEF n
      <3>3. \A k \in Work : t.st[k] = "complete" => (Owed(k, H, jb, q) => Owed(k, K, jb, q))
        <4>1. \A k \in Work : t.st[k] = "complete" => a # History(k)
          BY <2>1, <3>2 DEF History
        <4>2. QED
          BY <1>14, <4>1 DEF Owed
      <3>4. \A m \in Milestones : t.st[m] = "complete" => a # History(m)
        BY <2>1, <3>2 DEF History
      <3>5. QED
        BY <1>12, <1>14, <1>15, <1>16, <3>1, <3>3, <3>4 DEF Kept
    <2>6. QED
      BY <2>3, <2>4, <2>5
  <1>20. QED
    BY <1>17, <1>18, <1>19

-----------------------------------------------------------------------------
\* The steps that write tree.json

\* The status of node n changes.
LEMMA StatusKept ==
    ASSUME IInv, Flow, Recorded, Few', [Next]_vars, NEW g \in Goroutines,
           NEW what \in {"mark", "cycle"}, Doing(g, what), Done(g),
           tree' = IF Present(Op(g)[2]) THEN Changed(Op(g)) ELSE tree,
           UNCHANGED <<agents, queue, meeting, jobs, records, faults>>
    PROVE  Recorded'
  <1> DEFINE n == Op(g)[2]
             s == IF what = "mark" THEN Op(g)[3] ELSE "reviewing"
  <1>1. Op(g) \in Ops /\ Op(g)[1] = what /\ todo[g] # <<>> /\ Fits(Op(g), tree, Calm, unsent)
    BY OpFits
  <1>2. what = "cycle" => n \in Reviewed /\ n \notin Work
    BY <1>1, Operands, Kinds
  <1>3. \A k \in Nodes : tree'.st[k] = IF k = n /\ tree.st[k] # "absent" THEN s ELSE tree.st[k]
    <2>1. tree \in Tree
      BY DEF IInv, TypeOK
    <2>2. CASE Present(n)
      <3>1. tree'.st = [tree.st EXCEPT ![n] = s]
        BY <1>1, <2>1, <2>2 DEF Changed, Tree
      <3>2. QED
        BY <2>1, <2>2, <3>1 DEF Tree, Present
    <2>3. CASE ~Present(n)
      BY <2>3 DEF Present
    <2>4. QED
      BY <2>2, <2>3
  <1>4. PICK R \in SUBSET Ops : /\ Held = {Op(g)} \cup R /\ Held' = Elems(<<>>) \cup R
                                /\ \A b \in R : Before(Op(g), b)
    BY <1>1, HeldStep, EmptySeq DEF Done
  <1>5. Once'
    <2>1. <<>> \in Seq(Ops) /\ \A op \in Elems(<<>>) : op[1] # "trigger"
      BY EmptySeq, ElemsOf
    <2>2. QED
      BY <1>1, <2>1, OnceStep DEF Recorded, Done
  <1>6. PICK a, H, K, t, t2, ag, q, mt, c, jb, rec :
           /\ a = Op(g) /\ H = Held /\ K = Held' /\ t = tree /\ t2 = tree' /\ ag = agents
           /\ q = queue /\ mt = meeting /\ c = Len(faults) /\ jb = jobs /\ rec = records
    OBVIOUS
  <1>7. Fates(H, t, ag, q, mt, c) /\ Kept(H, t, jb, q, rec)
    BY <1>6 DEF Recorded
  <1>8. H = {a} \cup K /\ a[1] = what /\ \A b \in K : Before(a, b)
    BY <1>1, <1>4, <1>6, ElemsOf
  <1>9. what = "mark" => a = Mark(n, s) /\ s \notin {"absent", "pending", "reviewing"}
    <2>1. what = "mark" => a = Mark(n, s) /\ s \notin {"absent", "pending"}
      BY <1>1, <1>6, Operands DEF Ops, Mark, Fits
    <2>2. what = "mark" => s # "reviewing"
      BY <1>6, <1>7, <1>8 DEF Fates, Own
    <2>3. QED
      BY <2>1, <2>2
  <1>10. \A k \in Nodes : t2.st[k] = IF k = n /\ t.st[k] # "absent" THEN s ELSE t.st[k]
    BY <1>3, <1>6
  <1> HIDE DEF n, s
  <1>11. \A k \in Work : \A x : Mark(k, x) \notin K
    <2>1. \A b \in K : b[1] = "mark" => b[2] \in Reviewed
      BY <1>8, FollowedBy
    <2>2. QED
      BY <2>1, Kinds DEF Mark
  <1>12. /\ Prepare \notin K
         /\ \A k : History(k) \in H => History(k) \in K
         /\ \A k, x : Mark(k, x) \in K => Mark(k, x) \in H
    <2>1. Prepare \notin K
      BY <1>8, Followers DEF Prepare, Redispatch, Create
    <2>2. QED
      BY <1>8, <2>1 DEF History
  <1>13. \A k \in Work : /\ Closing(k, K, q) => Closing(k, H, q)
                         /\ Breaking(k, K, q) <=> Comes(k, Failing, q)
                         /\ Comes(k, Failing, q) => Breaking(k, H, q)
    BY <1>11, <1>12 DEF Closing, Breaking
  <1>14. Stirring(K) => Stirring(H)
    BY <1>8 DEF Stirring
  <1>15. ASSUME NEW k \in Work
         PROVE  /\ Fate(k, K, t2, ag, q, mt, c)
                /\ c <= 1 /\ Again(k, K, t2, ag, q) => Again(k, H, t, ag, q)
                /\ t2.st[k] = "error" => t.st[k] = "error" \/ Stirring(H)
                /\ t.st[k] = "complete" => t2.st[k] = "complete"
                /\ t2.st[k] = "complete" => t.st[k] = "complete" \/ Mark(k, "complete") \in H
    <2>1. Fate(k, H, t, ag, q, mt, c) /\ k \in Nodes
      BY <1>7, Kinds DEF Fates
    <2>2. CASE k # n \/ t.st[k] = "absent"
      <3>1. t2.st[k] = t.st[k]
        BY <1>10, <2>1, <2>2
      <3>2. k # n /\ Mark(k, "running") \in H => Mark(k, "running") \in K
        BY <1>1, <1>8, <1>9, <1>6 DEF Mark, n
      <3>3. Comes(k, AgentKinds, q) =>
               t2.st[k] # "absent" /\ (t2.st[k] = "pending" => Mark(k, "running") \in K)
        BY <2>1, <2>2, <3>1, <3>2 DEF Fate
      <3>4. Fate(k, K, t2, ag, q, mt, c)
        BY <1>11, <1>13, <1>14, <2>1, <3>1, <3>3 DEF Fate
      <3>5. Again(k, K, t2, ag, q) => Again(k, H, t, ag, q)
        BY <1>13, <3>1 DEF Again
      <3>6. QED
        BY <3>1, <3>4, <3>5
    <2>3. CASE k = n /\ t.st[k] # "absent"
      <3>1. what = "mark" /\ a = Mark(k, s) /\ t2.st[k] = s /\ s \notin {"absent", "pending", "reviewing"}
        BY <1>2, <1>9, <1>10, <2>1, <2>3
      <3>2. Mark(k, s) \in H
        BY <1>8, <3>1
      <3>3. s = "complete" => /\ Closing(k, H, q) /\ ~Comes(k, Failing, q)
                              /\ ~(c <= 1 /\ ag[k] > 0)
        <4>1. s = "complete" => Closing(k, H, q)
          BY <3>2 DEF Closing
        <4>2. QED
          BY <1>13, <2>1, <4>1 DEF Fate
      <3>4. s = "error" => /\ ~Comes(k, Failing, q) /\ t.st[k] # "complete"
                           /\ ag[k] = 0 /\ ~Closing(k, H, q) /\ Stirring(H)
        <4>1. s = "error" => Breaking(k, H, q) /\ Stirring(H)
          BY <3>2 DEF Breaking, Stirring, Mark
        <4>2. QED
          BY <2>1, <3>2, <4>1 DEF Fate
      <3>5. s = "running" => t.st[k] = "pending"
        BY <2>1, <3>2 DEF Fate
      <3>6. s \in {"running", "complete", "error"}
        <4>1. s \in Status
          BY <1>1, <3>1, Operands DEF s
        <4>2. QED
          BY <3>1, <4>1 DEF Status
      <3>7. Fate(k, K, t2, ag, q, mt, c)
        BY <1>11, <1>13, <2>1, <3>1, <3>3, <3>4 DEF Fate
      <3>8. ~(c <= 1 /\ Again(k, K, t2, ag, q))
        <4>1. agents \in [Named -> Nat]
          BY DEF IInv, TypeOK
        <4>2. ag[k] \in Nat
          BY <1>6, <4>1 DEF Named
        <4>3. QED
          BY <1>13, <3>1, <3>4, <4>2 DEF Again
      <3>9. QED
        BY <3>1, <3>2, <3>4, <3>5, <3>6, <3>7, <3>8
    <2>4. QED
      BY <2>2, <2>3
  <1>16. Fates(K, t2, ag, q, mt, c)
    <2>1. \A op \in K : Own(op)
      BY <1>7, <1>8 DEF Fates
    <2>2. c <= 1 => Chain(K, t2, ag, q, mt)
      BY <1>7, <1>14, <1>15 DEF Fates, Chain
    <2>3. c = 0 => \A k \in Work : t2.st[k] # "error"
      BY <1>7, <1>15 DEF Fates
    <2>4. QED
      BY <1>7, <1>14, <1>15, <2>1, <2>2, <2>3 DEF Fates
  <1>17. Kept(K, t2, jb, q, rec)
    <2>1. \A k : Owed(k, H, jb, q) => Owed(k, K, jb, q)
      BY <1>12 DEF Owed
    <2>2. ASSUME NEW m \in Milestones
          PROVE  /\ rec[m].shows \subseteq {k \in Below(m) : t2.st[k] = "complete"}
                 /\ rec[m].kept => \A k \in Below(m) : t2.st[k] = "complete" =>
                                      k \in rec[m].shows \/ Owed(k, K, jb, q)
                 /\ t2.st[m] = "complete" \/ Mark(m, "complete") \in K => rec[m].kept \/ History(m) \in K
      <3>1. /\ rec[m].shows \subseteq {k \in Below(m) : t.st[k] = "complete"}
            /\ rec[m].kept => \A k \in Below(m) : t.st[k] = "complete" =>
                                 k \in rec[m].shows \/ Owed(k, H, jb, q)
            /\ t.st[m] = "complete" \/ Mark(m, "complete") \in H => rec[m].kept \/ History(m) \in H
            /\ \A k \in Work : Mark(k, "complete") \in H => Owed(k, H, jb, q)
        BY <1>7 DEF Kept
      <3>2. Below(m) \subseteq Work /\ m \in Nodes
        BY BelowMilestone, Kinds DEF Reviewed
      <3>3. t2.st[m] = "complete" => t.st[m] = "complete" \/ Mark(m, "complete") \in H
        <4>1. CASE m = n /\ t.st[m] # "absent"
          <5>1. t2.st[m] = "complete" => what = "mark" /\ a = Mark(m, "complete")
            BY <1>9, <1>10, <3>2, <4>1 DEF s
          <5>2. QED
            BY <1>8, <5>1
        <4>2. CASE ~(m = n /\ t.st[m] # "absent")
          BY <1>10, <3>2, <4>2
        <4>3. QED
          BY <4>1, <4>2
      <3>4. QED
        BY <1>12, <1>15, <2>1, <3>1, <3>2, <3>3
    <2>3. QED
      BY <1>11, <1>12, <2>2 DEF Kept
  <1>18. QED
    BY <1>5, <1>6, <1>16, <1>17 DEF Recorded

\* The review of node n adds a task, of which nothing has been heard.
LEMMA RedoKept ==
    ASSUME IInv, Flow, Recorded, Few', [Next]_vars, NEW g \in Goroutines, Doing(g, "redo"), Done(g),
           tree' = IF Present(Op(g)[2]) THEN Changed(Op(g)) ELSE tree,
           UNCHANGED <<agents, queue, meeting, jobs, records, faults>>
    PROVE  Recorded'
  <1> DEFINE n == Op(g)[2]
             x == Redo(n, tree.cycle[n])
  <1>1. Op(g) \in Ops /\ Op(g)[1] = "redo" /\ todo[g] # <<>> /\ Fits(Op(g), tree, Calm, unsent)
    BY OpFits
  <1>2. n \in Reviewed /\ n \in Redoable /\ UnderReview(n, tree)
    BY <1>1, Operands DEF Fits
  <1>3. tree \in Tree /\ x \in Extras /\ x \in Work /\ tree.st[x] = "absent"
    <2>1. tree \in Tree /\ \A m \in Reviewed : tree.cycle[m] \in 0 .. MaxReviewCycles
      BY DEF IInv, TypeOK, Tree
    <2>2. x \in Extras /\ tree.st[x] = "absent"
      BY <1>2, <2>1 DEF UnderReview, Extras
    <2>3. QED
      BY <2>1, <2>2 DEF Work
  <1>4. \A k \in Nodes : tree'.st[k] = IF k = x THEN "pending" ELSE tree.st[k]
    <2>1. Present(n)
      BY <1>2, Kinds DEF Present, Flow, Reviews
    <2>2. tree'.st = [tree.st EXCEPT ![x] = "pending"]
      BY <1>1, <1>2, <1>3, <2>1 DEF Changed, UnderReview, Tree
    <2>3. QED
      BY <1>3, <2>2, Kinds DEF Tree
  <1>5. PICK R \in SUBSET Ops : /\ Held = {Op(g)} \cup R /\ Held' = Elems(<<>>) \cup R
                                /\ \A b \in R : Before(Op(g), b)
    BY <1>1, HeldStep, EmptySeq DEF Done
  <1>6. Once'
    <2>1. <<>> \in Seq(Ops) /\ \A op \in Elems(<<>>) : op[1] # "trigger"
      BY EmptySeq, ElemsOf
    <2>2. QED
      BY <1>1, <2>1, OnceStep DEF Recorded, Done
  <1>7. PICK a, H, K, t, t2, ag, q, mt, c, jb, rec :
           /\ a = Op(g) /\ H = Held /\ K = Held' /\ t = tree /\ t2 = tree' /\ ag = agents
           /\ q = queue /\ mt = meeting /\ c = Len(faults) /\ jb = jobs /\ rec = records
    OBVIOUS
  <1>8. Fates(H, t, ag, q, mt, c) /\ Kept(H, t, jb, q, rec)
    BY <1>7 DEF Recorded
  <1>9. H = {a} \cup K /\ a[1] = "redo" /\ \A b \in K : Before(a, b)
    BY <1>1, <1>5, <1>7, ElemsOf
  <1>10. /\ \A k \in Nodes : t2.st[k] = IF k = x THEN "pending" ELSE t.st[k]
         /\ t.st[x] = "absent" /\ x \in Work
    BY <1>3, <1>4, <1>7
  <1> HIDE DEF n, x
  <1>11. /\ Prepare \notin K
         /\ \A k : History(k) \in H <=> History(k) \in K
         /\ \A k, s : Mark(k, s) \in K <=> Mark(k, s) \in H
    <2>1. Prepare \notin K
      BY <1>9, Followers DEF Prepare, Redispatch, Create
    <2>2. QED
      BY <1>9, <2>1 DEF History, Mark
  <1>12. \A k \in Work : /\ Closing(k, K, q) <=> Closing(k, H, q)
                         /\ Breaking(k, K, q) <=> Breaking(k, H, q)
    BY <1>11 DEF Closing, Breaking
  <1>13. Stirring(K) => Stirring(H)
    BY <1>9 DEF Stirring
  <1>14. \A k \in Work \ {x} : t2.st[k] = t.st[k]
    BY <1>10, Kinds
  <1>15. t2.st[x] = "pending"
    BY <1>10, Kinds
  <1>16. ASSUME NEW k \in Work PROVE Fate(k, K, t2, ag, q, mt, c)
    <2>1. Fate(k, H, t, ag, q, mt, c)
      BY <1>8 DEF Fates
    <2>2. CASE k # x
      <3>1. t2.st[k] = t.st[k]
        BY <1>14, <2>2
      <3>2. QED
        BY <1>11, <1>12, <1>13, <2>1, <3>1 DEF Fate
    <2>3. CASE k = x
      <3>1. t.st[k] = "absent" /\ t2.st[k] = "pending"
        BY <1>10, <1>15, <2>3
      <3>2. /\ ~Comes(k, AgentKinds, q)
            /\ Mark(k, "complete") \notin K /\ Mark(k, "error") \notin K /\ Mark(k, "running") \notin K
        BY <1>11, <2>1, <3>1 DEF Fate
      <3>3. ~Comes(k, {"completed"}, q) /\ ~Comes(k, Failing, q)
        BY <3>2 DEF Comes, Failing, AgentKinds
      <3>4. ~Closing(k, K, q) /\ ~Breaking(k, K, q)
        BY <3>2, <3>3 DEF Closing, Breaking
      <3>5. QED
        BY <2>1, <3>1, <3>2, <3>3, <3>4 DEF Fate
    <2>4. QED
      BY <2>2, <2>3
  <1>17. Fates(K, t2, ag, q, mt, c)
    <2>1. \A op \in K : Own(op)
      BY <1>8, <1>9 DEF Fates
    <2>2. \A k \in Work : Again(k, K, t2, ag, q) => Again(k, H, t, ag, q)
      BY <1>12, <1>14, <1>15 DEF Again
    <2>3. c <= 1 => Chain(K, t2, ag, q, mt)
      BY <1>8, <1>13, <2>2 DEF Fates, Chain
    <2>4. c = 0 => \A k \in Work : t2.st[k] # "error"
      BY <1>8, <1>14, <1>15 DEF Fates
    <2>5. QED
      BY <1>8, <1>13, <1>16, <2>1, <2>3, <2>4 DEF Fates
  <1>18. Kept(K, t2, jb, q, rec)
    <2>1. \A k : Owed(k, H, jb, q) => Owed(k, K, jb, q)
      BY <1>11 DEF Owed
    <2>2. \A m \in Milestones : Below(m) \subseteq Work /\ t2.st[m] = t.st[m]
      <3>1. \A m \in Milestones : m # x /\ m \in Nodes
        BY <1>10, Kinds DEF Reviewed
      <3>2. QED
        BY <1>10, <3>1, BelowMilestone
    <2>3. \A k \in Work : t2.st[k] = "complete" <=> t.st[k] = "complete"
      BY <1>10, <1>14, <1>15
    <2>4. QED
      BY <1>8, <1>11, <2>1, <2>2, <2>3 DEF Kept
  <1>19. QED
    BY <1>6, <1>7, <1>17, <1>18 DEF Recorded

LEMMA TreeKept ==
    ASSUME IInv, Flow, Recorded, Few', [Next]_vars, NEW g \in Goroutines, ReadTree(g) \/ WriteTree(g)
    PROVE  Recorded'
  <1>1. ~WriteTree(g)
    BY OpFits DEF WriteTree, Fits
  <1>2. PICK what \in {"mark", "cycle", "redo", "touch"} : Doing(g, what)
    BY <1>1 DEF ReadTree
  <1>3. /\ Alone(g) /\ Op(g)[1] = what /\ todo[g] # <<>>
    BY <1>2, OpFits DEF Alone
  <1>4. /\ tree' = IF Present(Op(g)[2]) THEN Changed(Op(g)) ELSE tree
        /\ Done(g)
        /\ UNCHANGED <<agents, queue, meeting, jobs, records, faults>>
    BY <1>1, <1>3 DEF ReadTree, proxy
  <1>5. CASE what = "touch"
    <2>1. tree' = tree
      BY <1>3, <1>4, <1>5 DEF Changed
    <2>2. Replace(g, <<>>) /\ Op(g)[1] \notin {"mark", "history"}
      BY <1>3, <1>4, <1>5 DEF Done
    <2>3. QED
      BY <1>3, <1>4, <2>1, <2>2, TurnOne
  <1>6. QED
    BY <1>2, <1>4, <1>5, StatusKept, RedoKept

-----------------------------------------------------------------------------
\* The start of a run, and its events

LEMMA StartKept ==
    ASSUME IInv, Flow, Recorded, Few', [Next]_vars, NEW p \in Paths, Start(p)
    PROVE  Recorded'
  <1>1. path = "none" /\ todo \in [Goroutines -> Seq(Ops)] /\ TypeOK
    BY TodoOps DEF Start, IInv
  <1>2. Untouched
    BY <1>1 DEF Flow, InSetup
  <1>3. UNCHANGED <<tree, jobs, queue, meeting, records>>
    BY DEF Start, disk
  <1>4. Held = {}
    BY <1>2, ElemsOf DEF Held, Untouched
  <1>5. queue = <<>> /\ meeting = {} /\ Bare(tree) /\ \A k \in Work : tree.st[k] \in {"absent", "pending"}
    BY <1>1, <1>2 DEF Untouched, Bare, AllPending, Work
  <1>6. todo'["loop"] = <<>> /\ todo'["starter"] \in {<<>>, <<Prepare, DispatchAll>>, <<Dispatch(Tasks, 0)>>}
    <2>1. \/ todo' = todo
          \/ todo' = [todo EXCEPT !["starter"] = <<Prepare, DispatchAll>>]
          \/ todo' = [todo EXCEPT !["starter"] = <<Dispatch(Tasks, 0)>>]
      BY DEF Start, Begin
    <2>2. QED
      BY <1>1, <1>2, <2>1 DEF Untouched, Goroutines
  <1>7. Elems(todo'["loop"]) = {} /\ Held' = Elems(todo'["starter"])
        /\ Elems(todo'["starter"]) \subseteq {Prepare, DispatchAll, Dispatch(Tasks, 0)}
    <2>1. Elems(todo'["loop"]) = {}
      BY <1>6, ElemsOf
    <2>2. Elems(todo'["starter"]) \subseteq {Prepare, DispatchAll, Dispatch(Tasks, 0)}
      BY <1>6, ElemsOf
    <2>3. QED
      BY <2>1, <2>2 DEF Held, Goroutines
  <1>8. \A op \in Held' : op[1] \in {"prepare", "dispatchAll", "dispatch"}
    BY <1>7 DEF Prepare, DispatchAll, Dispatch
  <1>9. Once'
    <2>1. \A g \in Goroutines : \A i \in DOMAIN todo'[g] : todo'[g][i] \in Held'
      BY <1>7 DEF Elems, Goroutines
    <2>2. QED
      BY <1>8, <2>1 DEF Once
  <1>10. \A k \in Work : agents'[k] = 0
    <2>1. agents \in [Named -> Nat] /\ \A k \in Work : k \in Named \ {Proposal}
      BY <1>1, Kinds DEF TypeOK, Named
    <2>2. agents' = agents \/ agents' = [agents EXCEPT ![Proposal] = 1]
      BY DEF Start
    <2>3. QED
      BY <1>2, <2>1, <2>2 DEF Untouched
  <1>11. PICK H, K, t, ag2, q, mt, c2, jb, rec :
            /\ H = Held /\ K = Held' /\ t = tree /\ ag2 = agents' /\ q = queue
            /\ mt = meeting /\ c2 = Len(faults') /\ jb = jobs /\ rec = records
    OBVIOUS
  <1>12. Kept(H, t, jb, q, rec) /\ H = {}
    BY <1>4, <1>11 DEF Recorded
  <1>13. /\ \A op \in K : op[1] \in {"prepare", "dispatchAll", "dispatch"}
         /\ \A k \in Work : ag2[k] = 0 /\ t.st[k] \in {"absent", "pending"}
         /\ DOMAIN q = {} /\ mt = {} /\ Bare(t)
    BY <1>5, <1>8, <1>10, <1>11, SeqIs
  <1>14. /\ \A k, s : Mark(k, s) \notin K
         /\ ~Stirring(K) /\ \A k, kinds : ~Comes(k, kinds, q)
         /\ Lone(q) /\ ~Failed(q) /\ \A k : Sole(k, q)
    BY <1>13 DEF Mark, Stirring, Comes, Lone, Failed, Sole
  <1>15. \A k : ~Closing(k, K, q) /\ ~Breaking(k, K, q)
    BY <1>14 DEF Closing, Breaking
  <1>16. Fates(K, t, ag2, q, mt, c2)
    <2>1. ASSUME NEW k \in Work PROVE Fate(k, K, t, ag2, q, mt, c2)
      BY <1>13, <1>14, <1>15 DEF Fate
    <2>2. Chain(K, t, ag2, q, mt)
      BY <1>13, <1>14 DEF Chain
    <2>3. \A op \in K : Own(op)
      BY <1>13 DEF Own
    <2>4. \A k \in Work : t.st[k] # "error"
      BY <1>13
    <2>5. QED
      BY <1>13, <1>14, <2>1, <2>2, <2>3, <2>4 DEF Fates
  <1>17. Kept(K, t, jb, q, rec)
    <2>1. \A k : Owed(k, H, jb, q) => Owed(k, K, jb, q)
      BY <1>12 DEF Owed
    <2>2. QED
      BY <1>12, <1>13, <1>14, <2>1 DEF Kept
  <1>18. QED
    BY <1>3, <1>9, <1>11, <1>16, <1>17 DEF Recorded

\* At first nothing is complete and nothing is under way.
LEMMA InitRecorded == Init => Recorded
  <1> SUFFICES ASSUME Init PROVE Recorded
    OBVIOUS
  <1>1. Held = {}
    <2>1. \A g \in Goroutines : todo[g] = <<>>
      BY DEF Init
    <2>2. QED
      BY <2>1, ElemsOf DEF Held
  <1>2. \A k \in Nodes : tree.st[k] \in {"absent", "pending"}
    BY DEF Init
  <1>3. Once
    <2>1. \A g \in Goroutines : DOMAIN todo[g] = {}
      BY EmptySeq, SeqIs DEF Init
    <2>2. QED
      BY <2>1 DEF Once
  <1>4. PICK H, t, ag, q, mt, c, jb, rec :
           /\ H = Held /\ t = tree /\ ag = agents /\ q = queue /\ mt = meeting
           /\ c = Len(faults) /\ jb = jobs /\ rec = records
    OBVIOUS
  <1>5. /\ H = {} /\ mt = {} /\ DOMAIN q = {}
        /\ \A k \in Nodes : t.st[k] \in {"absent", "pending"}
        /\ \A k \in Work : ag[k] = 0
        /\ \A m \in Milestones : rec[m].kept = FALSE /\ rec[m].shows = {}
    BY <1>1, <1>2, <1>4, EmptySeq, SeqIs DEF Init, Named
  <1>6. /\ ~Stirring(H) /\ \A k, kinds : ~Comes(k, kinds, q)
        /\ Lone(q) /\ ~Failed(q) /\ \A k : Sole(k, q) /\ ~Closing(k, H, q) /\ ~Breaking(k, H, q)
    BY <1>5 DEF Stirring, Comes, Lone, Failed, Sole, Closing, Breaking
  <1>7. \A k \in Work : t.st[k] \in {"absent", "pending"}
    BY <1>5, Kinds
  <1>8. Fates(H, t, ag, q, mt, c)
    <2>1. ASSUME NEW k \in Work PROVE Fate(k, H, t, ag, q, mt, c)
      BY <1>5, <1>6, <1>7 DEF Fate
    <2>2. Chain(H, t, ag, q, mt)
      BY <1>5, <1>6 DEF Chain
    <2>3. \A k \in Work : t.st[k] # "error"
      BY <1>7
    <2>4. QED
      BY <1>5, <1>6, <2>1, <2>2, <2>3 DEF Fates
  <1>9. Kept(H, t, jb, q, rec)
    BY <1>5, Kinds DEF Kept, Reviewed
  <1>10. QED
    BY <1>3, <1>4, <1>8, <1>9 DEF Recorded

\* An event comes into the channel, and is taken from it.
LEMMA Arrives ==
    ASSUME NEW q \in Seq(Event), NEW e \in Event
    PROVE  LET q2 == Append(q, e) IN
           /\ \A k, kinds : Comes(k, kinds, q2) <=> Comes(k, kinds, q) \/ (e.kind \in kinds /\ e.node = k)
           /\ Failed(q2) <=> Failed(q) \/ e.kind \in Failing
           /\ Lone(q) /\ (e.kind \in Failing => ~Failed(q)) => Lone(q2)
           /\ Lone(q2) => Lone(q)
           /\ \A k : Sole(k, q) /\ (e.kind \in Failing /\ e.node = k => ~Comes(k, Failing, q))
                     => Sole(k, q2)
  <1>1. PICK q2 : q2 = Append(q, e)
    OBVIOUS
  <1>2. PICK l : l = Len(q) + 1
    OBVIOUS
  <1>3. /\ DOMAIN q2 = DOMAIN q \cup {l} /\ l \notin DOMAIN q
        /\ q2[l] = e
        /\ \A i \in DOMAIN q : q2[i] = q[i]
    BY <1>1, <1>2, QueueAppend
  <1>4. \A k, kinds : Comes(k, kinds, q2) <=> Comes(k, kinds, q) \/ (e.kind \in kinds /\ e.node = k)
    BY <1>3 DEF Comes
  <1>5. Failed(q2) <=> Failed(q) \/ e.kind \in Failing
    BY <1>3 DEF Failed
  <1>6. Lone(q) /\ (e.kind \in Failing => ~Failed(q)) => Lone(q2)
    BY <1>3 DEF Lone, Failed
  <1>7. Lone(q2) => Lone(q)
    BY <1>3 DEF Lone
  <1>8. \A k : Sole(k, q) /\ (e.kind \in Failing /\ e.node = k => ~Comes(k, Failing, q)) => Sole(k, q2)
    BY <1>3 DEF Sole, Comes
  <1>9. QED
    BY <1>1, <1>4, <1>5, <1>6, <1>7, <1>8

LEMMA Leaves ==
    ASSUME NEW q \in Seq(Event), q # <<>>
    PROVE  LET e  == Head(q)
               q2 == Tail(q)
           IN  /\ \A k, kinds : Comes(k, kinds, q) <=> Comes(k, kinds, q2) \/ (e.kind \in kinds /\ e.node = k)
               /\ Failed(q) <=> Failed(q2) \/ e.kind \in Failing
               /\ Lone(q) => Lone(q2) /\ (e.kind \in Failing => ~Failed(q2))
               /\ \A k : Sole(k, q) => /\ Sole(k, q2)
                                       /\ e.kind \in Failing /\ e.node = k => ~Comes(k, Failing, q2)
  <1>1. PICK e, q2 : e = Head(q) /\ q2 = Tail(q)
    OBVIOUS
  <1>2. /\ Len(q) \in Nat /\ Len(q) > 0 /\ DOMAIN q = 1 .. Len(q) /\ e = q[1]
        /\ DOMAIN q2 = 1 .. (Len(q) - 1)
        /\ \A i \in 1 .. (Len(q) - 1) : q2[i] = q[i + 1]
    BY <1>1, HeadTailProperties, SeqIs
  <1>3. /\ \A i \in DOMAIN q : i = 1 \/ (i - 1 \in DOMAIN q2 /\ q2[i - 1] = q[i])
        /\ \A i \in DOMAIN q2 : i + 1 \in DOMAIN q /\ i + 1 # 1 /\ q2[i] = q[i + 1]
        /\ \A i, j \in DOMAIN q2 : i + 1 = j + 1 => i = j
        /\ 1 \in DOMAIN q
    BY <1>2
  <1>4. \A k, kinds : Comes(k, kinds, q) <=> Comes(k, kinds, q2) \/ (e.kind \in kinds /\ e.node = k)
    <2>1. ASSUME NEW k, NEW kinds, Comes(k, kinds, q)
          PROVE  Comes(k, kinds, q2) \/ (e.kind \in kinds /\ e.node = k)
      <3>1. PICK i \in DOMAIN q : q[i].kind \in kinds /\ q[i].node = k
        BY <2>1 DEF Comes
      <3>2. CASE i = 1
        BY <1>2, <3>1, <3>2
      <3>3. CASE i # 1
        <4>1. i - 1 \in DOMAIN q2 /\ q2[i - 1] = q[i]
          BY <1>3, <3>3
        <4>2. QED
          BY <3>1, <4>1 DEF Comes
      <3>4. QED
        BY <3>2, <3>3
    <2>2. ASSUME NEW k, NEW kinds, Comes(k, kinds, q2) PROVE Comes(k, kinds, q)
      <3>1. PICK i \in DOMAIN q2 : q2[i].kind \in kinds /\ q2[i].node = k
        BY <2>2 DEF Comes
      <3>2. i + 1 \in DOMAIN q /\ q2[i] = q[i + 1]
        BY <1>3
      <3>3. QED
        BY <3>1, <3>2 DEF Comes
    <2>3. ASSUME NEW k, NEW kinds, e.kind \in kinds, e.node = k PROVE Comes(k, kinds, q)
      BY <1>2, <1>3, <2>3 DEF Comes
    <2>4. QED
      BY <2>1, <2>2, <2>3
  <1>5. Failed(q) <=> Failed(q2) \/ e.kind \in Failing
    BY <1>2, <1>3 DEF Failed
  <1>6. Lone(q) => Lone(q2) /\ (e.kind \in Failing => ~Failed(q2))
    <2>1. ASSUME Lone(q), NEW i \in DOMAIN q2, NEW j \in DOMAIN q2,
                 q2[i].kind \in Failing, q2[j].kind \in Failing
          PROVE  i = j
      <3>1. i + 1 = j + 1
        BY <1>3, <2>1 DEF Lone
      <3>2. QED
        BY <1>3, <3>1
    <2>2. ASSUME Lone(q), e.kind \in Failing, NEW i \in DOMAIN q2, q2[i].kind \in Failing
          PROVE  FALSE
      BY <1>2, <1>3, <2>2 DEF Lone
    <2>3. QED
      BY <2>1, <2>2 DEF Lone, Failed
  <1>7. \A k : Sole(k, q) => /\ Sole(k, q2)
                             /\ e.kind \in Failing /\ e.node = k => ~Comes(k, Failing, q2)
    BY <1>2, <1>3 DEF Sole, Comes
  <1>8. QED
    BY <1>1, <1>4, <1>5, <1>6, <1>7

\* News of a review or of a summary.
LEMMA NewsKept ==
    ASSUME IInv, Flow, Recorded, Few', [Next]_vars, NEW e \in Event, e.kind \notin AgentKinds,
           queue' = Append(queue, e), UNCHANGED <<todo, tree, agents, meeting, records>>,
           \A k \in Late : jobs[<<"summary", k>>] > 0 =>
                              jobs'[<<"summary", k>>] > 0 \/ (e.kind = "summarized" /\ e.node = k)
    PROVE  Recorded'
  <1>1. Held' = Held /\ Once' /\ queue \in Seq(Event)
    BY DEF Held, Recorded, Once, IInv, TypeOK
  <1>2. PICK H, t, ag, q, q2, mt, c, c2, jb, jb2, rec :
           /\ H = Held /\ t = tree /\ ag = agents /\ q = queue /\ q2 = queue' /\ mt = meeting
           /\ c = Len(faults) /\ c2 = Len(faults') /\ jb = jobs /\ jb2 = jobs' /\ rec = records
    OBVIOUS
  <1>3. Fates(H, t, ag, q, mt, c) /\ Kept(H, t, jb, q, rec)
    BY <1>2 DEF Recorded
  <1>4. c \in 0 .. 2 /\ c2 \in 0 .. 2 /\ c <= c2
    BY <1>2, FewFaults DEF IInv
  <1>5. e.kind \notin {"completed", "failed", "errored"} /\ e.kind \notin Failing
    BY DEF AgentKinds, Failing
  <1>6. /\ \A k, kinds : Comes(k, kinds, q2) <=> Comes(k, kinds, q) \/ (e.kind \in kinds /\ e.node = k)
        /\ (Failed(q2) <=> Failed(q)) /\ (Lone(q2) <=> Lone(q))
        /\ \A k : Sole(k, q) => Sole(k, q2)
    BY <1>1, <1>2, <1>5, Arrives
  <1>7. \A k : /\ Comes(k, AgentKinds, q2) <=> Comes(k, AgentKinds, q)
               /\ Comes(k, Failing, q2) <=> Comes(k, Failing, q)
               /\ Closing(k, H, q2) <=> Closing(k, H, q)
               /\ Breaking(k, H, q2) <=> Breaking(k, H, q)
    <2>1. \A k : /\ Comes(k, AgentKinds, q2) <=> Comes(k, AgentKinds, q)
                 /\ Comes(k, Failing, q2) <=> Comes(k, Failing, q)
                 /\ Comes(k, {"completed"}, q2) <=> Comes(k, {"completed"}, q)
      BY <1>5, <1>6
    <2>2. QED
      BY <2>1 DEF Closing, Breaking
  <1>8. ASSUME NEW k \in Work PROVE Fate(k, H, t, ag, q2, mt, c2)
    <2>1. Fate(k, H, t, ag, q, mt, c)
      BY <1>3 DEF Fates
    <2>2. QED
      BY <1>4, <1>6, <1>7, <2>1 DEF Fate
  <1>9. Chain(H, t, ag, q, mt) => Chain(H, t, ag, q2, mt)
    BY <1>6, <1>7 DEF Chain, Again
  <1>10. Fates(H, t, ag, q2, mt, c2)
    BY <1>3, <1>4, <1>6, <1>8, <1>9 DEF Fates
  <1>11. Kept(H, t, jb2, q2, rec)
    <2>1. \A k : Owed(k, H, jb, q) => Owed(k, H, jb2, q2)
      <3>1. \A k \in Late : Comes(k, {"summarized"}, q) => Comes(k, {"summarized"}, q2)
        BY <1>6
      <3>2. \A k \in Late : jb[<<"summary", k>>] > 0 =>
                               jb2[<<"summary", k>>] > 0 \/ Comes(k, {"summarized"}, q2)
        BY <1>2, <1>6
      <3>3. QED
        BY <3>1, <3>2 DEF Owed
    <2>2. QED
      BY <1>3, <2>1 DEF Kept
  <1>12. QED
    BY <1>1, <1>2, <1>10, <1>11 DEF Recorded

\* The end of a job, or of a reviewer.
LEMMA JobKept ==
    ASSUME IInv, Flow, Recorded, Few', [Next]_vars,
           (\E j \in Jobs : JobDone(j)) \/ (\E n \in Reviewed : ReviewerEnds(n))
    PROVE  Recorded'
  <1>1. ASSUME NEW j \in Jobs, JobDone(j) PROVE Recorded'
    <2>1. PICK result \in Results(j) : queue' = Append(queue, [kind |-> result, node |-> j[2]])
      BY <1>1 DEF JobDone
    <2>2. PICK e : e = [kind |-> result, node |-> j[2]]
      OBVIOUS
    <2>3. /\ e.kind \in {"approved", "needsWork", "summarized"} /\ e \in Event
          /\ j[1] = "summary" => e.kind = "summarized"
          /\ e.node = j[2]
      BY <2>1, <2>2 DEF Results, Jobs, Event
    <2>4. UNCHANGED <<todo, tree, agents, meeting, records>> /\ queue' = Append(queue, e)
      BY <1>1, <2>1, <2>2 DEF JobDone, proxy, disk
    <2>5. \A k \in Late : jobs[<<"summary", k>>] > 0 =>
                             jobs'[<<"summary", k>>] > 0 \/ (e.kind = "summarized" /\ e.node = k)
      <3>1. jobs \in [Jobs -> Nat] /\ jobs' = [jobs EXCEPT ![j] = @ - 1]
        BY <1>1 DEF IInv, TypeOK, JobDone
      <3>2. ASSUME NEW k \in Late, jobs[<<"summary", k>>] > 0, <<"summary", k>> # j
            PROVE  jobs'[<<"summary", k>>] > 0
        <4>1. <<"summary", k>> \in Jobs
          BY DEF Jobs
        <4>2. QED
          BY <3>1, <3>2, <4>1
      <3>3. \A k \in Late : <<"summary", k>> = j => e.kind = "summarized" /\ e.node = k
        BY <2>3
      <3>4. QED
        BY <3>2, <3>3
    <2>6. e.kind \notin AgentKinds
      BY <2>3 DEF AgentKinds
    <2>7. QED
      BY <2>3, <2>4, <2>5, <2>6, NewsKept
  <1>2. ASSUME NEW n \in Reviewed, ReviewerEnds(n) PROVE Recorded'
    <2>1. PICK kind \in {"reviewed", "reviewFailed"} : queue' = Append(queue, [kind |-> kind, node |-> n])
      BY <1>2 DEF ReviewerEnds
    <2>2. PICK e : e = [kind |-> kind, node |-> n]
      OBVIOUS
    <2>3. e \in Event /\ e.kind \notin AgentKinds
      BY <2>2 DEF Event, AgentKinds
    <2>4. UNCHANGED <<todo, tree, agents, meeting, records, jobs>> /\ queue' = Append(queue, e)
      BY <1>2, <2>1, <2>2 DEF ReviewerEnds, disk
    <2>5. QED
      BY <2>3, <2>4, NewsKept
  <1>3. QED
    BY <1>1, <1>2

\* The end of an agent: the first to fail does so before there is a meeting.
LEMMA AgentEndsKept ==
    ASSUME IInv, Flow, Recorded, Few', [Next]_vars, NEW n \in Named, AgentEnds(n)
    PROVE  Recorded'
  <1>1. /\ agents \in [Named -> Nat] /\ queue \in Seq(Event) /\ agents[n] > 0 /\ TypeOK
    BY DEF IInv, TypeOK, AgentEnds
  <1>2. PICK kind \in AgentKinds :
           /\ queue' = Append(queue, [kind |-> kind, node |-> n])
           /\ \/ kind = "completed" /\ NoFault
              \/ kind \in Failing /\ Fault("fail")
    BY DEF AgentEnds, AgentKinds, Failing
  <1>3. PICK e : e = [kind |-> kind, node |-> n]
    OBVIOUS
  <1>4. /\ e.kind = kind /\ e.node = n /\ e \in Event /\ queue' = Append(queue, e)
    BY <1>2, <1>3 DEF Event, AgentKinds
  <1>5. /\ \A k \in Work \ {n} : agents'[k] = agents[k]
        /\ n \in Work => agents'[n] = 0
        /\ UNCHANGED <<todo, tree, meeting, jobs, records>>
    <2>1. agents' = [agents EXCEPT ![n] = @ - 1]
      BY DEF AgentEnds
    <2>2. n \in Work => agents[n] <= 1
      BY FewFaults, <1>1 DEF Flow, Alike, Few, NoTwins
    <2>3. \A k \in Work : k \in Named
      BY DEF Named
    <2>4. QED
      BY <1>1, <2>1, <2>2, <2>3 DEF AgentEnds, disk
  <1>6. Held' = Held /\ Once'
    BY <1>5 DEF Held, Recorded, Once
  <1>7. n \in Work => tree.st[n] # "absent" /\ (tree.st[n] = "pending" => Mark(n, "running") \in Held)
    <2>1. n \in Work /\ tree.st[n] = "pending" => First(Mark(n, "running"))
      BY <1>1 DEF Flow, Manned
    <2>2. First(Mark(n, "running")) => Mark(n, "running") \in Held
      BY OpHeld DEF First
    <2>3. QED
      BY <1>1, <2>1, <2>2 DEF Flow, Manned
  <1>8. PICK H, t, ag, ag2, q, q2, mt, c, c2, jb, rec :
           /\ H = Held /\ t = tree /\ ag = agents /\ ag2 = agents' /\ q = queue /\ q2 = queue'
           /\ mt = meeting /\ c = Len(faults) /\ c2 = Len(faults') /\ jb = jobs /\ rec = records
    OBVIOUS
  <1>9. Fates(H, t, ag, q, mt, c) /\ Kept(H, t, jb, q, rec)
    BY <1>8 DEF Recorded
  <1>10. /\ c \in 0 .. 2 /\ c2 \in 0 .. 2
         /\ \/ kind = "completed" /\ c2 = c
            \/ kind \in Failing /\ c2 = c + 1 /\ c <= 1
    <2>1. TypeOK
      BY <1>1
    <2>2. /\ Len(faults) \in 0 .. 2 /\ Len(faults') \in 0 .. 2
          /\ NoFault => Len(faults') = Len(faults)
          /\ Fault("fail") => Len(faults') = Len(faults) + 1
      BY <2>1, FewFaults
    <2>3. QED
      BY <1>2, <1>8, <2>2
  <1>11. /\ \A k, kinds : Comes(k, kinds, q2) <=> Comes(k, kinds, q) \/ (kind \in kinds /\ n = k)
         /\ Failed(q2) <=> Failed(q) \/ kind \in Failing
         /\ Lone(q) /\ (kind \in Failing => ~Failed(q)) => Lone(q2)
         /\ \A k : Sole(k, q) /\ (kind \in Failing /\ n = k => ~Comes(k, Failing, q)) => Sole(k, q2)
    BY <1>1, <1>4, <1>8, Arrives
  <1>12. /\ "completed" \notin Failing
         /\ \A k : Comes(k, Failing, q) => Failed(q)
    BY DEF Failing, Comes, Failed
  <1>13. \A k : k # n => /\ \A kinds : Comes(k, kinds, q2) <=> Comes(k, kinds, q)
                         /\ Closing(k, H, q2) <=> Closing(k, H, q)
                         /\ Breaking(k, H, q2) <=> Breaking(k, H, q)
    BY <1>11 DEF Closing, Breaking
  <1>14. /\ \A k \in Work \ {n} : ag2[k] = ag[k]
         /\ n \in Work => ag2[n] = 0 /\ ag[n] > 0
    BY <1>1, <1>5, <1>8
  <1>15. c <= 1 => Chain(H, t, ag, q, mt)
    BY <1>9 DEF Fates
  <1>16. ASSUME kind \in Failing, NEW k \in Work, t.st[k] = "error", ag[k] > 0 \/ Comes(k, Failing, q)
         PROVE  ~Failed(q) /\ ~Stirring(H) /\ mt = {}
    <2>1. Again(k, H, t, ag, q)
      BY <1>16 DEF Again, Breaking
    <2>2. c <= 1
      BY <1>10, <1>12, <1>16
    <2>3. QED
      BY <1>15, <2>1, <2>2 DEF Chain
  <1>17. ASSUME NEW k \in Work PROVE Fate(k, H, t, ag2, q2, mt, c2)
    <2>1. Fate(k, H, t, ag, q, mt, c)
      BY <1>9 DEF Fates
    <2>2. CASE k # n
      <3>1. ag2[k] = ag[k] /\ c <= c2
        BY <1>10, <1>14, <2>2
      <3>2. t.st[k] = "error" /\ Comes(k, Failing, q) => Lone(q2)
        <4>1. t.st[k] = "error" /\ Comes(k, Failing, q) => kind \notin Failing
          BY <1>12, <1>16
        <4>2. QED
          BY <1>11, <2>1, <4>1 DEF Fate
      <3>3. Sole(k, q2)
        BY <1>11, <2>1, <2>2 DEF Fate
      <3>4. QED
        BY <1>10, <1>13, <2>1, <2>2, <3>1, <3>2, <3>3 DEF Fate
    <2>3. CASE k = n
      <3>1. /\ ag[k] > 0 /\ ag[k] # 0 /\ ag2[k] = 0 /\ ~(ag2[k] > 0)
        BY <1>14, <2>3
      <3>2. /\ ~Breaking(k, H, q) /\ ~Comes(k, Failing, q) /\ Mark(k, "error") \notin H
        BY <2>1, <3>1 DEF Fate, Breaking
      <3>3. t.st[k] # "absent" /\ (t.st[k] = "pending" => Mark(k, "running") \in H)
        BY <1>7, <1>8, <2>3
      <3>4. Sole(k, q2)
        BY <1>11, <2>1, <3>2 DEF Fate
      <3>5. CASE kind = "completed"
        <4>1. ~Comes(k, Failing, q2) /\ ~Breaking(k, H, q2)
          BY <1>11, <1>12, <3>2, <3>5 DEF Breaking
        <4>2. QED
          BY <2>1, <3>1, <3>2, <3>3, <3>4, <4>1 DEF Fate
      <3>6. CASE kind \in Failing
        <4>1. c <= 1
          BY <1>10, <1>12, <3>6
        <4>2. t.st[k] # "complete" /\ ~Closing(k, H, q)
          BY <2>1, <3>1, <4>1 DEF Fate
        <4>3. kind # "completed"
          BY <1>12, <3>6
        <4>4. ~Closing(k, H, q2)
          BY <1>11, <4>2, <4>3 DEF Closing
        <4>5. t.st[k] = "error" => mt = {} /\ ~Stirring(H) /\ ~Failed(q)
          BY <1>16, <3>1, <3>6
        <4>6. t.st[k] = "error" => Lone(q2)
          <5>1. Lone(q)
            BY <1>15, <4>1 DEF Chain
          <5>2. QED
            BY <1>11, <4>5, <5>1
        <4>7. QED
          BY <2>1, <3>1, <3>2, <3>3, <3>4, <4>2, <4>4, <4>5, <4>6 DEF Fate
      <3>7. QED
        BY <1>10, <3>5, <3>6
    <2>4. QED
      BY <2>2, <2>3
  <1>18. ASSUME c2 <= 1 PROVE Chain(H, t, ag2, q2, mt)
    <2>1. CASE kind = "completed"
      <3>1. Chain(H, t, ag, q, mt)
        BY <1>10, <1>12, <1>15, <1>18, <2>1
      <3>2. (Failed(q2) <=> Failed(q)) /\ (Lone(q) => Lone(q2))
        BY <1>11, <1>12, <2>1
      <3>3. \A k \in Work : Again(k, H, t, ag2, q2) => Again(k, H, t, ag, q)
        BY <1>13, <1>14 DEF Again
      <3>4. QED
        BY <3>1, <3>2, <3>3 DEF Chain
    <2>2. CASE kind \in Failing
      <3>1. c = 0
        BY <1>10, <1>12, <1>18, <2>2
      <3>2. /\ ~Failed(q) /\ ~Stirring(H) /\ mt = {} /\ \A k \in Work : t.st[k] # "error"
            /\ Lone(q)
        BY <1>9, <3>1 DEF Fates, Chain
      <3>3. Lone(q2)
        BY <1>11, <3>2
      <3>4. QED
        BY <3>2, <3>3 DEF Chain, Again
    <2>3. QED
      BY <1>10, <2>1, <2>2
  <1>19. Fates(H, t, ag2, q2, mt, c2)
    <2>1. c2 = 0 => /\ ~Failed(q2) /\ ~Stirring(H) /\ mt = {}
                    /\ \A k \in Work : t.st[k] # "error"
      <3>1. c2 = 0 => c = 0 /\ kind = "completed"
        BY <1>10
      <3>2. QED
        BY <1>9, <1>11, <1>12, <3>1 DEF Fates
    <2>2. QED
      BY <1>9, <1>17, <1>18, <2>1 DEF Fates
  <1>20. Kept(H, t, jb, q2, rec)
    <2>1. \A k : Owed(k, H, jb, q) => Owed(k, H, jb, q2)
      BY <1>11 DEF Owed
    <2>2. QED
      BY <1>9, <2>1 DEF Kept
  <1>21. QED
    BY <1>5, <1>6, <1>8, <1>19, <1>20 DEF Recorded

\* The end of a meeting: those who failed may be at work again.
LEMMA MeetingOverKept ==
    ASSUME IInv, Flow, Recorded, Few', [Next]_vars, MeetingOver
    PROVE  Recorded'
  <1>1. agents \in [Named -> Nat] /\ UNCHANGED <<todo, tree, queue, jobs, records, faults>>
    BY DEF IInv, TypeOK, MeetingOver, disk
  <1>2. Held' = Held /\ Once'
    BY <1>1 DEF Held, Recorded, Once
  <1>3. meeting # {} /\ meeting' = {}
    BY DEF MeetingOver
  <1>4. \A k \in Work : /\ agents[k] \in Nat
                        /\ \/ agents'[k] = agents[k] \/ agents'[k] = 0
                           \/ agents'[k] = 1 /\ agents[k] = 0 /\ tree.st[k] = "error"
    BY <1>1 DEF MeetingOver, Named
  <1>5. PICK H, t, ag, ag2, q, mt, c, jb, rec :
           /\ H = Held /\ t = tree /\ ag = agents /\ ag2 = agents' /\ q = queue
           /\ mt = meeting /\ c = Len(faults) /\ jb = jobs /\ rec = records
    OBVIOUS
  <1>6. Fates(H, t, ag, q, mt, c) /\ Kept(H, t, jb, q, rec) /\ mt # {}
    BY <1>3, <1>5 DEF Recorded
  <1>7. c # 0
    BY <1>6 DEF Fates
  <1>8. \A k \in Work : /\ ag[k] \in Nat
                        /\ \/ ag2[k] = ag[k] \/ ag2[k] = 0
                           \/ ag2[k] = 1 /\ ag[k] = 0 /\ t.st[k] = "error"
    BY <1>4, <1>5
  <1>9. c <= 1 => /\ Chain(H, t, ag, q, mt) /\ ~Failed(q) /\ ~Stirring(H)
                  /\ \A k \in Work : ~Again(k, H, t, ag, q)
    BY <1>6 DEF Fates, Chain
  <1>10. ASSUME NEW k \in Work PROVE Fate(k, H, t, ag2, q, {}, c)
    <2>1. Fate(k, H, t, ag, q, mt, c)
      BY <1>6 DEF Fates
    <2>2. Breaking(k, H, q) => ag2[k] = 0
      BY <1>6, <1>8, <2>1 DEF Fate
    <2>3. c <= 1 /\ ag2[k] > 0 => t.st[k] # "complete" /\ ~Closing(k, H, q)
      <3>1. CASE ag2[k] = ag[k] \/ ag2[k] = 0
        BY <2>1, <3>1 DEF Fate
      <3>2. CASE ag2[k] = 1 /\ ag[k] = 0 /\ t.st[k] = "error"
        BY <1>9, <3>2 DEF Again
      <3>3. QED
        BY <1>8, <3>1, <3>2
    <2>4. QED
      BY <2>1, <2>2, <2>3 DEF Fate
  <1>11. c <= 1 => Chain(H, t, ag2, q, {})
    BY <1>9 DEF Chain
  <1>12. Fates(H, t, ag2, q, {}, c)
    BY <1>6, <1>7, <1>10, <1>11 DEF Fates
  <1>13. QED
    BY <1>1, <1>2, <1>3, <1>5, <1>6, <1>12 DEF Recorded

\* What the loop has to do for event e, with the summary of a completed node.
Answering(e) == Handler(e) \o (IF e.kind = "completed" /\ e.node \notin Late THEN SumUp(e.node) ELSE <<>>)

LEMMA AnsweringHolds ==
    ASSUME NEW e \in Event
    PROVE  LET n == e.node
               E == Elems(Answering(e))
           IN  /\ Answering(e) \in Seq(Ops)
               /\ \/ /\ e.kind = "completed" /\ (n \notin Late => History(n) \in E)
                     /\ \A op \in E : \/ op = Mark(n, "complete")
                                      \/ op[1] \notin {"mark", "trigger", "create", "prepare"}
                  \/ /\ e.kind \in Failing
                     /\ \A op \in E : \/ op = Mark(n, "error")
                                      \/ op[1] \notin {"mark", "create", "prepare"}
                     /\ \A i, j \in DOMAIN Answering(e) :
                           Answering(e)[i][1] = "trigger" /\ Answering(e)[j][1] = "trigger" => i = j
                  \/ /\ e.kind \in {"approved", "reviewFailed"} /\ n \in Reviewed /\ History(n) \in E
                     /\ \A op \in E : \/ op = Mark(n, "complete")
                                      \/ op[1] \notin {"mark", "trigger", "create", "prepare"}
                  \/ /\ e.kind = "needsWork" /\ n \in Reviewed
                     /\ \A op \in E : \/ op \in {Mark(n, "running"), Redispatch}
                                      \/ op[1] \notin {"mark", "trigger", "create", "prepare"}
                  \/ /\ e.kind = "summarized" /\ History(n) \in E
                     /\ \A op \in E : op[1] \notin {"mark", "trigger", "create", "prepare"}
                  \/ e.kind = "reviewed" /\ E = {}
  <1> DEFINE n == e.node
             more == IF e.kind = "completed" /\ n \notin Late THEN SumUp(n) ELSE <<>>
  <1>1. Handler(e) \in Seq(Ops) /\ more \in Seq(Ops) /\ Answering(e) = Handler(e) \o more
    BY HandlerOps, EmptySeq DEF Answering
  <1>2. Answering(e) \in Seq(Ops) /\ Elems(Answering(e)) = Elems(Handler(e)) \cup Elems(more)
    <2>1. \A x, y \in Seq(Ops) : Elems(x \o y) = Elems(x) \cup Elems(y) /\ x \o y \in Seq(Ops)
      BY ElemsConcat, ConcatProperties
    <2> HIDE DEF more
    <2>2. QED
      BY <1>1, <2>1
  <1>3. /\ e.kind = "completed" /\ n \notin Late => Elems(more) = {Touch(n), History(n)}
        /\ ~(e.kind = "completed" /\ n \notin Late) => more = <<>> /\ Elems(more) = {}
    BY ElemsOf DEF SumUp
  <1>4. /\ Mark(n, "complete")[1] = "mark" /\ Mark(n, "error")[1] = "mark"
        /\ Mark(n, "running")[1] = "mark" /\ Release(n)[1] = "release" /\ Check(n)[1] = "check"
        /\ Trigger(n)[1] = "trigger" /\ DispatchNext[1] = "next" /\ DispatchAll[1] = "dispatchAll"
        /\ OpenRecords[1] = "openRecords" /\ IfNoMeeting[1] = "ifNoMeeting"
        /\ Touch(n)[1] = "touch" /\ History(n)[1] = "history" /\ Merge(n)[1] = "merge"
        /\ AddRedo(n)[1] = "redo" /\ Redispatch[1] = "create"
    BY DEF Mark, Release, Check, Trigger, DispatchNext, DispatchAll, OpenRecords, IfNoMeeting, Touch,
           History, Merge, AddRedo, Redispatch, Create
  <1>5. e.kind \in {"completed", "failed", "errored", "approved", "reviewFailed", "needsWork",
                    "summarized", "reviewed"}
        /\ (e.kind \in {"approved", "reviewFailed", "needsWork"} => n \in Reviewed)
    BY DEF Event
  <1>6. CASE e.kind = "completed"
    <2>1. \/ Elems(Handler(e)) = {Mark(n, "complete"), DispatchAll, OpenRecords, Release(n)}
          \/ Elems(Handler(e)) = {Mark(n, "complete"), Release(n), Check(n), IfNoMeeting}
      <3>1. Handler(e) = OnCompleted(n)
        BY <1>6 DEF Handler
      <3>2. QED
        BY <3>1, ElemsOf DEF OnCompleted
    <2> HIDE DEF more
    <2>2. QED
      BY <1>2, <1>3, <1>4, <1>6, <2>1
  <1>7. CASE e.kind \in Failing
    <2>1. e.kind \in {"failed", "errored"} /\ e.kind # "completed"
      BY <1>7 DEF Failing
    <2>2. \/ Handler(e) = <<Mark(n, "error"), Release(n), Check(n), Trigger(n)>>
          \/ Handler(e) = <<Mark(n, "error"), Release(n), Check(n), DispatchNext>>
      BY <2>1 DEF Handler
    <2>3. \/ Elems(Handler(e)) = {Mark(n, "error"), Release(n), Check(n), Trigger(n)}
          \/ Elems(Handler(e)) = {Mark(n, "error"), Release(n), Check(n), DispatchNext}
      BY <2>2, ElemsOf
    <2>4. Answering(e) = Handler(e)
      BY <1>1, <1>3, <2>1, ConcatEmptySeq
    <2>5. \A i \in DOMAIN Handler(e) : Handler(e)[i][1] = "trigger" => i = 4
      <3>1. CASE Handler(e) = <<Mark(n, "error"), Release(n), Check(n), Trigger(n)>>
        <4>1. /\ DOMAIN Handler(e) = 1 .. 4 /\ Handler(e)[1] = Mark(n, "error")
              /\ Handler(e)[2] = Release(n) /\ Handler(e)[3] = Check(n)
          BY <3>1
        <4>2. QED
          BY <1>4, <4>1
      <3>2. CASE Handler(e) = <<Mark(n, "error"), Release(n), Check(n), DispatchNext>>
        <4>1. /\ DOMAIN Handler(e) = 1 .. 4 /\ Handler(e)[1] = Mark(n, "error")
              /\ Handler(e)[2] = Release(n) /\ Handler(e)[3] = Check(n)
          BY <3>2
        <4>2. QED
          BY <1>4, <4>1
      <3>3. QED
        BY <2>2, <3>1, <3>2
    <2> HIDE DEF more
    <2>6. QED
      BY <1>2, <1>3, <1>4, <1>7, <2>1, <2>3, <2>4, <2>5
  <1>8. CASE e.kind \in {"approved", "reviewFailed"}
    <2>1. Handler(e) = Approve(n) \o <<DispatchNext>>
      BY <1>8 DEF Handler
    <2>2. Elems(Handler(e)) = Elems(Approve(n)) \cup {DispatchNext}
      <3>1. \A x, y \in Seq(Ops) : Elems(x \o y) = Elems(x) \cup Elems(y)
        BY ElemsConcat
      <3>2. Approve(n) \in Seq(Ops) /\ <<DispatchNext>> \in Seq(Ops)
        BY <1>5, <1>8, ApproveFits, OpsAre, GoodSeqs
      <3>3. Elems(<<DispatchNext>>) = {DispatchNext}
        BY ElemsOf
      <3>4. QED
        BY <2>1, <3>1, <3>2, <3>3
    <2>3. \/ Elems(Approve(n)) = {Mark(n, "complete"), History(n), Merge(n), Check(n)}
          \/ Elems(Approve(n)) = {Mark(n, "complete"), History(n)}
      <3>1. \/ Approve(n) = <<Mark(n, "complete"), History(n), Merge(n), Check(n)>>
            \/ Approve(n) = <<Mark(n, "complete"), History(n)>>
        BY Concats DEF Approve
      <3>2. QED
        BY <3>1, ElemsOf
    <2> HIDE DEF more
    <2>4. QED
      BY <1>2, <1>3, <1>4, <1>5, <1>8, <2>2, <2>3
  <1>9. CASE e.kind = "needsWork"
    <2>1. Elems(Handler(e)) = {AddRedo(n), Mark(n, "running"), Redispatch, DispatchNext}
      <3>1. Handler(e) = <<AddRedo(n), Mark(n, "running"), Redispatch, DispatchNext>>
        BY <1>9 DEF Handler
      <3>2. QED
        BY <3>1, ElemsOf
    <2> HIDE DEF more
    <2>2. QED
      BY <1>2, <1>3, <1>4, <1>5, <1>9, <2>1
  <1>10. CASE e.kind = "summarized"
    <2>1. Elems(Handler(e)) = {Touch(n), History(n)}
      <3>1. Handler(e) = <<Touch(n), History(n)>>
        BY <1>10 DEF Handler, SumUp
      <3>2. QED
        BY <3>1, ElemsOf
    <2> HIDE DEF more
    <2>2. QED
      BY <1>2, <1>3, <1>4, <1>10, <2>1
  <1>11. CASE e.kind = "reviewed"
    <2>1. Handler(e) = <<>> /\ Elems(Handler(e)) = {}
      BY <1>11, ElemsOf DEF Handler
    <2> HIDE DEF more
    <2>2. QED
      BY <1>2, <1>3, <1>11, <2>1
  <1>12. QED
    BY <1>5, <1>6, <1>7, <1>8, <1>9, <1>10, <1>11 DEF Failing

\* The loop takes an event.
LEMMA HandleKept == ASSUME IInv, Flow, Recorded, Few', [Next]_vars, Handle PROVE Recorded'
  <1>1. TypeOK /\ queue \in Seq(Event) /\ queue # <<>> /\ jobs \in [Jobs -> Nat]
        /\ todo \in [Goroutines -> Seq(Ops)]
    BY TodoOps DEF IInv, TypeOK, Handle
  <1>2. todo["starter"] = <<>> /\ todo["loop"] = <<>> /\ NoFault
    <2>1. ~Fault("overlap") /\ ~HasFault("overlap")
      BY <1>1, FewFaults DEF Orderly
    <2>2. QED
      BY <2>1 DEF Handle
  <1>3. PICK e : e = Head(queue)
    OBVIOUS
  <1>4. PICK n : n = e.node
    OBVIOUS
  <1>5. e \in Event /\ queue' = Tail(queue)
    <2>1. queue' = Tail(queue)
      BY DEF Handle
    <2>2. QED
      BY <1>1, <1>3, <2>1, QueueTail
  <1>6. /\ UNCHANGED <<tree, meeting, agents, records>>
        /\ jobs' = IF e.kind \in {"reviewed", "completed"} /\ JobFor(e) \in Jobs
                   THEN [jobs EXCEPT ![JobFor(e)] = @ + 1] ELSE jobs
    BY <1>3 DEF Handle, disk, proxy
  <1>7. todo'["loop"] = Answering(e) /\ todo'["starter"] = <<>> /\ Answering(e) \in Seq(Ops)
    <2>1. Begin("loop", Answering(e))
      BY <1>3 DEF Handle, Answering
    <2>2. Answering(e) \in Seq(Ops)
      BY <1>5, AnsweringHolds
    <2>3. QED
      BY <1>1, <1>2, <2>1, <2>2 DEF Begin, Goroutines
  <1>8. Held = {} /\ Held' = Elems(Answering(e))
    <2>1. Elems(<<>>) = {}
      BY ElemsOf
    <2>2. QED
      BY <1>2, <1>7, <2>1 DEF Held, Goroutines
  <1>9. PICK H, K, t, ag, q, q2, mt, c, jb, jb2, rec :
           /\ H = Held /\ K = Held' /\ t = tree /\ ag = agents /\ q = queue /\ q2 = queue'
           /\ mt = meeting /\ c = Len(faults) /\ jb = jobs /\ jb2 = jobs' /\ rec = records
    OBVIOUS
  <1>10. Fates(H, t, ag, q, mt, c) /\ Kept(H, t, jb, q, rec) /\ H = {}
    BY <1>8, <1>9 DEF Recorded
  <1>11. \/ /\ e.kind = "completed" /\ (n \notin Late => History(n) \in K)
            /\ \A op \in K : \/ op = Mark(n, "complete")
                             \/ op[1] \notin {"mark", "trigger", "create", "prepare"}
         \/ /\ e.kind \in Failing
            /\ \A op \in K : \/ op = Mark(n, "error")
                             \/ op[1] \notin {"mark", "create", "prepare"}
         \/ /\ e.kind \in {"approved", "reviewFailed"} /\ n \in Reviewed /\ History(n) \in K
            /\ \A op \in K : \/ op = Mark(n, "complete")
                             \/ op[1] \notin {"mark", "trigger", "create", "prepare"}
         \/ /\ e.kind = "needsWork" /\ n \in Reviewed
            /\ \A op \in K : \/ op \in {Mark(n, "running"), Redispatch}
                             \/ op[1] \notin {"mark", "trigger", "create", "prepare"}
         \/ /\ e.kind = "summarized" /\ History(n) \in K
            /\ \A op \in K : op[1] \notin {"mark", "trigger", "create", "prepare"}
         \/ e.kind = "reviewed" /\ K = {}
    BY <1>4, <1>5, <1>8, <1>9, AnsweringHolds
  <1>12. /\ \A k : Mark(k, "running")[1] = "mark" /\ Mark(k, "complete")[1] = "mark"
                   /\ Mark(k, "error")[1] = "mark"
         /\ \A k, k2, s, s2 : Mark(k, s) = Mark(k2, s2) => k = k2 /\ s = s2
         /\ \A k, s : Mark(k, s) # Redispatch /\ Mark(k, s)[3] = s
         /\ Redispatch[1] = "create" /\ Prepare[1] = "prepare"
         /\ "completed" \notin Failing /\ Failing \subseteq AgentKinds
    BY DEF Mark, Redispatch, Create, Prepare, Failing, AgentKinds
  <1>13. e.kind \in AgentKinds => n \in Named /\ n \notin Milestones
    <2>1. e.kind \in AgentKinds => n \in Named
      BY <1>4, <1>5 DEF Event, AgentKinds
    <2>2. \A k \in Named : k \notin Milestones
      BY Kinds, UidsDiffer, TreeAssumption DEF Named, Reviewed, Nodes
    <2>3. QED
      BY <2>1, <2>2
  <1>14. \A op \in K : op[1] # "prepare" /\ Own(op)
    <2>1. Own(Redispatch)
      <3>1. DOMAIN Redispatch[3] = {}
        BY DEF Redispatch, Create
      <3>2. QED
        BY <1>12, <3>1 DEF Own
    <2>2. \A s \in {"running", "complete", "error"} : Own(Mark(n, s))
      BY DEF Own, Mark
    <2>3. \A op \in K : op[1] \notin {"mark", "create"} => Own(op)
      BY DEF Own
    <2>4. QED
      BY <1>11, <1>12, <2>1, <2>2, <2>3
  <1>15. \A k \in Work : \A s : Mark(k, s) \in K =>
            /\ k = n
            /\ (e.kind = "completed" /\ s = "complete") \/ (e.kind \in Failing /\ s = "error")
    <2>1. \A k, s : Mark(k, s)[1] = "mark"
      BY DEF Mark
    <2>2. QED
      BY <1>11, <1>12, <2>1, Kinds
  <1>16. Stirring(K) => e.kind \in Failing
    BY <1>11, <1>12 DEF Stirring, Mark
  <1>17. Once'
    <2>1. \A i, j \in DOMAIN Answering(e) :
             Answering(e)[i][1] = "trigger" /\ Answering(e)[j][1] = "trigger" => i = j
      <3>1. CASE e.kind \in Failing
        BY <1>5, <1>12, <3>1, AnsweringHolds DEF Failing
      <3>2. CASE e.kind \notin Failing
        <4>1. \A op \in K : op[1] # "trigger"
          BY <1>11, <1>12, <3>2
        <4>2. \A i \in DOMAIN Answering(e) : Answering(e)[i] \in K
          BY <1>8, <1>9 DEF Elems
        <4>3. QED
          BY <4>1, <4>2
      <3>3. QED
        BY <3>1, <3>2
    <2>2. DOMAIN todo'["starter"] = {}
      BY <1>7, EmptySeq, SeqIs
    <2>3. QED
      BY <1>7, <2>1, <2>2 DEF Once, Goroutines
  <1>18. /\ \A k, kinds : Comes(k, kinds, q) <=> Comes(k, kinds, q2) \/ (e.kind \in kinds /\ n = k)
         /\ Failed(q) <=> Failed(q2) \/ e.kind \in Failing
         /\ Lone(q) => Lone(q2) /\ (e.kind \in Failing => ~Failed(q2))
         /\ \A k : Sole(k, q) => /\ Sole(k, q2)
                                 /\ e.kind \in Failing /\ n = k => ~Comes(k, Failing, q2)
         /\ \A k : Comes(k, Failing, q2) => Failed(q2)
    <2>1. \A k : Comes(k, Failing, q2) => Failed(q2)
      BY DEF Comes, Failed
    <2>2. QED
      BY <1>1, <1>3, <1>4, <1>5, <1>9, <2>1, Leaves
  <1>19. \A k \in Work : /\ Closing(k, K, q2) => Closing(k, H, q)
                         /\ Breaking(k, K, q2) => Breaking(k, H, q)
                         /\ Mark(k, "complete") \in K \/ Mark(k, "error") \in K =>
                               Comes(k, AgentKinds, q)
                         /\ Mark(k, "running") \notin K
    BY <1>12, <1>15, <1>18 DEF Closing, Breaking, AgentKinds
  <1>20. ASSUME NEW k \in Work PROVE Fate(k, K, t, ag, q2, mt, c)
    <2>1. Fate(k, H, t, ag, q, mt, c)
      BY <1>10 DEF Fates
    <2>2. Comes(k, AgentKinds, q) => t.st[k] \notin {"absent", "pending"}
      BY <1>10, <2>1 DEF Fate
    <2>3. t.st[k] = "error" /\ Comes(k, Failing, q2) => ~Stirring(K) /\ Lone(q2)
      BY <1>16, <1>18, <2>1 DEF Fate
    <2>4. Sole(k, q2) /\ ~(Comes(k, Failing, q2) /\ Mark(k, "error") \in K)
      BY <1>12, <1>15, <1>18, <2>1 DEF Fate
    <2>5. Comes(k, AgentKinds, q2) => Comes(k, AgentKinds, q)
      BY <1>18
    <2>6. QED
      BY <1>19, <2>1, <2>2, <2>3, <2>4, <2>5 DEF Fate
  <1>21. Chain(H, t, ag, q, mt) => Chain(K, t, ag, q2, mt)
    <2>1. \A k \in Work : Again(k, K, t, ag, q2) => Again(k, H, t, ag, q)
      BY <1>19 DEF Again
    <2>2. QED
      BY <1>16, <1>18, <2>1 DEF Chain
  <1>22. Fates(K, t, ag, q2, mt, c)
    <2>1. c = 0 => /\ ~Failed(q2) /\ ~Stirring(K) /\ mt = {}
                   /\ \A k \in Work : t.st[k] # "error"
      BY <1>10, <1>16, <1>18 DEF Fates
    <2>2. QED
      BY <1>10, <1>14, <1>20, <1>21, <2>1 DEF Fates
  <1>23. /\ \A k \in Late : jb[<<"summary", k>>] > 0 => jb2[<<"summary", k>>] > 0
         /\ e.kind = "completed" /\ n \in Late => jb2[<<"summary", n>>] > 0
    <2>1. \A k \in Late : <<"summary", k>> \in Jobs /\ jobs[<<"summary", k>>] \in Nat
      BY <1>1 DEF Jobs
    <2>2. e.kind = "completed" => JobFor(e) = <<"summary", n>>
      BY <1>4 DEF JobFor
    <2>3. \A j \in Jobs : jobs[j] \in Nat /\ jobs'[j] \in {jobs[j], jobs[j] + 1}
      BY <1>1, <1>6
    <2>4. e.kind = "completed" /\ n \in Late => jobs'[<<"summary", n>>] = jobs[<<"summary", n>>] + 1
      BY <1>1, <1>6, <2>1, <2>2
    <2>5. \A k \in Late : jobs[<<"summary", k>>] > 0 => jobs'[<<"summary", k>>] > 0
      BY <2>1, <2>3
    <2>6. QED
      BY <1>9, <2>1, <2>4, <2>5
  <1>24. Kept(K, t, jb2, q2, rec)
    <2>1. \A k : Owed(k, H, jb, q) => Owed(k, K, jb2, q2)
      <3>1. \A k : e.kind = "summarized" /\ n = k => History(k) \in K
        BY <1>11 DEF Failing
      <3>2. QED
        BY <1>10, <1>18, <1>23, <3>1 DEF Owed
    <2>2. \A k \in Work : Mark(k, "complete") \in K => Owed(k, K, jb2, q2)
      <3>1. e.kind = "completed" /\ n \notin Late => History(n) \in K
        BY <1>11 DEF Failing
      <3>2. QED
        BY <1>15, <1>23, <3>1 DEF Owed
    <2>3. \A m \in Milestones : Mark(m, "complete") \in K => History(m) \in K
      BY <1>11, <1>12, <1>13 DEF AgentKinds
    <2>4. Prepare \notin K
      BY <1>12, <1>14
    <2>5. QED
      BY <1>10, <2>1, <2>2, <2>3, <2>4 DEF Kept
  <1>25. Len(faults') = c
    BY <1>2, <1>9 DEF NoFault
  <1>26. QED
    BY <1>6, <1>9, <1>17, <1>22, <1>24, <1>25 DEF Recorded

LEMMA StillKept ==
    ASSUME IInv, Flow, Recorded, Few', [Next]_vars, UNCHANGED vars
    PROVE  Recorded'
  <1>1. UNCHANGED <<todo, tree, agents, queue, meeting, jobs, records, faults>>
    BY DEF vars, disk, proxy
  <1>2. Held' = Held /\ Once'
    BY <1>1 DEF Held, Recorded, Once
  <1>3. PICK H, t, ag, q, mt, c, jb, rec :
           /\ H = Held /\ t = tree /\ ag = agents /\ q = queue /\ mt = meeting
           /\ c = Len(faults) /\ jb = jobs /\ rec = records
    OBVIOUS
  <1>4. Fates(H, t, ag, q, mt, c) /\ Kept(H, t, jb, q, rec)
    BY <1>3 DEF Recorded
  <1>5. QED
    BY <1>1, <1>2, <1>3, <1>4 DEF Recorded

\* Every step after which little has gone wrong keeps the invariant.
LEMMA RecordedStep == ASSUME IInv, Flow, Recorded, [Next]_vars, Few' PROVE Recorded'
  <1>1. ASSUME NEW g \in Goroutines, Step(g) PROVE Recorded'
    <2>1. ~WriteOccupied(g)
      BY OpFits DEF WriteOccupied, Fits
    <2>2. CASE \/ SaveFrontiers(g) \/ NextRead(g) \/ CheckAbove(g) \/ TakeWaiting(g)
           \/ ReadOccupied(g) \/ NextReview(g) \/ AskReview(g) \/ SendMerge(g)
      BY <2>2, SideKept
    <2>3. CASE BeginReview(g) \/ DispatchOne(g) \/ NextPick(g) \/ SendCreate(g)
      BY <2>3, BeginKept, PickKept, CreateKept
    <2>4. CASE SaveHistories(g) \/ OpenHistories(g) \/ BuildHistory(g)
      BY <2>4, RecordsKept
    <2>5. CASE ReadTree(g) \/ WriteTree(g)
      BY <2>5, TreeKept
    <2>6. QED
      BY <1>1, <2>1, <2>2, <2>3, <2>4, <2>5 DEF Step
  <1>2. CASE Step("starter") \/ Step("loop")
    BY <1>1, <1>2 DEF Goroutines
  <1>3. CASE Handle \/ SkipInMeeting \/ TriggerMeeting
    BY <1>3, HandleKept, SkipKept, TriggerKept
  <1>4. CASE \E p \in Paths : Start(p)
    BY <1>4, StartKept
  <1>5. CASE (\E j \in Jobs : JobDone(j)) \/ (\E n \in Reviewed : ReviewerEnds(n))
    BY <1>5, JobKept
  <1>6. CASE (\E n \in Named : AgentEnds(n)) \/ MeetingOver
    BY <1>6, AgentEndsKept, MeetingOverKept
  <1>7. ~AddAgent
    BY FewFaults DEF AddAgent, IInv
  <1>8. CASE UNCHANGED vars
    BY <1>8, StillKept
  <1>9. QED
    BY <1>2, <1>3, <1>4, <1>5, <1>6, <1>7, <1>8 DEF Next, LoopStep

\* When little has gone wrong, every completion is in the history of its
\* milestone or still on its way there; and none of these failures undoes one,
\* since a task is not complete while an agent of it may fail
\* (handleTaskCompleted, handleTaskFailed, buildAndSaveHistory,
\* updateMilestoneHistoryTask).
THEOREM RecordedCorrect == Spec => [](Few => Recorded)
  <1>1. Init => IInv /\ (Orderly => Flow) /\ (Few => Recorded)
    BY InitInv, InitFlow, InitRecorded
  <1>2. IInv /\ (Orderly => Flow) /\ (Few => Recorded) /\ [Next]_vars => (Few => Recorded)'
    <2> SUFFICES ASSUME IInv, Orderly => Flow, Few => Recorded, [Next]_vars, Few'
                 PROVE  Recorded'
      OBVIOUS
    <2>1. Few /\ Orderly
      BY FewFaults DEF IInv
    <2>2. QED
      BY <2>1, RecordedStep
  <1>3. Spec => [](Orderly => Flow)
    BY FlowCorrect
  <1>4. QED
    BY <1>1, <1>2, <1>3, InitInv, NextInv, PTL DEF Spec

\* No agent is given a task without its frontier, and when a run has come to
\* rest the history of each milestone shows complete what tree.json does,
\* however late the summaries came, and a complete milestone has one
\* (prepareHistoriesAndDispatch, buildAndSaveHistory,
\* updateMilestoneHistoryTask).
THEOREM HistoryTrueCorrect == Spec => []HistoryTrue
  <1>1. ASSUME TypeOK, Recorded, AtRest, NEW m \in Milestones
        PROVE  /\ records[m].kept => records[m].shows = Shown(m)
               /\ tree.st[m] = "complete" => records[m].kept
    <2>1. Held = {} /\ DOMAIN queue = {} /\ \A j \in Jobs : jobs[j] = 0
      BY <1>1, ElemsOf, SeqIs, EmptySeq DEF Held, AtRest
    <2>2. PICK H, t, q, jb, rec :
             H = Held /\ t = tree /\ q = queue /\ jb = jobs /\ rec = records
      OBVIOUS
    <2>3. Kept(H, t, jb, q, rec) /\ H = {}
      BY <1>1, <2>1, <2>2 DEF Recorded
    <2>4. \A k : ~Owed(k, H, jb, q)
      BY <2>1, <2>2, <2>3 DEF Owed, Comes, Jobs
    <2>5. /\ rec[m].shows \subseteq {k \in Below(m) : t.st[k] = "complete"}
          /\ rec[m].kept => \A k \in Below(m) : t.st[k] = "complete" => k \in rec[m].shows
          /\ t.st[m] = "complete" => rec[m].kept
      BY <2>3, <2>4 DEF Kept
    <2>6. Shown(m) = {k \in Below(m) : tree.st[k] = "complete"}
      BY <1>1, ShownIs
    <2>7. QED
      BY <2>2, <2>5, <2>6
  <1>2. IInv => TypeOK
    BY DEF IInv
  <1>3. TypeOK /\ (Few => Recorded)
        => (AtRest /\ NoTwins /\ Len(faults) <= 2 => \A m \in Milestones :
               /\ records[m].kept => records[m].shows = Shown(m)
               /\ tree.st[m] = "complete" => records[m].kept)
    BY <1>1 DEF Few
  <1>4. /\ TypeOK /\ (Few => Recorded)
        /\ (path = "skeleton" => \A n \in Tasks : agents[n] > 0 => n \in frontiers)
        => HistoryTrue
    BY <1>3 DEF HistoryTrue
  <1>5. QED
    BY <1>2, <1>4, RecordedCorrect, FrontiersFirstCorrect, InvCorrect, PTL

=============================================================================
