------------------------------ MODULE PollLink ------------------------------
(***************************************************************************)
(* The link of a deployed proxy: Client of httppoll pushes events and      *)
(* polls for commands over HTTPS; the Lambdas behind it keep the commands  *)
(* in S3 (proxystore).  A request that fails may or may not have reached   *)
(* its Lambda.                                                             *)
(*                                                                         *)
(* An event is received once the push Lambda has it; what that Lambda does *)
(* with it is in CloudRun.  The heartbeat and the polling interval are     *)
(* left out.                                                               *)
(***************************************************************************)
EXTENDS Integers, FiniteSets, Sequences, Functions

CONSTANTS
    Events,
    Critical,       \* events whose action is in criticalActions
    Commands,       \* ids, which are also the order of their keys in S3
    None,           \* no command
    Cap,            \* entries eventBuf is trimmed to (100 in the code)
    MaxFailures,    \* requests that fail
    MaxRestarts     \* restarts of the proxy

ASSUME PollAssumption ==
    /\ Critical \subseteq Events
    /\ Commands \subseteq Nat /\ None \notin Commands
    /\ Cap \in Nat
    /\ MaxFailures \in Nat
    /\ MaxRestarts \in Nat

VARIABLES
    sent,       \* how far SendEvent is with each event
    eventBuf,   \* events whose push failed, oldest first
    flight,     \* the events flushEventBuffer has taken out of eventBuf
    poll,       \* where pollLoop is
    todo,       \* commands fetched and not yet handled
    answer,     \* the command whose response is outstanding
    received,   \* events that reached the push Lambda
    pending,    \* proxy-commands/{userID}/pending
    completed,  \* proxy-commands/{userID}/completed
    moves,      \* CompleteCommand calls under way
    executed,   \* commands the handler has carried out
    failures, restarts,
    queued,     \* every event in the order its push failed
    forgotten   \* events a restart has taken

proxyVars  == <<sent, eventBuf, flight, poll, todo, answer>>
serverVars == <<received, pending, completed, moves>>
history    == <<executed, queued, forgotten>>
vars       == <<proxyVars, serverVars, history, failures, restarts>>

\* A push under way: "out" until the Lambda has the events, then "in".
Sending == {"new", "out", "in", "done"}
Phases  == {"wait", "handle", "reply", "replied", "out", "in"}

TypeOK ==
    /\ sent \in [Events -> Sending]
    /\ eventBuf \in Seq(Events) /\ flight \in Seq(Events) /\ queued \in Seq(Events)
    /\ poll \in Phases
    /\ todo \subseteq Commands
    /\ answer \in Commands \cup {None}
    /\ received \subseteq Events
    /\ forgotten \subseteq Events
    /\ pending \subseteq Commands /\ completed \subseteq Commands
    /\ moves \subseteq Commands \X {"read", "written"}
    /\ executed \subseteq Commands
    /\ failures \in 0 .. MaxFailures /\ restarts \in 0 .. MaxRestarts

Init ==
    /\ sent = [e \in Events |-> "new"]
    /\ eventBuf = <<>> /\ flight = <<>> /\ queued = <<>>
    /\ poll = "wait"
    /\ todo = {} /\ answer = None
    /\ received = {} /\ forgotten = {}
    /\ pending = {} /\ completed = {} /\ moves = {}
    /\ executed = {}
    /\ failures = 0 /\ restarts = 0

Fails == failures < MaxFailures /\ failures' = failures + 1

-----------------------------------------------------------------------------
\* Events

\* The n-th of the places in S.
Nth(S, n) == CHOOSE i \in S : Cardinality({j \in S : j <= i}) = n

\* trimNonCritical: the oldest events that are not critical go until the
\* buffer fits, or until only critical ones are left.
Stay(buf) ==
    {i \in DOMAIN buf :
        \/ buf[i] \in Critical
        \/ Cardinality({j \in 1 .. i : buf[j] \notin Critical}) > Len(buf) - Cap}

\* Seeded bug: the oldest events go, critical or not.
MutTrim(buf) ==
    IF Len(buf) > Cap THEN SubSeq(buf, Len(buf) - Cap + 1, Len(buf)) ELSE buf

Trim(buf) == [n \in 1 .. Cardinality(Stay(buf)) |-> buf[Nth(Stay(buf), n)]]

\* SendEvent, in the goroutine of whoever publishes: push at once ...
SendEvent(e) ==
    /\ sent[e] = "new"
    /\ sent' = [sent EXCEPT ![e] = "out"]
    /\ UNCHANGED <<eventBuf, flight, poll, todo, answer, serverVars, history, failures, restarts>>

Arrives(e) ==
    /\ sent[e] = "out"
    /\ sent' = [sent EXCEPT ![e] = "in"]
    /\ received' = received \cup {e}
    /\ UNCHANGED <<eventBuf, flight, poll, todo, answer, pending, completed, moves,
                   history, failures, restarts>>

PushOk(e) ==
    /\ sent[e] = "in"
    /\ sent' = [sent EXCEPT ![e] = "done"]
    /\ UNCHANGED <<eventBuf, flight, poll, todo, answer, serverVars, history, failures, restarts>>

\* ... and keep the event when the push failed.
PushFails(e) ==
    /\ sent[e] \in {"out", "in"}
    /\ Fails
    /\ sent' = [sent EXCEPT ![e] = "done"]
    /\ eventBuf' = Trim(Append(eventBuf, e))
    /\ queued' = Append(queued, e)
    /\ UNCHANGED <<flight, poll, todo, answer, serverVars, executed, forgotten, restarts>>

\* flushEventBuffer takes the whole buffer and pushes it without the lock.
TakeBuffer ==
    /\ poll = "handle" /\ todo = {}
    /\ flight' = eventBuf
    /\ eventBuf' = <<>>
    /\ poll' = IF eventBuf = <<>> THEN "wait" ELSE "out"
    /\ UNCHANGED <<sent, todo, answer, serverVars, history, failures, restarts>>

FlushArrives ==
    /\ poll = "out"
    /\ poll' = "in"
    /\ received' = received \cup Range(flight)
    /\ UNCHANGED <<sent, eventBuf, flight, todo, answer, pending, completed, moves,
                   history, failures, restarts>>

FlushOk ==
    /\ poll = "in"
    /\ poll' = "wait"
    /\ flight' = <<>>
    /\ UNCHANGED <<sent, eventBuf, todo, answer, serverVars, history, failures, restarts>>

\* Seeded bug: what could not be flushed goes behind what came meanwhile.
MutFlushFails ==
    /\ poll \in {"out", "in"}
    /\ Fails
    /\ poll' = "wait"
    /\ eventBuf' = Trim(eventBuf \o flight)
    /\ flight' = <<>>
    /\ UNCHANGED <<sent, todo, answer, serverVars, history, restarts>>

FlushFails ==
    /\ poll \in {"out", "in"}
    /\ Fails
    /\ poll' = "wait"
    /\ eventBuf' = Trim(flight \o eventBuf)
    /\ flight' = <<>>
    /\ UNCHANGED <<sent, todo, answer, serverVars, history, restarts>>

-----------------------------------------------------------------------------
\* Commands

\* A Lambda saves a command for the proxy.
SaveCommand(c) ==
    /\ c \notin pending \cup completed
    /\ pending' = pending \cup {c}
    /\ UNCHANGED <<proxyVars, received, completed, moves, history, failures, restarts>>

\* Seeded bug: a command carried out before is skipped, and never answered.
MutFetch ==
    /\ poll = "wait"
    /\ todo' = pending \ executed
    /\ poll' = "handle"
    /\ UNCHANGED <<sent, eventBuf, flight, answer, serverVars, history, failures, restarts>>

Fetch ==
    /\ poll = "wait"
    /\ todo' = pending
    /\ poll' = "handle"
    /\ UNCHANGED <<sent, eventBuf, flight, answer, serverVars, history, failures, restarts>>

\* Seeded bug: the poll loop ends at the first error.
MutFetchFails ==
    /\ poll = "wait"
    /\ Fails
    /\ poll' = "stopped"
    /\ UNCHANGED <<sent, eventBuf, flight, todo, answer, serverVars, history, restarts>>

\* A poll that fails is tried again; the buffer is not flushed.
FetchFails ==
    /\ poll = "wait"
    /\ Fails
    /\ UNCHANGED <<proxyVars, serverVars, history, restarts>>

\* Seeded bug: the command is answered before the handler has run.
MutHandle ==
    /\ poll = "handle"
    /\ \E c \in todo :
          /\ \A d \in todo : c <= d
          /\ todo' = todo \ {c}
          /\ answer' = c
    /\ poll' = "reply"
    /\ UNCHANGED <<sent, eventBuf, flight, serverVars, history, failures, restarts>>

Handle ==
    /\ poll = "handle"
    /\ \E c \in todo :
          /\ \A d \in todo : c <= d
          /\ executed' = executed \cup {c}
          /\ todo' = todo \ {c}
          /\ answer' = c
    /\ poll' = "reply"
    /\ UNCHANGED <<sent, eventBuf, flight, serverVars, queued, forgotten, failures, restarts>>

\* The response reaches its Lambda: CompleteCommand looks the pending command
\* up, writes it to completed/ and deletes it from pending/.  Two calls for
\* one command at the same point do what one does, so moves is a set.
ReadPending ==
    /\ poll = "reply"
    /\ answer \in pending
    /\ poll' = "replied"
    /\ moves' = moves \cup {<<answer, "read">>}
    /\ UNCHANGED <<sent, eventBuf, flight, todo, answer, received, pending, completed,
                   history, failures, restarts>>

WriteCompleted(c) ==
    /\ <<c, "read">> \in moves
    /\ completed' = completed \cup {c}
    /\ moves' = (moves \ {<<c, "read">>}) \cup {<<c, "written">>}
    /\ UNCHANGED <<proxyVars, received, pending, history, failures, restarts>>

\* Seeded bug: the pending entry may go before the completed one is written.
MutDeletePending(c) ==
    /\ {<<c, "read">>, <<c, "written">>} \cap moves # {}
    /\ pending' = pending \ {c}
    /\ moves' = moves \ {<<c, "written">>}
    /\ UNCHANGED <<proxyVars, received, completed, history, failures, restarts>>

DeletePending(c) ==
    /\ <<c, "written">> \in moves
    /\ pending' = pending \ {c}
    /\ moves' = moves \ {<<c, "written">>}
    /\ UNCHANGED <<proxyVars, received, completed, history, failures, restarts>>

\* A call to S3 fails and CompleteCommand gives up where it is.
MoveFails(m) ==
    /\ m \in moves
    /\ Fails
    /\ moves' = moves \ {m}
    /\ UNCHANGED <<proxyVars, received, pending, completed, history, restarts>>

\* sendCommandResponse returns.  It only logs an error: a response that no
\* pending command awaits any more, or one the proxy has given up waiting for.
Answered ==
    /\ \/ poll = "reply" /\ answer \notin pending
       \/ poll = "replied" /\ \A m \in moves : m[1] # answer
    /\ poll' = "handle"
    /\ answer' = None
    /\ UNCHANGED <<sent, eventBuf, flight, todo, serverVars, history, failures, restarts>>

AnswerFails ==
    /\ poll \in {"reply", "replied"}
    /\ Fails
    /\ poll' = "handle"
    /\ answer' = None
    /\ UNCHANGED <<sent, eventBuf, flight, todo, serverVars, history, restarts>>

-----------------------------------------------------------------------------
\* The events this side still holds.
Held == Range(eventBuf) \cup Range(flight) \cup {e \in Events : sent[e] \in {"out", "in"}}

\* The proxy restarts: what it keeps in memory is gone.
Restart ==
    /\ restarts < MaxRestarts
    /\ restarts' = restarts + 1
    /\ forgotten' = forgotten \cup Held
    /\ sent' = [e \in Events |-> IF sent[e] = "new" THEN "new" ELSE "done"]
    /\ eventBuf' = <<>> /\ flight' = <<>>
    /\ poll' = "wait"
    /\ todo' = {} /\ answer' = None
    /\ UNCHANGED <<serverVars, executed, queued, failures>>

Push     == \E e \in Events : SendEvent(e) \/ Arrives(e) \/ PushOk(e) \/ PushFails(e)
Flush    == TakeBuffer \/ FlushArrives \/ FlushOk \/ FlushFails
Poll == Fetch \/ FetchFails \/ Handle \/ ReadPending \/ Answered \/ AnswerFails
Complete(c) == WriteCompleted(c) \/ DeletePending(c)
Next ==
    \/ Push \/ Flush \/ Poll
    \/ \E c \in Commands : SaveCommand(c) \/ Complete(c)
    \/ \E m \in moves : MoveFails(m)
    \/ Restart

Spec == Init /\ [][Next]_vars

\* pollLoop and the goroutines that publish go on, and so do the Lambdas;
\* only the calls of the callers (SendEvent, SaveCommand) need not happen.
Fairness ==
    /\ \A e \in Events : WF_vars(Arrives(e)) /\ WF_vars(PushOk(e))
    /\ WF_vars(TakeBuffer \/ FlushArrives \/ FlushOk)
    /\ WF_vars(Fetch \/ Handle \/ ReadPending \/ Answered)
    /\ \A c \in Commands : WF_vars(Complete(c))

FairSpec == Spec /\ Fairness

-----------------------------------------------------------------------------
\* Properties

\* Events whose push failed stay in the order in which they failed, also
\* when a failed flush puts them back while others were buffered.
QueueOrder ==
    LET line == flight \o eventBuf
    IN \A i, j \in DOMAIN line :
          i < j => \E k, l \in DOMAIN queued :
                      k < l /\ queued[k] = line[i] /\ queued[l] = line[j]

\* A command is answered only after it was carried out, and one that is no
\* longer pending has its answer recorded: a failure between the two writes
\* of CompleteCommand leaves it in both places, never in none.
Recorded ==
    /\ completed \subseteq executed
    /\ todo \subseteq pending \cup completed
    /\ \A m \in moves : m[1] \in executed \cap (pending \cup completed)

\* Both directions keep what they are given until it has arrived (Delivery):
\* events, as long as the proxy lives, and commands, which are in S3, always.
EventLink == INSTANCE Delivery WITH
    Items <- Events, Kept <- Critical, Volatile <- TRUE,
    waiting <- Held, delivered <- received
CommandLink == INSTANCE Delivery WITH
    Items <- Commands, Kept <- Commands, Volatile <- FALSE,
    waiting <- pending, delivered <- executed
EventsKept   == EventLink!Spec
CommandsKept == CommandLink!Spec

\* A critical event reaches the push Lambda, unless a restart forgets it, and
\* every command is carried out, answered and taken from pending/.
AllArrives ==
    /\ \A e \in Critical : sent[e] = "out" ~> e \in received \cup forgotten
    /\ \A c \in Commands : c \in pending ~> c \in (executed \cap completed) \ pending
=============================================================================
