------------------------------ MODULE Delivery ------------------------------
(***************************************************************************)
(* What a link that retries promises: an item handed to it waits until the *)
(* other side has it, whatever fails in between.  Only an item that may be *)
(* dropped, or a crash of the side that keeps the items in memory, ends a  *)
(* wait without a delivery.  Items may be delivered more than once and in  *)
(* any order.  PollLink implements it twice, for events and for commands.  *)
(***************************************************************************)

CONSTANTS
    Items,
    Kept,       \* the items that are never dropped
    Volatile    \* whether a crash forgets what waits

VARIABLES waiting, delivered

Init == waiting = {} /\ delivered = {}

Hand(i) ==
    /\ i \in Items
    /\ waiting' = waiting \cup {i}
    /\ UNCHANGED delivered

Deliver(S) ==
    /\ S \subseteq waiting
    /\ delivered' = delivered \cup S
    /\ UNCHANGED waiting

\* The sender stops waiting for S: what must be kept has arrived.
Release(S) ==
    /\ S \cap Kept \subseteq delivered
    /\ waiting' = waiting \ S
    /\ UNCHANGED delivered

Crash ==
    /\ Volatile
    /\ waiting' = {}
    /\ UNCHANGED delivered

Next ==
    \/ \E i \in Items : Hand(i)
    \/ \E S \in SUBSET waiting : Deliver(S) \/ Release(S)
    \/ Crash

Spec == Init /\ [][Next]_<<waiting, delivered>>
=============================================================================
