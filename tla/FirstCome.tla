----------------------------- MODULE FirstCome -----------------------------
(***************************************************************************)
(* A line that is served in the order of arrival, one at a time, and that  *)
(* nobody leaves unserved: what client/proxy's MergeBack promises ("earlier *)
(* submissions merge first") and README.md says of the merge queue.        *)
(***************************************************************************)
EXTENDS Sequences

CONSTANT Customers

VARIABLE line   \* who is being served, then who waits

Init == line = <<>>

Arrive == \E c \in Customers : line' = Append(line, c)
Serve  == line # <<>> /\ line' = Tail(line)

Spec == Init /\ [][Arrive \/ Serve]_line
=============================================================================
