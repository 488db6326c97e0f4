---------------------------- MODULE MCNodeTree ----------------------------
(***************************************************************************)
(* The trees on which NodeTree is model-checked.                           *)
(***************************************************************************)
EXTENDS NodeTree, TLC

CONSTANTS p, m, t, u, x

\* One milestone with two tasks.
OneParent == t :> m @@ u :> m
=============================================================================
