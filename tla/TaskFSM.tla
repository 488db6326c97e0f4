------------------------------ MODULE TaskFSM ------------------------------
(***************************************************************************)
(* The task state machine.  The callers discard TransitionTask's error, so *)
(* a move the table does not allow leaves the status as it was.            *)
(***************************************************************************)
TaskStatus == {"pending", "running", "paused", "scaling", "resetting",
               "done", "stopped", "cancelled", "error"}

taskTransitions ==
    [pending   |-> {"running", "cancelled"},
     running   |-> {"paused", "done", "stopped", "error", "scaling",
                    "resetting", "cancelled"},
     paused    |-> {"running", "stopped", "cancelled"},
     scaling   |-> {"running", "error"},
     resetting |-> {"running", "error"},
     done      |-> {},
     stopped   |-> {"running", "cancelled"},
     cancelled |-> {},
     error     |-> {"running", "resetting"}]

TransitionTask(s, target) == IF target \in taskTransitions[s] THEN target ELSE s
============================================================================
