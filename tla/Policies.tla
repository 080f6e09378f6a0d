------------------------------ MODULE Policies ------------------------------
(***************************************************************************)
(* The status domains and the transition tables of                         *)
(* backend/app/domain/enums.py and backend/app/domain/policies.py.         *)
(* ensure_run_transition and ensure_node_transition raise                  *)
(* InvalidTransitionError unless the target is in the table; here they are *)
(* predicates, and the actions that call them have one disjunct for each   *)
(* outcome.                                                                *)
(***************************************************************************)

EXTENDS Naturals

RunStatus == {"queued", "running", "blocked_human", "completed", "failed",
              "canceled"}

NodeStatus == {"queued", "running", "waiting_check", "failed_check",
               "blocked_human", "completed", "error"}

RUN_ALLOWED_TRANSITIONS ==
  [queued        |-> {"running", "canceled", "failed"},
   running       |-> {"blocked_human", "completed", "failed", "canceled"},
   blocked_human |-> {"running", "failed", "canceled"},
   completed     |-> {},
   failed        |-> {},
   canceled      |-> {}]

NODE_ALLOWED_TRANSITIONS ==
  [queued        |-> {"running", "error"},
   running       |-> {"waiting_check", "completed", "error"},
   waiting_check |-> {"failed_check", "completed", "error"},
   failed_check  |-> {"running", "blocked_human", "error"},
   blocked_human |-> {"running", "completed", "error"},
   completed     |-> {},
   error         |-> {}]

\* ensure_run_transition returns (TRUE) or raises (FALSE).
RunMay(current, next_status) ==
  next_status \in RUN_ALLOWED_TRANSITIONS[current]

\* ensure_node_transition, likewise.
NodeMay(current, next_status) ==
  next_status \in NODE_ALLOWED_TRANSITIONS[current]

\* CheckerFailurePolicy.should_block with block_after_consecutive_failures.
ShouldBlock(threshold, consecutive_failures) ==
  consecutive_failures >= threshold
=============================================================================
