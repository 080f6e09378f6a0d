------------------------------ MODULE NodeLife ------------------------------
(***************************************************************************)
(* What one node's execution promises to the rest of the system: a call    *)
(* that is due is refused or takes the running node to completed, error or *)
(* blocked_human; it returns only then, or raises and leaves the node      *)
(* running for ever; and between two calls only a human moves the node,    *)
(* when it is blocked.  NodeExecution implements it; RunControl builds the *)
(* executions of a tree from it.                                           *)
(***************************************************************************)
EXTENDS Policies

VARIABLES status,   \* the node's status in the repository
          phase     \* a call of execute_node is due, executing, or over

Init == status = "queued" /\ phase = "due"

Refuse == phase = "due" /\ phase' = "over" /\ UNCHANGED status

Start == /\ phase = "due" /\ phase' = "executing"
         /\ status' = "running"

End == /\ phase = "executing" /\ status = "running"
       /\ status' \in {"completed", "error", "blocked_human"}
       /\ UNCHANGED phase

Return == /\ phase = "executing" /\ phase' = "over"
          /\ status \in {"completed", "error", "blocked_human"}
          /\ UNCHANGED status

Raise == /\ phase = "executing" /\ phase' = "over"
         /\ status = "running"
         /\ UNCHANGED status

Retry == /\ phase = "over" /\ phase' = "due"
         /\ status = "blocked_human" /\ status' = "running"

Skip == /\ phase = "over" /\ UNCHANGED phase
        /\ status = "blocked_human" /\ status' = "completed"

Next == Refuse \/ Start \/ End \/ Return \/ Raise \/ Retry \/ Skip

Spec == Init /\ [][Next]_<<status, phase>>
=============================================================================
