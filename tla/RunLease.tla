------------------------------ MODULE RunLease ------------------------------
(***************************************************************************)
(* What the orchestration promises about a run, seen from outside: a run   *)
(* is worked on under a lease (the set _active_runs of api/runs.py), only  *)
(* the holder of the lease settles the run (blocked, completed or failed), *)
(* and may fail it after all when it cannot tell that it is blocked; a     *)
(* human may at any time take a blocked run back to running, and a restart *)
(* drops every lease and fails what was running.                           *)
(* RunControl is shown to implement this specification.                    *)
(***************************************************************************)
EXTENDS Policies

CONSTANT Runs

VARIABLES runStatus,  \* "none" until the run is created
          active      \* the runs under a lease

leaseVars == <<runStatus, active>>

Init == /\ runStatus = [r \in Runs |-> "none"]
        /\ active = {}

Create(r) == /\ runStatus[r] = "none"
             /\ runStatus' = [runStatus EXCEPT ![r] = "queued"]
             /\ UNCHANGED active

Acquire(r) == /\ runStatus[r] # "none"
              /\ r \notin active
              /\ active' = active \union {r}
              /\ UNCHANGED runStatus

\* The holder takes the run to running before it executes any node.
Start(r) == /\ r \in active
            /\ runStatus[r] \in {"queued", "blocked_human"}
            /\ runStatus' = [runStatus EXCEPT ![r] = "running"]
            /\ UNCHANGED active

\* Only the holder settles a run: a running one ...
Settle(r) == /\ r \in active
             /\ runStatus[r] = "running"
             /\ \E s \in {"blocked_human", "completed", "failed"} :
                  runStatus' = [runStatus EXCEPT ![r] = s]
             /\ UNCHANGED active

\* ... and one that it has blocked already, when the event of that raises.
Fail(r) == /\ r \in active
           /\ runStatus[r] = "blocked_human"
           /\ runStatus' = [runStatus EXCEPT ![r] = "failed"]
           /\ UNCHANGED active

Release(r) == /\ r \in active
              /\ active' = active \ {r}
              /\ UNCHANGED runStatus

Unblock(r) == /\ runStatus[r] = "blocked_human"
              /\ runStatus' = [runStatus EXCEPT ![r] = "running"]
              /\ UNCHANGED active

Restart == /\ active' = {}
           /\ runStatus' = [r \in Runs |-> IF runStatus[r] = "running"
                                           THEN "failed" ELSE runStatus[r]]

Next == \/ \E r \in Runs : \/ Create(r) \/ Acquire(r) \/ Start(r) \/ Settle(r)
                           \/ Fail(r) \/ Release(r) \/ Unblock(r)
        \/ Restart

Spec == Init /\ [][Next]_leaseVars
=============================================================================
