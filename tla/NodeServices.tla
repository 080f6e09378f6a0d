---------------------------- MODULE NodeServices -----------------------------
(***************************************************************************)
(* The services as execute_node calls them one after the other             *)
(* (services/executor.py): the divider decides; a base case is worked on   *)
(* by its personas, a recursive case's children are executed and their     *)
(* outputs merged; the result is checked, and after a failing verdict the  *)
(* work or the merge is done again, possibly after another decomposition.  *)
(* What the verdicts do to the node is in NodeExecution; here the services *)
(* are seen from inside.  A service's record is cleared when its answer    *)
(* has been used.                                                          *)
(***************************************************************************)
EXTENDS SchemaRetries, PersonaChain, ChildScheduling, ExecutionCheck

CONSTANT MaxRounds  \* bound: rounds of _checker_retry_loop

ASSUME RoundsAssumption == MaxRounds \in Nat

VARIABLES
  phase,   \* the service that is called
  scope,   \* base case ("node") or recursive case ("merge")
  rounds   \* rounds of the retry loop so far

vars == <<phase, scope, rounds, call, work, sched, chk>>

Init ==
  /\ phase = "start" /\ scope = "node" /\ rounds = 0
  /\ call = NoCall /\ work = NoWork /\ sched = NoChildren /\ chk = NoCheck

Over == phase' = "over"

\* The node's own persona, when there is no chain and in every retry.
Own == {<<"own">>}

\* At the depth limit the base case is forced, else the divider is asked for one
\* candidate or, if the objective is complex, for several.
Start ==
  /\ phase = "start"
  /\ \/ phase' = "work" /\ BeginWork(Chains) /\ UNCHANGED call
     \/ /\ phase' = "divide" /\ UNCHANGED work
        /\ \E n \in Candidates \cup {1} : Ask(n)
  /\ UNCHANGED <<scope, rounds, sched, chk>>

Divided ==
  /\ phase = "divide" /\ ~Asking /\ rounds = 0
  /\ call' = NoCall
  /\ \/ /\ call.outcome = "decided"
        /\ phase' = "work" /\ BeginWork(Chains)
     \/ /\ phase' = IF call.outcome = "decided" THEN "recursive" ELSE "over"
        /\ UNCHANGED work
  /\ UNCHANGED <<scope, rounds, sched, chk>>

RecursiveCase ==
  /\ phase = "recursive"
  /\ phase' = "children" /\ scope' = "merge" /\ CreateChildNodes
  /\ UNCHANGED <<rounds, call, work, chk>>

\* In the retry loop an error of the divider is logged, and a recursive case ignored.
DividedAgain ==
  /\ phase = "divide" /\ ~Asking /\ rounds > 0
  /\ call' = NoCall
  /\ phase' = "work" /\ BeginWork(Own)
  /\ UNCHANGED <<scope, rounds, sched, chk>>

\* The checker may be switched off.
CheckNext(codes) == \/ phase' = "check" /\ BeginCheck(codes)
                    \/ Over /\ UNCHANGED chk

Worked ==
  /\ phase = "work" /\ ~Working
  /\ work' = NoWork
  /\ IF work.result = "completed" THEN CheckNext(Codes) ELSE Over /\ UNCHANGED chk
  /\ UNCHANGED <<scope, rounds, call, sched>>

\* _merge_children asks the merger only about two outputs and more.
MergeNext ==
  IF Cardinality(sched.done) >= 2
  THEN phase' = "merge" /\ Ask(1) /\ UNCHANGED chk
  ELSE CheckNext({"none"}) /\ UNCHANGED call

Scheduled ==
  /\ phase = "children" /\ ~Scheduling
  /\ IF sched.result = "all" THEN MergeNext ELSE Over /\ UNCHANGED <<call, chk>>
  /\ UNCHANGED <<scope, rounds, work, sched>>

\* A merged output has no code in it.
Merged ==
  /\ phase = "merge" /\ ~Asking
  /\ call' = NoCall
  /\ IF call.outcome = "decided" THEN CheckNext({"none"}) ELSE Over /\ UNCHANGED chk
  /\ UNCHANGED <<scope, rounds, work, sched>>

Checked ==
  /\ phase = "check" /\ ~Checking
  /\ Over
  /\ UNCHANGED <<scope, rounds, call, work, sched, chk>>

\* A failing verdict that is to be retried: in the base case the worker alone does
\* the work again, or first the divider decides again; in the recursive case the
\* outputs are merged again.
Retry ==
  /\ phase = "check" /\ chk.outcome = "fail" /\ rounds < MaxRounds
  /\ rounds' = rounds + 1
  /\ \/ /\ scope = "node" /\ phase' = "work" /\ BeginWork(Own)
        /\ chk' = NoCheck /\ UNCHANGED call
     \/ /\ scope = "node" /\ phase' = "divide" /\ Ask(1)
        /\ chk' = NoCheck /\ UNCHANGED work
     \/ /\ scope = "merge" /\ MergeNext /\ UNCHANGED work
  /\ UNCHANGED <<scope, sched>>

Step ==
  \/ /\ phase \in {"divide", "merge"} /\ AskStep
     /\ UNCHANGED <<work, sched, chk>>
  \/ phase = "work" /\ WorkStep /\ UNCHANGED <<call, sched, chk>>
  \/ phase = "children" /\ ScheduleStep /\ UNCHANGED <<call, work, chk>>
  \/ phase = "check" /\ CheckStep /\ UNCHANGED <<call, work, sched>>

Services == Step /\ UNCHANGED <<phase, scope, rounds>>

Next == \/ Start \/ Divided \/ RecursiveCase \/ DividedAgain \/ Worked \/ Scheduled
        \/ Merged \/ Checked \/ Retry \/ Services

Spec == Init /\ [][Next]_vars
\* The worker thread goes on, and every call of a model, a sandbox or a child ends:
\* each of them has a time limit.
FairSpec == Spec /\ WF_vars(Next)
-----------------------------------------------------------------------------
\* The variables keep their types; in particular no service is asked more often than
\* its retries allow.
TypeOK ==
  /\ phase \in {"start", "divide", "recursive", "work", "children", "merge", "check", "over"}
  /\ scope \in {"node", "merge"} /\ rounds \in 0..MaxRounds
  /\ call.attempt \in 1..MaxSchemaRetries + 1 /\ call.round \in 1..call.rounds + 1
  /\ call.outcome \in {"none", "decided", "schema error", "raised"}
  /\ work.chain \in Chains \cup Own \cup {<<>>} /\ work.call \in {"first", "heal"}
  /\ work.result \in {"none", "completed", "failed"}
  /\ sched.wave \cup sched.done \cup Range(sched.ran) \subseteq DOMAIN sched.kept
  /\ sched.result \in {"none", "all", "unresolved", "blocked", "failed"}
  /\ chk.attempt \in 1..MaxValidationRetries + 1 /\ chk.runs \in Seq(Run)
  /\ chk.outcome \in {"none", "pass", "fail", "service error", "raised"}

\* Every execution ends, whatever the models, the programs and the children do.
ServicesEnd == <>(phase = "over")
=============================================================================
