---------------------------- MODULE UsageCharging ----------------------------
(***************************************************************************)
(* Token usage.  One UsageTrackingClient (adapters/llm_client.py) counts   *)
(* the tokens of all services; every worker thread of the pool, each with  *)
(* the tree of another run, charges what it finds there to its own run at  *)
(* the end of each node (_persist_usage of services/executor.py) and sets  *)
(* the count back.  The count is read, charged and set back in steps, and  *)
(* the event between the charge and the reset may raise; an addition to    *)
(* the count is one step (no call comes between its load and its store).   *)
(***************************************************************************)
EXTENDS Naturals, FiniteSets, Functions

CONSTANTS
  Workers,    \* threads of the pool
  Runs,
  Budgeted,   \* runs with on_exhausted = "fail"
  MaxTokens,  \* their max_total_tokens
  MaxDepth,   \* depth of a tree
  MaxCalls,   \* bound: model calls of all threads, of one token each
  MaxAgain,   \* bound: tokens charged again after an event that raised; none with
              \* the repository in memory, whose events do not raise
  None

ASSUME ConstantsAssumption ==
  /\ Budgeted \subseteq Runs /\ None \notin Runs /\ IsFiniteSet(Runs) /\ IsFiniteSet(Workers)
  /\ MaxTokens \in Nat \ {0} /\ MaxDepth \in Nat \ {0} /\ MaxCalls \in Nat
  /\ MaxAgain \in Nat

VARIABLES
  total,    \* the tracker's total_tokens
  charged,  \* tokens_used of each run in the repository
  used,     \* history: tokens of the model calls made for each run
  pc,       \* each thread: its run, how deep in the tree it is, and where
  again,    \* history: tokens charged by flushes that have not got to the reset
  raced     \* history: threads have met between the reading and the reset

vars == <<total, charged, used, pc, again, raced>>

Idle == [run |-> None, depth |-> 0, at |-> "idle", held |-> 0]

Init ==
  /\ total = 0
  /\ charged = [r \in Runs |-> 0] /\ used = [r \in Runs |-> 0]
  /\ pc = [t \in Workers |-> Idle]
  /\ again = 0 /\ raced = FALSE

Exhausted(r) == r \in Budgeted /\ charged[r] >= MaxTokens

Tokens(f) == FoldFunction(+, 0, f)

Made == Tokens(used)

\* Another thread has read the count and not yet set it back.
Flushing(t) == \E u \in Workers \ {t} : pc[u].at \in {"charge", "emit", "reset"}

Goto(t, at) == pc' = [pc EXCEPT ![t].at = at]
-----------------------------------------------------------------------------
\* A job begins with the root, or with the node a human retries; execute_node
\* refuses it over the budget.
StartJob(t) ==
  /\ pc[t].at = "idle"
  /\ \E r \in Runs \ {pc[u].run : u \in Workers} :
       /\ ~Exhausted(r)
       /\ pc' = [pc EXCEPT ![t] = [run |-> r, depth |-> 1, at |-> "work", held |-> 0]]
  /\ UNCHANGED <<total, charged, used, again, raced>>

\* generate_json of the tracker: the divider, the worker, the merger, the checker.
CallModel(t) ==
  LET r == pc[t].run
  IN /\ pc[t].at = "work" /\ Made < MaxCalls
     /\ total' = total + 1
     /\ used' = [used EXCEPT ![r] = @ + 1]
     /\ raced' = (raced \/ Flushing(t))
     /\ UNCHANGED <<charged, pc, again>>

\* A child is executed, or refused over the budget, and then its parent fails.
Descend(t) ==
  /\ pc[t].at = "work" /\ pc[t].depth < MaxDepth
  /\ pc' = IF Exhausted(pc[t].run) THEN [pc EXCEPT ![t].at = "flush"]
           ELSE [pc EXCEPT ![t].depth = @ + 1]
  /\ UNCHANGED <<total, charged, used, again, raced>>

Finish(t) ==
  /\ pc[t].at = "work"
  /\ Goto(t, "flush")
  /\ UNCHANGED <<total, charged, used, again, raced>>

\* A service raises, or the event of a node that fails over the budget: no node on
\* the stack gets to its _persist_usage.
Raise(t) ==
  /\ pc[t].at = "work" \/ (MaxAgain > 0 /\ pc[t].at = "budget" /\ Exhausted(pc[t].run))
  /\ pc' = [pc EXCEPT ![t] = Idle]
  /\ UNCHANGED <<total, charged, used, again, raced>>
-----------------------------------------------------------------------------
(* _persist_usage.                                                         *)

ReadTracker(t) ==
  /\ pc[t].at = "flush"
  /\ pc' = [pc EXCEPT ![t].held = total, ![t].at = IF total > 0 THEN "charge" ELSE "budget"]
  /\ raced' = (raced \/ (total > 0 /\ Flushing(t)))
  /\ UNCHANGED <<total, charged, used, again>>

\* increment_run_tokens ...
Charge(t) ==
  /\ pc[t].at = "charge"
  /\ charged' = [charged EXCEPT ![pc[t].run] = @ + pc[t].held]
  /\ Goto(t, "emit")
  /\ UNCHANGED <<total, used, again, raced>>

\* ... the event ...
Emit(t) ==
  /\ pc[t].at = "emit"
  /\ Goto(t, "reset")
  /\ UNCHANGED <<total, charged, used, again, raced>>

\* ... which the database refuses inside another thread's transaction: the job ends
\* with its tokens charged and still counted ...
EmitRaises(t) ==
  /\ pc[t].at = "emit" /\ again < MaxAgain
  /\ again' = again + pc[t].held
  /\ pc' = [pc EXCEPT ![t] = Idle]
  /\ UNCHANGED <<total, charged, used, raced>>

\* Mutant: the count is not set back.
KeepTracker(t) ==
  /\ pc[t].at = "reset"
  /\ pc' = [pc EXCEPT ![t].held = 0, ![t].at = "budget"]
  /\ UNCHANGED <<total, charged, used, again, raced>>

\* ... and the count.
ResetTracker(t) ==
  /\ pc[t].at = "reset"
  /\ total' = 0
  /\ pc' = [pc EXCEPT ![t].held = 0, ![t].at = "budget"]
  /\ UNCHANGED <<charged, used, again, raced>>

Returned(p, at) == IF p.depth = 1 THEN Idle ELSE [p EXCEPT !.depth = @ - 1, !.at = at]

\* Mutant: a parent goes on when the budget is used up.
ReturnUnchecked(t) ==
  /\ pc[t].at = "budget"
  /\ pc' = [pc EXCEPT ![t] = Returned(pc[t], "work")]
  /\ UNCHANGED <<total, charged, used, again, raced>>

\* The node fails if the budget is used up, and its parent with it.
Return(t) ==
  /\ pc[t].at = "budget"
  /\ pc' = [pc EXCEPT ![t] = Returned(pc[t], IF Exhausted(pc[t].run) THEN "flush" ELSE "work")]
  /\ UNCHANGED <<total, charged, used, again, raced>>
-----------------------------------------------------------------------------
Next ==
  \E t \in Workers :
    \/ StartJob(t) \/ CallModel(t) \/ Descend(t) \/ Finish(t) \/ Raise(t)
    \/ ReadTracker(t) \/ Charge(t) \/ Emit(t) \/ EmitRaises(t) \/ ResetTracker(t)
    \/ Return(t)

Spec == Init /\ [][Next]_vars
-----------------------------------------------------------------------------
(* Properties.                                                             *)

\* Every token is charged to exactly one run or still counted, and charged once more
\* exactly when the event of a flush has raised after the charge; unless a thread has
\* called a model, or flushed, between the reading of the count and its reset by
\* another (_persist_usage, executor.py:182-197).
TokensConserved ==
  ~raced =>
    Tokens(charged) + total
      = Made + again
        + Tokens([t \in Workers |-> IF pc[t].at \in {"emit", "reset"} THEN pc[t].held ELSE 0])

\* Once a run has been charged its budget no model is called for it any more, by
\* no node of the tree and by no later job (the checks at both ends of execute_node).
BudgetStops ==
  [][\A r \in Runs : Exhausted(r) => used'[r] = used[r]]_vars
=============================================================================
