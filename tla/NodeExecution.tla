--------------------------- MODULE NodeExecution ---------------------------
(***************************************************************************)
(* One node under RecursiveExecutor.execute_node, in the detail RunControl *)
(* leaves out: the divider's decision, the worker, the merge of the        *)
(* children's outputs, the checker with its failure counter and threshold, *)
(* the retry loops of both scopes, the pause and auto_retry policies, the  *)
(* attempts that are recorded, and the retries and skips of a human.  What *)
(* the LLM services and the children answer is a choice of the             *)
(* environment; outputs are numbered in the order in which one execution   *)
(* produces them, and 0 is no output.                                      *)
(***************************************************************************)
EXTENDS Policies

CONSTANTS
  Threshold,     \* CheckerFailurePolicy.block_after_consecutive_failures
  MaxRetries,    \* bound: the largest max_retries_per_node
  MaxHuman       \* bound: retries by humans

ASSUME ConstantsAssumption ==
  Threshold \in Nat \ {0} /\ MaxRetries \in Nat /\ MaxHuman \in Nat

VARIABLES
  config,     \* checker configuration of the run
  qa,         \* the node's own policy has not switched the checker off
  status,     \* the node's status
  failures,   \* the node's consecutive_checker_failures
  latest,     \* output and verdict of the node's latest attempt record
  output,     \* the node's output in memory
  warned,     \* that output carries a validation_warning
  pc,         \* where execute_node is
  scope,      \* base case ("node") or recursive case ("merge")
  verdict,    \* the local checker_result
  judged,     \* the output checker_result is about
  produced,   \* the local output of the worker or of the merge
  round,      \* retries made by the loop
  returned,   \* the result of the last call, "none" while one is due
  human,      \* retries by humans so far
  inARow      \* failing verdicts since a passing one or a human's decision

nodeVars == <<config, qa, status, failures, latest, output, warned>>
callVars == <<pc, scope, verdict, judged, produced, round, returned>>
vars == <<nodeVars, callVars, human, inARow>>

Config == [enabled    : BOOLEAN,
           node       : BOOLEAN,
           merge      : BOOLEAN,
           onFail     : {"pause", "auto_retry"},
           maxRetries : 0..MaxRetries]

Verdict == {"none", "pass", "fail"}

Init ==
  /\ config \in Config /\ qa \in BOOLEAN
  /\ status = "queued" /\ failures = 0
  /\ latest = [output |-> 0, verdict |-> "none"] /\ output = 0 /\ warned = FALSE
  /\ pc = "idle" /\ scope = "node" /\ verdict = "none" /\ judged = 0 /\ produced = 0
  /\ round = 0 /\ returned = "none"
  /\ human = 0 /\ inARow = 0
-----------------------------------------------------------------------------
\* execute_node begins: it is refused (cancelled or over budget) or the node runs.
Due == pc = "idle" /\ returned = "none"

Refused ==
  /\ Due
  /\ returned' = "failed"
  /\ UNCHANGED <<nodeVars, pc, scope, verdict, judged, produced, round, human, inARow>>

Begin ==
  /\ Due
  /\ status' = "running"
  /\ pc' = "divide"
  /\ verdict' = "none" /\ judged' = 0 /\ produced' = 0 /\ round' = 0
  /\ UNCHANGED <<config, qa, failures, latest, output, warned, scope, returned, human,
                 inARow>>

\* The divider, a child, the merger or the checker raises: so does execute_node.
ServiceRaises ==
  /\ pc \in {"divide", "children", "merge", "check"}
  /\ pc' = "idle" /\ returned' = "raised"
  /\ UNCHANGED <<nodeVars, scope, verdict, judged, produced, round, human, inARow>>

\* A base case that needs no QA has its checker policy switched off for good.
BaseCase ==
  /\ pc = "divide"
  /\ scope' = "node" /\ pc' = "work"
  /\ qa' \in {qa, FALSE}
  /\ UNCHANGED <<config, status, failures, latest, output, warned, verdict, judged,
                 produced, round, returned, human, inARow>>

RecursiveCase ==
  /\ pc = "divide"
  /\ scope' = "merge" /\ pc' = "children"
  /\ UNCHANGED <<nodeVars, verdict, judged, produced, round, returned, human, inARow>>

\* _terminal after _end_node or _mark_blocked_human: the node's last status, the
\* attempt record with output o, the result of the call.
Terminal(s, result, o) ==
  /\ status' = s
  /\ latest' = [output |-> o, verdict |-> verdict]
  /\ returned' = result
  /\ pc' = "return"

WorkerReturns ==
  /\ pc = "work"
  /\ \/ /\ pc' = "check" /\ produced' = 1
        /\ UNCHANGED <<status, latest, returned>>
     \/ /\ Terminal("error", "failed", 0) \/ Terminal("blocked_human", "blocked", 0)
        /\ UNCHANGED produced
  /\ UNCHANGED <<config, qa, failures, output, warned, scope, verdict, judged, round, human,
                 inARow>>

\* All the children have completed, or one is blocked, has failed or waits for
\* a sibling that does not exist.
ChildrenReturn ==
  /\ pc = "children"
  /\ \/ pc' = "merge" /\ UNCHANGED <<status, latest, returned>>
     \/ Terminal("blocked_human", "blocked", 0)
     \/ Terminal("error", "failed", 0)
  /\ UNCHANGED <<config, qa, failures, output, warned, scope, verdict, judged, produced,
                 round, human, inARow>>

MergeChildren ==
  /\ pc = "merge"
  /\ pc' = "check" /\ produced' = round + 1
  /\ UNCHANGED <<nodeVars, scope, verdict, judged, round, returned, human, inARow>>
-----------------------------------------------------------------------------
(* The checker.                                                            *)

ShouldRun == config.enabled /\ qa /\ config[scope]

\* Mutant: one retry too many.
MayRetryOnceMore ==
  /\ round <= config.maxRetries
  /\ IF scope = "node" THEN config.onFail = "auto_retry" ELSE round < 2

\* A failed base case is retried unless the policy is to pause, a failed merge
\* at most twice whatever the policy.
MayRetry ==
  /\ round < config.maxRetries
  /\ IF scope = "node" THEN config.onFail = "auto_retry" ELSE round < 2

CheckSkipped ==
  /\ pc = "check" /\ ~ShouldRun
  /\ pc' = "accept"
  /\ UNCHANGED <<nodeVars, scope, verdict, judged, produced, round, returned, human, inARow>>

CheckPasses ==
  /\ pc = "check" /\ ShouldRun
  /\ pc' = "accept" /\ verdict' = "pass" /\ judged' = produced
  /\ failures' = 0 /\ inARow' = 0
  /\ UNCHANGED <<config, qa, status, latest, output, warned, scope, produced, round,
                 returned, human>>

\* Mutant: the threshold is compared with the count before this failure.
CheckFailsLate ==
  /\ pc = "check" /\ ShouldRun
  /\ verdict' = "fail" /\ judged' = produced
  /\ failures' = failures + 1 /\ inARow' = inARow + 1
  /\ IF ShouldBlock(Threshold, failures)
     THEN pc' = "block" /\ status' = "blocked_human"
     ELSE pc' = (IF MayRetry THEN "retry" ELSE "exhausted") /\ UNCHANGED status
  /\ UNCHANGED <<config, qa, latest, output, warned, scope, produced, round, returned, human>>

\* A failure at the threshold blocks the node at once; another one is retried,
\* or is left to the policy.
CheckFails ==
  /\ pc = "check" /\ ShouldRun
  /\ verdict' = "fail" /\ judged' = produced
  /\ failures' = failures + 1 /\ inARow' = inARow + 1
  /\ IF ShouldBlock(Threshold, failures + 1)
     THEN pc' = "block" /\ status' = "blocked_human"
     ELSE pc' = (IF MayRetry THEN "retry" ELSE "exhausted") /\ UNCHANGED status
  /\ UNCHANGED <<config, qa, latest, output, warned, scope, produced, round, returned, human>>

\* Mutant: the new output is not checked again.
RetryUnchecked ==
  /\ pc = "retry"
  /\ latest' = [output |-> produced, verdict |-> verdict]
  /\ round' = round + 1
  /\ \/ pc' = "accept" /\ produced' = round' + 1
     \/ scope = "node" /\ pc' = "exhausted" /\ produced' = 0
  /\ UNCHANGED <<config, qa, status, failures, output, warned, scope, verdict, judged,
                 returned, human, inARow>>

\* Mutant: every retry starts afresh, with both counters reset.
RetryAfresh ==
  /\ pc = "retry"
  /\ latest' = [output |-> produced, verdict |-> verdict]
  /\ round' = 0 /\ failures' = 0 /\ inARow' = 0
  /\ \/ scope = "merge" /\ pc' = "merge" /\ UNCHANGED produced
     \/ scope = "node" /\ pc' = "check" /\ produced' = 1
     \/ scope = "node" /\ pc' = "exhausted" /\ produced' = 0
  /\ UNCHANGED <<config, qa, status, output, warned, scope, verdict, judged, returned, human>>

\* One round of the loop: the failed attempt is recorded and the work is done
\* again.  A worker that fails ends the loop without an output and with the
\* verdict of the round before.
Retry ==
  /\ pc = "retry"
  /\ latest' = [output |-> produced, verdict |-> verdict]
  /\ round' = round + 1
  /\ \/ scope = "merge" /\ pc' = "merge" /\ UNCHANGED produced
     \/ scope = "node" /\ pc' = "check" /\ produced' = round' + 1
     \/ scope = "node" /\ pc' = "exhausted" /\ produced' = 0
  /\ UNCHANGED <<config, qa, status, failures, output, warned, scope, verdict, judged,
                 returned, human, inARow>>

\* What _handle_checker_outcome records of a blocked node: the output of the
\* first round in the base case, of the last in the recursive case.
Recorded == IF scope = "node" THEN 1 ELSE produced

\* Mutant: _mark_blocked_human does not return early on a blocked node.
BlockedTwice ==
  /\ pc = "block"
  /\ Terminal("error", "blocked", Recorded)
  /\ UNCHANGED <<config, qa, failures, output, warned, scope, verdict, judged, produced,
                 round, human, inARow>>

\* _handle_checker_outcome on a node that the threshold has blocked already.
Blocked ==
  /\ pc = "block"
  /\ Terminal("blocked_human", "blocked", Recorded)
  /\ UNCHANGED <<config, qa, failures, output, warned, scope, verdict, judged, produced,
                 round, human, inARow>>

\* The retries are used up, or there were none: the policy pauses the node for a
\* human or completes it, with a warning in the output of a base case.
Exhausted ==
  /\ pc = "exhausted"
  /\ \/ /\ config.onFail = "pause"
        /\ Terminal("blocked_human", "blocked", Recorded)
        /\ UNCHANGED <<output, warned>>
     \/ /\ config.onFail = "auto_retry"
        /\ Terminal("completed", "completed", produced)
        /\ output' = produced /\ warned' = (scope = "node")
  /\ UNCHANGED <<config, qa, failures, scope, verdict, judged, produced, round, human, inARow>>

Accepted ==
  /\ pc = "accept"
  /\ Terminal("completed", "completed", produced)
  /\ output' = produced
  /\ UNCHANGED <<config, qa, failures, warned, scope, verdict, judged, produced, round, human,
                 inARow>>

\* _persist_usage: the budget may turn the result into a failure.
Return ==
  /\ pc = "return"
  /\ pc' = "idle"
  /\ returned' \in {returned, "failed"}
  /\ UNCHANGED <<nodeVars, scope, verdict, judged, produced, round, human, inARow>>
-----------------------------------------------------------------------------
\* apply_intervention on a blocked node nobody works on.
HumanRetry ==
  /\ pc = "idle" /\ status = "blocked_human" /\ human < MaxHuman
  /\ status' = "running" /\ returned' = "none"
  /\ human' = human + 1 /\ inARow' = 0
  /\ UNCHANGED <<config, qa, failures, latest, output, warned, pc, scope, verdict, judged,
                 produced, round>>

HumanSkip ==
  /\ pc = "idle" /\ status = "blocked_human"
  /\ status' = "completed"
  /\ inARow' = 0
  /\ UNCHANGED <<config, qa, failures, latest, output, warned, callVars, human>>

ExecuteNode ==
  \/ Begin \/ BaseCase \/ RecursiveCase \/ WorkerReturns \/ ChildrenReturn \/ MergeChildren
  \/ CheckSkipped \/ CheckPasses \/ CheckFails \/ Retry \/ Blocked \/ Exhausted \/ Accepted
  \/ Return

Next == ExecuteNode \/ Refused \/ ServiceRaises \/ HumanRetry \/ HumanSkip

Spec == Init /\ [][Next]_vars
\* The worker thread goes on, and every service it calls answers or raises.
FairSpec == Spec /\ WF_vars(ExecuteNode)
-----------------------------------------------------------------------------
\* The variables keep their types; in particular no execution retries more often
\* than its node's max_retries_per_node.
TypeOK ==
  /\ config \in Config /\ qa \in BOOLEAN /\ status \in NodeStatus /\ failures \in Nat
  /\ latest \in [output : 0..MaxRetries + 1, verdict : Verdict]
  /\ output \in 0..MaxRetries + 1 /\ warned \in BOOLEAN
  /\ pc \in {"idle", "divide", "work", "children", "merge", "check", "retry", "block",
             "exhausted", "accept", "return"}
  /\ scope \in {"node", "merge"} /\ verdict \in Verdict
  /\ judged \in 0..MaxRetries + 1 /\ produced \in 0..MaxRetries + 1
  /\ round \in 0..config.maxRetries
  /\ returned \in {"none", "failed", "raised", "blocked", "completed"}
  /\ human \in Nat /\ inARow \in Nat

\* Checks never fail more often than the threshold in a row without a human: the
\* failure that reaches it has blocked the node (README.md, "3 consecutive fails"),
\* across retry rounds, scopes and executions.
HumanAfterThreshold ==
  /\ inARow <= Threshold
  /\ inARow = Threshold => status = "blocked_human"

\* When the executor has completed a node whose checker should run, the output it
\* keeps is the one of the latest attempt, which is what get_run reports, and that
\* attempt's verdict is about this output and passes it; or the policy is
\* auto_retry, the verdict fails it, and the output of a base case says so.
CompletedIsVouched ==
  status = "completed" /\ (output > 0 \/ warned) /\ ShouldRun =>
    /\ latest.output = output
    /\ \/ latest.verdict = "pass" /\ judged = output
       \/ /\ latest.verdict = "fail" /\ config.onFail = "auto_retry"
          /\ warned \/ (scope = "merge" /\ judged = output)

\* An execution is what NodeLife says: in particular a node that has ended is
\* never moved again by the loops, and a call never returns from a running node.
Life == INSTANCE NodeLife WITH
          phase <- IF pc # "idle" THEN "executing"
                   ELSE IF returned = "none" THEN "due" ELSE "over"
LifeSpec == Life!Spec

\* Every execution ends, whatever the services answer: the retry loops are finite.
ExecutionEnds == pc # "idle" ~> pc = "idle"
-----------------------------------------------------------------------------
(* The inductive invariant.                                                *)

\* The node's status where the call is: only a blocked node or a running one is
\* called, and the executor leaves it with a result.
StatusFollowsCall ==
  /\ Due => status \in {"queued", "running"}
  /\ pc \in {"divide", "work", "children", "merge", "check", "retry", "exhausted", "accept"}
       => status = "running"
  /\ pc = "block" => status = "blocked_human"
  /\ pc = "return" => /\ status \in {"completed", "error", "blocked_human"}
                      /\ returned # "none"

\* The repository's counter covers every failure since the last human decision.
CounterCovers == inARow <= failures

\* What the local variables say about each other inside the check and its loop.
VerdictFollowsCall ==
  /\ pc = "accept" /\ ShouldRun => verdict = "pass" /\ judged = produced
  /\ pc = "retry" => verdict = "fail" /\ round < config.maxRetries
  /\ pc = "exhausted" => /\ verdict = "fail"
                         /\ scope = "merge" => judged = produced
  /\ status # "completed" => output = 0 /\ ~warned

IInv == /\ TypeOK /\ HumanAfterThreshold /\ CompletedIsVouched
        /\ StatusFollowsCall /\ CounterCovers /\ VerdictFollowsCall
=============================================================================
