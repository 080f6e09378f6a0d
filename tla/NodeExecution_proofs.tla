------------------------ MODULE NodeExecution_proofs ------------------------
(***************************************************************************)
(* Proofs about NodeExecution, for every threshold, every retry limit and  *)
(* every number of human retries: the inductive invariant IInv, the safety *)
(* properties it contains, and the refinement of NodeLife.                 *)
(***************************************************************************)
EXTENDS NodeExecution, TLAPS

\* The retry limit of a configuration is a number up to the bound.
LEMMA RetriesType ==
  ASSUME config \in Config
  PROVE  config.maxRetries \in Nat /\ config.maxRetries <= MaxRetries
BY ConstantsAssumption DEF Config

\* The invariant holds before the first call.
LEMMA InitIInv == Init => IInv
<1> SUFFICES ASSUME Init PROVE IInv
  OBVIOUS
<1> USE ConstantsAssumption DEF Init
<1>1. TypeOK
  <2>1. round \in 0..config.maxRetries
    BY RetriesType
  <2>2. /\ status \in NodeStatus
        /\ latest \in [output : 0..MaxRetries + 1, verdict : Verdict]
    BY DEF NodeStatus, Verdict
  <2>3. qa \in BOOLEAN /\ warned \in BOOLEAN
    BY Zenon
  <2> QED
    BY <2>1, <2>2, <2>3 DEF TypeOK, Verdict
<1>2. HumanAfterThreshold /\ CompletedIsVouched /\ CounterCovers
  BY DEF HumanAfterThreshold, CompletedIsVouched, CounterCovers
<1>3. StatusFollowsCall /\ VerdictFollowsCall
  BY DEF StatusFollowsCall, VerdictFollowsCall, Due
<1> QED
  BY <1>1, <1>2, <1>3 DEF IInv

\* Every step keeps the types; the bound of a retry is the guard of the loop.
LEMMA StepType ==
  ASSUME IInv, Next PROVE TypeOK'
<1> USE ConstantsAssumption, RetriesType DEF IInv, TypeOK, Verdict, nodeVars, callVars
<1>1. CASE Begin \/ BaseCase \/ RecursiveCase \/ MergeChildren \/ Refused \/ ServiceRaises
  <2>1. CASE Begin BY <2>1 DEF Begin, NodeStatus
  <2>2. CASE BaseCase
    <3>1. qa' \in BOOLEAN BY <2>2, Zenon DEF BaseCase
    <3> QED BY <2>2, <3>1 DEF BaseCase
  <2>3. CASE RecursiveCase BY <2>3 DEF RecursiveCase
  <2>4. CASE MergeChildren BY <2>4 DEF MergeChildren
  <2>5. CASE Refused BY <2>5 DEF Refused
  <2>6. CASE ServiceRaises BY <2>6 DEF ServiceRaises
  <2> QED BY <1>1, <2>1, <2>2, <2>3, <2>4, <2>5, <2>6
<1>2. CASE WorkerReturns
  BY <1>2 DEF WorkerReturns, Terminal, NodeStatus
<1>3. CASE ChildrenReturn
  BY <1>3 DEF ChildrenReturn, Terminal, NodeStatus
<1>4. CASE CheckSkipped
  BY <1>4 DEF CheckSkipped
<1>5. CASE CheckPasses
  BY <1>5 DEF CheckPasses
<1>6. CASE CheckFails
  BY <1>6 DEF CheckFails, NodeStatus
<1>7. CASE Retry
  <2>1. round + 1 \in 0..config.maxRetries /\ config.maxRetries <= MaxRetries
    BY <1>7 DEF Retry, VerdictFollowsCall
  <2> QED
    BY <1>7, <2>1 DEF Retry
<1>8. CASE Blocked
  BY <1>8 DEF Blocked, Terminal, Recorded, NodeStatus
<1>9. CASE Exhausted
  <2>1. warned' \in BOOLEAN BY <1>9, Zenon DEF Exhausted
  <2> QED BY <1>9, <2>1 DEF Exhausted, Terminal, Recorded, NodeStatus
<1>10. CASE Accepted
  BY <1>10 DEF Accepted, Terminal, NodeStatus
<1>11. CASE Return
  BY <1>11 DEF Return
<1>12. CASE HumanRetry
  BY <1>12 DEF HumanRetry, NodeStatus
<1>13. CASE HumanSkip
  BY <1>13 DEF HumanSkip, NodeStatus
<1> QED
  BY <1>1, <1>2, <1>3, <1>4, <1>5, <1>6, <1>7, <1>8, <1>9, <1>10, <1>11, <1>12, <1>13
  DEF Next, ExecuteNode

\* The failure that reaches the threshold blocks the node: the repository's counter
\* is never behind the failures since the last human decision.
LEMMA StepCounters ==
  ASSUME IInv, Next PROVE HumanAfterThreshold' /\ CounterCovers'
<1> USE ConstantsAssumption DEF IInv, TypeOK, HumanAfterThreshold, CounterCovers,
        StatusFollowsCall
<1>1. CASE CheckFails
  BY <1>1 DEF CheckFails, ShouldBlock
<1>2. CASE CheckPasses
  BY <1>2 DEF CheckPasses
<1>3. CASE HumanRetry \/ HumanSkip
  BY <1>3 DEF HumanRetry, HumanSkip
<1>4. CASE Begin
  BY <1>4 DEF Begin
<1>5. CASE WorkerReturns \/ ChildrenReturn \/ Exhausted \/ Accepted \/ Blocked
  BY <1>5 DEF WorkerReturns, ChildrenReturn, Exhausted, Accepted, Blocked, Terminal
<1>6. CASE \/ BaseCase \/ RecursiveCase \/ MergeChildren \/ CheckSkipped \/ Retry \/ Return
           \/ Refused \/ ServiceRaises
  BY <1>6 DEF BaseCase, RecursiveCase, MergeChildren, CheckSkipped, Retry, Return, Refused,
              ServiceRaises, nodeVars
<1> QED
  BY <1>1, <1>2, <1>3, <1>4, <1>5, <1>6 DEF Next, ExecuteNode

\* Only _terminal, the threshold and a human move a node that has begun.
LEMMA StepStatus ==
  ASSUME IInv, Next PROVE StatusFollowsCall'
<1> USE DEF IInv, StatusFollowsCall, Due
<1>1. CASE Begin \/ BaseCase \/ RecursiveCase \/ MergeChildren
  BY <1>1 DEF Begin, BaseCase, RecursiveCase, MergeChildren, nodeVars
<1>2. CASE Refused \/ ServiceRaises
  BY <1>2 DEF Refused, ServiceRaises, nodeVars
<1>3. CASE WorkerReturns \/ ChildrenReturn
  BY <1>3 DEF WorkerReturns, ChildrenReturn, Terminal
<1>4. CASE CheckSkipped \/ CheckPasses \/ CheckFails
  BY <1>4 DEF CheckSkipped, CheckPasses, CheckFails, nodeVars
<1>5. CASE Retry
  BY <1>5 DEF Retry
<1>6. CASE Blocked \/ Exhausted \/ Accepted
  BY <1>6 DEF Blocked, Exhausted, Accepted, Terminal
<1>7. CASE Return
  BY <1>7 DEF Return, nodeVars
<1>8. CASE HumanRetry \/ HumanSkip
  BY <1>8 DEF HumanRetry, HumanSkip, callVars
<1> QED
  BY <1>1, <1>2, <1>3, <1>4, <1>5, <1>6, <1>7, <1>8 DEF Next, ExecuteNode

\* The checked output is the one the loop leaves with.
LEMMA StepVerdict ==
  ASSUME IInv, Next PROVE VerdictFollowsCall'
<1> USE DEF IInv, StatusFollowsCall, VerdictFollowsCall, ShouldRun
<1>1. CASE Begin \/ BaseCase \/ RecursiveCase \/ MergeChildren
  <2>1. pc' \notin {"accept", "retry", "exhausted"}
    BY <1>1 DEF Begin, BaseCase, RecursiveCase, MergeChildren
  <2>2. status # "completed" /\ output' = output /\ warned' = warned
    BY <1>1 DEF Begin, BaseCase, RecursiveCase, MergeChildren, nodeVars, Due
  <2> QED
    BY <2>1, <2>2
<1>2. CASE Refused \/ ServiceRaises \/ Return
  BY <1>2 DEF Refused, ServiceRaises, Return, Due, nodeVars
<1>3. CASE WorkerReturns \/ ChildrenReturn
  BY <1>3 DEF WorkerReturns, ChildrenReturn, Terminal
<1>4. CASE CheckSkipped \/ CheckPasses
  BY <1>4 DEF CheckSkipped, CheckPasses, nodeVars
<1>5. CASE CheckFails
  BY <1>5 DEF CheckFails, MayRetry
<1>6. CASE Retry
  BY <1>6 DEF Retry
<1>7. CASE Blocked \/ Exhausted \/ Accepted
  BY <1>7 DEF Blocked, Exhausted, Accepted, Terminal
<1>8. CASE HumanRetry \/ HumanSkip
  BY <1>8 DEF HumanRetry, HumanSkip, callVars
<1> QED
  BY <1>1, <1>2, <1>3, <1>4, <1>5, <1>6, <1>7, <1>8 DEF Next, ExecuteNode

\* The two ways to complete a node are an accepted output and an exhausted loop.
LEMMA StepVouched ==
  ASSUME IInv, Next PROVE CompletedIsVouched'
<1> USE DEF IInv, StatusFollowsCall, VerdictFollowsCall, CompletedIsVouched, ShouldRun
<1>1. CASE Accepted
  <2>1. ShouldRun' => verdict = "pass" /\ judged = produced
    BY <1>1 DEF Accepted
  <2> QED
    BY <1>1, <2>1 DEF Accepted, Terminal
<1>2. CASE Exhausted
  <2>1. CASE config.onFail = "pause" /\ status' = "blocked_human"
    BY <2>1
  <2>2. CASE config.onFail = "auto_retry" /\ output' = produced /\ warned' = (scope = "node")
    <3>1. config' = config /\ scope' = scope /\ judged' = judged /\ verdict = "fail"
          /\ latest'.output = output' /\ latest'.verdict = "fail"
      BY <1>2, <2>2 DEF Exhausted, Terminal
    <3>2. CASE scope = "node"
      <4>1. warned' BY <2>2, <3>2
      <4> QED BY <2>2, <3>1, <4>1
    <3>3. CASE scope = "merge"
      <4>1. judged' = output' BY <1>2, <2>2, <3>1, <3>3 DEF Exhausted
      <4> QED BY <2>2, <3>1, <3>3, <4>1
    <3> QED BY <3>2, <3>3 DEF TypeOK
  <2> QED BY <1>2, <2>1, <2>2 DEF Exhausted, Terminal
<1>3. CASE HumanSkip
  BY <1>3, ConstantsAssumption DEF HumanSkip, callVars, TypeOK
<1>4. CASE HumanRetry \/ Begin
  BY <1>4 DEF HumanRetry, Begin
<1>5. CASE Refused \/ ServiceRaises \/ Return
  BY <1>5 DEF Refused, ServiceRaises, Return, nodeVars
<1>6. CASE WorkerReturns \/ ChildrenReturn \/ Blocked
  BY <1>6 DEF WorkerReturns, ChildrenReturn, Blocked, Terminal
<1>7. CASE BaseCase \/ RecursiveCase \/ MergeChildren \/ CheckSkipped \/ CheckPasses
           \/ CheckFails \/ Retry
  BY <1>7 DEF BaseCase, RecursiveCase, MergeChildren, CheckSkipped, CheckPasses, CheckFails,
              Retry, nodeVars
<1> QED
  BY <1>1, <1>2, <1>3, <1>4, <1>5, <1>6, <1>7 DEF Next, ExecuteNode

\* The invariant is inductive.
LEMMA StepIInv == IInv /\ [Next]_vars => IInv'
<1> SUFFICES ASSUME IInv, [Next]_vars PROVE IInv'
  OBVIOUS
<1>1. CASE Next
  BY <1>1, StepType, StepCounters, StepStatus, StepVerdict, StepVouched DEF IInv
<1>2. CASE UNCHANGED vars
  BY <1>2 DEF vars, nodeVars, callVars, IInv, TypeOK, HumanAfterThreshold, CompletedIsVouched,
              StatusFollowsCall, CounterCovers, VerdictFollowsCall, ShouldRun, Due
<1> QED
  BY <1>1, <1>2

\* IInv holds in every reachable state.
THEOREM NodeInvariant == Spec => []IInv
<1> QED
  BY InitIInv, StepIInv, PTL DEF Spec

\* The types, with every attempt counter within its configured limit: round within
\* the retries of the configuration, the failures within the threshold (TypeOK).
THEOREM TypeCorrect == Spec => []TypeOK
<1>1. IInv => TypeOK
  BY DEF IInv
<1> QED
  BY <1>1, NodeInvariant, PTL

\* No node collects failing verdicts beyond the threshold without a human, however
\* its executions, scopes and retry rounds follow each other.
THEOREM NoFailureBeyondThreshold == Spec => []HumanAfterThreshold
<1>1. IInv => HumanAfterThreshold
  BY DEF IInv
<1> QED
  BY <1>1, NodeInvariant, PTL

\* A node the executor completes keeps the output its last verdict vouches for, or
\* one the auto_retry policy lets through.
THEOREM CompletedOutputIsVouched == Spec => []CompletedIsVouched
<1>1. IInv => CompletedIsVouched
  BY DEF IInv
<1> QED
  BY <1>1, NodeInvariant, PTL
-----------------------------------------------------------------------------
(* The refinement of NodeLife, step by step.                               *)

\* A node that is queued has its first call due.
LEMMA LifeInit == Init => Life!Init
BY DEF Init, Life!Init

\* Every step of the detailed module is a step of NodeLife or changes nothing it sees.
LEMMA LifeStep ==
  ASSUME IInv, Next
  PROVE  [Life!Next]_<<status, IF pc # "idle" THEN "executing"
                               ELSE IF returned = "none" THEN "due" ELSE "over">>
<1> USE DEF IInv, StatusFollowsCall, Due
<1>1. CASE Refused
  BY <1>1 DEF Refused, nodeVars, Life!Next, Life!Refuse
<1>2. CASE Begin
  BY <1>2 DEF Begin, Life!Next, Life!Start
<1>3. CASE ServiceRaises
  BY <1>3 DEF ServiceRaises, nodeVars, Life!Next, Life!Raise
<1>4. CASE WorkerReturns
  BY <1>4 DEF WorkerReturns, Terminal, Life!Next, Life!End
<1>5. CASE ChildrenReturn
  BY <1>5 DEF ChildrenReturn, Terminal, Life!Next, Life!End
<1>6. CASE CheckFails
  BY <1>6 DEF CheckFails, Life!Next, Life!End
<1>7. CASE Blocked
  BY <1>7 DEF Blocked, Terminal
<1>8. CASE Exhausted \/ Accepted
  BY <1>8 DEF Exhausted, Accepted, Terminal, Life!Next, Life!End
<1>9. CASE Return
  BY <1>9 DEF Return, nodeVars, Life!Next, Life!Return
<1>10. CASE HumanRetry
  BY <1>10 DEF HumanRetry, Life!Next, Life!Retry
<1>11. CASE HumanSkip
  BY <1>11 DEF HumanSkip, callVars, Life!Next, Life!Skip
<1>12. CASE BaseCase \/ RecursiveCase \/ MergeChildren \/ CheckSkipped \/ CheckPasses \/ Retry
  BY <1>12 DEF BaseCase, RecursiveCase, MergeChildren, CheckSkipped, CheckPasses, Retry,
               nodeVars
<1> QED
  BY <1>1, <1>2, <1>3, <1>4, <1>5, <1>6, <1>7, <1>8, <1>9, <1>10, <1>11, <1>12
  DEF Next, ExecuteNode

\* Every execution is one of NodeLife: the loops, the checker and the human between
\* them only ever take the node along the transitions the rest of the system sees.
THEOREM ImplementsNodeLife == Spec => LifeSpec
<1>1. IInv /\ [Next]_vars
      => [Life!Next]_<<status, IF pc # "idle" THEN "executing"
                               ELSE IF returned = "none" THEN "due" ELSE "over">>
  <2> SUFFICES ASSUME IInv, [Next]_vars
               PROVE [Life!Next]_<<status, IF pc # "idle" THEN "executing"
                                   ELSE IF returned = "none" THEN "due" ELSE "over">>
    OBVIOUS
  <2>1. CASE Next
    BY <2>1, LifeStep
  <2>2. CASE UNCHANGED vars
    BY <2>2 DEF vars, nodeVars, callVars
  <2> QED
    BY <2>1, <2>2
<1> QED
  BY <1>1, LifeInit, NodeInvariant, PTL DEF Spec, LifeSpec, Life!Spec
=============================================================================
