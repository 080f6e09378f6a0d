-------------------------- MODULE RunControl_proofs --------------------------
(***************************************************************************)
(* RunControl, for any number of runs, clients, nodes, workers, crashes    *)
(* and shutdowns: first who works on a run, then how runs are settled,     *)
(* which is the refinement of RunLease; at last what clients get that      *)
(* intervene on idle runs only.                                            *)
(***************************************************************************)
EXTENDS RunControl, TLAPS, WellFoundedInduction

USE DEF At, Goto, RunOf, Cur, Job, Node, NoNode, EventRaises, Escapes

\* Every step of a job but its last one moves it to another point of its thread
\* and leaves the pool and _active_runs alone.
Moves(j) ==
  /\ pc[j] \in Live
  /\ \E to \in OnThread : pc' = [pc EXCEPT ![j] = to]
  /\ UNCHANGED poolVars

LEMMA StepMoves ==
  ASSUME TypeOK, NEW j \in Job, JobStep(j), ~Discard(j)
  PROVE  Moves(j)
<1> USE DEF Moves, Live, OnThread, Executing, poolVars, TypeOK
<1>1. CASE StartJob(j)
  BY <1>1 DEF StartJob
<1>2. CASE MarkRunRunning(j)
  BY <1>2 DEF MarkRunRunning
<1>3. CASE MarkRunRunningWrite(j)
  BY <1>3 DEF MarkRunRunningWrite
<1>4. CASE EnterRefused(j)
  BY <1>4 DEF EnterRefused
<1>5. CASE Enter(j)
  BY <1>5 DEF Enter
<1>6. CASE EnterRaises(j)
  BY <1>6 DEF EnterRaises
<1>7. CASE ServiceRaises(j)
  BY <1>7 DEF ServiceRaises, InService
<1>8. CASE BaseCaseFails(j)
  BY <1>8 DEF BaseCaseFails, EndsAs
<1>9. CASE BaseCaseCompletes(j)
  BY <1>9 DEF BaseCaseCompletes, EndsAs
<1>10. CASE CheckerBlocks(j)
  BY <1>10 DEF CheckerBlocks, InService
<1>11. CASE Prune(j)
  BY <1>11 DEF Prune
<1>12. CASE Spawn(j) \/ SpawnRaises(j)
  BY <1>12 DEF Spawn, SpawnRaises
<1>13. CASE \E n \in Node : NextChild(j, n)
  BY <1>13 DEF NextChild
<1>14. CASE Unresolved(j) \/ MergeCompletes(j)
  BY <1>14 DEF Unresolved, MergeCompletes, EndsAs
<1>15. CASE MarkBlocked(j)
  BY <1>15 DEF MarkBlocked, BlockedBy, BlockedBefore
<1>16. CASE MarkBlockedRaises(j) \/ MarkBlockedFail(j) \/ MarkBlockedEnd(j)
  BY <1>16 DEF MarkBlockedRaises, MarkBlockedFail, MarkBlockedEnd, BlockedBy,
     BlockedBefore
<1>17. CASE Persist(j)
  BY <1>17 DEF Persist
<1>18. CASE ReturnToParent(j)
  BY <1>18 DEF ReturnToParent
<1>19. CASE ReturnToOrchestrator(j) \/ Aggregate(j)
  BY <1>19 DEF ReturnToOrchestrator, Aggregate
<1>20. CASE Finalize(j) \/ Raised(j) \/ ClearRun(j)
  BY <1>20 DEF Finalize, Raised, ClearRun
<1> QED
  BY <1>1, <1>2, <1>3, <1>4, <1>5, <1>6, <1>7, <1>8, <1>9, <1>10, <1>11, <1>12,
     <1>13, <1>14, <1>15, <1>16, <1>17, <1>18, <1>19, <1>20 DEF JobStep

-----------------------------------------------------------------------------
(* One worker per run.                                                     *)

\* Such a step keeps one live job per run and one claim per live job.
LEMMA MoveKeepsPool ==
  ASSUME TypeOK, JobsInOrder, OneWorkerPerRun, NEW j \in Job, Moves(j)
  PROVE  JobsInOrder' /\ OneWorkerPerRun'
<1> USE DEF TypeOK, Moves, poolVars
<1>1. \A i \in Job : pc'[i] \in Live <=> pc[i] \in Live
  BY DEF Live, OnThread
<1>2. JobsInOrder'
  <2>1. j <= submitted
    BY DEF JobsInOrder, Live, OnThread, Executing
  <2> QED
    BY <2>1 DEF JobsInOrder
<1>3. NoTwoWorkers'
  BY <1>1 DEF OneWorkerPerRun, NoTwoWorkers
<1>4. ClaimIsHeld'
  BY <1>1 DEF OneWorkerPerRun, ClaimIsHeld
<1> QED
  BY <1>2, <1>3, <1>4 DEF OneWorkerPerRun

\* The last step of a job gives up the job and its claim together.
LEMMA DiscardKeepsPool ==
  ASSUME TypeOK, JobsInOrder, OneWorkerPerRun, NEW j \in Job, Discard(j)
  PROVE  JobsInOrder' /\ OneWorkerPerRun'
<1> USE DEF TypeOK, Discard
<1>1. /\ pc[j] \in Live
      /\ \A i \in Job : pc'[i] \in Live <=> pc[i] \in Live /\ i # j
  BY DEF Live, OnThread, Executing
<1>2. JobsInOrder'
  BY DEF JobsInOrder
<1>3. NoTwoWorkers'
  BY <1>1 DEF OneWorkerPerRun, NoTwoWorkers
<1>4. ClaimIsHeld'
  <2>1. \A i \in Job : pc'[i] \in Live => jobs'[i].run \in active'
    BY <1>1 DEF OneWorkerPerRun, NoTwoWorkers, ClaimIsHeld
  <2>2. \A r \in active' : \E i \in Job : pc'[i] \in Live /\ jobs'[i].run = r
    BY <1>1 DEF OneWorkerPerRun, ClaimIsHeld
  <2> QED
    BY <2>1, <2>2 DEF ClaimIsHeld
<1> QED
  BY <1>2, <1>3, <1>4 DEF OneWorkerPerRun

\* A claimed run gets a new job, and it had none.
LEMMA SubmitKeepsPool ==
  ASSUME TypeOK, JobsInOrder, OneWorkerPerRun, ConstantsAssumption,
         NEW r \in Runs, NEW n \in Node, NEW k \in {"start", "resume"},
         r \notin active, active' = active \union {r}, Submit(r, n, k)
  PROVE  /\ JobsInOrder' /\ OneWorkerPerRun'
         /\ submitted' \in 0..MaxJobs
         /\ jobs' \in [Job -> JobRecord]
         /\ pc' \in [Job -> PC]
<1> USE DEF TypeOK, Submit, ConstantsAssumption
<1> DEFINE new == submitted + 1
<1>1. /\ new \in Job
      /\ pc[new] = "none"
      /\ submitted' \in 0..MaxJobs
  BY DEF JobsInOrder
<1>2. jobs' \in [Job -> JobRecord] /\ pc' \in [Job -> PC]
  BY <1>1 DEF JobRecord, PC, Live
<1>3. /\ \A i \in Job : pc'[i] \in Live <=> pc[i] \in Live \/ i = new
      /\ \A i \in Job : i # new => jobs'[i] = jobs[i]
      /\ jobs'[new].run = r
  BY <1>1 DEF Live
<1>4. JobsInOrder'
  BY <1>1 DEF JobsInOrder
<1>5. \A i \in Job : pc[i] \in Live => jobs[i].run # r /\ i # new
  BY <1>1 DEF OneWorkerPerRun, ClaimIsHeld, Live, OnThread, Executing
<1>6. NoTwoWorkers'
  BY <1>1, <1>3, <1>5 DEF OneWorkerPerRun, NoTwoWorkers
<1>7. ClaimIsHeld'
  <2>1. \A i \in Job : pc'[i] \in Live => jobs'[i].run \in active'
    BY <1>1, <1>3 DEF OneWorkerPerRun, ClaimIsHeld
  <2>2. \A q \in active' : \E i \in Job : pc'[i] \in Live /\ jobs'[i].run = q
    BY <1>1, <1>3, <1>5 DEF OneWorkerPerRun, ClaimIsHeld
  <2> QED
    BY <2>1, <2>2 DEF ClaimIsHeld
<1> QED
  BY <1>1, <1>2, <1>4, <1>6, <1>7 DEF OneWorkerPerRun

\* A new process starts with no job and no claim.
LEMMA RebootKeepsPool ==
  ASSUME TypeOK, JobsInOrder, Reboot
  PROVE  JobsInOrder' /\ OneWorkerPerRun'
<1>1. \A j \in Job : pc'[j] \notin Live
  BY DEF Reboot, Live, OnThread, Executing
<1> QED
  BY <1>1 DEF Reboot, JobsInOrder, OneWorkerPerRun, NoTwoWorkers, ClaimIsHeld
-----------------------------------------------------------------------------
(* Types.                                                                  *)

\* The nodes table keeps its type, and a node that has been created stays so.
NodesKept ==
  /\ nodes' \in [Node -> NodeRecord]
  /\ NodesHaveRun'
  /\ \A n \in Node : nodes[n].status # "unused" => nodes'[n].status # "unused"

\* Changing the status of a node keeps what the invariant says about nodes.
LEMMA SetNodeKeeps ==
  ASSUME TypeOK, NodesHaveRun, NEW n, Present(n), NEW s \in NodeStatus, SetNode(n, s)
  PROVE  NodesKept
<1> DEFINE rec == [nodes[n] EXCEPT !.status = s]
<1>a. nodes' = [nodes EXCEPT ![n] = rec] /\ nodes \in [Node -> NodeRecord]
  BY DEF SetNode, TypeOK
<1>b. ASSUME n \in Node PROVE /\ rec \in NodeRecord
                             /\ rec.run = nodes[n].run /\ rec.status # "unused"
                             /\ nodes[n].status # "unused"
  BY <1>a, <1>b DEF NodeRecord, Present, NodeStatus
<1> HIDE DEF rec
<1>1. nodes' \in [Node -> NodeRecord]
  BY <1>a, <1>b
<1>2. ASSUME NEW m \in Node
      PROVE  /\ nodes'[m].run = nodes[m].run
             /\ nodes'[m].status # "unused" <=> nodes[m].status # "unused"
  BY <1>a, <1>b
<1> QED
  BY <1>1, <1>2 DEF NodesKept, NodesHaveRun

\* So does removing nodes ...
LEMMA RemovedKeeps ==
  ASSUME TypeOK, NodesHaveRun, NEW S, nodes' = Removed(S)
  PROVE  NodesKept
  BY DEF TypeOK, Removed, NodeRecord, NodesKept, NodesHaveRun, Present, NodeStatus

\* ... and so does adding one for an existing run.
LEMMA NewNodeKeeps ==
  ASSUME TypeOK, NodesHaveRun, NEW m, NEW r \in Runs, NEW p \in Node \union {NoNode},
         NEW d \in Nat, nodes' = [nodes EXCEPT ![m] = NewNode(r, p, d)]
  PROVE  NodesKept
  BY DEF TypeOK, NewNode, NodeRecord, NodesKept, NodesHaveRun, NodeStatus

\* And so does leaving them alone.
LEMMA UnchangedKeeps ==
  ASSUME TypeOK, NodesHaveRun, UNCHANGED nodes
  PROVE  NodesKept
  BY DEF TypeOK, NodesKept, NodesHaveRun

\* No step of a job forgets the run of a node or brings a node back to unused.
LEMMA StepKeepsNodes ==
  ASSUME IInv, ConstantsAssumption, NEW j \in Job, JobStep(j)
  PROVE  NodesKept /\ born' \in 0..MaxNodes
<1> USE DEF IInv
<1> USE DEF NodeCan
<1>0. "running" \in NodeStatus /\ "error" \in NodeStatus /\ "completed" \in NodeStatus
      /\ "waiting_check" \in NodeStatus /\ "failed_check" \in NodeStatus
      /\ "blocked_human" \in NodeStatus /\ born \in 0..MaxNodes
  BY DEF NodeStatus, TypeOK
<1>1. CASE StartJob(j) \/ MarkRunRunning(j) \/ EnterRefused(j) \/ EnterRaises(j)
           \/ ServiceRaises(j) \/ CheckerBlocks(j) \/ SpawnRaises(j)
           \/ MarkBlockedRaises(j) \/ ReturnToOrchestrator(j) \/ Aggregate(j)
           \/ ClearRun(j) \/ Discard(j)
  BY <1>0, <1>1, UnchangedKeeps DEF StartJob, MarkRunRunning, EnterRefused, EnterRaises,
     ServiceRaises, CheckerBlocks, SpawnRaises, MarkBlockedRaises, ReturnToOrchestrator,
     Aggregate, ClearRun, Discard, storeVars
<1>2. CASE MarkRunRunningWrite(j) \/ Persist(j) \/ Finalize(j) \/ Raised(j)
           \/ (\E n \in Node : NextChild(j, n))
  BY <1>0, <1>2, UnchangedKeeps DEF MarkRunRunningWrite, Persist, Finalize, Raised, NextChild,
     storeVars
<1>3. CASE Enter(j)
  BY <1>0, <1>3, SetNodeKeeps DEF Enter
<1>4. CASE BaseCaseFails(j) \/ BaseCaseCompletes(j) \/ Unresolved(j) \/ MergeCompletes(j)
  BY <1>0, <1>4, SetNodeKeeps, UnchangedKeeps DEF BaseCaseFails, BaseCaseCompletes,
     Unresolved, MergeCompletes, EndsAs
<1>5. CASE Prune(j)
  BY <1>0, <1>5, RemovedKeeps DEF Prune
<1>6. CASE Spawn(j)
  <2>1. RunOf(j) \in Runs /\ Cur(j) \in Node
    BY <1>6 DEF Spawn, OneWorkerPerRun, ClaimIsHeld, JobsHaveNode, Live, OnThread,
       Executing, TypeOK
  <2>2. nodes[Cur(j)].depth + 1 \in Nat
    BY <2>1 DEF TypeOK, NodeRecord
  <2>3. born' \in 0..MaxNodes
    BY <1>0, <1>6 DEF Spawn, ConstantsAssumption
  <2> QED
    BY <1>6, <2>1, <2>2, <2>3, NewNodeKeeps DEF Spawn
<1>7. CASE MarkBlocked(j) \/ MarkBlockedFail(j) \/ MarkBlockedEnd(j)
  BY <1>0, <1>7, SetNodeKeeps, UnchangedKeeps DEF MarkBlocked, MarkBlockedFail, MarkBlockedEnd
<1>8. CASE ReturnToParent(j)
  BY <1>0, <1>8, SetNodeKeeps, UnchangedKeeps DEF ReturnToParent
<1> QED
  BY <1>1, <1>2, <1>3, <1>4, <1>5, <1>6, <1>7, <1>8 DEF JobStep

\* The frame of a job keeps its type and, while the job is on a thread, its node.
FrameKept(j) ==
  /\ frame' \in [Job -> Frame]
  /\ \A i \in Job : i # j => frame'[i] = frame[i]
  /\ frame'[j].cur \in Node \/ pc'[j] \notin OnThread

\* An unchanged frame keeps its type.
LEMMA SameFrame ==
  ASSUME TypeOK, NEW j \in Job, Cur(j) \in Node, UNCHANGED frame
  PROVE  FrameKept(j)
  BY DEF TypeOK, FrameKept

\* So does a frame one record of which is replaced by another.
LEMMA NewFrame ==
  ASSUME TypeOK, NEW j \in Job, NEW f \in Frame, f.cur \in Node,
         frame' = [frame EXCEPT ![j] = f]
  PROVE  FrameKept(j)
  BY DEF TypeOK, FrameKept

\* The fields a step sets keep the type of the record.
LEMMA FrameFields ==
  ASSUME NEW f \in Frame, f.cur \in Node
  PROVE  /\ \A k \in Nat : /\ [f EXCEPT !.left = k] \in Frame
                          /\ [f EXCEPT !.left = k].cur \in Node
         /\ \A x \in Results : /\ [f EXCEPT !.res = x] \in Frame
                              /\ [f EXCEPT !.res = x].cur \in Node
         /\ \A b \in BOOLEAN : /\ [f EXCEPT !.again = b] \in Frame
                              /\ [f EXCEPT !.again = b].cur \in Node
         /\ \A S \in SUBSET Node : /\ [f EXCEPT !.todo = S] \in Frame
                                  /\ [f EXCEPT !.todo = S].cur \in Node
         /\ \A n \in Node : /\ [f EXCEPT !.cur = n] \in Frame
                           /\ [f EXCEPT !.cur = n].cur \in Node
  BY DEF Frame

\* Every step of a job keeps the frames, and its own frame on a node.
LEMMA StepKeepsFrame ==
  ASSUME IInv, NEW j \in Job, JobStep(j)
  PROVE  FrameKept(j)
<1> USE DEF IInv
<1>0. /\ frame[j] \in Frame
      /\ Cur(j) \in Node \/ pc[j] \notin OnThread
      /\ pc[j] \in Live => jobs[j].node \in Node
  BY DEF TypeOK, JobsHaveNode, Live, OnThread, Executing
<1>a. OnThread = {"enter", "work", "spawn", "loop", "blk", "blkFail", "blkEnd",
                  "persist", "pop", "aggregate", "finalize", "mark", "markWrite",
                  "raised", "clear", "discard"}
  BY DEF OnThread, Executing
<1>1. CASE MarkRunRunning(j) \/ MarkRunRunningWrite(j) \/ EnterRaises(j) \/ Enter(j)
           \/ ServiceRaises(j) \/ SpawnRaises(j) \/ MarkBlockedRaises(j)
           \/ MarkBlockedFail(j) \/ Finalize(j) \/ Raised(j) \/ ClearRun(j)
  BY <1>0, <1>a, <1>1, SameFrame DEF MarkRunRunning, MarkRunRunningWrite, EnterRaises,
     Enter, ServiceRaises, InService, SpawnRaises, MarkBlockedRaises, MarkBlockedFail,
     Finalize, Raised, ClearRun
<1>2. CASE StartJob(j)
  <2>1. [NoFrame EXCEPT !.cur = jobs[j].node] \in Frame
    BY <1>0, <1>2 DEF StartJob, Live, NoFrame, Frame, Results
  <2>2. [NoFrame EXCEPT !.cur = jobs[j].node].cur \in Node
    BY <1>0, <1>2 DEF StartJob, Live, NoFrame
  <2> QED
    BY <1>2, <2>1, <2>2, NewFrame DEF StartJob
<1>3. CASE EnterRefused(j)
  BY <1>0, <1>a, <1>3, NewFrame DEF EnterRefused, Frame, Results
<1>4. CASE BaseCaseFails(j) \/ BaseCaseCompletes(j) \/ Unresolved(j) \/ MergeCompletes(j)
  <2>1. SUFFICES ASSUME NEW x \in Results, UNCHANGED frame \/
                        frame' = [frame EXCEPT ![j].res = x, ![j].todo = @ \ ChildrenOf(Cur(j))]
                 PROVE  FrameKept(j)
    BY <1>4 DEF BaseCaseFails, BaseCaseCompletes, Unresolved, MergeCompletes, EndsAs, Results
  <2>2. Cur(j) \in Node
    BY <1>0, <1>a, <1>4 DEF BaseCaseFails, BaseCaseCompletes, Unresolved, MergeCompletes
  <2>3. CASE frame' = [frame EXCEPT ![j].res = x, ![j].todo = @ \ ChildrenOf(Cur(j))]
    BY <1>0, <2>2, <2>3 DEF FrameKept, Frame, TypeOK
  <2> QED
    BY <2>1, <2>2, <2>3, SameFrame
<1>5. CASE CheckerBlocks(j)
  BY <1>0, <1>a, <1>5 DEF CheckerBlocks, InService, FrameKept, Frame, TypeOK
<1>6. CASE Prune(j)
  <2>1. Cur(j) \in Node
    BY <1>0, <1>a, <1>6 DEF Prune
  <2>2. ASSUME NEW k \in KidCounts, frame' = [frame EXCEPT ![j].left = k]
        PROVE  FrameKept(j)
    <3>1. k \in Nat
      BY ConstantsAssumption DEF KidCounts, ConstantsAssumption
    <3> QED
      BY <1>0, <2>1, <2>2, <3>1, NewFrame, FrameFields
  <2> QED
    BY <1>6, <2>1, <2>2, SameFrame DEF Prune
<1>7. CASE Spawn(j)
  <2> DEFINE new == born + 1
             f == [frame[j] EXCEPT !.left = @ - 1]
  <2>1. /\ Cur(j) \in Node
        /\ new \in Node
        /\ frame[j].left - 1 \in Nat
    <3>1. Cur(j) \in Node
      BY <1>0, <1>a, <1>7 DEF Spawn
    <3>2. new \in Node
      BY <1>7, ConstantsAssumption DEF Spawn, ConstantsAssumption, TypeOK
    <3>3. frame[j].left \in Nat /\ frame[j].left > 0
      BY <1>0, <1>7 DEF Spawn, Frame
    <3> QED
      BY <3>1, <3>2, <3>3
  <2>2. f \in Frame /\ f.cur \in Node /\ f.todo = frame[j].todo
    BY <1>0, <2>1, FrameFields DEF Frame
  <2>3. f.todo \union {new} \in SUBSET Node
    BY <1>0, <2>1, <2>2 DEF Frame
  <2>4. \/ UNCHANGED frame
        \/ frame' = [frame EXCEPT ![j] = [f EXCEPT !.todo = f.todo \union {new}]]
    BY <1>7, <2>2 DEF Spawn, TypeOK
  <2> HIDE DEF f, new
  <2> QED
    BY <2>1, <2>2, <2>3, <2>4, SameFrame, NewFrame, FrameFields
<1>8. CASE \E n \in Node : NextChild(j, n)
  <2>1. PICK n \in Node : NextChild(j, n)
    BY <1>8
  <2> DEFINE f == [frame[j] EXCEPT !.cur = n]
  <2>2. f \in Frame /\ f.cur \in Node /\ f.todo = frame[j].todo
    BY <1>0, <1>a, <2>1, FrameFields DEF NextChild, Frame
  <2>3. f.todo \ {n} \in SUBSET Node
    BY <1>0, <2>2 DEF Frame
  <2>4. frame' = [frame EXCEPT ![j] = [f EXCEPT !.todo = f.todo \ {n}]]
    BY <2>1, <2>2 DEF NextChild, TypeOK
  <2> QED
    BY <2>2, <2>3, <2>4, NewFrame, FrameFields
<1>9. CASE MarkBlocked(j) \/ MarkBlockedEnd(j)
  <2>1. SUFFICES ASSUME \/ UNCHANGED frame
                        \/ frame' = [frame EXCEPT ![j].again = FALSE]
                        \/ frame' = [frame EXCEPT ![j].res = "blocked"]
                 PROVE  FrameKept(j)
    BY <1>9 DEF MarkBlocked, MarkBlockedEnd, BlockedBy, BlockedBefore
  <2>2. Cur(j) \in Node
    BY <1>0, <1>a, <1>9 DEF MarkBlocked, MarkBlockedEnd
  <2>3. "blocked" \in Results
    BY DEF Results
  <2> QED
    BY <1>0, <2>1, <2>2, <2>3, SameFrame, NewFrame, FrameFields
<1>10. CASE Persist(j)
  <2>1. SUFFICES ASSUME NEW x \in Results,
                        UNCHANGED frame \/ frame' = [frame EXCEPT ![j].res = x]
                 PROVE  FrameKept(j)
    BY <1>0, <1>10 DEF Persist, Results, Frame
  <2>2. Cur(j) \in Node
    BY <1>0, <1>a, <1>10 DEF Persist
  <2> QED
    BY <1>0, <2>1, <2>2, SameFrame, NewFrame, FrameFields
<1>11. CASE ReturnToParent(j)
  <2>1. /\ Cur(j) \in Node
        /\ nodes[Cur(j)].parent \in Node
    BY <1>0, <1>a, <1>11 DEF ReturnToParent, TypeOK, NodeRecord
  <2> DEFINE p == nodes[Cur(j)].parent
             f == [frame[j] EXCEPT !.cur = p]
  <2>2. f \in Frame /\ f.cur \in Node /\ f.todo = frame[j].todo
    BY <1>0, <2>1, FrameFields DEF Frame
  <2>3. f.todo \ ChildrenOf(p) \in SUBSET Node
    BY <1>0, <2>2 DEF Frame
  <2>4. \/ frame' = [frame EXCEPT ![j] = f]
        \/ frame' = [frame EXCEPT ![j] = [f EXCEPT !.todo = f.todo \ ChildrenOf(p)]]
    BY <1>11, <2>2 DEF ReturnToParent, TypeOK
  <2> QED
    BY <2>2, <2>3, <2>4, NewFrame, FrameFields
<1>12. CASE ReturnToOrchestrator(j)
  BY <1>0, <1>a, <1>12 DEF ReturnToOrchestrator, GoalOf, RunStatus, FrameKept, Frame, TypeOK
<1>13. CASE Aggregate(j)
  <2>1. AggregateRunStatus(RunOf(j)) \in RunStatus
    BY DEF AggregateRunStatus, RunStatus
  <2> QED
    BY <1>0, <1>a, <1>13, <2>1 DEF Aggregate, FrameKept, Frame, TypeOK
<1>14. CASE Discard(j)
  BY <1>14 DEF Discard, NoFrame, Results, FrameKept, Frame, TypeOK, OnThread, Executing
<1> QED
  BY <1>1, <1>2, <1>3, <1>4, <1>5, <1>6, <1>7, <1>8, <1>9, <1>10, <1>11, <1>12, <1>13,
     <1>14 DEF JobStep

\* A job changes the status of its own run only, and finds it running from
\* _mark_run_running until it settles it.
SettlesOwn(j) ==
  /\ runStatus' \in [Runs -> RunStatus \union {"none"}]
  /\ \A r \in Runs : r # RunOf(j) => runStatus'[r] = runStatus[r]
  /\ pc'[j] \in Executing => runStatus'[RunOf(j)] = "running"

\* A step that leaves the runs alone settles none.
LEMMA SameStatus ==
  ASSUME TypeOK, NEW j \in Job, UNCHANGED runStatus,
         pc'[j] \in Executing => runStatus[RunOf(j)] = "running"
  PROVE  SettlesOwn(j)
  BY DEF TypeOK, SettlesOwn

\* Setting the status of one run leaves the others alone.
LEMMA OtherStatus ==
  ASSUME TypeOK, NEW j \in Job, NEW s \in RunStatus, SetRun(RunOf(j), s),
         pc'[j] \notin Executing
  PROVE  SettlesOwn(j)
  BY DEF TypeOK, SettlesOwn, SetRun

\* A step of a job changes the status of its own run only, and leaves it running
\* as long as the job executes.
LEMMA StepSettlesOwn ==
  ASSUME IInv, NEW j \in Job, JobStep(j)
  PROVE  SettlesOwn(j)
<1>a. TypeOK /\ pc \in [Job -> PC]
  BY DEF IInv, TypeOK
<1>b. pc[j] \in Live => RunOf(j) \in Runs
  BY DEF IInv, TypeOK, OneWorkerPerRun, ClaimIsHeld
<1>c. pc[j] \in Executing => runStatus[RunOf(j)] = "running"
  BY DEF IInv, WorkerSeesRunning
<1>1. CASE StartJob(j) \/ ClearRun(j) \/ Discard(j)
  BY <1>a, <1>1, SameStatus DEF StartJob, ClearRun, Discard, Executing, storeVars
<1>2. CASE MarkRunRunning(j)
  BY <1>a, <1>2, SameStatus DEF MarkRunRunning, Executing, storeVars
<1>3. CASE MarkRunRunningWrite(j)
  <2>1. CASE RunCan(RunOf(j), "running")
    BY <1>a, <1>b, <1>3, <2>1 DEF MarkRunRunningWrite, SetRun, SettlesOwn, Live, OnThread,
       RunStatus, TypeOK
  <2>2. CASE ~RunCan(RunOf(j), "running")
    BY <1>a, <1>3, <2>2, SameStatus DEF MarkRunRunningWrite, Executing
  <2> QED
    BY <2>1, <2>2
<1>4. CASE EnterRefused(j) \/ Enter(j) \/ EnterRaises(j)
  BY <1>a, <1>c, <1>4, SameStatus DEF EnterRefused, Enter, EnterRaises, Executing, storeVars
<1>5. CASE ServiceRaises(j) \/ CheckerBlocks(j)
  BY <1>a, <1>c, <1>5, SameStatus DEF ServiceRaises, CheckerBlocks, InService, Executing,
     storeVars
<1>6. CASE BaseCaseFails(j) \/ BaseCaseCompletes(j) \/ Unresolved(j) \/ MergeCompletes(j)
  BY <1>a, <1>c, <1>6, SameStatus DEF BaseCaseFails, BaseCaseCompletes, Unresolved,
     MergeCompletes, Executing
<1>7. CASE Prune(j) \/ Spawn(j) \/ SpawnRaises(j) \/ (\E n \in Node : NextChild(j, n))
  BY <1>a, <1>c, <1>7, SameStatus DEF Prune, Spawn, SpawnRaises, NextChild, Executing,
     storeVars
<1>8. CASE MarkBlocked(j) \/ MarkBlockedRaises(j) \/ MarkBlockedFail(j) \/ MarkBlockedEnd(j)
  BY <1>a, <1>c, <1>8, SameStatus DEF MarkBlocked, MarkBlockedRaises, MarkBlockedFail,
     MarkBlockedEnd, Executing, storeVars
<1>9. CASE Persist(j) \/ ReturnToParent(j) \/ ReturnToOrchestrator(j) \/ Aggregate(j)
  BY <1>a, <1>c, <1>9, SameStatus DEF Persist, ReturnToParent, ReturnToOrchestrator,
     Aggregate, Executing, storeVars
<1>10. CASE Finalize(j)
  <2>1. frame[j].goal \in RunStatus \union {"none"}
    BY <1>a DEF TypeOK, Frame
  <2>2. pc'[j] \notin Executing
    BY <1>a, <1>10 DEF Finalize, Executing
  <2>3. CASE RunCan(RunOf(j), frame[j].goal)
    <3>1. frame[j].goal \in RunStatus /\ SetRun(RunOf(j), frame[j].goal)
      BY <1>10, <2>1, <2>3 DEF Finalize, RunCan, RunMay, RUN_ALLOWED_TRANSITIONS, RunStatus
    <3> QED
      BY <1>a, <2>2, <3>1, OtherStatus
  <2>4. CASE ~RunCan(RunOf(j), frame[j].goal)
    BY <1>a, <1>10, <2>2, <2>4, SameStatus DEF Finalize
  <2> QED
    BY <2>3, <2>4
<1>11. CASE Raised(j)
  <2>1. "failed" \in RunStatus /\ pc'[j] \notin Executing
    BY <1>a, <1>11 DEF Raised, Executing, RunStatus
  <2> QED
    BY <1>a, <1>11, <2>1, SameStatus, OtherStatus DEF Raised
<1> QED
  BY <1>1, <1>2, <1>3, <1>4, <1>5, <1>6, <1>7, <1>8, <1>9, <1>10, <1>11 DEF JobStep

\* What a job does to the rest of the state.
LEMMA StepKeepsRest ==
  ASSUME IInv, NEW j \in Job, JobStep(j)
  PROVE  overBudget' \subseteq Runs /\ outputs' \subseteq Node /\ UNCHANGED <<apiVars, procVars>>
<1>a. /\ overBudget \subseteq Runs /\ outputs \subseteq Node
      /\ pc[j] \in Executing => RunOf(j) \in Runs /\ Cur(j) \in Node
  BY DEF IInv, TypeOK, OneWorkerPerRun, ClaimIsHeld, JobsHaveNode, Live, OnThread, Executing
<1>1. CASE BaseCaseCompletes(j) \/ MergeCompletes(j)
  BY <1>a, <1>1 DEF BaseCaseCompletes, MergeCompletes, Executing
<1>2. CASE Persist(j)
  BY <1>a, <1>2 DEF Persist, Executing
<1>3. CASE ClearRun(j)
  BY <1>a, <1>3 DEF ClearRun, storeVars
<1>4. CASE StartJob(j) \/ MarkRunRunning(j) \/ MarkRunRunningWrite(j) \/ EnterRefused(j)
           \/ Enter(j) \/ EnterRaises(j) \/ ServiceRaises(j) \/ BaseCaseFails(j)
           \/ CheckerBlocks(j) \/ Prune(j) \/ Spawn(j) \/ SpawnRaises(j)
           \/ (\E n \in Node : NextChild(j, n)) \/ Unresolved(j)
  BY <1>a, <1>4 DEF StartJob, MarkRunRunning, MarkRunRunningWrite, EnterRefused, Enter,
     EnterRaises, ServiceRaises, BaseCaseFails, CheckerBlocks, Prune, Spawn, SpawnRaises,
     NextChild, Unresolved, storeVars
<1>5. CASE MarkBlocked(j) \/ MarkBlockedRaises(j) \/ MarkBlockedFail(j) \/ MarkBlockedEnd(j)
           \/ ReturnToParent(j) \/ ReturnToOrchestrator(j) \/ Aggregate(j) \/ Finalize(j)
           \/ Raised(j) \/ Discard(j)
  BY <1>a, <1>5 DEF MarkBlocked, MarkBlockedRaises, MarkBlockedFail, MarkBlockedEnd,
     ReturnToParent, ReturnToOrchestrator, Aggregate, Finalize, Raised, Discard, storeVars
<1> QED
  BY <1>1, <1>2, <1>3, <1>4, <1>5 DEF JobStep
-----------------------------------------------------------------------------
(* The inductive invariant.                                                *)

\* A step of a job keeps the invariant: its run is its own, because no other
\* live job has it.
LEMMA JobKeepsInv ==
  ASSUME IInv, NEW j \in Job, JobStep(j)
  PROVE  IInv'
<1>1. NodesKept /\ born' \in 0..MaxNodes
  BY StepKeepsNodes, ConstantsAssumption
<1>2. FrameKept(j) /\ SettlesOwn(j)
  BY StepKeepsFrame, StepSettlesOwn
<1>3. /\ overBudget' \subseteq Runs /\ outputs' \subseteq Node
      /\ UNCHANGED <<req, asked, creating, stopping, crashes, stops>>
  BY StepKeepsRest DEF apiVars, procVars
<1>4. Moves(j) \/ Discard(j)
  BY StepMoves DEF IInv
<1>5. /\ \E to \in OnThread \union {"done"} : pc' = [pc EXCEPT ![j] = to]
      /\ UNCHANGED <<submitted, jobs>>
      /\ active' \subseteq active
      /\ pc[j] \in Live
  BY <1>4 DEF Moves, Discard, poolVars, Live, OnThread, Executing
<1>6. JobsInOrder' /\ OneWorkerPerRun'
  BY <1>4, MoveKeepsPool, DiscardKeepsPool DEF IInv
<1>7. TypeOK'
  BY <1>1, <1>2, <1>3, <1>5 DEF IInv, TypeOK, NodesKept, FrameKept, SettlesOwn, PC, Live
<1>8. NodesHaveRun' /\ RequestsHaveNode'
  BY <1>1, <1>3 DEF IInv, NodesKept, RequestsHaveNode
<1>9. JobsHaveNode'
  BY <1>2, <1>5 DEF IInv, TypeOK, JobsHaveNode, FrameKept, Live, OnThread, Executing
<1>10. WorkerSeesRunning'
  <2>1. SUFFICES ASSUME NEW i \in Job, pc'[i] \in Executing, i # j
                 PROVE  runStatus'[RunOf(i)] = "running"
    BY <1>2, <1>5 DEF WorkerSeesRunning, SettlesOwn
  <2>2. pc[i] \in Executing /\ pc[i] \in Live
    BY <1>5, <2>1 DEF IInv, TypeOK, Live, OnThread
  <2>3. RunOf(i) # RunOf(j) /\ RunOf(i) \in Runs
    BY <1>5, <2>1, <2>2 DEF IInv, TypeOK, OneWorkerPerRun, NoTwoWorkers, ClaimIsHeld
  <2> QED
    BY <1>2, <2>2, <2>3 DEF IInv, WorkerSeesRunning, SettlesOwn
<1> QED
  BY <1>6, <1>7, <1>8, <1>9, <1>10 DEF IInv

\* Each step of the creation of a run keeps the invariant.
LEMMA CreateKeepsInv ==
  ASSUME IInv, NEW r \in Runs, CreateRun(r) \/ CreateRoot(r) \/ CreateRaises(r)
  PROVE  IInv'
<1>1. UNCHANGED <<overBudget, outputs, active, submitted, jobs, pc, frame, req, asked,
                  stopping, crashes, stops>>
  BY DEF CreateRun, CreateRoot, CreateRaises, storeVars, poolVars, threadVars, apiVars,
     procVars
<1>2. NodesKept /\ born' \in 0..MaxNodes
  <2>1. CASE CreateRoot(r)
    <3>1. nodes' = [nodes EXCEPT ![born + 1] = NewNode(r, NoNode, 0)]
      BY <2>1 DEF CreateRoot
    <3>2. born' \in 0..MaxNodes
      BY <2>1, ConstantsAssumption DEF CreateRoot, IInv, TypeOK, ConstantsAssumption
    <3> QED
      BY <3>1, <3>2, NewNodeKeeps DEF IInv
  <2>2. CASE CreateRun(r) \/ CreateRaises(r)
    BY <2>2, UnchangedKeeps DEF CreateRun, CreateRaises, storeVars, IInv, TypeOK
  <2> QED
    BY <2>1, <2>2
<1>3. runStatus' \in [Runs -> RunStatus \union {"none"}] /\ creating' \subseteq Runs
  BY DEF CreateRun, CreateRoot, CreateRaises, SetRun, storeVars, apiVars, IInv, TypeOK,
     RunStatus
<1>4. TypeOK'
  BY <1>1, <1>2, <1>3 DEF IInv, TypeOK, NodesKept
<1>5. NodesHaveRun' /\ RequestsHaveNode' /\ JobsHaveNode' /\ JobsInOrder' /\ OneWorkerPerRun'
  BY <1>1, <1>2 DEF IInv, NodesKept, RequestsHaveNode, JobsHaveNode, JobsInOrder,
     OneWorkerPerRun, NoTwoWorkers, ClaimIsHeld
<1>6. WorkerSeesRunning'
  <2>1. \A q : runStatus[q] = "running" /\ q \in Runs => runStatus'[q] = "running"
    BY DEF CreateRun, CreateRoot, CreateRaises, SetRun, storeVars, IInv, TypeOK
  <2>2. \A j \in Job : pc[j] \in Executing => RunOf(j) \in Runs
    BY DEF IInv, TypeOK, OneWorkerPerRun, ClaimIsHeld, Live, OnThread
  <2> QED
    BY <1>1, <2>1, <2>2 DEF IInv, WorkerSeesRunning
<1> QED
  BY <1>4, <1>5, <1>6 DEF IInv

\* A claim with its job, by SubmitRun or by Claim.
LEMMA ClaimKeepsInv ==
  ASSUME IInv, NEW r \in Runs, NEW n \in Node, NEW k \in {"start", "resume"},
         r \notin active, active' = active \union {r}, Submit(r, n, k),
         UNCHANGED <<runStatus, overBudget, nodes, born, outputs, frame, stopping,
                     crashes, stops>>,
         req' \in [Clients -> Request], asked' \in Nat, creating' \subseteq Runs,
         RequestsHaveNode'
  PROVE  IInv'
<1>1. /\ JobsInOrder' /\ OneWorkerPerRun'
      /\ submitted' \in 0..MaxJobs /\ jobs' \in [Job -> JobRecord] /\ pc' \in [Job -> PC]
  BY SubmitKeepsPool, ConstantsAssumption DEF IInv
<1>2. TypeOK'
  BY <1>1 DEF IInv, TypeOK
<1>3. \A j \in Job : \/ pc'[j] = pc[j] /\ jobs'[j] = jobs[j]
                     \/ pc'[j] = "queued" /\ jobs'[j].node = n
  BY DEF Submit, IInv, TypeOK
<1>4. JobsHaveNode'
  BY <1>3 DEF IInv, JobsHaveNode
<1>5. WorkerSeesRunning'
  BY <1>3 DEF IInv, WorkerSeesRunning, Executing
<1> QED
  BY <1>1, <1>2, <1>4, <1>5 DEF IInv, NodesHaveRun

\* So does the submission of a new run.
LEMMA SubmitRunKeepsInv ==
  ASSUME IInv, NEW r \in Runs, NEW n \in Node, SubmitRun(r, n)
  PROVE  IInv'
<1>1. /\ UNCHANGED <<runStatus, overBudget, nodes, born, outputs, frame, req, asked,
                     stopping, crashes, stops>>
      /\ creating' \subseteq Runs
      /\ r \notin active /\ active' = active \union {r} /\ Submit(r, n, "start")
  BY DEF SubmitRun, storeVars, procVars, IInv, TypeOK
<1>2. RequestsHaveNode' /\ req' \in [Clients -> Request] /\ asked' \in Nat
  BY <1>1 DEF IInv, TypeOK, RequestsHaveNode
<1> QED
  BY <1>1, <1>2, ClaimKeepsInv

\* A handler's step keeps the type of the requests and what they are about.
LEMMA AdvanceKeeps ==
  ASSUME TypeOK, RequestsHaveNode, NodesKept, NEW c \in Clients, req[c].at # "idle",
         NEW to \in {"idle", "check", "update", "run", "claim", "delete"}, Advance(c, to)
  PROVE  req' \in [Clients -> Request] /\ RequestsHaveNode'
<1>1. req' \in [Clients -> Request]
  BY DEF Advance, TypeOK, Request, NoRequest
<1>2. \A d \in Clients : req'[d].at # "idle" => req[d].at # "idle" /\ req'[d].node = req[d].node
  BY DEF Advance, TypeOK, Request, NoRequest
<1> QED
  BY <1>1, <1>2 DEF RequestsHaveNode, NodesKept

\* Everything a step outside the pool has to keep.
LEMMA ApiKeepsInv ==
  ASSUME IInv, NodesKept,
         runStatus' \in [Runs -> RunStatus \union {"none"}],
         \A r \in Runs : runStatus[r] = "running" => runStatus'[r] = "running",
         req' \in [Clients -> Request], RequestsHaveNode', asked' \in Nat,
         stopping' \in BOOLEAN, stops' \in Nat,
         UNCHANGED <<overBudget, born, outputs, poolVars, threadVars, creating, crashes>>
  PROVE  IInv'
<1> USE DEF poolVars, threadVars
<1>1. TypeOK' /\ NodesHaveRun'
  BY DEF IInv, TypeOK, NodesKept
<1>2. JobsHaveNode' /\ JobsInOrder' /\ OneWorkerPerRun'
  BY DEF IInv, JobsHaveNode, JobsInOrder, OneWorkerPerRun, NoTwoWorkers, ClaimIsHeld
<1>3. WorkerSeesRunning'
  <2>1. SUFFICES ASSUME NEW j \in Job, pc[j] \in Executing
                 PROVE  runStatus'[RunOf(j)] = "running"
    BY DEF WorkerSeesRunning
  <2>2. RunOf(j) \in Runs
    BY <2>1 DEF IInv, TypeOK, OneWorkerPerRun, ClaimIsHeld, Live, OnThread
  <2> QED
    BY <2>1, <2>2 DEF IInv, WorkerSeesRunning
<1> QED
  BY <1>1, <1>2, <1>3 DEF IInv

\* Every step of a handler keeps the invariant.
LEMMA HandlerKeepsInv ==
  ASSUME IInv, NEW c \in Clients, HandlerStep(c)
  PROVE  IInv'
<1> USE DEF procVars, storeVars
<1>a. /\ req[c].at # "idle" => req[c].node \in Node /\ nodes[req[c].node].run \in Runs
      /\ runStatus \in [Runs -> RunStatus \union {"none"}] /\ asked \in Nat
      /\ stopping \in BOOLEAN /\ stops \in Nat
  BY DEF IInv, TypeOK, RequestsHaveNode, NodesHaveRun
<1>1. CASE CheckEligible(c)
  <2>1. NodesKept
    BY <1>1, UnchangedKeeps DEF CheckEligible, IInv
  <2>2. req' \in [Clients -> Request] /\ RequestsHaveNode'
    BY <1>1, <2>1, AdvanceKeeps DEF CheckEligible, IInv
  <2> QED
    BY <1>a, <1>1, <2>1, <2>2, ApiKeepsInv DEF CheckEligible
<1>2. CASE ApplyToNode(c)
  <2>1. NodesKept
    BY <1>2, UnchangedKeeps, SetNodeKeeps DEF ApplyToNode, NodeCan, IInv, NodeStatus
  <2>2. req' \in [Clients -> Request] /\ RequestsHaveNode'
    BY <1>2, <2>1, AdvanceKeeps DEF ApplyToNode, IInv
  <2> QED
    BY <1>a, <1>2, <2>1, <2>2, ApiKeepsInv DEF ApplyToNode
<1>3. CASE ApplyToRun(c)
  <2>1. NodesKept
    BY <1>3, UnchangedKeeps DEF ApplyToRun, IInv
  <2>2. req' \in [Clients -> Request] /\ RequestsHaveNode'
    BY <1>3, <2>1, AdvanceKeeps DEF ApplyToRun, IInv
  <2>3. /\ runStatus' \in [Runs -> RunStatus \union {"none"}]
        /\ \A r \in Runs : runStatus[r] = "running" => runStatus'[r] = "running"
    BY <1>a, <1>3 DEF ApplyToRun, SetRun, RunStatus
  <2> QED
    BY <1>a, <1>3, <2>1, <2>2, <2>3, ApiKeepsInv DEF ApplyToRun
<1>4. CASE Claim(c)
  <2>1. NodesKept
    BY <1>4, UnchangedKeeps DEF Claim, IInv
  <2>2. req' \in [Clients -> Request] /\ RequestsHaveNode'
    BY <1>4, <2>1, AdvanceKeeps DEF Claim, IInv
  <2> DEFINE r == nodes[req[c].node].run
  <2>3. CASE r \notin active
    <3>1. /\ active' = active \union {r} /\ Submit(r, req[c].node, "resume")
          /\ UNCHANGED <<runStatus, overBudget, nodes, born, outputs, frame, asked,
                         creating, stopping, crashes, stops>>
      BY <1>4, <2>3 DEF Claim
    <3>2. r \in Runs /\ req[c].node \in Node /\ creating' \subseteq Runs
      BY <1>a, <1>4, <3>1 DEF Claim, IInv, TypeOK
    <3> QED
      BY <1>a, <2>2, <2>3, <3>1, <3>2, ClaimKeepsInv
  <2>4. CASE r \in active
    BY <1>a, <1>4, <2>1, <2>2, <2>4, ApiKeepsInv DEF Claim, threadVars
  <2> QED
    BY <2>3, <2>4
<1>5. CASE DeleteNode(c)
  <2>1. NodesKept
    BY <1>5, RemovedKeeps DEF DeleteNode, IInv
  <2>2. req' \in [Clients -> Request] /\ RequestsHaveNode'
    BY <1>5, <2>1, AdvanceKeeps DEF DeleteNode, IInv
  <2> QED
    BY <1>a, <1>5, <2>1, <2>2, ApiKeepsInv DEF DeleteNode
<1> QED
  BY <1>1, <1>2, <1>3, <1>4, <1>5 DEF HandlerStep

\* A request that begins is about a node of the table.
LEMMA AskKeeps ==
  ASSUME IInv, NodesKept, NEW c \in Clients, NEW n \in Node,
         NEW a \in {"retry", "skip", "delete"}, NEW at \in {"check", "delete"},
         Ask(c, n, a, at)
  PROVE  req' \in [Clients -> Request] /\ RequestsHaveNode' /\ asked' \in Nat
<1>1. nodes[n].status # "unused" /\ nodes[n].run \in Runs
  BY DEF Ask, Present, NodeStatus, IInv, NodesHaveRun
<1>2. runStatus[nodes[n].run] \in RunStatus \union {"none"}
  BY <1>1 DEF IInv, TypeOK
<1>3. req' \in [Clients -> Request] /\ asked' \in Nat
  BY <1>2 DEF Ask, IInv, TypeOK, Request
<1>4. RequestsHaveNode'
  BY <1>1 DEF Ask, IInv, TypeOK, NodesKept, RequestsHaveNode
<1> QED
  BY <1>3, <1>4

\* The first step of a request keeps the invariant.
LEMMA RequestKeepsInv ==
  ASSUME IInv, NEW c \in Clients, NEW n \in Node,
         \/ DeleteDescendants(c, n)
         \/ \E a \in {"retry", "skip"} : BeginIntervention(c, n, a)
  PROVE  IInv'
<1> USE DEF procVars, storeVars
<1>a. /\ runStatus \in [Runs -> RunStatus \union {"none"}]
      /\ stopping \in BOOLEAN /\ stops \in Nat
  BY DEF IInv, TypeOK
<1>1. CASE DeleteDescendants(c, n)
  <2>1. NodesKept
    BY <1>1, RemovedKeeps DEF DeleteDescendants, IInv
  <2> QED
    BY <1>a, <1>1, <2>1, AskKeeps, ApiKeepsInv DEF DeleteDescendants
<1>2. CASE \E a \in {"retry", "skip"} : BeginIntervention(c, n, a)
  <2>1. NodesKept
    BY <1>2, UnchangedKeeps DEF BeginIntervention, IInv
  <2> QED
    BY <1>a, <1>2, <2>1, AskKeeps, ApiKeepsInv DEF BeginIntervention
<1> QED
  BY <1>1, <1>2

\* A shutdown keeps the invariant.
LEMMA ShutdownKeepsInv ==
  ASSUME IInv, Shutdown
  PROVE  IInv'
<1>1. NodesKept
  BY UnchangedKeeps DEF Shutdown, IInv, storeVars
<1>2. /\ runStatus' \in [Runs -> RunStatus \union {"none"}]
      /\ req' \in [Clients -> Request] /\ RequestsHaveNode' /\ asked' \in Nat
      /\ stopping' \in BOOLEAN /\ stops' \in Nat
  BY DEF Shutdown, IInv, TypeOK, RequestsHaveNode, storeVars, apiVars
<1> QED
  BY <1>1, <1>2, ApiKeepsInv DEF Shutdown, storeVars, apiVars

\* A crash or a restart keeps the invariant.
LEMMA RebootKeepsInv ==
  ASSUME IInv, Reboot, crashes' \in Nat
  PROVE  IInv'
<1>1. JobsInOrder' /\ OneWorkerPerRun'
  BY RebootKeepsPool DEF IInv
<1>2. \A j \in Job : pc'[j] \notin Live /\ pc'[j] \in {"none", "done"}
  BY DEF Reboot, Live, OnThread, Executing
<1>3. TypeOK'
  <2>1. NoFrame \in Frame /\ NoRequest \in Request
    BY DEF NoFrame, Frame, Results, NoRequest, Request
  <2>2. pc' \in [Job -> PC]
    BY DEF Reboot, PC
  <2>3. runStatus' \in [Runs -> RunStatus \union {"none"}]
    BY DEF Reboot, IInv, TypeOK, RunStatus
  <2> QED
    BY <2>1, <2>2, <2>3 DEF Reboot, IInv, TypeOK
<1>4. NodesHaveRun' /\ RequestsHaveNode'
  BY DEF Reboot, IInv, NodesHaveRun, RequestsHaveNode, NoRequest
<1>5. JobsHaveNode' /\ WorkerSeesRunning'
  BY <1>2 DEF JobsHaveNode, WorkerSeesRunning, Live, OnThread
<1> QED
  BY <1>1, <1>3, <1>4, <1>5 DEF IInv

\* The invariant holds initially.
LEMMA InitInv ==
  Init => IInv
<1> SUFFICES ASSUME Init PROVE IInv
  OBVIOUS
<1>1. TypeOK
  <2>1. NoFrame \in Frame /\ NoRequest \in Request /\ NoJob \in JobRecord /\ Unused \in NodeRecord
    BY DEF NoFrame, Frame, Results, NoRequest, Request, NoJob, JobRecord, Unused, NodeRecord
  <2>2. pc \in [Job -> PC]
    BY DEF Init, PC
  <2>3. nodes \in [Node -> NodeRecord] /\ jobs \in [Job -> JobRecord]
    BY <2>1 DEF Init
  <2>4. frame \in [Job -> Frame] /\ req \in [Clients -> Request]
    BY <2>1 DEF Init
  <2>5. born \in 0..MaxNodes /\ submitted \in 0..MaxJobs
    BY ConstantsAssumption DEF Init, ConstantsAssumption
  <2>6. runStatus \in [Runs -> RunStatus \union {"none"}]
    BY DEF Init
  <2>7. asked \in Nat /\ crashes \in Nat /\ stops \in Nat /\ stopping \in BOOLEAN
    BY DEF Init
  <2>8. /\ overBudget \subseteq Runs /\ outputs \subseteq Node
        /\ active \subseteq Runs /\ creating \subseteq Runs
    BY DEF Init
  <2> QED
    BY <2>2, <2>3, <2>4, <2>5, <2>6, <2>7, <2>8 DEF TypeOK
<1>2. NodesHaveRun /\ JobsHaveNode /\ RequestsHaveNode /\ JobsInOrder
  BY DEF Init, NodesHaveRun, JobsHaveNode, RequestsHaveNode, JobsInOrder, Unused, NoRequest,
     Live, OnThread, Executing
<1>3. OneWorkerPerRun /\ WorkerSeesRunning
  BY DEF Init, OneWorkerPerRun, NoTwoWorkers, ClaimIsHeld, WorkerSeesRunning, Live, OnThread,
     Executing
<1> QED
  BY <1>1, <1>2, <1>3 DEF IInv

\* The invariant is inductive.
LEMMA NextKeepsInv ==
  IInv /\ [Next]_vars => IInv'
<1> SUFFICES ASSUME IInv, [Next]_vars PROVE IInv'
  OBVIOUS
<1>1. CASE \E j \in Job : JobStep(j)
  BY <1>1, JobKeepsInv
<1>2. CASE \E r \in Runs : CreateRun(r) \/ CreationStep(r)
  BY <1>2, CreateKeepsInv, SubmitRunKeepsInv DEF CreationStep
<1>3. CASE \E c \in Clients : HandlerStep(c)
  BY <1>3, HandlerKeepsInv
<1>4. CASE \E c \in Clients, n \in Node :
             \/ DeleteDescendants(c, n)
             \/ \E a \in {"retry", "skip"} : BeginIntervention(c, n, a)
  BY <1>4, RequestKeepsInv
<1>5. CASE Shutdown
  BY <1>5, ShutdownKeepsInv
<1>6. CASE Crash \/ Restart
  BY <1>6, RebootKeepsInv DEF Crash, Restart, IInv, TypeOK
<1>7. CASE UNCHANGED vars
  BY <1>7 DEF vars, storeVars, poolVars, threadVars, apiVars, procVars, IInv, TypeOK,
     NodesHaveRun, JobsHaveNode, RequestsHaveNode, JobsInOrder, OneWorkerPerRun, NoTwoWorkers,
     ClaimIsHeld, WorkerSeesRunning
<1> QED
  BY <1>1, <1>2, <1>3, <1>4, <1>5, <1>6, <1>7 DEF Next
-----------------------------------------------------------------------------
(* Theorems.                                                               *)

\* The inductive invariant: types, the well-formedness of jobs and requests, and
\* the two safety properties below, which support one another.
THEOREM Invariant == Spec => []IInv
<1>1. Init => IInv
  BY InitInv
<1>2. IInv /\ [Next]_vars => IInv'
  BY NextKeepsInv
<1> QED
  BY <1>1, <1>2, PTL DEF Spec

\* Every variable keeps its type, for any bounds.
THEOREM TypeCorrect == Spec => []TypeOK
<1>1. IInv => TypeOK
  BY DEF IInv
<1> QED
  BY <1>1, Invariant, PTL

\* However many clients create, retry, skip and delete concurrently and whenever
\* the process crashes, no two jobs have the same run, and a run is in
\* _active_runs exactly while a job has it.
THEOREM AtMostOneWorker == Spec => []OneWorkerPerRun
<1>1. IInv => OneWorkerPerRun
  BY DEF IInv
<1> QED
  BY <1>1, Invariant, PTL

\* Nothing settles a run under its worker: from _mark_run_running to
\* _finalize_run the run of an executing job is running.
THEOREM RunningUnderWorker == Spec => []WorkerSeesRunning
<1>1. IInv => WorkerSeesRunning
  BY DEF IInv
<1> QED
  BY <1>1, Invariant, PTL
-----------------------------------------------------------------------------
(***************************************************************************)
(* How the runs are settled: only the job that has claimed a run settles   *)
(* it, and a run is completed only when its nodes are.  Then what clients  *)
(* get that intervene on idle runs only: a job's calls wait on running     *)
(* nodes, and a blocked run can be intervened on.                          *)
(***************************************************************************)

\* Ids are handed out in order, so a child's is above its parent's, and a child is
\* of the run of its parent.
IdsInOrder ==
  \A n \in Node : /\ n > born => nodes[n] = Unused
                  /\ nodes[n].parent < n
                  /\ nodes[n].parent # NoNode => nodes[nodes[n].parent].run = nodes[n].run

\* Whatever refers to a run refers to one that has been created.
RunsCreated ==
  /\ \A n \in Node : nodes[n].run \in Runs => runStatus[nodes[n].run] # "none"
  /\ \A r \in active \union creating : runStatus[r] # "none"

\* A request that knows its run as blocked knows that it has been executed; only
\* then it changes the run, and a node it has found eligible is not of a new run.
SeenIsPast ==
  \A c \in Clients : req[c].at # "idle" =>
    LET r == nodes[req[c].node].run
    IN /\ req[c].seen = "blocked_human" => runStatus[r] \notin {"none", "queued"}
       /\ req[c].at = "run" => req[c].seen = "blocked_human"
       /\ req[c].at \in {"update", "run", "claim"} => r \notin creating

\* A run that is being created is queued, has no job, and of nodes only its root.
CreatingIsFresh ==
  \A r \in creating :
    /\ r \notin active /\ runStatus[r] = "queued"
    /\ \A n \in Node : nodes[n].run = r => nodes[n].status \in {"queued", "deleted"}
    /\ \A m, n \in Node : nodes[m].run = r /\ nodes[n].run = r => m = n

\* A job executes nodes of its run.
JobInTree(j) ==
  /\ pc[j] \in Live => nodes[jobs[j].node].run = RunOf(j)
  /\ pc[j] \in OnThread => nodes[Cur(j)].run = RunOf(j)

\* The run of a job that has raised is running or settled, or has been blocked by this
\* job: it is not queued, from where it could fail without having been running.
RaisedHasRun(j) ==
  pc[j] = "raised" => runStatus[RunOf(j)] \notin {"none", "queued"}

GoalIsReported(j) ==
  frame[j].goal \in {"none", "completed", "blocked_human", "failed", "running"}

Uncompleted(r) == {n \in NodesOf(r) : nodes[n].status # "completed"}

\* S is the stack of a job's calls of execute_node.
IsStack(S, j) ==
  /\ Cur(j) \in S
  /\ \A n \in S : n <= Cur(j) /\ (n = jobs[j].node \/ nodes[n].parent \in S)
  /\ \A m, n \in S : m < n => m <= nodes[n].parent

\* Of the nodes of its run only those on the stack of a job and those still to be
\* executed are not completed.
Covered(j) ==
  \E S \in SUBSET Node :
    /\ IsStack(S, j)
    /\ \A c \in frame[j].todo : /\ nodes[c].parent \in S
                                /\ pc[j] \notin {"spawn", "loop"} => nodes[c].parent # Cur(j)
    /\ Uncompleted(RunOf(j)) \subseteq S \union frame[j].todo

\* The job that executes a new run, until something fails or blocks.
Succeeding(j) == \/ pc[j] \in {"mark", "markWrite", "enter", "work", "spawn", "loop"}
                 \/ pc[j] \in {"persist", "pop"} /\ frame[j].res = "completed"

StartCovers(j) ==
  pc[j] \in Live /\ jobs[j].kind # "resume" =>
    /\ nodes[jobs[j].node].parent = NoNode
    /\ pc[j] = "queued" => NodesOf(RunOf(j)) \subseteq {jobs[j].node}
    /\ Succeeding(j) => Covered(j)

\* What a job reports as completed is completed.
ResultIsTrue(j) ==
  /\ pc[j] \in {"persist", "pop"} /\ frame[j].res = "completed"
       => Cur(j) \notin Uncompleted(RunOf(j))
  /\ pc[j] = "finalize" /\ frame[j].goal = "completed" => Uncompleted(RunOf(j)) = {}

JobOK(j) == /\ JobInTree(j) /\ RaisedHasRun(j) /\ GoalIsReported(j)
            /\ StartCovers(j) /\ ResultIsTrue(j)

JobsOK == \A j \in Job : JobOK(j)

SettleInv == /\ IdsInOrder /\ RunsCreated /\ SeenIsPast /\ CreatingIsFresh
             /\ JobsOK
             /\ CompletedRunIsComplete
-----------------------------------------------------------------------------
(* The table of nodes.                                                     *)

\* The table keeps its shape: no node is added, moved, queued again or brought
\* back, and a completed node stays so until it is deleted.
SameTree ==
  /\ born' = born
  /\ \A n \in Node :
       /\ nodes'[n].run = nodes[n].run /\ nodes'[n].parent = nodes[n].parent
       /\ nodes[n] = Unused => nodes'[n] = Unused
       /\ nodes'[n].status \in NodeStatus => nodes[n].status \in NodeStatus
       /\ nodes[n].status \in {"completed", "deleted"}
            => nodes'[n].status \in {"completed", "deleted"}

\* A step that leaves the table alone.
LEMMA SameNodes ==
  ASSUME TypeOK, UNCHANGED <<nodes, born>>
  PROVE  SameTree
  BY DEF SameTree

\* Changing the status of a node that has not completed.
LEMMA SetNodeShape ==
  ASSUME TypeOK, NEW n, Present(n), nodes[n].status # "completed", NEW s, SetNode(n, s),
         UNCHANGED born
  PROVE  SameTree
<1> DEFINE rec == [nodes[n] EXCEPT !.status = s]
<1>a. nodes' = [nodes EXCEPT ![n] = rec] /\ nodes \in [Node -> NodeRecord]
  BY DEF SetNode, TypeOK
<1>b. ASSUME n \in Node
      PROVE  /\ rec.run = nodes[n].run /\ rec.parent = nodes[n].parent
             /\ nodes[n] # Unused /\ nodes[n].status \in NodeStatus
             /\ nodes[n].status \notin {"completed", "deleted"}
  BY <1>a, <1>b DEF NodeRecord, Present, NodeStatus, Unused
<1> HIDE DEF rec
<1> QED
  BY <1>a, <1>b DEF SameTree

\* A transition the table allows is none of a completed node.
LEMMA NodeCanShape ==
  ASSUME TypeOK, NEW n, NEW s, NodeCan(n, s), SetNode(n, s), UNCHANGED born
  PROVE  SameTree
<1>1. Present(n) /\ nodes[n].status # "completed"
  BY DEF NodeCan, NodeMay, NODE_ALLOWED_TRANSITIONS
<1> QED
  BY <1>1, SetNodeShape

\* Removing nodes.
LEMMA RemovedShape ==
  ASSUME TypeOK, NEW S, nodes' = Removed(S), UNCHANGED born
  PROVE  SameTree
<1>1. SUFFICES ASSUME NEW n \in Node
               PROVE  /\ nodes'[n].run = nodes[n].run /\ nodes'[n].parent = nodes[n].parent
                      /\ nodes[n] = Unused => nodes'[n] = Unused
                      /\ nodes'[n].status \in NodeStatus => nodes[n].status \in NodeStatus
                      /\ nodes[n].status \in {"completed", "deleted"}
                           => nodes'[n].status \in {"completed", "deleted"}
  BY DEF SameTree
<1> DEFINE rec == [nodes[n] EXCEPT !.status = "deleted"]
<1>2. /\ rec.run = nodes[n].run /\ rec.parent = nodes[n].parent /\ rec.status = "deleted"
      /\ Present(n) => nodes[n] # Unused /\ nodes[n].status \in NodeStatus
  BY DEF TypeOK, NodeRecord, Present, Unused, NodeStatus
<1>3. nodes'[n] = IF n \in S /\ Present(n) THEN rec ELSE nodes[n]
  BY DEF Removed
<1> HIDE DEF rec
<1> QED
  BY <1>2, <1>3

\* Every step of a job but Spawn keeps the shape of the table.
LEMMA StepShape ==
  ASSUME IInv, NEW j \in Job, JobStep(j), ~Spawn(j)
  PROVE  SameTree
<1>0. TypeOK
  BY DEF IInv
<1>1. CASE StartJob(j) \/ MarkRunRunning(j) \/ EnterRefused(j) \/ EnterRaises(j)
           \/ ServiceRaises(j) \/ CheckerBlocks(j) \/ SpawnRaises(j)
           \/ MarkBlockedRaises(j) \/ ReturnToOrchestrator(j) \/ Aggregate(j)
           \/ ClearRun(j) \/ Discard(j)
  BY <1>0, <1>1, SameNodes DEF StartJob, MarkRunRunning, EnterRefused, EnterRaises,
     ServiceRaises, CheckerBlocks, SpawnRaises, MarkBlockedRaises, ReturnToOrchestrator,
     Aggregate, ClearRun, Discard, storeVars
<1>2. CASE MarkRunRunningWrite(j) \/ Persist(j) \/ Finalize(j) \/ Raised(j)
           \/ (\E n \in Node : NextChild(j, n))
  BY <1>0, <1>2, SameNodes DEF MarkRunRunningWrite, Persist, Finalize, Raised, NextChild,
     storeVars
<1>3. CASE Enter(j)
  <2>1. Present(Cur(j)) /\ SetNode(Cur(j), "running") /\ UNCHANGED born
        /\ nodes[Cur(j)].status # "completed"
    BY <1>3 DEF Enter, NodeCan, NodeMay, NODE_ALLOWED_TRANSITIONS
  <2> QED
    BY <1>0, <2>1, SetNodeShape
<1>4. CASE BaseCaseFails(j) \/ BaseCaseCompletes(j) \/ Unresolved(j) \/ MergeCompletes(j)
  BY <1>0, <1>4, NodeCanShape, SameNodes DEF BaseCaseFails, BaseCaseCompletes,
     Unresolved, MergeCompletes, EndsAs
<1>5. CASE Prune(j)
  BY <1>0, <1>5, RemovedShape DEF Prune
<1>6. CASE MarkBlocked(j)
  BY <1>0, <1>6, SetNodeShape, SameNodes DEF MarkBlocked
<1>7. CASE MarkBlockedFail(j) \/ MarkBlockedEnd(j)
  BY <1>0, <1>7, NodeCanShape, SameNodes DEF MarkBlockedFail, MarkBlockedEnd
<1>8. CASE ReturnToParent(j)
  BY <1>0, <1>8, NodeCanShape, SameNodes DEF ReturnToParent
<1> QED
  BY <1>1, <1>2, <1>3, <1>4, <1>5, <1>6, <1>7, <1>8 DEF JobStep

\* So does every step outside the pool but the creation of a root.
LEMMA OutsideShape ==
  ASSUME IInv,
         \/ \E r \in Runs, n \in Node : SubmitRun(r, n)
         \/ \E c \in Clients : HandlerStep(c)
         \/ \E c \in Clients, n \in Node :
              \/ DeleteDescendants(c, n)
              \/ \E a \in {"retry", "skip"} : BeginIntervention(c, n, a)
         \/ Shutdown \/ Crash \/ Restart
  PROVE  SameTree
<1>0. TypeOK
  BY DEF IInv
<1>1. CASE \E r \in Runs, n \in Node : SubmitRun(r, n)
  BY <1>0, <1>1, SameNodes DEF SubmitRun, storeVars
<1>2. CASE \E c \in Clients : HandlerStep(c)
  <2>1. PICK c \in Clients : HandlerStep(c)
    BY <1>2
  <2>2. CASE CheckEligible(c) \/ ApplyToRun(c) \/ Claim(c)
    BY <1>0, <2>2, SameNodes DEF CheckEligible, ApplyToRun, Claim, storeVars
  <2>3. CASE ApplyToNode(c)
    BY <1>0, <2>3, SameNodes, NodeCanShape DEF ApplyToNode
  <2>4. CASE DeleteNode(c)
    BY <1>0, <2>4, RemovedShape DEF DeleteNode
  <2> QED
    BY <2>1, <2>2, <2>3, <2>4 DEF HandlerStep
<1>3. CASE \E c \in Clients, n \in Node :
             \/ DeleteDescendants(c, n)
             \/ \E a \in {"retry", "skip"} : BeginIntervention(c, n, a)
  BY <1>0, <1>3, SameNodes, RemovedShape DEF DeleteDescendants, BeginIntervention, storeVars
<1>4. CASE Shutdown \/ Crash \/ Restart
  BY <1>0, <1>4, SameNodes DEF Shutdown, Crash, Restart, Reboot, storeVars
<1> QED
  BY <1>1, <1>2, <1>3, <1>4

\* The next id is given to a node of run r, below p or as a root.
Grows(r, p) ==
  /\ born + 1 \in Node /\ born' = born + 1
  /\ \E d \in Nat : nodes' = [nodes EXCEPT ![born + 1] = NewNode(r, p, d)]
  /\ p # NoNode => p \in Node /\ nodes[p].run = r

\* The new node, which was not one before, and the others.
LEMMA GrowsBy ==
  ASSUME TypeOK, IdsInOrder, ConstantsAssumption, NEW r \in Runs, NEW p, Grows(r, p)
  PROVE  /\ \A n \in Node : n # born + 1 => nodes'[n] = nodes[n]
         /\ nodes'[born + 1].run = r /\ nodes'[born + 1].parent = p
         /\ nodes'[born + 1].status = "queued"
         /\ nodes[born + 1] = Unused /\ nodes[born + 1].run \notin Runs
         /\ p # NoNode => p \in Node /\ p <= born
<1> USE DEF TypeOK
<1>1. nodes[born + 1] = Unused /\ nodes[born + 1].run = "none"
  BY DEF IdsInOrder, Grows, Unused
<1>2. p # NoNode => p \in Node /\ p <= born
  BY DEF IdsInOrder, Grows, Unused, ConstantsAssumption
<1>3. PICK d \in Nat : nodes' = [nodes EXCEPT ![born + 1] = NewNode(r, p, d)]
  BY DEF Grows
<1>4. /\ NewNode(r, p, d).run = r /\ NewNode(r, p, d).parent = p
      /\ NewNode(r, p, d).status = "queued"
  BY DEF NewNode
<1>5. born + 1 \in Node
  BY DEF Grows
<1> QED
  BY <1>1, <1>2, <1>3, <1>4, <1>5 DEF ConstantsAssumption

\* Ids stay in order when the shape is kept ...
LEMMA ShapeKeepsOrder ==
  ASSUME TypeOK, IdsInOrder, SameTree
  PROVE  IdsInOrder'
<1>1. \A n \in Node : nodes[n].parent \in Node \union {NoNode}
  BY DEF TypeOK, NodeRecord
<1> QED
  BY <1>1 DEF IdsInOrder, SameTree

\* ... and when a node is added.
LEMMA GrowthKeepsOrder ==
  ASSUME TypeOK, IdsInOrder, ConstantsAssumption, NEW r \in Runs, NEW p, Grows(r, p)
  PROVE  IdsInOrder'
<1>1. /\ \A n \in Node : nodes[n].parent \in Node \union {NoNode}
      /\ born \in Nat /\ born' = born + 1 /\ born + 1 \in Node
      /\ p # NoNode => nodes[p].run = r
  BY DEF TypeOK, NodeRecord, Grows
<1>2. SUFFICES ASSUME NEW n \in Node
               PROVE  /\ n > born + 1 => nodes'[n] = Unused
                      /\ nodes'[n].parent < n
                      /\ nodes'[n].parent # NoNode
                           => nodes'[nodes'[n].parent].run = nodes'[n].run
  BY <1>1 DEF IdsInOrder
<1>3. CASE n = born + 1
  BY <1>1, <1>3, GrowsBy
<1>4. CASE n # born + 1
  <2>1. nodes'[n] = nodes[n]
    BY <1>4, GrowsBy
  <2>2. CASE nodes[n].parent = NoNode
    BY <1>1, <1>4, <2>1, <2>2 DEF IdsInOrder
  <2>3. CASE nodes[n].parent # NoNode
    <3>1. n <= born
      BY <1>1, <2>3 DEF IdsInOrder, Unused
    <3> QED
      BY <1>1, <2>1, <2>3, <3>1, GrowsBy DEF IdsInOrder
  <2> QED
    BY <2>2, <2>3
<1> QED
  BY <1>3, <1>4

\* What a step keeps of a run that it gives no node: its nodes may be deleted or
\* completed, but none is added to it.
RunKept(r) ==
  /\ \A n \in Node : n <= born => /\ nodes'[n].run = nodes[n].run
                                 /\ nodes'[n].parent = nodes[n].parent
  /\ NodesOf(r)' \subseteq NodesOf(r)
  /\ Uncompleted(r)' \subseteq Uncompleted(r)

\* A step that keeps the shape of the table keeps every run ...
LEMMA ShapeKeepsRun ==
  ASSUME TypeOK, SameTree, NEW r
  PROVE  RunKept(r)
<1>1. NodesOf(r)' \subseteq NodesOf(r)
  BY DEF SameTree, NodesOf, Present
<1>2. \A n \in Node : nodes'[n].status \in NodeStatus /\ nodes'[n].status # "completed"
                      => nodes[n].status # "completed"
  BY DEF SameTree, NodeStatus
<1>3. Uncompleted(r)' \subseteq Uncompleted(r)
  BY <1>1, <1>2 DEF Uncompleted, NodesOf, Present
<1> QED
  BY <1>1, <1>3 DEF RunKept, SameTree

\* ... and one that adds a node keeps the others.
LEMMA GrowthKeepsRun ==
  ASSUME TypeOK, IdsInOrder, ConstantsAssumption, NEW q \in Runs, NEW p, Grows(q, p),
         NEW r, r # q
  PROVE  RunKept(r)
<1>1. /\ \A n \in Node : n # born + 1 => nodes'[n] = nodes[n]
      /\ nodes'[born + 1].run = q
  BY GrowsBy
<1>a. born \in Nat /\ born + 1 \in Node
  BY DEF TypeOK, Grows
<1>2. NodesOf(r)' \subseteq NodesOf(r)
  BY <1>1, <1>a DEF NodesOf, Present
<1>3. Uncompleted(r)' \subseteq Uncompleted(r)
  BY <1>1, <1>a, <1>2 DEF Uncompleted, NodesOf, Present
<1> QED
  BY <1>1, <1>a, <1>2, <1>3 DEF RunKept
-----------------------------------------------------------------------------
(* The nodes below a node.                                                 *)

\* A set of numbers has a least one.
LEMMA LeastNode ==
  ASSUME NEW T \in SUBSET Nat, T # {}
  PROVE  \E n \in T : \A m \in T : n <= m
<1> DEFINE Less == {x \in Nat \X Nat : x[1] < x[2]}
<1>1. IsWellFoundedOn(Less, Nat)
  <2>1. OpToRel(<, Nat) = Less
    BY DEF OpToRel
  <2> QED
    BY <2>1, NatLessThanWellFounded
<1>2. PICK n \in T : \A m \in T : <<m, n>> \notin Less
  BY <1>1, WFMin, Zenon
<1> QED
  <2>1. ASSUME NEW m \in T PROVE n <= m
    <3>1. <<m, n>> \in Nat \X Nat /\ ~ (<<m, n>>[1] < <<m, n>>[2])
      BY <1>2
    <3> QED
      BY <3>1
  <2> QED
    BY <2>1

\* What the recursion in Descendants says of a node c, if T is what is below n.
IsBelow(T, n, c) ==
  \/ nodes[c].parent = n
  \/ /\ nodes[c].parent \in Node /\ nodes[c].parent < c
     /\ Present(nodes[c].parent) /\ nodes[c].parent \in T

\* The nodes in every set that has what is below n.
AllBelow(n) ==
  {c \in Node : \A T \in SUBSET Node : (\A d \in Node : IsBelow(T, n, d) => d \in T) => c \in T}

LEMMA AllBelowStep ==
  ASSUME NEW n, NEW c \in Node
  PROVE  c \in AllBelow(n) <=> IsBelow(AllBelow(n), n, c)
<1>1. ASSUME IsBelow(AllBelow(n), n, c)
      PROVE  c \in AllBelow(n)
  BY <1>1 DEF AllBelow, IsBelow
<1>2. ASSUME c \in AllBelow(n)
      PROVE  IsBelow(AllBelow(n), n, c)
  <2> DEFINE T == {d \in Node : IsBelow(AllBelow(n), n, d)}
  <2>1. T \subseteq AllBelow(n)
    BY DEF AllBelow, IsBelow
  <2>2. \A d \in Node : IsBelow(T, n, d) => d \in T
    BY <2>1 DEF IsBelow
  <2>3. T \in SUBSET Node
    OBVIOUS
  <2>4. c \in T
    <3> HIDE DEF T
    <3> QED
      BY <1>2, <2>2, <2>3 DEF AllBelow
  <2> QED
    BY <2>4
<1> QED
  BY <1>1, <1>2

\* What the recursion of Descendants defines.
BelowOf(f, n) ==
  f = [c \in Node |-> \/ nodes[c].parent = n
                      \/ /\ nodes[c].parent \in Node /\ nodes[c].parent < c
                         /\ Present(nodes[c].parent) /\ f[nodes[c].parent]]

LEMMA DescendantsStep ==
  ASSUME NEW n, NEW c \in Node
  PROVE  c \in Descendants(n) <=> IsBelow(Descendants(n), n, c)
<1> DEFINE below == CHOOSE f : BelowOf(f, n)
           g == [d \in Node |-> d \in AllBelow(n)]
<1>1. Descendants(n) = {d \in Node : below[d]}
  BY DEF Descendants, BelowOf
<1>2. BelowOf(g, n)
  <2>1. ASSUME NEW d \in Node
        PROVE  g[d] = (\/ nodes[d].parent = n
                       \/ /\ nodes[d].parent \in Node /\ nodes[d].parent < d
                          /\ Present(nodes[d].parent) /\ g[nodes[d].parent])
    <3> DEFINE P == \/ nodes[d].parent = n
                    \/ /\ nodes[d].parent \in Node /\ nodes[d].parent < d
                       /\ Present(nodes[d].parent) /\ g[nodes[d].parent]
    <3>1. (d \in AllBelow(n)) <=> P
      BY AllBelowStep DEF IsBelow
    <3>2. P \in BOOLEAN /\ g[d] \in BOOLEAN
      OBVIOUS
    <3>3. g[d] <=> P
      BY <3>1
    <3> HIDE DEF P, g
    <3>4. g[d] = P
      BY <3>2, <3>3
    <3> QED
      BY <3>4 DEF P
  <2> QED
    BY <2>1 DEF BelowOf
<1>3. BelowOf(below, n)
  BY <1>2
<1> HIDE DEF below
<1>4. \A d \in Node : below[d] <=> \/ nodes[d].parent = n
                                   \/ /\ nodes[d].parent \in Node /\ nodes[d].parent < d
                                      /\ Present(nodes[d].parent) /\ below[nodes[d].parent]
  BY <1>3 DEF BelowOf
<1> QED
  BY <1>1, <1>4 DEF IsBelow

\* What is below a node is of its run and has a larger id.
LEMMA DescendantsAbove ==
  ASSUME IdsInOrder, NEW n \in Node, NEW c \in Descendants(n)
  PROVE  c \in Node /\ n < c /\ nodes[c].run = nodes[n].run
<1> USE ConstantsAssumption DEF ConstantsAssumption
<1> DEFINE Right(d) == n < d /\ nodes[d].run = nodes[n].run
           Wrong == {d \in Descendants(n) : ~ Right(d)}
<1>1. Descendants(n) \subseteq Node /\ Node \subseteq Nat
  BY DEF Descendants
<1>2. SUFFICES ASSUME Wrong # {} PROVE FALSE
  BY <1>1
<1>3. PICK d \in Wrong : \A e \in Wrong : d <= e
  <2>1. Wrong \in SUBSET Nat
    BY <1>1
  <2> QED
    BY <1>2, <2>1, LeastNode
<1>4. d \in Node /\ d \in Descendants(n) /\ IsBelow(Descendants(n), n, d)
  BY <1>1, <1>3, DescendantsStep
<1>5. nodes[d].parent \in Node /\ nodes[d].parent < d /\ nodes[nodes[d].parent].run = nodes[d].run
  BY <1>4 DEF IsBelow, IdsInOrder
<1>6. CASE nodes[d].parent = n
  BY <1>3, <1>5, <1>6
<1>7. CASE nodes[d].parent \in Descendants(n)
  <2>1. nodes[d].parent \notin Wrong
    BY <1>3, <1>4, <1>5
  <2> QED
    BY <1>3, <1>4, <1>5, <1>7, <2>1
<1> QED
  BY <1>4, <1>6, <1>7 DEF IsBelow
-----------------------------------------------------------------------------
(* The statuses of runs.                                                   *)

\* A run once created stays so, and leaves the queue for good.
RunsAge ==
  \A r \in Runs : /\ runStatus[r] # "none" => runStatus'[r] # "none"
                  /\ runStatus[r] \notin {"none", "queued"}
                       => runStatus'[r] \notin {"none", "queued"}

\* What a step of a job does to its run: nothing, it sets it running, or it settles it.
Begins(j) == /\ pc[j] = "markWrite" /\ runStatus[RunOf(j)] \in {"queued", "blocked_human"}
             /\ SetRun(RunOf(j), "running")

Settles(j) ==
  /\ pc[j] \in {"finalize", "raised"}
  /\ \E s \in {"blocked_human", "completed", "failed"} :
       /\ SetRun(RunOf(j), s)
       /\ s = "completed" => pc[j] = "finalize" /\ frame[j].goal = "completed"
       /\ \/ runStatus[RunOf(j)] = "running"
          \/ runStatus[RunOf(j)] = "blocked_human" /\ s = "failed"

\* The statuses from which a run can be set running, or failed.
LEMMA RunTransitions ==
  ASSUME NEW r
  PROVE  /\ RunCan(r, "running") <=> runStatus[r] \in {"queued", "blocked_human"}
         /\ RunCan(r, "failed") <=> runStatus[r] \in {"queued", "running", "blocked_human"}
         /\ runStatus[r] = "running"
              => \A s : RunCan(r, s) <=> s \in {"blocked_human", "completed", "failed", "canceled"}
  BY DEF RunCan, RunMay, RUN_ALLOWED_TRANSITIONS, RunStatus

\* A step of a job does no other thing to its run, or to any run.
LEMMA JobSettles ==
  ASSUME IInv, NEW j \in Job, JobStep(j), RaisedHasRun(j), GoalIsReported(j)
  PROVE  UNCHANGED runStatus \/ Begins(j) \/ Settles(j)
<1>1. CASE MarkRunRunningWrite(j)
  BY <1>1, RunTransitions DEF MarkRunRunningWrite, Begins
<1>2. CASE Finalize(j)
  <2>1. runStatus[RunOf(j)] = "running"
    BY <1>2 DEF Finalize, IInv, WorkerSeesRunning, Executing
  <2> QED
    BY <1>2, <2>1, RunTransitions DEF Finalize, Settles, GoalIsReported
<1>3. CASE Raised(j)
  <2>1. CASE UNCHANGED runStatus
    BY <2>1
  <2>2. CASE RunCan(RunOf(j), "failed") /\ SetRun(RunOf(j), "failed")
    <3>1. runStatus[RunOf(j)] \in {"running", "blocked_human"} /\ pc[j] = "raised"
      BY <1>3, <2>2, RunTransitions DEF Raised, RaisedHasRun
    <3> QED
      BY <2>2, <3>1 DEF Settles
  <2> QED
    BY <1>3, <2>1, <2>2 DEF Raised
<1>4. CASE StartJob(j) \/ MarkRunRunning(j) \/ EnterRefused(j) \/ EnterRaises(j) \/ Enter(j)
           \/ ServiceRaises(j) \/ CheckerBlocks(j) \/ SpawnRaises(j) \/ BaseCaseFails(j)
           \/ BaseCaseCompletes(j) \/ Unresolved(j) \/ MergeCompletes(j) \/ Prune(j) \/ Spawn(j)
           \/ (\E n \in Node : NextChild(j, n))
  BY <1>4 DEF StartJob, MarkRunRunning, EnterRefused, EnterRaises, Enter, ServiceRaises,
     CheckerBlocks, SpawnRaises, BaseCaseFails, BaseCaseCompletes, Unresolved, MergeCompletes,
     Prune, Spawn, NextChild, storeVars
<1>5. CASE MarkBlocked(j) \/ MarkBlockedRaises(j) \/ MarkBlockedFail(j) \/ MarkBlockedEnd(j)
           \/ Persist(j) \/ ReturnToParent(j) \/ ReturnToOrchestrator(j) \/ Aggregate(j)
           \/ ClearRun(j) \/ Discard(j)
  BY <1>5 DEF MarkBlocked, MarkBlockedRaises, MarkBlockedFail, MarkBlockedEnd, Persist,
     ReturnToParent, ReturnToOrchestrator, Aggregate, ClearRun, Discard, storeVars
<1> QED
  BY <1>1, <1>2, <1>3, <1>4, <1>5 DEF JobStep

\* So it takes no run back to the queue.
LEMMA JobAgesRuns ==
  ASSUME IInv, NEW j \in Job, JobStep(j), RaisedHasRun(j), GoalIsReported(j)
  PROVE  RunsAge
<1>1. runStatus \in [Runs -> RunStatus \union {"none"}]
  BY DEF IInv, TypeOK
<1> QED
  BY <1>1, JobSettles DEF RunsAge, Begins, Settles, SetRun
-----------------------------------------------------------------------------
(* One job.                                                                *)

\* The nodes of a live job have ids that have been handed out.
LEMMA JobNodesBorn ==
  ASSUME IInv, IdsInOrder, NEW j \in Job, JobInTree(j)
  PROVE  /\ pc[j] \in Live => RunOf(j) \in Runs /\ jobs[j].node \in Node /\ jobs[j].node <= born
         /\ pc[j] \in OnThread => Cur(j) \in Node /\ Cur(j) <= born
<1> USE ConstantsAssumption DEF ConstantsAssumption
<1>1. /\ pc[j] \in Live => RunOf(j) \in Runs /\ jobs[j].node \in Node
      /\ pc[j] \in OnThread => pc[j] \in Live /\ Cur(j) \in Node
      /\ born \in Nat /\ MaxNodes \in Nat
  BY DEF IInv, TypeOK, OneWorkerPerRun, ClaimIsHeld, JobsHaveNode, Live, OnThread, Executing
<1>2. \A n \in Node : n > born => nodes[n].run \notin Runs
  BY DEF IdsInOrder, Unused
<1> QED
  BY <1>1, <1>2 DEF JobInTree

\* The same stack covers what is left of the run.
LEMMA SameStack ==
  ASSUME IInv, IdsInOrder, NEW j \in Job, Covered(j), Cur(j) \in Node, Cur(j) <= born,
         RunKept(RunOf(j)), jobs'[j] = jobs[j], frame'[j].cur = frame[j].cur,
         frame'[j].todo = frame[j].todo,
         pc'[j] \notin {"spawn", "loop"} => \A c \in frame[j].todo : nodes[c].parent # Cur(j)
  PROVE  Covered(j)'
<1>1. PICK S \in SUBSET Node :
        /\ IsStack(S, j)
        /\ \A c \in frame[j].todo : nodes[c].parent \in S
        /\ Uncompleted(RunOf(j)) \subseteq S \union frame[j].todo
  BY DEF Covered
<1>2. /\ born \in Nat /\ MaxNodes \in Nat /\ frame[j].todo \subseteq Node
      /\ \A n \in Node : n <= born => /\ nodes'[n].run = nodes[n].run
                                     /\ nodes'[n].parent = nodes[n].parent
  BY ConstantsAssumption DEF IInv, TypeOK, Frame, RunKept, ConstantsAssumption
<1>3. \A n \in S : nodes'[n].parent = nodes[n].parent
  BY <1>1, <1>2 DEF IsStack
<1>4. \A c \in frame[j].todo : nodes'[c].parent = nodes[c].parent
  BY <1>1, <1>2 DEF IdsInOrder, Unused
<1>5. IsStack(S, j)'
  BY <1>1, <1>3 DEF IsStack
<1>6. Uncompleted(RunOf(j))' \subseteq S \union frame[j].todo
  BY <1>1 DEF RunKept
<1>7. \A c \in frame'[j].todo :
        /\ nodes'[c].parent \in S
        /\ pc'[j] \notin {"spawn", "loop"} => nodes'[c].parent # frame'[j].cur
  BY <1>1, <1>4
<1> QED
  BY <1>5, <1>6, <1>7 DEF Covered

\* A job is not disturbed by a step of somebody else that gives its run no node.
LEMMA OtherStepKeepsJob ==
  ASSUME IInv, IdsInOrder, NEW j \in Job, JobOK(j),
         pc'[j] = pc[j], jobs'[j] = jobs[j], frame'[j] = frame[j],
         pc[j] \in Live => RunKept(RunOf(j)), RaisedHasRun(j)'
  PROVE  JobOK(j)'
<1> USE DEF JobOK
<1>1. /\ pc[j] \in Live => RunOf(j) \in Runs /\ jobs[j].node \in Node /\ jobs[j].node <= born
      /\ pc[j] \in OnThread => Cur(j) \in Node /\ Cur(j) <= born
  BY JobNodesBorn
<1>2. pc[j] \in OnThread => pc[j] \in Live
  BY DEF Live
<1>3. JobInTree(j)'
  BY <1>1, <1>2 DEF JobInTree, RunKept
<1>4. GoalIsReported(j)'
  BY DEF GoalIsReported
<1>5. StartCovers(j)'
  <2>1. SUFFICES ASSUME pc[j] \in Live, jobs[j].kind # "resume"
                 PROVE  /\ nodes'[jobs[j].node].parent = NoNode
                        /\ pc[j] = "queued" => NodesOf(RunOf(j))' \subseteq {jobs[j].node}
                        /\ Succeeding(j)' => Covered(j)'
    BY DEF StartCovers
  <2>2. Succeeding(j)' => Succeeding(j) /\ pc[j] \in OnThread
    BY DEF Succeeding, OnThread, Executing
  <2>3. Succeeding(j)' => Covered(j)'
    <3>1. ASSUME Succeeding(j)'
          PROVE  Covered(j) /\ pc[j] \in OnThread
      BY <2>1, <2>2, <3>1 DEF StartCovers
    <3>2. Covered(j) => (pc[j] \notin {"spawn", "loop"}
                           => \A c \in frame[j].todo : nodes[c].parent # Cur(j))
      BY DEF Covered
    <3> QED
      BY <1>1, <2>1, <3>1, <3>2, SameStack
  <2> QED
    BY <1>1, <2>1, <2>3 DEF StartCovers, RunKept
<1>6. ResultIsTrue(j)'
  BY <1>2 DEF ResultIsTrue, RunKept, OnThread, Executing
<1> QED
  BY <1>3, <1>4, <1>5, <1>6
-----------------------------------------------------------------------------
(* A job's own steps.                                                      *)

\* Spawn gives the job's run a node below the current one; the tree keeps its order
\* in this and in every other step of a job.
LEMMA SpawnGrows ==
  ASSUME IInv, NEW j \in Job, JobInTree(j), Spawn(j)
  PROVE  Grows(RunOf(j), Cur(j))
<1>1. pc[j] \in OnThread /\ Cur(j) \in Node /\ nodes[Cur(j)].depth \in Nat /\ born \in Nat
  BY DEF Spawn, IInv, TypeOK, NodeRecord, JobsHaveNode, Live, OnThread, Executing
<1>2. born + 1 \in Node
  BY <1>1, ConstantsAssumption DEF Spawn, ConstantsAssumption
<1>3. nodes[Cur(j)].depth + 1 \in Nat
  BY <1>1
<1> QED
  BY <1>1, <1>2, <1>3 DEF Spawn, Grows, JobInTree

\* What a step of a job keeps of the tree: the ids in order, the other runs, and the
\* place of every node.
LEMMA StepKeepsOrder ==
  ASSUME IInv, IdsInOrder, NEW j \in Job, JobInTree(j), JobStep(j)
  PROVE  /\ IdsInOrder'
         /\ \A r : r # RunOf(j) => RunKept(r)
         /\ ~Spawn(j) => RunKept(RunOf(j))
         /\ \A n \in Node : n <= born => /\ nodes'[n].run = nodes[n].run
                                        /\ nodes'[n].parent = nodes[n].parent
<1>0. TypeOK /\ ConstantsAssumption
  BY ConstantsAssumption DEF IInv
<1>1. CASE Spawn(j)
  <2>1. RunOf(j) \in Runs
    BY <1>1, JobNodesBorn DEF Spawn, Live, OnThread, Executing
  <2>2. Grows(RunOf(j), Cur(j))
    BY <1>1, SpawnGrows
  <2>3. IdsInOrder' /\ \A r : r # RunOf(j) => RunKept(r)
    BY <1>0, <2>1, <2>2, GrowthKeepsOrder, GrowthKeepsRun
  <2>4. \A n \in Node : n <= born => nodes'[n] = nodes[n]
    BY <1>0, <2>1, <2>2, GrowsBy DEF TypeOK
  <2> QED
    BY <1>1, <2>3, <2>4
<1>2. CASE ~Spawn(j)
  BY <1>0, <1>2, StepShape, ShapeKeepsOrder, ShapeKeepsRun DEF SameTree
<1> QED
  BY <1>1, <1>2

\* What the steps of a job write in its frame.
LEMMA FrameWrites ==
  ASSUME TypeOK, NEW j \in Job
  PROVE  /\ StartJob(j) => frame'[j].cur = jobs[j].node /\ frame'[j].todo = {}
         /\ EnterRefused(j) => frame'[j].cur = Cur(j) /\ frame'[j].res = "failed"
         /\ \A s, x : EndsAs(j, s, x) =>
              /\ frame'[j].cur = Cur(j) /\ frame'[j].goal = frame[j].goal
              /\ \/ pc'[j] = "raised" /\ UNCHANGED frame
                 \/ /\ pc'[j] = "persist" /\ frame'[j].res = x
                    /\ frame'[j].todo = frame[j].todo \ ChildrenOf(Cur(j))
         /\ CheckerBlocks(j) => frame'[j].cur = Cur(j)
         /\ BlockedBy(j) => /\ frame'[j].cur = Cur(j)
                            /\ \/ pc'[j] \in {"blk", "raised"}
                               \/ pc'[j] = "persist" /\ frame'[j].res = "blocked"
         /\ Prune(j) => frame'[j].cur = Cur(j) /\ frame'[j].todo = frame[j].todo
         /\ Spawn(j) => /\ frame'[j].cur = Cur(j)
                        /\ \/ pc'[j] = "raised" /\ UNCHANGED frame
                           \/ frame'[j].todo = frame[j].todo \union {born + 1}
         /\ \A c : NextChild(j, c) => frame'[j].cur = c /\ frame'[j].todo = frame[j].todo \ {c}
         /\ Persist(j) => /\ frame'[j].cur = Cur(j) /\ frame'[j].todo = frame[j].todo
                          /\ frame'[j].res \in {frame[j].res, "failed"}
         /\ ReturnToParent(j) =>
              LET p == nodes[Cur(j)].parent
              IN /\ frame'[j].cur = p /\ frame'[j].res = frame[j].res
                 /\ \/ frame[j].res = "completed" /\ frame'[j].todo = frame[j].todo
                    \/ frame[j].res # "completed"
         /\ ReturnToOrchestrator(j) => /\ frame'[j].cur = Cur(j)
                                       /\ frame'[j].goal = GoalOf(frame[j].res)
         /\ Aggregate(j) => /\ frame'[j].cur = Cur(j)
                            /\ frame'[j].goal = AggregateRunStatus(RunOf(j))
<1>0. frame \in [Job -> Frame] /\ pc \in [Job -> PC]
  BY DEF TypeOK
<1>1. StartJob(j) => frame'[j].cur = jobs[j].node /\ frame'[j].todo = {}
  BY <1>0 DEF StartJob, NoFrame, Frame
<1>2. EnterRefused(j) => frame'[j].cur = Cur(j) /\ frame'[j].res = "failed"
  BY <1>0 DEF EnterRefused, Frame
<1>3. ASSUME NEW s, NEW x, EndsAs(j, s, x)
      PROVE  /\ frame'[j].cur = Cur(j) /\ frame'[j].goal = frame[j].goal
             /\ \/ pc'[j] = "raised" /\ UNCHANGED frame
                \/ /\ pc'[j] = "persist" /\ frame'[j].res = x
                   /\ frame'[j].todo = frame[j].todo \ ChildrenOf(Cur(j))
  <2>1. CASE pc' = [pc EXCEPT ![j] = "raised"] /\ UNCHANGED frame
    BY <1>0, <2>1
  <2>2. CASE /\ pc' = [pc EXCEPT ![j] = "persist"]
             /\ frame' = [frame EXCEPT ![j].res = x, ![j].todo = @ \ ChildrenOf(Cur(j))]
    <3>1. pc'[j] = "persist" /\ frame'[j].res = x
      BY <1>0, <2>2 DEF Frame
    <3>2. frame'[j].todo = frame[j].todo \ ChildrenOf(Cur(j))
      BY <1>0, <2>2 DEF Frame
    <3>3. frame'[j].cur = Cur(j) /\ frame'[j].goal = frame[j].goal
      BY <1>0, <2>2 DEF Frame
    <3> QED
      BY <3>1, <3>2, <3>3
  <2> QED
    BY <1>3, <2>1, <2>2 DEF EndsAs
<1>4. CheckerBlocks(j) => frame'[j].cur = Cur(j)
  BY <1>0 DEF CheckerBlocks, Frame
<1>5. ASSUME BlockedBy(j)
      PROVE  /\ frame'[j].cur = Cur(j)
             /\ \/ pc'[j] \in {"blk", "raised"}
                \/ pc'[j] = "persist" /\ frame'[j].res = "blocked"
  <2>1. CASE pc' = [pc EXCEPT ![j] = "raised"] /\ UNCHANGED frame
    BY <1>0, <2>1
  <2>2. CASE pc' = [pc EXCEPT ![j] = "blk"] /\ frame' = [frame EXCEPT ![j].again = FALSE]
    BY <1>0, <2>2 DEF Frame
  <2>3. CASE pc' = [pc EXCEPT ![j] = "persist"] /\ frame' = [frame EXCEPT ![j].res = "blocked"]
    <3>1. pc'[j] = "persist"
      BY <1>0, <2>3
    <3>2. frame'[j].cur = Cur(j) /\ frame'[j].res = "blocked"
      BY <1>0, <2>3 DEF Frame
    <3> QED
      BY <3>1, <3>2
  <2> QED
    BY <1>5, <2>1, <2>2, <2>3 DEF BlockedBy, BlockedBefore
<1>6. Prune(j) => frame'[j].cur = Cur(j) /\ frame'[j].todo = frame[j].todo
  BY <1>0 DEF Prune, Frame
<1>7. ASSUME Spawn(j)
      PROVE  /\ frame'[j].cur = Cur(j)
             /\ \/ pc'[j] = "raised" /\ UNCHANGED frame
                \/ frame'[j].todo = frame[j].todo \union {born + 1}
  <2>1. CASE pc' = [pc EXCEPT ![j] = "raised"] /\ UNCHANGED frame
    BY <1>0, <2>1
  <2>2. CASE frame' = [frame EXCEPT ![j].left = @ - 1, ![j].todo = @ \union {born + 1}]
    BY <1>0, <2>2 DEF Frame
  <2> QED
    BY <1>7, <2>1, <2>2 DEF Spawn
<1>8. ASSUME NEW c, NextChild(j, c)
      PROVE  frame'[j].cur = c /\ frame'[j].todo = frame[j].todo \ {c}
  BY <1>0, <1>8 DEF NextChild, Frame
<1>9. ASSUME Persist(j)
      PROVE  /\ frame'[j].cur = Cur(j) /\ frame'[j].todo = frame[j].todo
             /\ frame'[j].res \in {frame[j].res, "failed"}
  <2>1. CASE UNCHANGED frame
    BY <2>1
  <2>2. ASSUME NEW x, frame' = [frame EXCEPT ![j].res = x], x \in {frame[j].res, "failed"}
        PROVE  /\ frame'[j].cur = Cur(j) /\ frame'[j].todo = frame[j].todo
               /\ frame'[j].res \in {frame[j].res, "failed"}
    BY <1>0, <2>2 DEF Frame
  <2> QED
    BY <1>9, <2>1, <2>2 DEF Persist
<1>10. ASSUME ReturnToParent(j)
       PROVE  LET p == nodes[Cur(j)].parent
              IN /\ frame'[j].cur = p /\ frame'[j].res = frame[j].res
                 /\ \/ frame[j].res = "completed" /\ frame'[j].todo = frame[j].todo
                    \/ frame[j].res # "completed"
  <2> DEFINE p == nodes[Cur(j)].parent
  <2>1. \/ frame[j].res = "completed" /\ frame' = [frame EXCEPT ![j].cur = p]
        \/ /\ frame[j].res # "completed"
           /\ frame' = [frame EXCEPT ![j].cur = p, ![j].todo = @ \ ChildrenOf(p)]
    BY <1>10 DEF ReturnToParent
  <2> HIDE DEF p
  <2>2. frame'[j].cur = p /\ frame'[j].res = frame[j].res
    <3>1. CASE frame' = [frame EXCEPT ![j].cur = p]
      BY <1>0, <3>1 DEF Frame
    <3>2. CASE frame' = [frame EXCEPT ![j].cur = p, ![j].todo = @ \ ChildrenOf(p)]
      BY <1>0, <3>2 DEF Frame
    <3> QED
      BY <2>1, <3>1, <3>2
  <2>3. \/ frame[j].res = "completed" /\ frame'[j].todo = frame[j].todo
        \/ frame[j].res # "completed"
    BY <1>0, <2>1 DEF Frame
  <2> QED
    BY <2>2, <2>3 DEF p
<1>11. ReturnToOrchestrator(j) => /\ frame'[j].cur = Cur(j)
                                  /\ frame'[j].goal = GoalOf(frame[j].res)
  BY <1>0 DEF ReturnToOrchestrator, Frame
<1>12. Aggregate(j) => /\ frame'[j].cur = Cur(j)
                       /\ frame'[j].goal = AggregateRunStatus(RunOf(j))
  BY <1>0 DEF Aggregate, Frame
<1> QED
  BY <1>1, <1>2, <1>3, <1>4, <1>5, <1>6, <1>7, <1>8, <1>9, <1>10, <1>11, <1>12

\* A round of blocking that ends without an error is one of the ways it ends.
LEMMA BlocksBefore ==
  ASSUME NEW j \in Job, BlockedBefore(j)
  PROVE  BlockedBy(j)
  BY DEF BlockedBy

\* The node a job goes to: its own, the same, a child or the parent.
LEMMA StepCur ==
  ASSUME IInv, NEW j \in Job, JobStep(j)
  PROVE  \/ pc[j] = "queued" /\ frame'[j].cur = jobs[j].node
         \/ pc[j] \in OnThread /\ frame'[j].cur = Cur(j)
         \/ pc[j] \in OnThread /\ frame'[j].cur \in ChildrenOf(Cur(j))
         \/ /\ pc[j] \in OnThread
            /\ frame'[j].cur = nodes[Cur(j)].parent /\ nodes[Cur(j)].parent # NoNode
         \/ pc'[j] = "done"
<1> USE DEF OnThread, Executing
<1>0. TypeOK /\ pc \in [Job -> PC]
  BY DEF IInv, TypeOK
<1>1. CASE StartJob(j)
  BY <1>0, <1>1, FrameWrites DEF StartJob
<1>2. CASE MarkRunRunning(j) \/ MarkRunRunningWrite(j) \/ EnterRaises(j) \/ Enter(j)
           \/ ServiceRaises(j) \/ SpawnRaises(j) \/ MarkBlockedRaises(j)
           \/ MarkBlockedFail(j) \/ Finalize(j) \/ Raised(j) \/ ClearRun(j)
  BY <1>0, <1>2 DEF MarkRunRunning, MarkRunRunningWrite, EnterRaises, Enter, ServiceRaises,
     InService, SpawnRaises, MarkBlockedRaises, MarkBlockedFail, Finalize, Raised, ClearRun
<1>3. CASE EnterRefused(j) \/ CheckerBlocks(j) \/ Prune(j) \/ Spawn(j)
  <2>1. pc[j] \in OnThread
    BY <1>3 DEF EnterRefused, CheckerBlocks, InService, Prune, Spawn
  <2> QED
    BY <1>0, <1>3, <2>1, FrameWrites
<1>4. CASE BaseCaseFails(j) \/ BaseCaseCompletes(j) \/ Unresolved(j) \/ MergeCompletes(j)
  <2>1. PICK s, x : EndsAs(j, s, x)
    BY <1>4 DEF BaseCaseFails, BaseCaseCompletes, Unresolved, MergeCompletes
  <2>2. pc[j] \in OnThread
    BY <1>4 DEF BaseCaseFails, BaseCaseCompletes, Unresolved, MergeCompletes
  <2> QED
    BY <1>0, <2>1, <2>2, FrameWrites
<1>5. CASE \E n \in Node : NextChild(j, n)
  <2>1. PICK n \in Node : NextChild(j, n)
    BY <1>5
  <2>2. pc[j] \in OnThread /\ n \in ChildrenOf(Cur(j))
    BY <2>1 DEF NextChild, Pending
  <2> QED
    BY <1>0, <2>1, <2>2, FrameWrites
<1>6. CASE MarkBlocked(j) \/ MarkBlockedEnd(j)
  <2>1. pc[j] \in OnThread
    BY <1>6 DEF MarkBlocked, MarkBlockedEnd
  <2>2. UNCHANGED frame \/ BlockedBy(j)
    BY <1>6, BlocksBefore DEF MarkBlocked, MarkBlockedEnd
  <2> QED
    BY <1>0, <2>1, <2>2, FrameWrites
<1>7. CASE Persist(j) \/ ReturnToOrchestrator(j) \/ Aggregate(j)
  <2>1. pc[j] \in OnThread
    BY <1>7 DEF Persist, ReturnToOrchestrator, Aggregate
  <2> QED
    BY <1>0, <1>7, <2>1, FrameWrites
<1>8. CASE ReturnToParent(j)
  <2>1. pc[j] \in OnThread /\ nodes[Cur(j)].parent # NoNode
    BY <1>8 DEF ReturnToParent
  <2> QED
    BY <1>0, <1>8, <2>1, FrameWrites
<1>9. CASE Discard(j)
  BY <1>0, <1>9 DEF Discard
<1> QED
  BY <1>1, <1>2, <1>3, <1>4, <1>5, <1>6, <1>7, <1>8, <1>9 DEF JobStep

\* Wherever it goes, it stays in its run.
LEMMA StepInTree ==
  ASSUME IInv, IdsInOrder, NEW j \in Job, JobInTree(j), JobStep(j)
  PROVE  JobInTree(j)'
<1>1. /\ pc[j] \in Live => RunOf(j) \in Runs /\ jobs[j].node \in Node /\ jobs[j].node <= born
      /\ pc[j] \in OnThread => Cur(j) \in Node /\ Cur(j) <= born
  BY JobNodesBorn
<1>2. /\ \A n \in Node : n <= born => nodes'[n].run = nodes[n].run
      /\ IdsInOrder'
  BY StepKeepsOrder
<1>3. pc[j] \in Live /\ jobs'[j] = jobs[j]
  BY StepMoves DEF IInv, Moves, Discard, poolVars, Live, OnThread, Executing
<1>4. jobs'[j].node = jobs[j].node /\ nodes'[jobs'[j].node].run = jobs'[j].run
  BY <1>1, <1>2, <1>3 DEF JobInTree
<1>5. SUFFICES ASSUME pc'[j] \in OnThread
               PROVE  nodes'[frame'[j].cur].run = RunOf(j)
  BY <1>3, <1>4 DEF JobInTree
<1>6. CASE pc[j] = "queued" /\ frame'[j].cur = jobs[j].node
  BY <1>3, <1>4, <1>6
<1>7. CASE pc[j] \in OnThread
  <2>1. Cur(j) \in Node /\ Cur(j) <= born /\ nodes[Cur(j)].run = RunOf(j) /\ RunOf(j) \in Runs
    BY <1>1, <1>3, <1>7 DEF JobInTree
  <2>9. born \in Nat /\ MaxNodes \in Nat /\ NoNode \notin Node
    BY ConstantsAssumption DEF IInv, TypeOK, ConstantsAssumption
  <2>2. CASE frame'[j].cur = Cur(j)
    BY <1>2, <2>1, <2>2
  <2>3. CASE frame'[j].cur \in ChildrenOf(Cur(j))
    <3>1. frame'[j].cur \in Node /\ nodes[frame'[j].cur].parent = Cur(j)
      BY <2>3 DEF ChildrenOf
    <3>2. frame'[j].cur <= born /\ nodes[frame'[j].cur].run = RunOf(j)
      BY <2>1, <3>1, <2>9 DEF IdsInOrder, Unused
    <3> QED
      BY <1>2, <3>1, <3>2
  <2>4. CASE frame'[j].cur = nodes[Cur(j)].parent /\ nodes[Cur(j)].parent # NoNode
    <3>1. nodes[Cur(j)].parent \in Node /\ nodes[Cur(j)].parent <= born
      BY <2>1, <2>4, ConstantsAssumption
      DEF IdsInOrder, IInv, TypeOK, NodeRecord, ConstantsAssumption
    <3> QED
      BY <1>2, <2>1, <2>4, <3>1 DEF IdsInOrder
  <2> QED
    BY <1>5, <1>7, <2>2, <2>3, <2>4, StepCur DEF OnThread, Executing
<1> QED
  BY <1>5, <1>6, <1>7, StepCur DEF OnThread, Executing

\* A job that raises has had its run running, unless it never got that far.
LEMMA StepRaises ==
  ASSUME IInv, RunsCreated, NEW j \in Job, RaisedHasRun(j), JobStep(j)
  PROVE  RaisedHasRun(j)'
<1>0. TypeOK
  BY DEF IInv
<1>1. /\ pc \in [Job -> PC] /\ (pc[j] \in Live => RunOf(j) \in active /\ RunOf(j) \in Runs)
      /\ pc[j] \in Executing => runStatus[RunOf(j)] = "running"
      /\ runStatus \in [Runs -> RunStatus \union {"none"}]
      /\ jobs'[j] = jobs[j]
  BY StepMoves DEF IInv, TypeOK, OneWorkerPerRun, ClaimIsHeld, WorkerSeesRunning, Moves,
     Discard, poolVars
<1>2. CASE MarkRunRunningWrite(j)
  <2>1. runStatus[RunOf(j)] \in RunStatus
    BY <1>1, <1>2 DEF MarkRunRunningWrite, RunsCreated, Live, OnThread
  <2>2. CASE RunCan(RunOf(j), "running")
    <3>1. runStatus' = [runStatus EXCEPT ![RunOf(j)] = "running"] /\ pc[j] = "markWrite"
      BY <1>2, <2>2 DEF MarkRunRunningWrite, SetRun
    <3>2. runStatus'[RunOf(j)] = "running"
      BY <1>1, <3>1 DEF Live, OnThread
    <3> QED
      BY <1>1, <3>2 DEF RaisedHasRun
  <2>3. CASE ~RunCan(RunOf(j), "running")
    <3>1. UNCHANGED runStatus /\ runStatus[RunOf(j)] \notin {"queued", "blocked_human"}
      BY <1>2, <2>3, RunTransitions DEF MarkRunRunningWrite
    <3> QED
      BY <1>1, <2>1, <3>1 DEF RaisedHasRun, RunStatus
  <2> QED
    BY <1>1, <2>1, <2>2, <2>3 DEF RaisedHasRun
<1>3. CASE Finalize(j)
  <2>1. runStatus[RunOf(j)] = "running"
    BY <1>1, <1>3 DEF Finalize, Executing
  <2>2. /\ RunOf(j) \in Runs
        /\ \/ UNCHANGED runStatus
           \/ RunCan(RunOf(j), frame[j].goal) /\ SetRun(RunOf(j), frame[j].goal)
    BY <1>1, <1>3 DEF Finalize, Live, OnThread, Executing
  <2>3. runStatus'[RunOf(j)] \notin {"none", "queued"}
    BY <1>1, <2>1, <2>2, RunTransitions DEF SetRun
  <2> QED
    BY <1>1, <2>3 DEF RaisedHasRun
<1>4. CASE Raised(j) \/ StartJob(j) \/ MarkRunRunning(j) \/ ClearRun(j) \/ Discard(j)
  BY <1>1, <1>4 DEF Raised, StartJob, MarkRunRunning, ClearRun, Discard, RaisedHasRun
<1>5. CASE EnterRefused(j) \/ EnterRaises(j) \/ Enter(j)
           \/ ServiceRaises(j) \/ CheckerBlocks(j) \/ SpawnRaises(j) \/ BaseCaseFails(j)
           \/ BaseCaseCompletes(j) \/ Unresolved(j) \/ MergeCompletes(j) \/ Prune(j) \/ Spawn(j)
           \/ (\E n \in Node : NextChild(j, n))
  <2>1. UNCHANGED runStatus /\ pc[j] \in Executing
    BY <1>5 DEF EnterRefused, EnterRaises, Enter, ServiceRaises, InService,
       CheckerBlocks, SpawnRaises, BaseCaseFails, BaseCaseCompletes, Unresolved, MergeCompletes,
       Prune, Spawn, NextChild, storeVars, Executing
  <2> QED
    BY <1>1, <2>1 DEF RaisedHasRun
<1>6. CASE MarkBlocked(j) \/ MarkBlockedRaises(j) \/ MarkBlockedFail(j) \/ MarkBlockedEnd(j)
           \/ Persist(j) \/ ReturnToParent(j) \/ ReturnToOrchestrator(j) \/ Aggregate(j)
  <2>1. UNCHANGED runStatus /\ pc[j] \in Executing
    BY <1>6 DEF MarkBlocked, MarkBlockedRaises, MarkBlockedFail, MarkBlockedEnd, Persist,
       ReturnToParent, ReturnToOrchestrator, Aggregate, storeVars, Executing
  <2> QED
    BY <1>1, <2>1 DEF RaisedHasRun
<1> QED
  BY <1>2, <1>3, <1>4, <1>5, <1>6 DEF JobStep

\* A job reports the result of its call, or the aggregate of its run.
LEMMA StepReports ==
  ASSUME IInv, NEW j \in Job, GoalIsReported(j), JobStep(j)
  PROVE  GoalIsReported(j)'
<1>0. TypeOK /\ frame \in [Job -> Frame]
  BY DEF IInv, TypeOK
<1>1. SUFFICES frame'[j].goal = frame[j].goal
               \/ frame'[j].goal \in {"none", "completed", "blocked_human", "failed", "running"}
  BY DEF GoalIsReported
<1>2. CASE MarkRunRunning(j) \/ MarkRunRunningWrite(j) \/ EnterRaises(j) \/ Enter(j)
           \/ ServiceRaises(j) \/ SpawnRaises(j) \/ MarkBlockedRaises(j)
           \/ MarkBlockedFail(j) \/ Finalize(j) \/ Raised(j) \/ ClearRun(j)
  BY <1>2 DEF MarkRunRunning, MarkRunRunningWrite, EnterRaises, Enter, ServiceRaises,
     SpawnRaises, MarkBlockedRaises, MarkBlockedFail, Finalize, Raised, ClearRun
<1>3. CASE StartJob(j) \/ Discard(j)
  <2>1. CASE StartJob(j)
    BY <1>0, <2>1 DEF StartJob, NoFrame
  <2>2. CASE Discard(j)
    BY <1>0, <2>2 DEF Discard, NoFrame
  <2> QED
    BY <1>3, <2>1, <2>2
<1>4. CASE EnterRefused(j) \/ CheckerBlocks(j) \/ Prune(j) \/ Spawn(j) \/ Persist(j)
  <2>1. frame'[j].goal = frame[j].goal
    <3>1. CASE EnterRefused(j) \/ CheckerBlocks(j)
      BY <1>0, <3>1 DEF EnterRefused, CheckerBlocks, Frame
    <3>2. CASE Prune(j)
      BY <1>0, <3>2 DEF Prune, Frame
    <3>3. CASE Spawn(j)
      BY <1>0, <3>3 DEF Spawn, Frame
    <3>4. CASE Persist(j)
      BY <1>0, <3>4 DEF Persist, Frame
    <3> QED
      BY <1>4, <3>1, <3>2, <3>3, <3>4
  <2> QED
    BY <2>1
<1>5. CASE BaseCaseFails(j) \/ BaseCaseCompletes(j) \/ Unresolved(j) \/ MergeCompletes(j)
  BY <1>0, <1>5, FrameWrites DEF BaseCaseFails, BaseCaseCompletes, Unresolved, MergeCompletes
<1>6. CASE (\E n \in Node : NextChild(j, n)) \/ ReturnToParent(j)
  <2>1. CASE \E n \in Node : NextChild(j, n)
    BY <1>0, <2>1 DEF NextChild, Frame
  <2>2. CASE ReturnToParent(j)
    <3> DEFINE p == nodes[Cur(j)].parent
    <3>1. \/ frame' = [frame EXCEPT ![j].cur = p]
          \/ frame' = [frame EXCEPT ![j].cur = p, ![j].todo = @ \ ChildrenOf(p)]
      BY <2>2 DEF ReturnToParent
    <3> HIDE DEF p
    <3>2. frame'[j].goal = frame[j].goal
      BY <1>0, <3>1 DEF Frame
    <3> QED
      BY <3>2
  <2> QED
    BY <1>6, <2>1, <2>2
<1>7. CASE MarkBlocked(j) \/ MarkBlockedEnd(j)
  <2>1. frame'[j].goal = frame[j].goal
    BY <1>0, <1>7 DEF MarkBlocked, MarkBlockedEnd, BlockedBy, BlockedBefore, Frame
  <2> QED
    BY <2>1
<1>8. CASE ReturnToOrchestrator(j)
  BY <1>0, <1>8, FrameWrites DEF GoalOf
<1>9. CASE Aggregate(j)
  BY <1>0, <1>9, FrameWrites DEF AggregateRunStatus
<1> QED
  BY <1>2, <1>3, <1>4, <1>5, <1>6, <1>7, <1>8, <1>9 DEF JobStep

\* When the outermost call of a new run returns, nothing else is left to do.
LEMMA LastReturn ==
  ASSUME IInv, IdsInOrder, NEW j \in Job, Covered(j), Cur(j) \in Node,
         pc[j] \notin {"spawn", "loop"}, Cur(j) = jobs[j].node, nodes[Cur(j)].parent = NoNode
  PROVE  Uncompleted(RunOf(j)) \subseteq {Cur(j)}
<1>1. PICK S \in SUBSET Node :
        /\ IsStack(S, j)
        /\ \A c \in frame[j].todo : nodes[c].parent \in S /\ nodes[c].parent # Cur(j)
        /\ Uncompleted(RunOf(j)) \subseteq S \union frame[j].todo
  BY DEF Covered
<1>2. MaxNodes \in Nat
  BY ConstantsAssumption DEF ConstantsAssumption
<1>3. \A n \in S : n = Cur(j)
  BY <1>1, <1>2 DEF IsStack
<1> QED
  BY <1>1, <1>3

\* An aggregate is completed only when every node of the run is.
LEMMA AggregateIsTrue ==
  ASSUME NEW r, AggregateRunStatus(r) = "completed"
  PROVE  Uncompleted(r) = {}
<1> DEFINE statuses == {nodes[n].status : n \in {m \in Node : nodes[m].run = r /\ Present(m)}}
<1>1. statuses \subseteq {"completed"}
  <2>1. SUFFICES ASSUME ~(statuses \subseteq {"completed"}) PROVE FALSE
    OBVIOUS
  <2>2. AggregateRunStatus(r) \in {"blocked_human", "running"}
    BY <2>1 DEF AggregateRunStatus
  <2> QED
    BY <2>2
<1> QED
  BY <1>1 DEF Uncompleted, NodesOf

\* What a job reports as completed is: it has just completed the node, or all of the
\* nodes of its run are.
LEMMA StepReportsTruth ==
  ASSUME IInv, IdsInOrder, NEW j \in Job, JobOK(j), JobStep(j)
  PROVE  ResultIsTrue(j)'
<1> USE DEF JobOK
<1>0. /\ TypeOK /\ pc \in [Job -> PC] /\ jobs'[j] = jobs[j] /\ pc[j] \in Live
      /\ nodes \in [Node -> NodeRecord]
  BY StepMoves DEF IInv, TypeOK, Moves, Discard, poolVars, Live, OnThread, Executing
<1>1. /\ RunOf(j) \in Runs
      /\ pc[j] \in OnThread => Cur(j) \in Node /\ Cur(j) <= born
  BY <1>0, JobNodesBorn
<1>2. CASE pc'[j] \notin {"persist", "pop", "finalize"}
  BY <1>2 DEF ResultIsTrue
<1>3. CASE pc'[j] \in {"persist", "pop"} /\ frame'[j].res # "completed"
  BY <1>3 DEF ResultIsTrue
<1>4. CASE BaseCaseCompletes(j) \/ MergeCompletes(j)
  <2>1. CASE pc'[j] = "raised"
    BY <2>1, <1>2
  <2>2. CASE pc'[j] # "raised"
    <3>0. EndsAs(j, "completed", "completed") /\ Cur(j) \in Node
      BY <1>1, <1>4 DEF BaseCaseCompletes, MergeCompletes, OnThread, Executing
    <3>1. frame'[j].cur = Cur(j) /\ pc'[j] = "persist"
      BY <1>0, <2>2, <3>0, FrameWrites
    <3>2. SetNode(Cur(j), "completed") /\ Cur(j) \in Node /\ pc'[j] = "persist"
      BY <1>0, <2>2, <3>0, <3>1 DEF EndsAs
    <3>3. nodes'[Cur(j)].status = "completed"
      BY <1>0, <3>2 DEF SetNode, NodeRecord
    <3> QED
      BY <3>1, <3>2, <3>3 DEF ResultIsTrue, Uncompleted
  <2> QED
    BY <2>1, <2>2
<1>5. CASE Persist(j)
  <2>1. frame'[j].cur = Cur(j) /\ frame'[j].res \in {frame[j].res, "failed"}
    BY <1>0, <1>5, FrameWrites
  <2>2. pc[j] = "persist" /\ pc'[j] \in {"pop", "raised"} /\ UNCHANGED nodes
    BY <1>0, <1>5 DEF Persist
  <2>3. Uncompleted(RunOf(j))' = Uncompleted(RunOf(j))
    BY <1>0, <2>2 DEF Uncompleted, NodesOf, Present
  <2> QED
    BY <1>0, <2>1, <2>2, <2>3 DEF ResultIsTrue
<1>6. CASE ReturnToOrchestrator(j)
  <2>1. /\ pc[j] = "pop" /\ Cur(j) = jobs[j].node /\ UNCHANGED nodes
        /\ pc'[j] = IF jobs[j].kind = "resume" /\ frame[j].res = "completed"
                    THEN "aggregate" ELSE "finalize"
    BY <1>0, <1>6 DEF ReturnToOrchestrator, storeVars
  <2>2. frame'[j].goal = GoalOf(frame[j].res)
    BY <1>0, <1>6, FrameWrites
  <2>3. frame'[j].goal = "completed" => frame[j].res = "completed"
    BY <2>2 DEF GoalOf
  <2>4. SUFFICES ASSUME frame[j].res = "completed", jobs[j].kind # "resume"
                 PROVE  Uncompleted(RunOf(j))' = {}
    BY <1>0, <2>1, <2>3 DEF ResultIsTrue
  <2>5. Covered(j) /\ nodes[Cur(j)].parent = NoNode /\ Cur(j) \in Node
    BY <1>0, <1>1, <2>1, <2>4 DEF StartCovers, Succeeding, OnThread, Executing
  <2>6. Uncompleted(RunOf(j)) = {}
    BY <2>1, <2>4, <2>5, LastReturn DEF ResultIsTrue
  <2> QED
    BY <1>0, <2>1, <2>6 DEF Uncompleted, NodesOf, Present
<1>7. CASE Aggregate(j)
  <2>1. pc'[j] = "finalize" /\ UNCHANGED nodes /\ frame'[j].goal = AggregateRunStatus(RunOf(j))
    BY <1>0, <1>7, FrameWrites DEF Aggregate, storeVars
  <2>2. Uncompleted(RunOf(j))' = Uncompleted(RunOf(j))
    BY <1>0, <2>1 DEF Uncompleted, NodesOf, Present
  <2> QED
    BY <1>0, <2>1, <2>2, AggregateIsTrue DEF ResultIsTrue
<1>8. CASE BaseCaseFails(j) \/ Unresolved(j)
  BY <1>0, <1>2, <1>3, <1>8, FrameWrites DEF BaseCaseFails, Unresolved
<1>9. CASE MarkBlocked(j) \/ MarkBlockedEnd(j)
  <2>1. BlockedBy(j) \/ pc'[j] \in {"blkFail", "blkEnd", "raised"}
    BY <1>0, <1>9, BlocksBefore DEF MarkBlocked, MarkBlockedEnd
  <2> QED
    BY <1>0, <1>2, <1>3, <2>1, FrameWrites
<1>10. CASE EnterRefused(j)
  BY <1>0, <1>3, <1>10, FrameWrites DEF EnterRefused
<1>11. CASE ReturnToParent(j)
  <2>1. frame'[j].res = frame[j].res
    BY <1>0, <1>11, FrameWrites
  <2> QED
    BY <1>0, <1>2, <1>3, <1>11, <2>1 DEF ReturnToParent
<1>12. CASE StartJob(j) \/ MarkRunRunning(j) \/ MarkRunRunningWrite(j) \/ EnterRaises(j)
            \/ Enter(j) \/ ServiceRaises(j) \/ CheckerBlocks(j) \/ Prune(j) \/ Spawn(j)
            \/ SpawnRaises(j) \/ (\E n \in Node : NextChild(j, n))
  BY <1>0, <1>2, <1>12 DEF StartJob, MarkRunRunning, MarkRunRunningWrite, EnterRaises, Enter,
     ServiceRaises, CheckerBlocks, Prune, Spawn, SpawnRaises, NextChild
<1>13. CASE MarkBlockedRaises(j) \/ MarkBlockedFail(j) \/ Finalize(j) \/ Raised(j)
            \/ ClearRun(j) \/ Discard(j)
  BY <1>0, <1>2, <1>13 DEF MarkBlockedRaises, MarkBlockedFail, Finalize, Raised, ClearRun,
     Discard
<1> QED
  BY <1>4, <1>5, <1>6, <1>7, <1>8, <1>9, <1>10, <1>11, <1>12, <1>13 DEF JobStep

\* A new job has nothing but its root on the stack.
LEMMA StartIsCovered ==
  ASSUME IInv, IdsInOrder, NEW j \in Job, JobInTree(j), StartJob(j),
         NodesOf(RunOf(j)) \subseteq {jobs[j].node}
  PROVE  Covered(j)'
<1>1. /\ frame'[j].cur = jobs[j].node /\ frame'[j].todo = {}
      /\ UNCHANGED <<nodes, jobs>>
      /\ jobs[j].node \in Node /\ MaxNodes \in Nat
  BY FrameWrites, ConstantsAssumption
  DEF StartJob, storeVars, poolVars, IInv, JobsHaveNode, Live, ConstantsAssumption
<1> DEFINE S == {jobs[j].node}
<1>2. IsStack(S, j)'
  BY <1>1 DEF IsStack
<1>3. Uncompleted(RunOf(j))' \subseteq S
  BY <1>1 DEF Uncompleted, NodesOf, Present
<1> QED
  BY <1>1, <1>2, <1>3 DEF Covered

\* A child that is created joins those still to be executed.
LEMMA SpawnIsCovered ==
  ASSUME IInv, IdsInOrder, NEW j \in Job, JobInTree(j), Covered(j), Spawn(j),
         pc'[j] # "raised"
  PROVE  Covered(j)'
<1>0. /\ pc[j] = "spawn" /\ pc'[j] \in {"spawn", "loop"}
      /\ jobs'[j] = jobs[j]
      /\ frame'[j].cur = Cur(j) /\ frame'[j].todo = frame[j].todo \union {born + 1}
  <2>1. frame'[j].cur = Cur(j) /\ frame'[j].todo = frame[j].todo \union {born + 1}
    BY FrameWrites DEF IInv
  <2>2. pc[j] = "spawn" /\ pc'[j] \in {"spawn", "loop"} /\ jobs'[j] = jobs[j]
    BY DEF Spawn, IInv, TypeOK, poolVars
  <2> QED
    BY <2>1, <2>2
<1>1. /\ Cur(j) \in Node /\ Cur(j) <= born /\ RunOf(j) \in Runs
      /\ born \in Nat /\ MaxNodes \in Nat /\ born + 1 \in Node /\ frame[j].todo \subseteq Node
  <2>1. Cur(j) \in Node /\ Cur(j) <= born /\ RunOf(j) \in Runs
    BY <1>0, JobNodesBorn DEF Live, OnThread, Executing
  <2>2. born \in Nat /\ MaxNodes \in Nat /\ born < MaxNodes
    BY ConstantsAssumption DEF Spawn, IInv, TypeOK, ConstantsAssumption
  <2>3. frame[j].todo \subseteq Node
    BY DEF IInv, TypeOK, Frame
  <2> QED
    BY <2>1, <2>2, <2>3
<1>2. /\ \A n \in Node : n # born + 1 => nodes'[n] = nodes[n]
      /\ nodes'[born + 1].parent = Cur(j)
  BY <1>1, SpawnGrows, GrowsBy, ConstantsAssumption DEF IInv
<1>3. PICK S \in SUBSET Node :
        /\ IsStack(S, j)
        /\ \A c \in frame[j].todo : nodes[c].parent \in S
        /\ Uncompleted(RunOf(j)) \subseteq S \union frame[j].todo
  BY DEF Covered
<1>4. \A n \in S : n <= born /\ nodes'[n] = nodes[n]
  BY <1>1, <1>2, <1>3 DEF IsStack
<1>5. \A c \in frame[j].todo : nodes'[c] = nodes[c]
  BY <1>1, <1>2, <1>3 DEF IdsInOrder, Unused
<1>6. IsStack(S, j)'
  BY <1>0, <1>3, <1>4 DEF IsStack
<1>7. Uncompleted(RunOf(j))' \subseteq Uncompleted(RunOf(j)) \union {born + 1}
  BY <1>0, <1>1, <1>2 DEF Uncompleted, NodesOf, Present
<1>8. \A c \in frame'[j].todo : nodes'[c].parent \in S
  BY <1>0, <1>2, <1>3, <1>5 DEF IsStack
<1> QED
  BY <1>0, <1>3, <1>6, <1>7, <1>8 DEF Covered

\* A child that is executed goes onto the stack.
LEMMA ChildIsCovered ==
  ASSUME IInv, IdsInOrder, NEW j \in Job, Covered(j), NEW c \in Node, NextChild(j, c)
  PROVE  Covered(j)'
<1>1. /\ UNCHANGED <<nodes, jobs>>
      /\ frame'[j].cur = c /\ frame'[j].todo = frame[j].todo \ {c}
      /\ nodes[c].parent = Cur(j) /\ Cur(j) < c /\ MaxNodes \in Nat
      /\ pc[j] = "loop" /\ pc'[j] = "enter"
  <2>1. frame'[j].cur = c /\ frame'[j].todo = frame[j].todo \ {c}
    BY FrameWrites DEF IInv
  <2>2. /\ UNCHANGED <<nodes, jobs>> /\ nodes[c].parent = Cur(j)
        /\ pc[j] = "loop" /\ pc' = [pc EXCEPT ![j] = "enter"]
    BY DEF NextChild, Pending, ChildrenOf, storeVars, poolVars
  <2>3. Cur(j) < c /\ MaxNodes \in Nat /\ pc'[j] = "enter"
    BY <2>2, ConstantsAssumption DEF IdsInOrder, ConstantsAssumption, IInv, TypeOK
  <2> QED
    BY <2>1, <2>2, <2>3
<1>2. PICK S \in SUBSET Node :
        /\ IsStack(S, j)
        /\ \A d \in frame[j].todo : nodes[d].parent \in S
        /\ Uncompleted(RunOf(j)) \subseteq S \union frame[j].todo
  BY DEF Covered
<1> DEFINE T == S \union {c}
<1>a. Cur(j) \in S /\ \A n \in S : n <= Cur(j)
  BY <1>2 DEF IsStack
<1>3. T \in SUBSET Node /\ (\A n \in S : n <= Cur(j) /\ n < c) /\ Cur(j) \in S
  <2>1. MaxNodes \in Nat
    BY <1>1
  <2>2. Cur(j) < c
    BY <1>1
  <2>3. c \in Nat /\ S \subseteq Nat
    BY <2>1
  <2>4. Cur(j) \in Nat /\ c \in Nat /\ \A n \in S : n \in Nat
    BY <2>3, <1>a
  <2>5. \A n \in S : n <= Cur(j) /\ n < c
    BY <1>a, <2>2, <2>4
  <2> QED
    BY <1>a, <2>5
<1>4. IsStack(T, j)'
  <2>1. \A n \in T : n <= c /\ (n = jobs[j].node \/ nodes[n].parent \in T)
    BY <1>1, <1>2, <1>3 DEF IsStack
  <2>2. \A m, n \in T : m < n => m <= nodes[n].parent
    BY <1>1, <1>2, <1>3 DEF IsStack
  <2> QED
    BY <1>1, <2>1, <2>2 DEF IsStack
<1>5. \A d \in frame'[j].todo : nodes'[d].parent \in T /\ nodes'[d].parent # frame'[j].cur
  BY <1>1, <1>2, <1>3
<1>6. Uncompleted(RunOf(j))' \subseteq T \union frame'[j].todo
  BY <1>1, <1>2 DEF Uncompleted, NodesOf, Present
<1> QED
  BY <1>3, <1>4, <1>5, <1>6 DEF Covered

\* A node whose call returns completed leaves the stack.
LEMMA ReturnIsCovered ==
  ASSUME IInv, IdsInOrder, NEW j \in Job, JobInTree(j), Covered(j), ResultIsTrue(j),
         ReturnToParent(j), frame[j].res = "completed"
  PROVE  Covered(j)'
<1> DEFINE p == nodes[Cur(j)].parent
<1>1. /\ UNCHANGED <<nodes, jobs>> /\ pc[j] = "pop" /\ pc'[j] = "loop"
      /\ frame'[j].cur = p /\ frame'[j].todo = frame[j].todo
      /\ Cur(j) # jobs[j].node /\ MaxNodes \in Nat
  <2>1. frame'[j].cur = p /\ frame'[j].todo = frame[j].todo
    BY FrameWrites DEF IInv
  <2>2. /\ UNCHANGED <<nodes, jobs>> /\ pc[j] = "pop" /\ pc' = [pc EXCEPT ![j] = "loop"]
        /\ Cur(j) # jobs[j].node
    BY DEF ReturnToParent, poolVars
  <2>3. pc'[j] = "loop" /\ MaxNodes \in Nat
    BY <2>2, ConstantsAssumption DEF IInv, TypeOK, ConstantsAssumption
  <2> QED
    BY <2>1, <2>2, <2>3
<1>2. PICK S \in SUBSET Node :
        /\ IsStack(S, j)
        /\ \A d \in frame[j].todo : nodes[d].parent \in S /\ nodes[d].parent # Cur(j)
        /\ Uncompleted(RunOf(j)) \subseteq S \union frame[j].todo
  BY <1>1 DEF Covered
<1>t. PICK T \in SUBSET Node : T = S \ {Cur(j)}
  BY <1>2
<1>a. Cur(j) \in S /\ nodes[Cur(j)].parent \in S /\ Cur(j) \in Node
  BY <1>1, <1>2 DEF IsStack
<1>3. p \in T /\ p < Cur(j) /\ Cur(j) \in S
  BY <1>1, <1>2, <1>a, <1>t DEF IdsInOrder
<1>b. /\ \A n \in S : n <= Cur(j) /\ (n = jobs[j].node \/ nodes[n].parent \in S)
      /\ \A m, n \in S : m < n => m <= nodes[n].parent
      /\ \A n \in S : n \in Nat /\ nodes[n].parent < n
  BY <1>1, <1>2 DEF IsStack, IdsInOrder
<1> HIDE DEF p
<1>4. ASSUME NEW n \in T
      PROVE  n \in S /\ n < Cur(j) /\ n <= p
  <2>1. n \in S /\ n # Cur(j) /\ n <= Cur(j) /\ n \in Nat /\ Cur(j) \in Nat
    BY <1>a, <1>b, <1>t
  <2>2. n < Cur(j)
    BY <2>1
  <2> QED
    BY <1>a, <1>b, <2>1, <2>2 DEF p
<1>5. ASSUME NEW n \in T
      PROVE  n = jobs[j].node \/ nodes[n].parent \in T
  <2>1. n \in S /\ n \in Nat /\ nodes[n].parent < n /\ n < Cur(j) /\ Cur(j) \in Nat
    BY <1>a, <1>b, <1>4, <1>t
  <2>2. ASSUME nodes[n].parent \in S
        PROVE  nodes[n].parent # Cur(j)
    BY <1>b, <2>1, <2>2, <1>t
  <2> QED
    BY <1>b, <2>1, <2>2, <1>t
<1>6. \A m, n \in T : m < n => m <= nodes[n].parent
  BY <1>b, <1>4
<1>7. IsStack(T, j)'
  <2>1. \A n \in T : n <= p
    BY <1>4
  <2> QED
    BY <1>1, <1>3, <2>1, <1>5, <1>6 DEF IsStack
<1>8. Uncompleted(RunOf(j))' \subseteq T \union frame[j].todo
  BY <1>1, <1>2, <1>t DEF Uncompleted, NodesOf, Present, ResultIsTrue
<1>9. /\ T \in SUBSET Node
      /\ \A d \in frame'[j].todo : nodes'[d].parent \in T
      /\ pc'[j] \in {"spawn", "loop"} /\ frame'[j].todo = frame[j].todo /\ jobs'[j] = jobs[j]
  BY <1>1, <1>2, <1>t
<1> QED
  BY <1>7, <1>8, <1>9 DEF Covered

\* A job that has not failed or blocked keeps the stack on which all is done.
LEMMA StepKeepsCovered ==
  ASSUME IInv, IdsInOrder, NEW j \in Job, JobOK(j), JobStep(j), jobs[j].kind # "resume",
         Succeeding(j)'
  PROVE  Covered(j)'
<1> USE DEF JobOK
<1>0. /\ TypeOK /\ pc \in [Job -> PC] /\ jobs'[j] = jobs[j] /\ pc[j] \in Live
  BY StepMoves DEF IInv, TypeOK, Moves, Discard, poolVars, Live, OnThread, Executing
<1>1. pc[j] \in OnThread => Cur(j) \in Node /\ Cur(j) <= born
  BY JobNodesBorn
<1>2. Succeeding(j) /\ pc[j] \in OnThread => Covered(j)
  BY <1>0 DEF StartCovers
<1>3. ~Spawn(j) => RunKept(RunOf(j))
  BY StepKeepsOrder
<1>4. ASSUME Succeeding(j), pc[j] \in OnThread, ~Spawn(j), frame'[j].cur = Cur(j),
             frame'[j].todo = frame[j].todo,
             \/ pc[j] \notin {"spawn", "loop"} \/ pc'[j] \in {"spawn", "loop"}
             \/ Pending(j, Cur(j)) = {}
      PROVE  Covered(j)'
  <2>1. Covered(j) /\ frame[j].todo \subseteq Node
    BY <1>0, <1>2, <1>4 DEF TypeOK, Frame
  <2>2. pc'[j] \notin {"spawn", "loop"} => \A c \in frame[j].todo : nodes[c].parent # Cur(j)
    BY <1>4, <2>1 DEF Covered, Pending, ChildrenOf
  <2> QED
    BY <1>0, <1>1, <1>3, <1>4, <2>1, <2>2, SameStack
<1>5. CASE StartJob(j)
  BY <1>0, <1>5, StartIsCovered DEF StartCovers, StartJob
<1>6. CASE MarkRunRunning(j) \/ MarkRunRunningWrite(j) \/ Enter(j)
  <2>1. /\ pc[j] \in {"mark", "markWrite", "enter"} /\ UNCHANGED frame /\ ~Spawn(j)
    BY <1>6 DEF MarkRunRunning, MarkRunRunningWrite, Enter, Spawn
  <2> QED
    BY <1>4, <2>1 DEF Succeeding, OnThread, Executing
<1>7. CASE Prune(j)
  <2>1. pc[j] = "work" /\ ~Spawn(j) /\ frame'[j].cur = Cur(j) /\ frame'[j].todo = frame[j].todo
    BY <1>0, <1>7, FrameWrites DEF Prune, Spawn
  <2> QED
    BY <1>4, <2>1 DEF Succeeding, OnThread, Executing
<1>8. CASE Spawn(j)
  BY <1>0, <1>2, <1>8, SpawnIsCovered DEF Spawn, Succeeding, OnThread, Executing
<1>9. CASE \E n \in Node : NextChild(j, n)
  BY <1>0, <1>2, <1>9, ChildIsCovered DEF NextChild, Succeeding, OnThread, Executing
<1>10. CASE BaseCaseCompletes(j) \/ MergeCompletes(j)
  <2>1. /\ pc[j] \in {"work", "loop"} /\ ~Spawn(j)
        /\ pc[j] = "loop" => Pending(j, Cur(j)) = {}
    BY <1>10 DEF BaseCaseCompletes, MergeCompletes, Spawn
  <2>2. pc[j] = "work" => Pending(j, Cur(j)) = {}
    BY <1>2, <2>1 DEF Succeeding, OnThread, Executing, Covered, Pending, ChildrenOf
  <2>3. /\ frame'[j].cur = Cur(j) /\ pc'[j] # "raised"
        /\ frame'[j].todo = frame[j].todo \ ChildrenOf(Cur(j))
    BY <1>0, <1>10, FrameWrites DEF BaseCaseCompletes, MergeCompletes, Succeeding
  <2>4. frame'[j].todo = frame[j].todo
    BY <2>1, <2>2, <2>3 DEF Pending
  <2> QED
    BY <1>4, <2>1, <2>2, <2>3, <2>4 DEF Succeeding, OnThread, Executing
<1>11. CASE Persist(j)
  <2>1. /\ pc[j] = "persist" /\ ~Spawn(j) /\ pc'[j] \in {"pop", "raised"}
        /\ frame'[j].cur = Cur(j) /\ frame'[j].todo = frame[j].todo
        /\ frame'[j].res \in {frame[j].res, "failed"}
    BY <1>0, <1>11, FrameWrites DEF Persist, Spawn
  <2>2. frame[j].res = "completed"
    BY <2>1 DEF Succeeding
  <2> QED
    BY <1>4, <2>1, <2>2 DEF Succeeding, OnThread, Executing
<1>12. CASE ReturnToParent(j)
  <2>1. /\ pc[j] = "pop" /\ frame'[j].res = frame[j].res
        /\ frame[j].res = "completed" \/ pc'[j] \in {"blk", "persist", "raised"}
    <3>1. frame'[j].res = frame[j].res
      BY <1>0, <1>12, FrameWrites
    <3>2. pc[j] = "pop" /\ (frame[j].res = "completed" \/ pc'[j] \in {"blk", "persist", "raised"})
      BY <1>0, <1>12 DEF ReturnToParent
    <3> QED
      BY <3>1, <3>2
  <2>2. frame[j].res = "completed"
    BY <2>1 DEF Succeeding
  <2> QED
    BY <1>2, <1>12, <2>1, <2>2, ReturnIsCovered DEF Succeeding, OnThread, Executing
<1>14. CASE BaseCaseFails(j) \/ Unresolved(j)
  BY <1>0, <1>14, FrameWrites DEF BaseCaseFails, Unresolved, Succeeding
<1>15. CASE MarkBlocked(j) \/ MarkBlockedEnd(j)
  <2>1. BlockedBy(j) \/ pc'[j] \in {"blkFail", "blkEnd", "raised"}
    BY <1>0, <1>15, BlocksBefore DEF MarkBlocked, MarkBlockedEnd
  <2> QED
    BY <1>0, <2>1, FrameWrites DEF Succeeding
<1>16. CASE EnterRefused(j)
  BY <1>0, <1>16, FrameWrites DEF EnterRefused, Succeeding
<1>17. CASE EnterRaises(j) \/ ServiceRaises(j) \/ CheckerBlocks(j) \/ SpawnRaises(j)
            \/ MarkBlockedRaises(j) \/ MarkBlockedFail(j) \/ ReturnToOrchestrator(j)
            \/ Aggregate(j) \/ Finalize(j) \/ Raised(j) \/ ClearRun(j) \/ Discard(j)
  BY <1>0, <1>17 DEF EnterRaises, ServiceRaises, CheckerBlocks, SpawnRaises,
     MarkBlockedRaises, MarkBlockedFail, ReturnToOrchestrator, Aggregate, Finalize, Raised,
     ClearRun, Discard, Succeeding
<1> QED
  BY <1>5, <1>6, <1>7, <1>8, <1>9, <1>10, <1>11, <1>12, <1>14, <1>15, <1>16, <1>17 DEF JobStep

\* A job's own step keeps what the invariant says of it.
LEMMA StepKeepsJob ==
  ASSUME IInv, IdsInOrder, RunsCreated, NEW j \in Job, JobOK(j), JobStep(j)
  PROVE  JobOK(j)'
<1> USE DEF JobOK
<1>0. jobs'[j] = jobs[j] /\ pc[j] \in Live /\ pc'[j] # "queued"
  BY StepMoves DEF IInv, TypeOK, Moves, Discard, poolVars, Live, OnThread, Executing
<1>1. JobInTree(j)' /\ RaisedHasRun(j)' /\ GoalIsReported(j)' /\ ResultIsTrue(j)'
  BY StepInTree, StepRaises, StepReports, StepReportsTruth
<1>2. StartCovers(j)'
  <2>1. nodes'[jobs[j].node].parent = nodes[jobs[j].node].parent
    BY <1>0, JobNodesBorn, StepKeepsOrder
  <2> QED
    BY <1>0, <2>1, StepKeepsCovered DEF StartCovers
<1> QED
  BY <1>1, <1>2
-----------------------------------------------------------------------------
(* The steps of jobs.                                                      *)

\* A node of another run is left as it is.
LEMMA StepLeavesOthers ==
  ASSUME IInv, IdsInOrder, NEW j \in Job, JobInTree(j), JobStep(j), NEW n \in Node,
         nodes[n].run \in Runs, nodes[n].run # RunOf(j)
  PROVE  nodes'[n] = nodes[n]
<1>0. /\ TypeOK /\ nodes \in [Node -> NodeRecord]
      /\ pc[j] \in Live => RunOf(j) \in Runs
      /\ pc[j] \in OnThread => Cur(j) \in Node /\ n # Cur(j) /\ n # nodes[Cur(j)].parent
                              /\ nodes[Cur(j)].run = RunOf(j)
  <2>1. pc[j] \in OnThread => Cur(j) \in Node /\ nodes[Cur(j)].run = RunOf(j)
    BY JobNodesBorn DEF JobInTree
  <2> QED
    BY <2>1, JobNodesBorn DEF IInv, TypeOK, IdsInOrder
<1>a. \A m, s : SetNode(m, s) /\ n # m => nodes'[n] = nodes[n]
  BY <1>0 DEF SetNode
<1>1. CASE StartJob(j) \/ MarkRunRunning(j) \/ EnterRefused(j) \/ EnterRaises(j)
           \/ ServiceRaises(j) \/ CheckerBlocks(j) \/ SpawnRaises(j)
           \/ MarkBlockedRaises(j) \/ ReturnToOrchestrator(j) \/ Aggregate(j)
           \/ ClearRun(j) \/ Discard(j) \/ MarkRunRunningWrite(j) \/ Persist(j) \/ Finalize(j)
           \/ Raised(j) \/ (\E m \in Node : NextChild(j, m))
  BY <1>1 DEF StartJob, MarkRunRunning, EnterRefused, EnterRaises,
     ServiceRaises, CheckerBlocks, SpawnRaises, MarkBlockedRaises, ReturnToOrchestrator,
     Aggregate, ClearRun, Discard, MarkRunRunningWrite, Persist, Finalize, Raised, NextChild,
     storeVars
<1>2. CASE Enter(j) \/ BaseCaseFails(j) \/ BaseCaseCompletes(j) \/ Unresolved(j)
           \/ MergeCompletes(j)
  BY <1>0, <1>a, <1>2 DEF Enter, BaseCaseFails, BaseCaseCompletes, Unresolved,
     MergeCompletes, EndsAs, OnThread, Executing
<1>3. CASE MarkBlocked(j) \/ MarkBlockedFail(j) \/ MarkBlockedEnd(j)
  BY <1>0, <1>a, <1>3 DEF MarkBlocked, MarkBlockedFail, MarkBlockedEnd, OnThread, Executing
<1>4. CASE ReturnToParent(j)
  BY <1>0, <1>a, <1>4 DEF ReturnToParent, OnThread, Executing
<1>5. CASE Prune(j)
  <2>1. pc[j] \in OnThread /\ nodes' = Removed(Descendants(Cur(j)))
    BY <1>5 DEF Prune, OnThread, Executing
  <2>2. n \notin Descendants(Cur(j))
    BY <1>0, <2>1, DescendantsAbove
  <2> QED
    BY <1>0, <2>1, <2>2 DEF Removed
<1>6. CASE Spawn(j)
  <2>1. RunOf(j) \in Runs /\ Grows(RunOf(j), Cur(j))
    BY <1>0, <1>6, SpawnGrows DEF Spawn, Live, OnThread, Executing
  <2>2. n # born + 1
    BY <1>0, <2>1, GrowsBy, ConstantsAssumption
  <2> QED
    BY <1>0, <2>1, <2>2, GrowsBy, ConstantsAssumption
<1> QED
  BY <1>1, <1>2, <1>3, <1>4, <1>5, <1>6 DEF JobStep

\* A node that is in the table after the step is of the job's run, or was there.
LEMMA StepAddsOwn ==
  ASSUME IInv, IdsInOrder, NEW j \in Job, JobInTree(j), JobStep(j), NEW n \in Node,
         nodes'[n].run \in Runs, nodes'[n].run # RunOf(j)
  PROVE  nodes[n].run = nodes'[n].run
<1>0. TypeOK /\ ConstantsAssumption
  BY ConstantsAssumption DEF IInv
<1>1. CASE Spawn(j)
  <2>1. RunOf(j) \in Runs /\ Grows(RunOf(j), Cur(j))
    BY <1>1, JobNodesBorn, SpawnGrows DEF Spawn, Live, OnThread, Executing
  <2>2. n # born + 1
    BY <1>0, <2>1, GrowsBy
  <2> QED
    BY <1>0, <2>1, <2>2, GrowsBy
<1>2. CASE ~Spawn(j)
  BY <1>2, StepShape DEF SameTree
<1> QED
  BY <1>1, <1>2

\* CompletedRunIsComplete in other words.
LEMMA CompleteMeansNone ==
  CompletedRunIsComplete
    <=> \A r \in Runs : runStatus[r] = "completed" => Uncompleted(r) = {}
  BY DEF CompletedRunIsComplete, Uncompleted

\* A step of a job keeps the invariant.
LEMMA JobKeepsSettling ==
  ASSUME IInv, SettleInv, NEW j \in Job, JobStep(j)
  PROVE  SettleInv'
<1> USE DEF SettleInv
<1>0. /\ JobOK(j) /\ JobInTree(j) /\ RaisedHasRun(j) /\ GoalIsReported(j) /\ ResultIsTrue(j)
  BY DEF JobsOK, JobOK
<1>1. /\ TypeOK /\ pc[j] \in Live /\ RunOf(j) \in Runs /\ RunOf(j) \in active
      /\ jobs' = jobs /\ active' \subseteq active /\ UNCHANGED <<req, creating>>
      /\ \A i \in Job : i # j => pc'[i] = pc[i] /\ frame'[i] = frame[i]
      /\ active \subseteq Runs /\ creating \subseteq Runs
  <2>1. pc[j] \in Live /\ jobs' = jobs /\ active' \subseteq active
        /\ \A i \in Job : i # j => pc'[i] = pc[i]
    BY StepMoves DEF IInv, TypeOK, Moves, Discard, poolVars, Live, OnThread, Executing
  <2> QED
    BY <2>1, StepKeepsRest, StepKeepsFrame
    DEF IInv, TypeOK, OneWorkerPerRun, ClaimIsHeld, apiVars, FrameKept
<1>2. /\ RunsAge /\ runStatus'[RunOf(j)] # "none"
      /\ \A r \in Runs : r # RunOf(j) => runStatus'[r] = runStatus[r]
  BY <1>0, <1>1, JobAgesRuns, StepSettlesOwn DEF RunsAge, SettlesOwn, RunsCreated
<1>3. /\ IdsInOrder'
      /\ \A r : r # RunOf(j) => RunKept(r)
      /\ ~Spawn(j) => RunKept(RunOf(j))
      /\ \A n \in Node : n <= born => nodes'[n].run = nodes[n].run
  BY <1>0, StepKeepsOrder
<1>4. RunsCreated'
  <2>1. ASSUME NEW n \in Node, nodes'[n].run \in Runs
        PROVE  runStatus'[nodes'[n].run] # "none"
    BY <1>0, <1>2, <2>1, StepAddsOwn DEF RunsCreated, RunsAge
  <2>2. ASSUME NEW r \in active' \union creating'
        PROVE  runStatus'[r] # "none"
    BY <1>1, <1>2 DEF RunsCreated, RunsAge
  <2> QED
    BY <2>1, <2>2 DEF RunsCreated
<1>5. SeenIsPast'
  <2>1. SUFFICES ASSUME NEW c \in Clients, req[c].at # "idle"
                 PROVE  LET r == nodes'[req[c].node].run
                        IN /\ req[c].seen = "blocked_human"
                                => runStatus'[r] \notin {"none", "queued"}
                           /\ req[c].at = "run" => req[c].seen = "blocked_human"
                           /\ req[c].at \in {"update", "run", "claim"} => r \notin creating
    BY <1>1 DEF SeenIsPast
  <2>2. req[c].node \in Node /\ nodes[req[c].node].run \in Runs /\ req[c].node <= born
    BY <2>1, ConstantsAssumption DEF IInv, TypeOK, RequestsHaveNode, NodesHaveRun, IdsInOrder,
       Unused, ConstantsAssumption
  <2> QED
    BY <1>2, <1>3, <2>1, <2>2 DEF SeenIsPast, RunsAge
<1>6. CreatingIsFresh'
  <2>1. SUFFICES ASSUME NEW r \in creating
                 PROVE  /\ r \notin active' /\ runStatus'[r] = "queued"
                        /\ \A n \in Node : nodes'[n].run = r
                                           => nodes'[n].status \in {"queued", "deleted"}
                        /\ \A m, n \in Node : nodes'[m].run = r /\ nodes'[n].run = r => m = n
    BY <1>1 DEF CreatingIsFresh
  <2>2. r # RunOf(j) /\ r \in Runs /\ r \notin active' /\ runStatus'[r] = "queued"
    BY <1>1, <1>2 DEF CreatingIsFresh
  <2>3. \A n \in Node : nodes'[n].run = r => nodes[n].run = r
    BY <1>0, <2>2, StepAddsOwn
  <2>4. ASSUME NEW n \in Node, nodes'[n].run = r
        PROVE  nodes'[n].status \in {"queued", "deleted"}
    BY <1>0, <2>2, <2>3, <2>4, StepLeavesOthers DEF CreatingIsFresh
  <2> QED
    BY <2>2, <2>3, <2>4 DEF CreatingIsFresh
<1>7. JobsOK'
  <2>1. SUFFICES ASSUME NEW i \in Job PROVE JobOK(i)'
    BY DEF JobsOK
  <2>2. CASE i = j
    BY <1>0, <2>2, StepKeepsJob
  <2>3. CASE i # j
    <3>1. pc[i] \in Live => RunOf(i) # RunOf(j) /\ RunOf(i) \in Runs
      BY <1>1, <2>3 DEF IInv, OneWorkerPerRun, NoTwoWorkers, ClaimIsHeld
    <3>2. JobOK(i) /\ RaisedHasRun(i)
      BY DEF JobsOK, JobOK
    <3>3. RaisedHasRun(i)'
      BY <1>1, <1>2, <2>3, <3>1, <3>2 DEF RaisedHasRun, Live, OnThread
    <3> QED
      BY <1>1, <1>3, <2>3, <3>1, <3>2, <3>3, OtherStepKeepsJob
  <2> QED
    BY <2>2, <2>3
<1>8. CompletedRunIsComplete'
  <2>1. SUFFICES ASSUME NEW r \in Runs, runStatus'[r] = "completed"
                 PROVE  Uncompleted(r)' = {}
    BY DEF CompletedRunIsComplete, Uncompleted
  <2>2. CASE r # RunOf(j)
    BY <1>2, <1>3, <2>1, <2>2, CompleteMeansNone DEF RunKept
  <2>3. CASE r = RunOf(j)
    <3>1. runStatus[r] = "completed" \/ (pc[j] = "finalize" /\ frame[j].goal = "completed")
      BY <1>0, <1>1, <2>1, <2>3, JobSettles DEF Begins, Settles, SetRun, IInv, TypeOK
    <3>2. ~Spawn(j)
      BY <2>3, <3>1 DEF Spawn, IInv, WorkerSeesRunning, Executing
    <3> QED
      BY <1>0, <1>1, <1>3, <2>3, <3>1, <3>2, CompleteMeansNone DEF RunKept, ResultIsTrue
  <2> QED
    BY <2>2, <2>3
<1> QED
  BY <1>3, <1>4, <1>5, <1>6, <1>7, <1>8
-----------------------------------------------------------------------------
(* The other steps.                                                        *)

\* The node of a request is in the table.
LEMMA RequestNodeBorn ==
  ASSUME IInv, IdsInOrder, NEW c \in Clients, req[c].at # "idle"
  PROVE  /\ req[c].node \in Node /\ req[c].node <= born
         /\ nodes[req[c].node].run \in Runs /\ nodes[req[c].node].status # "unused"
  BY ConstantsAssumption DEF IInv, TypeOK, RequestsHaveNode, NodesHaveRun, IdsInOrder, Unused,
     ConstantsAssumption

\* What a step outside the pool has to keep: a run it changes was blocked and is set
\* running, and a node of a new run is not touched but deleted.
LEMMA QuietKeepsSettling ==
  ASSUME IInv, SettleInv, SameTree, SeenIsPast',
         UNCHANGED <<active, jobs, pc, frame>>, creating' \subseteq creating,
         \A r \in Runs : \/ runStatus'[r] = runStatus[r]
                         \/ runStatus[r] = "blocked_human" /\ runStatus'[r] = "running",
         \A n \in Node : nodes[n].run \in creating
                         => nodes'[n].status \in {nodes[n].status, "deleted"}
  PROVE  SettleInv'
<1> USE DEF SettleInv
<1>0. TypeOK /\ active \subseteq Runs /\ creating \subseteq Runs
  BY DEF IInv, TypeOK
<1>1. IdsInOrder' /\ \A r : RunKept(r)
  BY <1>0, ShapeKeepsOrder, ShapeKeepsRun
<1>2. RunsCreated'
  BY <1>0 DEF RunsCreated, SameTree
<1>3. CreatingIsFresh'
  BY <1>0 DEF CreatingIsFresh, SameTree
<1>4. JobsOK'
  <2>1. SUFFICES ASSUME NEW i \in Job PROVE JobOK(i)'
    BY DEF JobsOK
  <2>2. JobOK(i) /\ RaisedHasRun(i) /\ (pc[i] \in Live => RunOf(i) \in Runs)
    BY DEF JobsOK, JobOK, IInv, OneWorkerPerRun, ClaimIsHeld, TypeOK
  <2>3. RaisedHasRun(i)'
    BY <2>2 DEF RaisedHasRun, Live, OnThread
  <2> QED
    BY <1>1, <2>2, <2>3, OtherStepKeepsJob
<1>5. CompletedRunIsComplete'
  <2>1. SUFFICES ASSUME NEW r \in Runs, runStatus'[r] = "completed"
                 PROVE  Uncompleted(r)' = {}
    BY DEF CompletedRunIsComplete, Uncompleted
  <2> QED
    BY <1>1, <2>1, CompleteMeansNone DEF RunKept
<1> QED
  BY <1>1, <1>2, <1>3, <1>4, <1>5

\* A claim with its job, by SubmitRun or by Claim.
LEMMA ClaimKeepsSettling ==
  ASSUME IInv, SettleInv, NEW r \in Runs, NEW n \in Node, NEW k \in {"start", "resume"},
         r \notin active, active' = active \union {r}, Submit(r, n, k),
         UNCHANGED <<runStatus, nodes, born, frame>>,
         nodes[n].run = r, r \notin creating', creating' \subseteq creating,
         k = "start" => nodes[n].parent = NoNode /\ NodesOf(r) \subseteq {n},
         SeenIsPast'
  PROVE  SettleInv'
<1> USE DEF SettleInv
<1> DEFINE new == submitted + 1
<1>0. TypeOK /\ new \in Job /\ pc[new] = "none"
  BY ConstantsAssumption DEF Submit, IInv, TypeOK, JobsInOrder, ConstantsAssumption
<1>a. /\ \A i \in Job : i # new => pc'[i] = pc[i] /\ jobs'[i] = jobs[i]
      /\ pc'[new] = "queued"
      /\ jobs'[new].run = r /\ jobs'[new].node = n /\ jobs'[new].kind = k
  BY <1>0 DEF Submit, TypeOK
<1>1. IdsInOrder'
  BY DEF IdsInOrder
<1>2. RunsCreated'
  BY DEF RunsCreated
<1>3. CreatingIsFresh'
  BY DEF CreatingIsFresh
<1>4. JobsOK'
  <2>1. SUFFICES ASSUME NEW i \in Job PROVE JobOK(i)'
    BY DEF JobsOK
  <2>2. JobOK(i) /\ RaisedHasRun(i) /\ GoalIsReported(i)
    BY DEF JobsOK, JobOK
  <2>3. CASE i # new
    <3>1. pc'[i] = pc[i] /\ jobs'[i] = jobs[i] /\ RaisedHasRun(i)'
      BY <1>a, <2>2, <2>3 DEF RaisedHasRun
    <3>2. SameTree
      BY <1>0, SameNodes
    <3> QED
      BY <1>0, <2>2, <3>1, <3>2, OtherStepKeepsJob, ShapeKeepsRun
  <2>4. CASE i = new
    <3>1. pc'[i] = "queued" /\ jobs'[i].run = r /\ jobs'[i].node = n /\ jobs'[i].kind = k
      BY <1>a, <2>4
    <3>2. JobInTree(i)' /\ RaisedHasRun(i)' /\ GoalIsReported(i)' /\ ResultIsTrue(i)'
      BY <2>2, <3>1 DEF JobInTree, RaisedHasRun, GoalIsReported, ResultIsTrue, OnThread,
         Executing
    <3>3. NodesOf(r)' = NodesOf(r)
      BY DEF NodesOf, Present
    <3>4. StartCovers(i)'
      BY <3>1, <3>3 DEF StartCovers, Succeeding
    <3> QED
      BY <3>2, <3>4 DEF JobOK
  <2> QED
    BY <2>3, <2>4
<1>5. CompletedRunIsComplete'
  BY DEF CompletedRunIsComplete, NodesOf, Present
<1> QED
  BY <1>1, <1>2, <1>3, <1>4, <1>5

\* The job of a new run has its root.
LEMMA SubmitKeepsSettling ==
  ASSUME IInv, SettleInv, NEW r \in Runs, NEW n \in Node, SubmitRun(r, n)
  PROVE  SettleInv'
<1>1. /\ r \in creating /\ r \notin active /\ nodes[n].run = r /\ nodes[n].parent = NoNode
      /\ active' = active \union {r} /\ Submit(r, n, "start") /\ creating' = creating \ {r}
      /\ UNCHANGED <<runStatus, nodes, born, frame, req>>
  BY DEF SubmitRun, storeVars
<1>2. NodesOf(r) \subseteq {n}
  BY <1>1 DEF SettleInv, CreatingIsFresh, NodesOf
<1>3. SeenIsPast'
  BY <1>1 DEF SettleInv, SeenIsPast
<1> QED
  BY <1>1, <1>2, <1>3, ClaimKeepsSettling

\* Storing a run keeps the invariant: it is a run nobody refers to.
LEMMA CreateKeepsSettling ==
  ASSUME IInv, SettleInv, NEW r \in Runs, CreateRun(r)
  PROVE  SettleInv'
<1> USE DEF SettleInv
<1>0. /\ TypeOK /\ active \subseteq Runs /\ creating \subseteq Runs
      /\ runStatus \in [Runs -> RunStatus \union {"none"}]
  BY DEF IInv, TypeOK
<1>1. /\ UNCHANGED <<nodes, born, active, jobs, pc, frame, req>>
      /\ runStatus[r] = "none" /\ runStatus'[r] = "queued"
      /\ \A q \in Runs : q # r => runStatus'[q] = runStatus[q]
      /\ creating' = creating \union {r}
  BY <1>0 DEF CreateRun, SetRun, poolVars, threadVars
<1>2. IdsInOrder' /\ \A q : RunKept(q)
  BY <1>0, <1>1, SameNodes, ShapeKeepsOrder, ShapeKeepsRun
<1>3. \A n \in Node : nodes[n].run # r
  BY <1>1 DEF RunsCreated
<1>4. RunsCreated'
  BY <1>0, <1>1 DEF RunsCreated
<1>5. SeenIsPast'
  <2>1. SUFFICES ASSUME NEW c \in Clients, req[c].at # "idle"
                 PROVE  LET q == nodes[req[c].node].run
                        IN /\ req[c].seen = "blocked_human"
                                => runStatus'[q] \notin {"none", "queued"}
                           /\ req[c].at = "run" => req[c].seen = "blocked_human"
                           /\ req[c].at \in {"update", "run", "claim"} => q \notin creating'
    BY <1>1 DEF SeenIsPast
  <2>2. nodes[req[c].node].run \in Runs /\ nodes[req[c].node].run # r
    BY <1>3, <2>1, RequestNodeBorn
  <2> QED
    BY <1>1, <2>1, <2>2 DEF SeenIsPast
<1>6. CreatingIsFresh'
  <2>1. r \notin active
    BY <1>1 DEF RunsCreated
  <2>2. \A q \in creating' : q = r \/ (q \in creating /\ q # r /\ q \in Runs)
    BY <1>0, <1>1
  <2> QED
    BY <1>1, <1>3, <2>1, <2>2 DEF CreatingIsFresh
<1>7. JobsOK'
  <2>1. SUFFICES ASSUME NEW i \in Job PROVE JobOK(i)'
    BY DEF JobsOK
  <2>2. JobOK(i) /\ RaisedHasRun(i)
    BY DEF JobsOK, JobOK
  <2>3. pc[i] \in Live => RunOf(i) \in Runs /\ RunOf(i) # r
    BY <1>0, <1>1 DEF IInv, OneWorkerPerRun, ClaimIsHeld, RunsCreated
  <2>4. RaisedHasRun(i)'
    BY <1>1, <2>2, <2>3 DEF RaisedHasRun, Live, OnThread
  <2> QED
    BY <1>1, <1>2, <2>2, <2>3, <2>4, OtherStepKeepsJob
<1>8. CompletedRunIsComplete'
  <2>1. SUFFICES ASSUME NEW q \in Runs, runStatus'[q] = "completed"
                 PROVE  Uncompleted(q)' = {}
    BY DEF CompletedRunIsComplete, Uncompleted
  <2> QED
    BY <1>1, <1>2, <2>1, CompleteMeansNone DEF RunKept
<1> QED
  BY <1>2, <1>4, <1>5, <1>6, <1>7, <1>8

\* A run without a root has no node at all.
LEMMA NoRootNoNode ==
  ASSUME TypeOK, IdsInOrder, CreatingIsFresh, NEW r \in creating, ~HasRoot(r)
  PROVE  \A n \in Node : nodes[n].run # r
<1>1. SUFFICES ASSUME NEW n \in Node, nodes[n].run = r PROVE FALSE
  OBVIOUS
<1>2. nodes[n].parent \in Node /\ nodes[n].parent < n /\ nodes[nodes[n].parent].run = r
  BY <1>1 DEF HasRoot, IdsInOrder, TypeOK, NodeRecord
<1>3. nodes[n].parent = n
  BY <1>1, <1>2 DEF CreatingIsFresh
<1> QED
  BY <1>2, <1>3, ConstantsAssumption DEF ConstantsAssumption

\* So does storing its root, a node nobody refers to ...
LEMMA RootKeepsSettling ==
  ASSUME IInv, SettleInv, NEW r \in Runs, CreateRoot(r)
  PROVE  SettleInv'
<1> USE DEF SettleInv
<1>0. /\ TypeOK /\ ConstantsAssumption /\ active \subseteq Runs /\ creating \subseteq Runs
      /\ born \in Nat /\ MaxNodes \in Nat
  BY ConstantsAssumption DEF IInv, TypeOK, ConstantsAssumption
<1>1. /\ UNCHANGED <<runStatus, active, jobs, pc, frame, req, creating>>
      /\ r \in creating /\ ~HasRoot(r) /\ r \notin active /\ runStatus[r] # "none"
  BY DEF CreateRoot, poolVars, threadVars, apiVars, CreatingIsFresh, RunsCreated
<1>2. Grows(r, NoNode)
  <2>1. born < MaxNodes /\ born' = born + 1
        /\ nodes' = [nodes EXCEPT ![born + 1] = NewNode(r, NoNode, 0)]
    BY DEF CreateRoot
  <2>2. \E d \in Nat : nodes' = [nodes EXCEPT ![born + 1] = NewNode(r, NoNode, d)]
    BY <2>1
  <2>3. born + 1 \in Node
    BY <1>0, <2>1
  <2> QED
    BY <2>1, <2>2, <2>3 DEF Grows
<1>3. /\ \A n \in Node : n # born + 1 => nodes'[n] = nodes[n]
      /\ nodes'[born + 1].run = r /\ nodes'[born + 1].status = "queued"
  BY <1>0, <1>2, GrowsBy
<1>4. IdsInOrder' /\ \A q : q # r => RunKept(q)
  BY <1>0, <1>2, GrowthKeepsOrder, GrowthKeepsRun
<1>5. \A n \in Node : nodes[n].run # r
  BY <1>0, <1>1, NoRootNoNode
<1>6. \A n \in Node : nodes'[n].run = r => n = born + 1
  BY <1>3, <1>5
<1>7. RunsCreated'
  <2>1. ASSUME NEW n \in Node, nodes'[n].run \in Runs
        PROVE  runStatus'[nodes'[n].run] # "none"
    <3>1. CASE n = born + 1
      BY <1>1, <1>3, <3>1
    <3>2. CASE n # born + 1
      BY <1>1, <1>3, <2>1, <3>2 DEF RunsCreated
    <3> QED
      BY <3>1, <3>2
  <2> QED
    BY <1>1, <2>1 DEF RunsCreated
<1>8. SeenIsPast'
  <2>1. SUFFICES ASSUME NEW c \in Clients, req[c].at # "idle"
                 PROVE  LET q == nodes'[req[c].node].run
                        IN /\ req[c].seen = "blocked_human"
                                => runStatus'[q] \notin {"none", "queued"}
                           /\ req[c].at = "run" => req[c].seen = "blocked_human"
                           /\ req[c].at \in {"update", "run", "claim"} => q \notin creating'
    BY <1>1 DEF SeenIsPast
  <2>2. /\ nodes[req[c].node].run \in Runs /\ nodes[req[c].node].run # r
        /\ nodes'[req[c].node] = nodes[req[c].node]
    BY <1>0, <1>3, <1>5, <2>1, RequestNodeBorn
  <2> QED
    BY <1>1, <2>1, <2>2 DEF SeenIsPast
<1>9. CreatingIsFresh'
  <2>1. SUFFICES ASSUME NEW q \in creating
                 PROVE  /\ q \notin active /\ runStatus[q] = "queued"
                        /\ \A n \in Node : nodes'[n].run = q
                                           => nodes'[n].status \in {"queued", "deleted"}
                        /\ \A m, n \in Node : nodes'[m].run = q /\ nodes'[n].run = q => m = n
    BY <1>1 DEF CreatingIsFresh
  <2>2. CASE q = r
    <3>1. r \notin active /\ runStatus[r] = "queued"
      BY <1>1 DEF CreatingIsFresh
    <3> QED
      BY <1>3, <1>6, <2>2, <3>1
  <2>3. CASE q # r
    <3>1. \A n \in Node : nodes'[n].run = q => nodes'[n] = nodes[n]
      BY <1>3, <2>3
    <3> QED
      BY <1>1, <2>1, <2>3, <3>1 DEF CreatingIsFresh
  <2> QED
    BY <2>2, <2>3
<1>10. JobsOK'
  <2>1. SUFFICES ASSUME NEW i \in Job PROVE JobOK(i)'
    BY DEF JobsOK
  <2>2. JobOK(i) /\ RaisedHasRun(i)
    BY DEF JobsOK, JobOK
  <2>3. pc[i] \in Live => RunOf(i) \in Runs /\ RunOf(i) # r
    BY <1>0, <1>1 DEF IInv, OneWorkerPerRun, ClaimIsHeld
  <2>4. RaisedHasRun(i)'
    BY <1>1, <2>2, <2>3 DEF RaisedHasRun, Live, OnThread
  <2> QED
    BY <1>1, <1>4, <2>2, <2>3, <2>4, OtherStepKeepsJob
<1>11. CompletedRunIsComplete'
  <2>1. SUFFICES ASSUME NEW q \in Runs, runStatus'[q] = "completed"
                 PROVE  Uncompleted(q)' = {}
    BY DEF CompletedRunIsComplete, Uncompleted
  <2>2. CASE q = r
    BY <1>1, <2>1, <2>2 DEF CreatingIsFresh
  <2>3. CASE q # r
    BY <1>1, <1>4, <2>1, <2>3, CompleteMeansNone DEF RunKept
  <2> QED
    BY <2>2, <2>3
<1> QED
  BY <1>4, <1>7, <1>8, <1>9, <1>10, <1>11

\* ... and so does an error of their events, after which nobody has the run.
LEMMA AbandonKeepsSettling ==
  ASSUME IInv, SettleInv, NEW r \in Runs, CreateRaises(r)
  PROVE  SettleInv'
<1>1. /\ UNCHANGED <<runStatus, nodes, born, active, jobs, pc, frame, req>>
      /\ creating' \subseteq creating
  BY DEF CreateRaises, storeVars, poolVars, threadVars
<1>2. SameTree /\ SeenIsPast'
  BY <1>1, SameNodes DEF IInv, SettleInv, SeenIsPast
<1> QED
  BY <1>1, <1>2, QuietKeepsSettling

\* Removing nodes changes no status but to deleted.
LEMMA RemovedStatus ==
  ASSUME TypeOK, NEW S, nodes' = Removed(S), NEW m \in Node
  PROVE  nodes'[m].status \in {nodes[m].status, "deleted"}
<1>1. nodes'[m] = nodes[m] \/ nodes'[m] = [nodes[m] EXCEPT !.status = "deleted"]
  BY DEF Removed
<1>2. [nodes[m] EXCEPT !.status = "deleted"].status = "deleted"
  BY DEF TypeOK, NodeRecord
<1> QED
  BY <1>1, <1>2

\* What a handler in flight goes on to, and with what.
LEMMA AdvanceBy ==
  ASSUME TypeOK, NEW c \in Clients, NEW to, Advance(c, to)
  PROVE  \A d \in Clients :
           \/ d # c /\ req'[d] = req[d]
           \/ /\ d = c /\ req'[d].at = to
              /\ req[d].at # "idle" /\ to # "idle"
                   => req'[d].node = req[d].node /\ req'[d].seen = req[d].seen
<1>1. req \in [Clients -> Request]
  BY DEF TypeOK
<1>2. req' = [req EXCEPT ![c] = IF to = "idle" THEN NoRequest ELSE [req[c] EXCEPT !.at = to]]
  BY DEF Advance
<1>3. NoRequest.at = "idle"
  BY DEF NoRequest
<1>4. /\ [req[c] EXCEPT !.at = to].at = to
      /\ [req[c] EXCEPT !.at = to].node = req[c].node
      /\ [req[c] EXCEPT !.at = to].seen = req[c].seen
  BY <1>1 DEF Request
<1> QED
  BY <1>1, <1>2, <1>3, <1>4

\* A request stays true to what it has seen when it advances with reason.
LEMMA AdvanceKeepsSeen ==
  ASSUME IInv, IdsInOrder, SeenIsPast, NEW c \in Clients, req[c].at # "idle",
         NEW to, Advance(c, to),
         to = "run" => req[c].seen = "blocked_human",
         to \in {"update", "run", "claim"} => nodes[req[c].node].run \notin creating,
         SameTree, creating' \subseteq creating,
         \A r \in Runs : \/ runStatus'[r] = runStatus[r]
                         \/ runStatus[r] = "blocked_human" /\ runStatus'[r] = "running"
  PROVE  SeenIsPast'
<1>1. SUFFICES ASSUME NEW d \in Clients, req'[d].at # "idle"
               PROVE  LET q == nodes'[req'[d].node].run
                      IN /\ req'[d].seen = "blocked_human"
                              => runStatus'[q] \notin {"none", "queued"}
                         /\ req'[d].at = "run" => req'[d].seen = "blocked_human"
                         /\ req'[d].at \in {"update", "run", "claim"} => q \notin creating'
  BY DEF SeenIsPast
<1>2. TypeOK
  BY DEF IInv
<1>3. /\ req[d].at # "idle" /\ req'[d].node = req[d].node /\ req'[d].seen = req[d].seen
      /\ (d = c /\ req'[d].at = to) \/ (d # c /\ req'[d].at = req[d].at)
  BY <1>1, <1>2, AdvanceBy
<1>4. nodes'[req[d].node].run = nodes[req[d].node].run /\ nodes[req[d].node].run \in Runs
  BY <1>3, RequestNodeBorn DEF SameTree
<1> QED
  BY <1>3, <1>4 DEF SeenIsPast

\* The steps of a handler keep the invariant.
LEMMA HandlerKeepsSettling ==
  ASSUME IInv, SettleInv, NEW c \in Clients, HandlerStep(c)
  PROVE  SettleInv'
<1> USE DEF SettleInv
<1> DEFINE n == req[c].node
           r == nodes[n].run
<1>0. /\ TypeOK /\ SameTree
      /\ req[c].at # "idle" => n \in Node /\ r \in Runs
  BY OutsideShape, RequestNodeBorn DEF IInv
<1>a. req[c].at # "idle" /\ r \in creating => nodes[n].status \in {"queued", "deleted"}
  BY <1>0 DEF CreatingIsFresh
<1>b. runStatus \in [Runs -> RunStatus \union {"none"}]
  BY DEF IInv, TypeOK
<1>1. CASE CheckEligible(c)
  <2>1. PICK to \in {"update", "idle"} :
          Advance(c, to) /\ (to = "update" => nodes[n].status \in {"blocked_human", "failed_check"})
    BY <1>1 DEF CheckEligible
  <2>2. /\ req[c].at = "check"
        /\ UNCHANGED <<runStatus, nodes, active, jobs, pc, frame, creating>>
    BY <1>1 DEF CheckEligible, storeVars, poolVars, threadVars
  <2>3. SeenIsPast'
    BY <1>0, <1>a, <2>1, <2>2, AdvanceKeepsSeen
  <2> QED
    BY <1>0, <2>2, <2>3, QuietKeepsSettling
<1>2. CASE ApplyToNode(c)
  <2>1. PICK to \in {"run", "claim", "idle"} :
          Advance(c, to) /\ (to = "run" => req[c].seen = "blocked_human")
    BY <1>2 DEF ApplyToNode
  <2>2. /\ req[c].at = "update"
        /\ UNCHANGED <<runStatus, active, jobs, pc, frame, creating>>
        /\ UNCHANGED nodes \/ \E s : SetNode(n, s)
    BY <1>2 DEF ApplyToNode, poolVars, threadVars
  <2>3. r \notin creating
    BY <2>2 DEF SeenIsPast
  <2>4. SeenIsPast'
    BY <1>0, <2>1, <2>2, <2>3, AdvanceKeepsSeen
  <2>5. \A m \in Node : nodes[m].run \in creating => nodes'[m].status = nodes[m].status
    BY <1>0, <2>2, <2>3 DEF SetNode, TypeOK
  <2> QED
    BY <1>0, <2>2, <2>4, <2>5, QuietKeepsSettling
<1>3. CASE ApplyToRun(c)
  <2>1. PICK to \in {"claim", "idle"} : Advance(c, to)
    BY <1>3 DEF ApplyToRun
  <2>2. /\ req[c].at = "run"
        /\ UNCHANGED <<nodes, active, jobs, pc, frame, creating>>
        /\ \/ UNCHANGED runStatus
           \/ RunCan(r, "running") /\ SetRun(r, "running")
    BY <1>3 DEF ApplyToRun, poolVars, threadVars
  <2>3. r \notin creating /\ runStatus[r] # "queued"
    BY <2>2 DEF SeenIsPast
  <2>4. \A q \in Runs : \/ runStatus'[q] = runStatus[q]
                        \/ runStatus[q] = "blocked_human" /\ runStatus'[q] = "running"
    BY <1>b, <2>2, <2>3, RunTransitions DEF SetRun
  <2>5. SeenIsPast'
    BY <1>0, <2>1, <2>2, <2>3, <2>4, AdvanceKeepsSeen
  <2> QED
    BY <1>0, <2>2, <2>4, <2>5, QuietKeepsSettling
<1>4. CASE Claim(c)
  <2>1. /\ req[c].at = "claim" /\ Advance(c, "idle")
        /\ UNCHANGED <<runStatus, nodes, born, frame, creating>>
        /\ \/ r \notin active /\ active' = active \union {r} /\ Submit(r, n, "resume")
           \/ UNCHANGED <<active, jobs, pc>>
    BY <1>4 DEF Claim, storeVars, poolVars
  <2>2. SeenIsPast'
    BY <1>0, <2>1, AdvanceKeepsSeen
  <2>3. r \notin creating
    BY <2>1 DEF SeenIsPast
  <2>4. CASE r \notin active /\ active' = active \union {r} /\ Submit(r, n, "resume")
    BY <1>0, <2>1, <2>2, <2>3, <2>4, ClaimKeepsSettling
  <2>5. CASE UNCHANGED <<active, jobs, pc>>
    BY <1>0, <2>1, <2>2, <2>5, QuietKeepsSettling
  <2> QED
    BY <2>1, <2>4, <2>5
<1>5. CASE DeleteNode(c)
  <2>1. /\ req[c].at = "delete" /\ Advance(c, "idle")
        /\ UNCHANGED <<runStatus, active, jobs, pc, frame, creating>>
        /\ \E S : nodes' = Removed(S)
    BY <1>5 DEF DeleteNode, poolVars, threadVars
  <2>2. SeenIsPast'
    BY <1>0, <2>1, AdvanceKeepsSeen
  <2>3. \A m \in Node : nodes'[m].status \in {nodes[m].status, "deleted"}
    <3>1. PICK S : nodes' = Removed(S)
      BY <2>1
    <3> QED
      BY <1>0, <3>1, RemovedStatus
  <2> QED
    BY <1>0, <2>1, <2>2, <2>3, QuietKeepsSettling
<1> QED
  BY <1>1, <1>2, <1>3, <1>4, <1>5 DEF HandlerStep

\* A request that begins has seen nothing but the present.
LEMMA AskKeepsSeen ==
  ASSUME IInv, IdsInOrder, SeenIsPast, RunsCreated, NEW c \in Clients, NEW n \in Node,
         NEW a, NEW at \in {"check", "delete"}, Ask(c, n, a, at),
         SameTree, UNCHANGED <<runStatus, creating>>
  PROVE  SeenIsPast'
<1>0. TypeOK /\ req \in [Clients -> Request]
  BY DEF IInv, TypeOK
<1>1. SUFFICES ASSUME NEW d \in Clients, req'[d].at # "idle"
               PROVE  LET q == nodes'[req'[d].node].run
                      IN /\ req'[d].seen = "blocked_human"
                              => runStatus'[q] \notin {"none", "queued"}
                         /\ req'[d].at = "run" => req'[d].seen = "blocked_human"
                         /\ req'[d].at \in {"update", "run", "claim"} => q \notin creating'
  BY DEF SeenIsPast
<1>2. CASE d = c
  <2>1. /\ req'[d].at = at /\ req'[d].node = n /\ req'[d].seen = runStatus[nodes[n].run]
        /\ nodes'[n].run = nodes[n].run
    BY <1>0, <1>2 DEF Ask, SameTree
  <2> QED
    BY <2>1
<1>3. CASE d # c
  <2>1. req'[d] = req[d] /\ req[d].at # "idle"
    BY <1>0, <1>1, <1>3 DEF Ask
  <2>2. nodes'[req[d].node].run = nodes[req[d].node].run
    BY <2>1, RequestNodeBorn DEF SameTree
  <2> QED
    BY <2>1, <2>2 DEF SeenIsPast
<1> QED
  BY <1>2, <1>3

\* The first step of a request keeps the invariant ...
LEMMA RequestKeepsSettling ==
  ASSUME IInv, SettleInv, NEW c \in Clients, NEW n \in Node,
         \/ DeleteDescendants(c, n)
         \/ \E a \in {"retry", "skip"} : BeginIntervention(c, n, a)
  PROVE  SettleInv'
<1> USE DEF SettleInv
<1>0. TypeOK /\ SameTree
  BY OutsideShape DEF IInv
<1>1. /\ \E a, at \in {"check", "delete", "retry", "skip"} :
           at \in {"check", "delete"} /\ Ask(c, n, a, at)
      /\ UNCHANGED <<runStatus, active, jobs, pc, frame, creating>>
      /\ UNCHANGED nodes \/ \E S : nodes' = Removed(S)
  BY DEF DeleteDescendants, BeginIntervention, storeVars, poolVars, threadVars
<1>2. SeenIsPast'
  BY <1>0, <1>1, AskKeepsSeen
<1>3. \A m \in Node : nodes'[m].status \in {nodes[m].status, "deleted"}
  <2>1. CASE UNCHANGED nodes
    BY <2>1
  <2>2. ASSUME NEW S, nodes' = Removed(S)
        PROVE  \A m \in Node : nodes'[m].status \in {nodes[m].status, "deleted"}
    BY <1>0, <2>2, RemovedStatus
  <2> QED
    BY <1>1, <2>1, <2>2
<1> QED
  BY <1>0, <1>1, <1>2, <1>3, QuietKeepsSettling

\* ... and so does a shutdown.
LEMMA ShutdownKeepsSettling ==
  ASSUME IInv, SettleInv, Shutdown
  PROVE  SettleInv'
<1>1. SameTree /\ UNCHANGED <<runStatus, nodes, active, jobs, pc, frame, req, creating>>
  BY OutsideShape DEF Shutdown, storeVars, poolVars, threadVars, apiVars
<1>2. SeenIsPast'
  BY <1>1 DEF SettleInv, SeenIsPast
<1> QED
  BY <1>1, <1>2, QuietKeepsSettling

\* A new process has no job and no request.
LEMMA RebootKeepsSettling ==
  ASSUME IInv, SettleInv, Reboot
  PROVE  SettleInv'
<1> USE DEF SettleInv
<1>1. /\ UNCHANGED <<nodes, born>> /\ creating' = {} /\ active' = {}
      /\ \A r \in Runs : runStatus'[r] = IF runStatus[r] = "running" THEN "failed"
                                                                     ELSE runStatus[r]
      /\ \A c \in Clients : req'[c].at = "idle"
      /\ \A j \in Job : /\ pc'[j] \notin Live /\ frame'[j].goal = "none"
                        /\ pc'[j] \notin {"raised", "persist", "pop", "finalize"}
  BY DEF Reboot, NoRequest, NoFrame, Live, OnThread, Executing
<1>2. IdsInOrder' /\ RunsCreated' /\ SeenIsPast' /\ CreatingIsFresh'
  BY <1>1 DEF IdsInOrder, RunsCreated, SeenIsPast, CreatingIsFresh
<1>3. JobsOK'
  BY <1>1 DEF JobsOK, JobOK, JobInTree, RaisedHasRun, GoalIsReported, StartCovers,
     ResultIsTrue, Live
<1>4. CompletedRunIsComplete'
  BY <1>1 DEF CompletedRunIsComplete, NodesOf, Present
<1> QED
  BY <1>2, <1>3, <1>4

\* The invariant holds initially.
LEMMA InitSettling ==
  Init => SettleInv
<1> SUFFICES ASSUME Init PROVE SettleInv
  OBVIOUS
<1>0. /\ \A n \in Node : nodes[n] = Unused
      /\ Unused.run = "none" /\ Unused.parent = NoNode /\ Unused.status = "unused"
      /\ "none" \notin Runs /\ MaxNodes \in Nat
  BY ConstantsAssumption DEF Init, Unused, ConstantsAssumption
<1>1. IdsInOrder /\ RunsCreated /\ SeenIsPast /\ CreatingIsFresh
  BY <1>0 DEF Init, IdsInOrder, RunsCreated, SeenIsPast, CreatingIsFresh, NoRequest
<1>2. JobsOK
  BY DEF Init, JobsOK, JobOK, JobInTree, RaisedHasRun, GoalIsReported, StartCovers,
     ResultIsTrue, NoFrame, Live, OnThread, Executing
<1>3. CompletedRunIsComplete
  BY DEF Init, CompletedRunIsComplete
<1> QED
  BY <1>1, <1>2, <1>3 DEF SettleInv

\* The invariant is inductive, relative to the one above.
LEMMA NextKeepsSettling ==
  IInv /\ SettleInv /\ [Next]_vars => SettleInv'
<1> SUFFICES ASSUME IInv, SettleInv, [Next]_vars PROVE SettleInv'
  OBVIOUS
<1>1. CASE \E j \in Job : JobStep(j)
  BY <1>1, JobKeepsSettling
<1>2. CASE \E r \in Runs : CreateRun(r) \/ CreationStep(r)
  BY <1>2, CreateKeepsSettling, RootKeepsSettling, AbandonKeepsSettling, SubmitKeepsSettling
  DEF CreationStep
<1>3. CASE \E c \in Clients : HandlerStep(c)
  BY <1>3, HandlerKeepsSettling
<1>4. CASE \E c \in Clients, n \in Node :
             \/ DeleteDescendants(c, n)
             \/ \E a \in {"retry", "skip"} : BeginIntervention(c, n, a)
  BY <1>4, RequestKeepsSettling
<1>5. CASE Shutdown
  BY <1>5, ShutdownKeepsSettling
<1>6. CASE Crash \/ Restart
  BY <1>6, RebootKeepsSettling DEF Crash, Restart
<1>7. CASE UNCHANGED vars
  <2>1. UNCHANGED <<runStatus, nodes, born, active, jobs, pc, frame, req, creating>>
    BY <1>7 DEF vars, storeVars, poolVars, threadVars, apiVars
  <2>2. SameTree /\ SeenIsPast'
    BY <2>1, SameNodes DEF IInv, SettleInv, SeenIsPast
  <2> QED
    BY <2>1, <2>2, QuietKeepsSettling
<1> QED
  BY <1>1, <1>2, <1>3, <1>4, <1>5, <1>6, <1>7 DEF Next
-----------------------------------------------------------------------------
(* The lease.                                                              *)

\* A step of a job starts, settles or releases its run, or changes no lease.
LEMMA JobStepOfLease ==
  ASSUME IInv, SettleInv, NEW j \in Job, JobStep(j)
  PROVE  \/ UNCHANGED <<runStatus, active>>
         \/ /\ RunOf(j) \in Runs
            /\ \/ Lease!Start(RunOf(j)) \/ Lease!Settle(RunOf(j)) \/ Lease!Fail(RunOf(j))
               \/ Lease!Release(RunOf(j))
<1>0. RaisedHasRun(j) /\ GoalIsReported(j)
  BY DEF SettleInv, JobsOK, JobOK
<1>1. pc[j] \in Live /\ RunOf(j) \in active /\ RunOf(j) \in Runs
  BY StepMoves DEF IInv, TypeOK, Moves, Discard, OneWorkerPerRun, ClaimIsHeld, Live, OnThread,
     Executing
<1>2. CASE Discard(j)
  BY <1>1, <1>2 DEF Discard, storeVars, Lease!Release
<1>3. CASE ~Discard(j)
  <2>1. UNCHANGED active
    BY <1>3, StepMoves DEF IInv, Moves, poolVars
  <2> QED
    BY <1>0, <1>1, <2>1, JobSettles DEF Begins, Settles, SetRun, Lease!Start, Lease!Settle,
       Lease!Fail
<1> QED
  BY <1>2, <1>3

\* A step of a handler takes a blocked run back or acquires a lease.
LEMMA HandlerStepOfLease ==
  ASSUME IInv, SettleInv, NEW c \in Clients, HandlerStep(c)
  PROVE  \/ UNCHANGED <<runStatus, active>>
         \/ \E r \in Runs : Lease!Unblock(r) \/ Lease!Acquire(r)
<1> DEFINE r == nodes[req[c].node].run
<1>0. req[c].at # "idle" => r \in Runs
  BY RequestNodeBorn DEF SettleInv
<1>1. CASE CheckEligible(c) \/ ApplyToNode(c) \/ DeleteNode(c)
  BY <1>1 DEF CheckEligible, ApplyToNode, DeleteNode, storeVars, poolVars
<1>2. CASE ApplyToRun(c)
  <2>1. /\ req[c].at = "run" /\ UNCHANGED active
        /\ UNCHANGED runStatus \/ (RunCan(r, "running") /\ SetRun(r, "running"))
    BY <1>2 DEF ApplyToRun, poolVars
  <2>2. runStatus[r] # "queued"
    BY <2>1 DEF SettleInv, SeenIsPast
  <2> QED
    BY <1>0, <2>1, <2>2, RunTransitions DEF SetRun, Lease!Unblock
<1>3. CASE Claim(c)
  <2>1. /\ req[c].at = "claim" /\ UNCHANGED runStatus
        /\ UNCHANGED active \/ (r \notin active /\ active' = active \union {r})
    BY <1>3 DEF Claim, storeVars, poolVars
  <2>2. runStatus[r] # "none"
    BY <1>0, <2>1, RequestNodeBorn DEF SettleInv, RunsCreated
  <2> QED
    BY <1>0, <2>1, <2>2 DEF Lease!Acquire
<1> QED
  BY <1>1, <1>2, <1>3 DEF HandlerStep

\* Every step is a step of the lease specification, or changes neither a run nor a
\* lease.
LEMMA NextOfLease ==
  IInv /\ SettleInv /\ [Next]_vars => [Lease!Next]_(Lease!leaseVars)
<1> SUFFICES ASSUME IInv, SettleInv, [Next]_vars
             PROVE  Lease!Next \/ UNCHANGED <<runStatus, active>>
  BY DEF Lease!leaseVars
<1> USE DEF Lease!Next
<1>0. creating \subseteq Runs
  BY DEF IInv, TypeOK
<1>1. CASE \E j \in Job : JobStep(j)
  BY <1>1, JobStepOfLease
<1>2. CASE \E r \in Runs : CreateRun(r)
  BY <1>2 DEF CreateRun, SetRun, poolVars, Lease!Create
<1>3. CASE \E r \in Runs : CreationStep(r)
  BY <1>0, <1>3 DEF CreationStep, CreateRoot, CreateRaises, SubmitRun, storeVars, poolVars,
     SettleInv, RunsCreated, Lease!Acquire
<1>4. CASE \E c \in Clients : HandlerStep(c)
  BY <1>4, HandlerStepOfLease
<1>5. CASE \E c \in Clients, n \in Node :
             \/ DeleteDescendants(c, n)
             \/ \E a \in {"retry", "skip"} : BeginIntervention(c, n, a)
  BY <1>5 DEF DeleteDescendants, BeginIntervention, storeVars, poolVars
<1>6. CASE Shutdown \/ UNCHANGED vars
  BY <1>6 DEF Shutdown, vars, storeVars, poolVars
<1>7. CASE Crash \/ Restart
  BY <1>7 DEF Crash, Restart, Reboot, Lease!Restart
<1> QED
  BY <1>1, <1>2, <1>3, <1>4, <1>5, <1>6, <1>7 DEF Next
-----------------------------------------------------------------------------
(* Careful clients: the calls of a job that wait for another.              *)

\* S is the stack of a job whose calls below the current one are waiting for it: their
\* nodes are running, and the children still to be run are queued and not on it.
IsWaiting(S, j) ==
  /\ IsStack(S, j)
  /\ \A n \in S : nodes[n].run = RunOf(j) /\ (n # Cur(j) => nodes[n].status = "running")
  /\ \A c \in frame[j].todo :
       /\ c \notin S /\ nodes[c].status = "queued" /\ nodes[c].parent \in S
       /\ pc[j] \notin {"spawn", "loop"} => nodes[c].parent # Cur(j)

\* From its start until the outermost call has returned, a job has a stack.
Calling == {"mark", "markWrite", "enter", "work", "spawn", "loop", "blk", "blkFail", "blkEnd",
            "persist", "pop"}

HasStack(j) == pc[j] \in Calling => \E S \in SUBSET Node : IsWaiting(S, j)

\* The status the current node has, by where the job is.
CurIs(j) ==
  LET s == nodes[Cur(j)].status
  IN /\ pc[j] \in {"work", "spawn", "loop"} => s = "running"
     /\ pc[j] = "blk" => s \in {"running", "blocked_human"}
     /\ pc[j] = "blkFail" => s = "waiting_check"
     /\ pc[j] = "blkEnd" => s = "failed_check"
     /\ pc[j] \in {"persist", "pop"} /\ frame[j].res = "blocked" => s = "blocked_human"

HasBlockedNode(r) == \E n \in NodesOf(r) : nodes[n].status = "blocked_human"

\* A job that reports its run as blocked leaves a blocked node.
GoalIsTrue(j) ==
  pc[j] = "finalize" /\ frame[j].goal = "blocked_human" => HasBlockedNode(RunOf(j))

\* Of the clients at most one is intervening, on a blocked run that nobody executes,
\* until it has set the run running.
OneIntervenes ==
  /\ \A c, d \in Clients : req[c].at # "idle" /\ req[d].at # "idle" => c = d
  /\ \A c \in Clients : req[c].at # "idle" =>
       LET r == nodes[req[c].node].run
       IN /\ r \notin active \union creating
          /\ req[c].seen = "blocked_human"
          /\ req[c].at \in {"check", "update", "run"} => runStatus[r] = "blocked_human"
  /\ \A r \in creating : runStatus[r] = "queued"

CarefulInv == /\ OneIntervenes
              /\ \A j \in Job : HasStack(j) /\ CurIs(j) /\ GoalIsTrue(j)

\* Clients that intervene on idle runs, delete nothing and meet no crash.
Undisturbed == "delete" \notin Actions /\ (Durable => MaxCrashes = 0)

\* Then a blocked run has a blocked node, or it is about to be set running.
BlockedHasNode ==
  /\ \A c \in Clients : req[c].at # "delete" /\ (stopping => req[c].at = "idle")
  /\ \A r \in Runs : runStatus[r] = "blocked_human" =>
       \/ HasBlockedNode(r)
       \/ \E c \in Clients : req[c].at = "run" /\ nodes[req[c].node].run = r

\* Every call on the stack, as StackIsRunning reads it off the tree, is in S.
LEMMA StackIsIn ==
  ASSUME IdsInOrder, NEW j \in Job, jobs[j].node \in Node, NEW S \in SUBSET Node, IsStack(S, j)
  PROVE  Stack(j) \subseteq S
<1> USE ConstantsAssumption DEF ConstantsAssumption
<1>1. SUFFICES ASSUME NEW n \in Stack(j) PROVE n \in S
  OBVIOUS
<1> DEFINE M == {m \in S : m \in Subtree(n)}
<1>2. n \in Node /\ jobs[j].node <= n /\ Cur(j) \in M
  <2>1. n \in Subtree(jobs[j].node) /\ Cur(j) \in Subtree(n) /\ Cur(j) \in S
    BY DEF Stack, IsStack
  <2> QED
    BY <2>1, DescendantsAbove DEF Subtree
<1>3. PICK m \in M : \A k \in M : m <= k
  <2>1. S \subseteq Nat
    OBVIOUS
  <2>2. M \in SUBSET Nat
    BY <2>1
  <2>3. M # {}
    BY <1>2
  <2> HIDE DEF M
  <2> QED
    BY <2>2, <2>3, LeastNode
<1>4. CASE m = n
  BY <1>3, <1>4
<1>5. CASE m # n
  <2>1. m \in Node /\ m \in Descendants(n) /\ n < m
    BY <1>2, <1>3, <1>5, DescendantsAbove DEF Subtree
  <2>2. nodes[m].parent \in S /\ nodes[m].parent < m
    BY <1>2, <1>3, <2>1 DEF IsStack, IdsInOrder
  <2>3. nodes[m].parent = n \/ nodes[m].parent \in Descendants(n)
    BY <2>1, DescendantsStep DEF IsBelow
  <2>4. nodes[m].parent \notin M
    <3>0. S \subseteq Nat
      OBVIOUS
    <3>1. nodes[m].parent \in Nat /\ m \in Nat /\ nodes[m].parent < m
      BY <1>3, <2>2, <3>0
    <3> HIDE DEF M
    <3> QED
      BY <1>3, <3>1
  <2> QED
    BY <2>2, <2>3, <2>4 DEF Subtree
<1> QED
  BY <1>4, <1>5

\* Where the properties of a run's stack come from.
LEMMA StackFollows ==
  ASSUME IInv, IdsInOrder, \A j \in Job : HasStack(j) /\ CurIs(j)
  PROVE  StackIsRunning
<1>1. SUFFICES ASSUME NEW j \in Job, pc[j] \in {"work", "spawn", "loop"}
               PROVE  /\ \A n \in Stack(j) : nodes[n].status = "running"
                      /\ \A c \in frame[j].todo : nodes[c].status = "queued"
  BY DEF StackIsRunning
<1>2. PICK S \in SUBSET Node : IsWaiting(S, j)
  BY <1>1 DEF HasStack, Calling
<1>3. jobs[j].node \in Node
  BY <1>1 DEF IInv, JobsHaveNode, Live, OnThread, Executing
<1>4. Stack(j) \subseteq S
  BY <1>2, <1>3, StackIsIn DEF IsWaiting
<1>5. nodes[Cur(j)].status = "running"
  BY <1>1 DEF CurIs
<1> QED
  BY <1>2, <1>4, <1>5 DEF IsWaiting
-----------------------------------------------------------------------------
(* A job's stack, when nobody interferes.                                  *)

\* What some steps do to the children still to be run.
LEMMA FrameTodo ==
  ASSUME TypeOK, NEW j \in Job
  PROVE  /\ EnterRefused(j) \/ CheckerBlocks(j) \/ BlockedBy(j) => frame'[j].todo = frame[j].todo
         /\ ReturnToParent(j) =>
              frame'[j].todo = IF frame[j].res = "completed" THEN frame[j].todo
                               ELSE frame[j].todo \ ChildrenOf(nodes[Cur(j)].parent)
<1>0. frame \in [Job -> Frame]
  BY DEF TypeOK
<1>1. EnterRefused(j) => frame'[j].todo = frame[j].todo
  BY <1>0 DEF EnterRefused, Frame
<1>2. CheckerBlocks(j) => frame'[j].todo = frame[j].todo
  BY <1>0 DEF CheckerBlocks, Frame
<1>3. BlockedBy(j) => frame'[j].todo = frame[j].todo
  BY <1>0 DEF BlockedBy, BlockedBefore, Frame
<1>4. ASSUME ReturnToParent(j)
      PROVE  frame'[j].todo = IF frame[j].res = "completed" THEN frame[j].todo
                              ELSE frame[j].todo \ ChildrenOf(nodes[Cur(j)].parent)
  <2> DEFINE p == nodes[Cur(j)].parent
             rest == frame[j].todo \ ChildrenOf(p)
  <2>1. \/ frame[j].res = "completed" /\ frame' = [frame EXCEPT ![j].cur = p]
        \/ /\ frame[j].res # "completed"
           /\ frame' = [frame EXCEPT ![j].cur = p, ![j].todo = rest]
    BY <1>4 DEF ReturnToParent
  <2> HIDE DEF p, rest
  <2>2. \/ frame[j].res = "completed" /\ frame'[j].todo = frame[j].todo
        \/ frame[j].res # "completed" /\ frame'[j].todo = rest
    BY <1>0, <2>1 DEF Frame
  <2> QED
    BY <2>2 DEF p, rest
<1> QED
  BY <1>1, <1>2, <1>3, <1>4

\* The same stack, when no node on it or to be run is touched but the current one.
LEMMA SameWaiting ==
  ASSUME IInv, IdsInOrder, NEW j \in Job, NEW S \in SUBSET Node, IsWaiting(S, j),
         Cur(j) \in Node, Cur(j) <= born,
         \A n \in Node : n <= born => /\ nodes'[n].run = nodes[n].run
                                     /\ nodes'[n].parent = nodes[n].parent,
         \A n \in S \union frame[j].todo : n # Cur(j) => nodes'[n].status = nodes[n].status,
         jobs'[j] = jobs[j], frame'[j].cur = Cur(j), frame'[j].todo \subseteq frame[j].todo,
         pc'[j] \notin {"spawn", "loop"} => \A c \in frame'[j].todo : nodes[c].parent # Cur(j)
  PROVE  IsWaiting(S, j)'
<1>1. /\ born \in Nat /\ MaxNodes \in Nat /\ frame[j].todo \subseteq Node
      /\ IsStack(S, j) /\ Cur(j) \in S
  BY ConstantsAssumption DEF IInv, TypeOK, Frame, ConstantsAssumption, IsWaiting, IsStack
<1>2. \A n \in S : n <= born
  <2>1. \A n \in S : n <= Cur(j) /\ n \in Nat /\ Cur(j) \in Nat
    BY <1>1 DEF IsStack
  <2> QED
    BY <1>1, <2>1
<1>3. \A n \in S : nodes'[n].parent = nodes[n].parent /\ nodes'[n].run = nodes[n].run
  BY <1>2
<1>4. \A c \in frame[j].todo : c <= born /\ c # Cur(j)
  BY <1>1 DEF IsWaiting, IdsInOrder, Unused
<1>5. \A c \in frame[j].todo : nodes'[c].parent = nodes[c].parent
  BY <1>1, <1>4
<1>6. IsStack(S, j)'
  BY <1>1, <1>3 DEF IsStack
<1>7. \A n \in S : nodes'[n].run = RunOf(j) /\ (n # Cur(j) => nodes'[n].status = "running")
  BY <1>3 DEF IsWaiting
<1>8. \A c \in frame'[j].todo :
        /\ c \notin S /\ nodes'[c].status = "queued" /\ nodes'[c].parent \in S
        /\ pc'[j] \notin {"spawn", "loop"} => nodes'[c].parent # Cur(j)
  BY <1>4, <1>5 DEF IsWaiting
<1> QED
  BY <1>6, <1>7, <1>8 DEF IsWaiting

\* A job starts with the node it is for on the stack.
LEMMA StartWaits ==
  ASSUME IInv, IdsInOrder, NEW j \in Job, JobInTree(j), StartJob(j)
  PROVE  HasStack(j)'
<1>1. /\ frame'[j].cur = jobs[j].node /\ frame'[j].todo = {}
      /\ UNCHANGED <<nodes, jobs>>
      /\ jobs[j].node \in Node /\ MaxNodes \in Nat /\ nodes[jobs[j].node].run = RunOf(j)
  BY FrameWrites, ConstantsAssumption
  DEF StartJob, storeVars, poolVars, IInv, JobsHaveNode, Live, ConstantsAssumption, JobInTree
<1> DEFINE S == {jobs[j].node}
<1>2. IsStack(S, j)'
  BY <1>1 DEF IsStack
<1>3. IsWaiting(S, j)'
  BY <1>1, <1>2 DEF IsWaiting
<1> QED
  BY <1>1, <1>3 DEF HasStack

\* A child that is created is queued, and is not on the stack.
LEMMA SpawnWaits ==
  ASSUME IInv, IdsInOrder, NEW j \in Job, JobInTree(j), NEW S \in SUBSET Node, IsWaiting(S, j),
         Spawn(j), pc'[j] # "raised"
  PROVE  IsWaiting(S, j)'
<1>0. /\ pc[j] = "spawn" /\ pc'[j] \in {"spawn", "loop"}
      /\ jobs'[j] = jobs[j]
      /\ frame'[j].cur = Cur(j) /\ frame'[j].todo = frame[j].todo \union {born + 1}
  <2>1. frame'[j].cur = Cur(j) /\ frame'[j].todo = frame[j].todo \union {born + 1}
    BY FrameWrites DEF IInv
  <2>2. pc[j] = "spawn" /\ pc'[j] \in {"spawn", "loop"} /\ jobs'[j] = jobs[j]
    BY DEF Spawn, IInv, TypeOK, poolVars
  <2> QED
    BY <2>1, <2>2
<1>1. /\ Cur(j) \in Node /\ Cur(j) <= born /\ RunOf(j) \in Runs
      /\ born \in Nat /\ MaxNodes \in Nat /\ frame[j].todo \subseteq Node
  <2>1. Cur(j) \in Node /\ Cur(j) <= born /\ RunOf(j) \in Runs
    BY <1>0, JobNodesBorn DEF Live, OnThread, Executing
  <2>2. born \in Nat /\ MaxNodes \in Nat
    BY ConstantsAssumption DEF IInv, TypeOK, ConstantsAssumption
  <2>3. frame[j].todo \subseteq Node
    BY DEF IInv, TypeOK, Frame
  <2> QED
    BY <2>1, <2>2, <2>3
<1>2. /\ \A n \in Node : n # born + 1 => nodes'[n] = nodes[n]
      /\ nodes'[born + 1].parent = Cur(j) /\ nodes'[born + 1].status = "queued"
  BY <1>1, SpawnGrows, GrowsBy, ConstantsAssumption DEF IInv
<1>3. IsStack(S, j) /\ Cur(j) \in S
  BY DEF IsWaiting, IsStack
<1>4. \A n \in S : n <= born /\ n # born + 1 /\ nodes'[n] = nodes[n]
  <2>1. \A n \in S : n <= Cur(j)
    BY <1>3 DEF IsStack
  <2>a. S \subseteq Nat /\ Cur(j) \in Nat
    BY <1>1
  <2>2. \A n \in S : n <= born /\ n # born + 1
    BY <1>1, <2>1, <2>a
  <2> QED
    BY <1>2, <2>2
<1>5. \A c \in frame[j].todo : nodes'[c] = nodes[c]
  BY <1>1, <1>2 DEF IsWaiting, IdsInOrder, Unused
<1>6. IsStack(S, j)'
  BY <1>0, <1>3, <1>4 DEF IsStack
<1>7. \A n \in S : nodes'[n].run = RunOf(j) /\ (n # Cur(j) => nodes'[n].status = "running")
  BY <1>4 DEF IsWaiting
<1>8. \A c \in frame'[j].todo : c \notin S /\ nodes'[c].status = "queued" /\ nodes'[c].parent \in S
  BY <1>0, <1>2, <1>3, <1>4, <1>5 DEF IsWaiting
<1> QED
  BY <1>0, <1>6, <1>7, <1>8 DEF IsWaiting

\* The current node goes on waiting, running, for the child that is executed next.
LEMMA ChildWaits ==
  ASSUME IInv, IdsInOrder, NEW j \in Job, NEW S \in SUBSET Node, IsWaiting(S, j), CurIs(j),
         NEW c \in Node, NextChild(j, c)
  PROVE  IsWaiting(S \union {c}, j)'
<1> DEFINE T == S \union {c}
<1>1. /\ UNCHANGED <<nodes, jobs>>
      /\ frame'[j].cur = c /\ frame'[j].todo = frame[j].todo \ {c} /\ c \in frame[j].todo
      /\ nodes[c].parent = Cur(j) /\ Cur(j) < c /\ MaxNodes \in Nat
      /\ pc[j] = "loop" /\ pc'[j] = "enter"
  <2>1. frame'[j].cur = c /\ frame'[j].todo = frame[j].todo \ {c}
    BY FrameWrites DEF IInv
  <2>2. /\ UNCHANGED <<nodes, jobs>> /\ nodes[c].parent = Cur(j) /\ c \in frame[j].todo
        /\ pc[j] = "loop" /\ pc' = [pc EXCEPT ![j] = "enter"]
    BY DEF NextChild, Pending, ChildrenOf, storeVars, poolVars
  <2>3. Cur(j) < c /\ MaxNodes \in Nat /\ pc'[j] = "enter"
    BY <2>2, ConstantsAssumption DEF IdsInOrder, ConstantsAssumption, IInv, TypeOK
  <2> QED
    BY <2>1, <2>2, <2>3
<1>2. /\ Cur(j) \in S
      /\ \A n \in S : n <= Cur(j) /\ (n = jobs[j].node \/ nodes[n].parent \in S)
      /\ \A m, n \in S : m < n => m <= nodes[n].parent
      /\ nodes[Cur(j)].status = "running" /\ nodes[Cur(j)].run = RunOf(j)
      /\ \A n \in S : nodes[n].status = "running" /\ nodes[n].run = RunOf(j)
  BY <1>1 DEF IsWaiting, IsStack, CurIs
<1>3. \A n \in S : n <= Cur(j) /\ n < c /\ n \in Nat
  <2>1. S \subseteq Nat /\ c \in Nat
    BY <1>1
  <2>2. Cur(j) \in Nat /\ Cur(j) < c /\ \A n \in S : n <= Cur(j) /\ n \in Nat
    BY <1>1, <1>2, <2>1
  <2> QED
    BY <2>1, <2>2
<1>4. IsStack(T, j)'
  <2>1. \A n \in T : n <= c /\ (n = jobs[j].node \/ nodes[n].parent \in T)
    BY <1>1, <1>2, <1>3
  <2>2. \A m, n \in T : m < n => m <= nodes[n].parent
    BY <1>1, <1>2, <1>3
  <2> QED
    BY <1>1, <2>1, <2>2 DEF IsStack
<1>5. nodes[c].run = RunOf(j)
  BY <1>1, <1>2 DEF IdsInOrder
<1>6. \A d \in frame'[j].todo :
        /\ d \notin T /\ nodes'[d].status = "queued" /\ nodes'[d].parent \in T
        /\ nodes'[d].parent # c
  BY <1>1, <1>3 DEF IsWaiting
<1>7. \A n \in T : nodes'[n].run = RunOf(j) /\ (n # c => nodes'[n].status = "running")
  BY <1>1, <1>2, <1>5
<1> QED
  BY <1>1, <1>4, <1>6, <1>7 DEF IsWaiting

\* A node whose call returns leaves the stack to its parent, which was waiting for it.
LEMMA ReturnWaits ==
  ASSUME IInv, IdsInOrder, NEW j \in Job, JobInTree(j), NEW S \in SUBSET Node, IsWaiting(S, j),
         ReturnToParent(j), NEW T \in SUBSET Node, T = S \ {Cur(j)}
  PROVE  /\ IsWaiting(T, j)'
         /\ nodes[nodes[Cur(j)].parent].status = "running"
<1> DEFINE p == nodes[Cur(j)].parent
<1>0. /\ IsStack(S, j) /\ Cur(j) \in S
      /\ \A n \in S : n <= Cur(j) /\ (n = jobs[j].node \/ nodes[n].parent \in S)
      /\ \A m, n \in S : m < n => m <= nodes[n].parent
      /\ \A n \in S : nodes[n].run = RunOf(j) /\ (n # Cur(j) => nodes[n].status = "running")
      /\ \A c \in frame[j].todo : c \notin S /\ nodes[c].status = "queued"
                                  /\ nodes[c].parent \in S
  BY DEF IsWaiting, IsStack
<1>1. /\ pc[j] = "pop" /\ pc'[j] \in {"loop", "blk", "persist", "raised"}
      /\ frame[j].res # "completed" \/ pc'[j] = "loop"
      /\ Cur(j) # jobs[j].node /\ jobs' = jobs
      /\ frame'[j].cur = p
      /\ frame'[j].todo = IF frame[j].res = "completed" THEN frame[j].todo
                          ELSE frame[j].todo \ ChildrenOf(p)
      /\ UNCHANGED nodes \/ SetNode(p, "error")
  <2>1. frame'[j].cur = p
    BY FrameWrites DEF IInv
  <2>2. frame'[j].todo = IF frame[j].res = "completed" THEN frame[j].todo
                         ELSE frame[j].todo \ ChildrenOf(p)
    BY FrameTodo DEF IInv
  <2>3. /\ pc[j] = "pop" /\ Cur(j) # jobs[j].node /\ jobs' = jobs
        /\ UNCHANGED nodes \/ SetNode(p, "error")
        /\ \E to \in {"loop", "blk", "persist", "raised"} :
             /\ pc' = [pc EXCEPT ![j] = to]
             /\ frame[j].res # "completed" \/ to = "loop"
    BY DEF ReturnToParent, poolVars
  <2> QED
    BY <2>1, <2>2, <2>3 DEF IInv, TypeOK
<1>2. /\ p \in S /\ p < Cur(j) /\ Cur(j) \in Node /\ frame[j].todo \subseteq Node
      /\ \A n \in S : n \in Nat /\ nodes[n].parent < n
      /\ MaxNodes \in Nat
  BY <1>0, <1>1, ConstantsAssumption DEF IdsInOrder, IInv, TypeOK, Frame, ConstantsAssumption
<1>3. /\ \A n \in Node : n # p => nodes'[n] = nodes[n]
      /\ \A n \in Node : nodes'[n].run = nodes[n].run /\ nodes'[n].parent = nodes[n].parent
  <2>1. ~Spawn(j) /\ JobStep(j)
    BY <1>1 DEF Spawn, JobStep
  <2>2. \A n \in Node : nodes'[n].run = nodes[n].run /\ nodes'[n].parent = nodes[n].parent
    BY <2>1, StepShape DEF SameTree
  <2>3. \A n \in Node : n # p => nodes'[n] = nodes[n]
    BY <1>1, <1>2 DEF SetNode, IInv, TypeOK
  <2> QED
    BY <2>2, <2>3
<1> HIDE DEF p
<1>4. p \in T /\ T \subseteq S
  <2>1. p \in Nat /\ Cur(j) \in Nat /\ p < Cur(j)
    BY <1>2
  <2>2. p # Cur(j)
    BY <2>1
  <2> QED
    BY <1>2, <2>2
<1>5. ASSUME NEW n \in T
      PROVE  n \in S /\ n < Cur(j) /\ n <= p /\ (n = jobs[j].node \/ nodes[n].parent \in T)
  <2>1. n \in S /\ n # Cur(j) /\ n <= Cur(j) /\ n \in Nat /\ Cur(j) \in Nat
        /\ nodes[n].parent < n
    BY <1>0, <1>2
  <2>2. n < Cur(j)
    BY <2>1
  <2>3. n <= p
    BY <1>0, <2>1, <2>2 DEF p
  <2>4. nodes[n].parent \in S => nodes[n].parent \in Nat /\ nodes[n].parent # Cur(j)
    <3>1. nodes[n].parent \in S => nodes[n].parent \in Nat
      BY <1>2
    <3> QED
      BY <2>1, <2>2, <3>1
  <2> QED
    BY <1>0, <2>1, <2>2, <2>3, <2>4
<1>6. IsStack(T, j)'
  <2>1. \A n \in T : n <= p /\ (n = jobs[j].node \/ nodes'[n].parent \in T)
    BY <1>3, <1>4, <1>5
  <2>2. \A m, n \in T : m < n => m <= nodes'[n].parent
    BY <1>0, <1>3, <1>4
  <2> QED
    BY <1>1, <1>4, <2>1, <2>2 DEF IsStack
<1>7. \A n \in T : nodes'[n].run = RunOf(j) /\ (n # p => nodes'[n].status = "running")
  BY <1>0, <1>3, <1>4
<1>8. ASSUME NEW c \in frame'[j].todo
      PROVE  /\ c \notin T /\ nodes'[c].status = "queued" /\ nodes'[c].parent \in T
             /\ pc'[j] \notin {"spawn", "loop"} => nodes'[c].parent # p
  <2>1. c \in frame[j].todo /\ c \in Node /\ c \notin S /\ c # p
    BY <1>0, <1>1, <1>2
  <2>2. nodes[c].parent # Cur(j) /\ nodes[c].parent \in S
    BY <1>0, <1>1, <2>1 DEF IsWaiting
  <2>3. pc'[j] \notin {"spawn", "loop"} => c \notin ChildrenOf(p)
    BY <1>1
  <2> QED
    BY <1>0, <1>3, <2>1, <2>2, <2>3 DEF ChildrenOf
<1>9. IsWaiting(T, j)'
  BY <1>1, <1>6, <1>7, <1>8 DEF IsWaiting
<1>10. nodes[p].status = "running"
  BY <1>0, <1>2, <1>4
<1> QED
  BY <1>9, <1>10 DEF p

\* What a job prunes is neither on its stack nor to be run.
LEMMA PruneWaits ==
  ASSUME IInv, IdsInOrder, NEW j \in Job, NEW S \in SUBSET Node, IsWaiting(S, j), Prune(j)
  PROVE  \A n \in S \union frame[j].todo : nodes'[n] = nodes[n]
<1>1. /\ pc[j] = "work" /\ nodes' = Removed(Descendants(Cur(j)))
      /\ Cur(j) \in S /\ frame[j].todo \subseteq Node /\ MaxNodes \in Nat
      /\ \A n \in S : n <= Cur(j)
  BY ConstantsAssumption
  DEF Prune, IsWaiting, IsStack, IInv, TypeOK, Frame, ConstantsAssumption
<1>2. \A n \in S : n \notin Descendants(Cur(j))
  <2>1. ASSUME NEW n \in S, n \in Descendants(Cur(j))
        PROVE  FALSE
    <3>1. Cur(j) \in Node /\ n \in Node /\ n <= Cur(j)
      BY <1>1
    <3>2. Cur(j) < n
      BY <2>1, <3>1, DescendantsAbove
    <3> QED
      BY <1>1, <3>1, <3>2
  <2> QED
    BY <2>1
<1>3. \A c \in frame[j].todo : c \notin Descendants(Cur(j))
  <2>1. ASSUME NEW c \in frame[j].todo, c \in Descendants(Cur(j))
        PROVE  FALSE
    <3>1. c \in Node /\ nodes[c].parent \in S /\ nodes[c].parent # Cur(j)
      BY <1>1 DEF IsWaiting
    <3>2. nodes[c].parent = Cur(j) \/ nodes[c].parent \in Descendants(Cur(j))
      BY <2>1, <3>1, DescendantsStep DEF IsBelow
    <3> QED
      BY <1>2, <3>1, <3>2
  <2> QED
    BY <2>1
<1> QED
  BY <1>1, <1>2, <1>3 DEF Removed

\* A job's own step keeps its stack.
LEMMA StepKeepsStack ==
  ASSUME IInv, IdsInOrder, NEW j \in Job, JobInTree(j), HasStack(j), CurIs(j), JobStep(j)
  PROVE  HasStack(j)'
<1>0. /\ TypeOK /\ pc \in [Job -> PC] /\ nodes \in [Node -> NodeRecord]
      /\ jobs'[j] = jobs[j] /\ pc[j] \in Live
  BY StepMoves DEF IInv, TypeOK, Moves, Discard, poolVars, Live, OnThread, Executing
<1>1. SUFFICES ASSUME pc'[j] \in Calling PROVE HasStack(j)'
  BY DEF HasStack
<1>2. CASE StartJob(j)
  BY <1>2, StartWaits
<1>3. ASSUME pc[j] \in Calling
      PROVE  HasStack(j)'
  <2>1. PICK S \in SUBSET Node : IsWaiting(S, j)
    BY <1>3 DEF HasStack
  <2>2. /\ Cur(j) \in Node /\ Cur(j) <= born /\ frame[j].todo \subseteq Node
        /\ \A n \in Node : n <= born => /\ nodes'[n].run = nodes[n].run
                                       /\ nodes'[n].parent = nodes[n].parent
    BY <1>0, <1>3, JobNodesBorn, StepKeepsOrder
    DEF Calling, OnThread, Executing, TypeOK, Frame
  <2>a. \A s : UNCHANGED nodes \/ SetNode(Cur(j), s)
               => \A n \in S \union frame[j].todo : n # Cur(j) => nodes'[n].status = nodes[n].status
    BY <1>0, <2>2 DEF SetNode
  <2>3. ASSUME \A n \in S \union frame[j].todo : n # Cur(j) => nodes'[n].status = nodes[n].status,
               frame'[j].cur = Cur(j), frame'[j].todo \subseteq frame[j].todo,
               \/ pc[j] \notin {"spawn", "loop"} \/ pc'[j] \in {"spawn", "loop"}
               \/ frame'[j].todo \cap ChildrenOf(Cur(j)) = {}
        PROVE  HasStack(j)'
    <3>1. pc'[j] \notin {"spawn", "loop"} => \A c \in frame'[j].todo : nodes[c].parent # Cur(j)
      BY <2>1, <2>2, <2>3 DEF IsWaiting, ChildrenOf
    <3>2. IsWaiting(S, j)'
      BY <1>0, <2>1, <2>2, <2>3, <3>1, SameWaiting
    <3> QED
      BY <3>2 DEF HasStack
  <2>4. CASE MarkRunRunning(j) \/ MarkRunRunningWrite(j) \/ Enter(j) \/ MarkBlockedFail(j)
    <3>1. /\ pc[j] \notin {"spawn", "loop"} /\ UNCHANGED frame
          /\ UNCHANGED nodes \/ \E s : SetNode(Cur(j), s)
      BY <2>4 DEF MarkRunRunning, MarkRunRunningWrite, Enter, MarkBlockedFail, storeVars
    <3> QED
      BY <2>a, <2>3, <3>1
  <2>5. CASE EnterRefused(j)
    <3>1. /\ pc[j] \notin {"spawn", "loop"} /\ UNCHANGED nodes
          /\ frame'[j].cur = Cur(j) /\ frame'[j].todo = frame[j].todo
      BY <1>0, <2>5, FrameWrites, FrameTodo DEF EnterRefused, storeVars
    <3> QED
      BY <2>a, <2>3, <3>1
  <2>6. CASE CheckerBlocks(j)
    <3>1. /\ UNCHANGED nodes /\ frame'[j].cur = Cur(j) /\ frame'[j].todo = frame[j].todo
          /\ pc[j] = "work" \/ Pending(j, Cur(j)) = {}
      BY <1>0, <2>6, FrameWrites, FrameTodo DEF CheckerBlocks, InService, storeVars
    <3> QED
      BY <2>a, <2>3, <3>1 DEF Pending
  <2>7. CASE Prune(j)
    <3>1. /\ pc[j] = "work" /\ frame'[j].cur = Cur(j) /\ frame'[j].todo = frame[j].todo
      BY <1>0, <2>7, FrameWrites DEF Prune
    <3>2. \A n \in S \union frame[j].todo : nodes'[n] = nodes[n]
      BY <2>1, <2>7, PruneWaits
    <3> QED
      BY <2>3, <3>1, <3>2
  <2>8. CASE BaseCaseFails(j) \/ BaseCaseCompletes(j) \/ Unresolved(j) \/ MergeCompletes(j)
    <3>1. \E s, x : EndsAs(j, s, x)
      BY <2>8 DEF BaseCaseFails, BaseCaseCompletes, Unresolved, MergeCompletes
    <3>2. /\ frame'[j].cur = Cur(j) /\ frame'[j].todo = frame[j].todo \ ChildrenOf(Cur(j))
      BY <1>0, <1>1, <3>1, FrameWrites DEF Calling
    <3>3. UNCHANGED nodes \/ \E s : SetNode(Cur(j), s)
      BY <3>1 DEF EndsAs
    <3> QED
      BY <2>a, <2>3, <3>2, <3>3
  <2>9. CASE MarkBlocked(j) \/ MarkBlockedEnd(j)
    <3>1. /\ pc[j] \notin {"spawn", "loop"}
          /\ UNCHANGED nodes \/ \E s : SetNode(Cur(j), s)
          /\ UNCHANGED frame \/ BlockedBy(j)
      BY <2>9, BlocksBefore DEF MarkBlocked, MarkBlockedEnd
    <3>2. frame'[j].cur = Cur(j) /\ frame'[j].todo = frame[j].todo
      BY <1>0, <3>1, FrameWrites, FrameTodo
    <3> QED
      BY <2>a, <2>3, <3>1, <3>2
  <2>10. CASE Persist(j)
    <3>1. /\ pc[j] = "persist" /\ UNCHANGED nodes /\ pc'[j] \in {"pop", "raised"}
          /\ frame'[j].cur = Cur(j) /\ frame'[j].todo = frame[j].todo
      BY <1>0, <2>10, FrameWrites DEF Persist
    <3> QED
      BY <2>a, <2>3, <3>1
  <2>11. CASE Spawn(j)
    BY <1>1, <2>1, <2>11, SpawnWaits DEF HasStack, Calling
  <2>12. CASE \E c \in Node : NextChild(j, c)
    <3>1. PICK c \in Node : NextChild(j, c)
      BY <2>12
    <3>2. IsWaiting(S \union {c}, j)' /\ S \union {c} \in SUBSET Node
      BY <2>1, <3>1, ChildWaits
    <3> QED
      BY <3>2 DEF HasStack
  <2>13. CASE ReturnToParent(j)
    <3>1. PICK T \in SUBSET Node : T = S \ {Cur(j)}
      BY <2>1
    <3> QED
      BY <2>1, <2>13, <3>1, ReturnWaits DEF HasStack
  <2>14. CASE EnterRaises(j) \/ ServiceRaises(j) \/ SpawnRaises(j) \/ MarkBlockedRaises(j)
              \/ ReturnToOrchestrator(j) \/ Aggregate(j) \/ Finalize(j) \/ Raised(j)
              \/ ClearRun(j) \/ Discard(j)
    BY <1>0, <1>1, <2>14 DEF EnterRaises, ServiceRaises, SpawnRaises, MarkBlockedRaises,
       ReturnToOrchestrator, Aggregate, Finalize, Raised, ClearRun, Discard, Calling
  <2>15. ~StartJob(j)
    BY <1>3 DEF StartJob, Calling
  <2> QED
    BY <2>4, <2>5, <2>6, <2>7, <2>8, <2>9, <2>10, <2>11, <2>12, <2>13, <2>14, <2>15 DEF JobStep
<1>4. pc[j] \in Calling \/ StartJob(j)
  <2>1. CASE pc[j] \in {"aggregate", "finalize", "raised", "clear", "discard"}
    BY <1>0, <1>1, <2>1 DEF JobStep, MarkRunRunning, MarkRunRunningWrite, Enter,
       MarkBlockedFail, EnterRefused, CheckerBlocks, InService, Prune, BaseCaseFails,
       BaseCaseCompletes, Unresolved, MergeCompletes, MarkBlocked, MarkBlockedEnd, Persist,
       Spawn, NextChild, ReturnToParent, EnterRaises, ServiceRaises, SpawnRaises,
       MarkBlockedRaises, ReturnToOrchestrator, Aggregate, Finalize, Raised, ClearRun, Discard,
       Calling
  <2>2. CASE pc[j] = "queued"
    BY <1>0, <2>2 DEF JobStep, MarkRunRunning, MarkRunRunningWrite, Enter,
       MarkBlockedFail, EnterRefused, CheckerBlocks, InService, Prune, BaseCaseFails,
       BaseCaseCompletes, Unresolved, MergeCompletes, MarkBlocked, MarkBlockedEnd, Persist,
       Spawn, NextChild, ReturnToParent, EnterRaises, ServiceRaises, SpawnRaises,
       MarkBlockedRaises, ReturnToOrchestrator, Aggregate, Finalize, Raised, ClearRun, Discard
  <2> QED
    BY <1>0, <2>1, <2>2 DEF Live, OnThread, Executing, Calling
<1> QED
  BY <1>2, <1>3, <1>4

\* The current node keeps the status that goes with where the job is.
LEMMA StepKeepsCur ==
  ASSUME IInv, IdsInOrder, NEW j \in Job, JobInTree(j), HasStack(j), CurIs(j), JobStep(j)
  PROVE  CurIs(j)'
<1>0. /\ TypeOK /\ pc \in [Job -> PC] /\ nodes \in [Node -> NodeRecord]
      /\ pc[j] \in OnThread => Cur(j) \in Node /\ Cur(j) <= born
  BY JobNodesBorn DEF IInv, TypeOK
<1>a. \A s : Cur(j) \in Node /\ SetNode(Cur(j), s) => nodes'[Cur(j)].status = s
  BY <1>0 DEF SetNode, NodeRecord
<1>b. pc[j] \in Calling => Cur(j) \in Node /\ Cur(j) <= born
  BY <1>0 DEF Calling, OnThread, Executing
<1>1. CASE StartJob(j) \/ MarkRunRunning(j) \/ MarkRunRunningWrite(j) \/ EnterRaises(j)
           \/ ServiceRaises(j) \/ SpawnRaises(j) \/ MarkBlockedRaises(j)
           \/ (\E c \in Node : NextChild(j, c)) \/ ReturnToOrchestrator(j) \/ Aggregate(j)
           \/ Finalize(j) \/ Raised(j) \/ ClearRun(j) \/ Discard(j)
  <2>1. pc'[j] \in {"mark", "markWrite", "enter", "raised", "aggregate", "finalize", "clear",
                    "discard", "done"}
    BY <1>0, <1>1 DEF StartJob, MarkRunRunning, MarkRunRunningWrite, EnterRaises,
       ServiceRaises, SpawnRaises, MarkBlockedRaises, NextChild, ReturnToOrchestrator,
       Aggregate, Finalize, Raised, ClearRun, Discard
  <2> QED
    BY <2>1 DEF CurIs
<1>2. CASE EnterRefused(j)
  BY <1>0, <1>2, FrameWrites DEF EnterRefused, CurIs
<1>3. CASE Enter(j)
  <2>1. pc'[j] = "work" /\ frame' = frame /\ SetNode(Cur(j), "running") /\ pc[j] = "enter"
    BY <1>0, <1>3 DEF Enter
  <2> QED
    BY <1>a, <1>b, <2>1 DEF CurIs, Calling
<1>4. CASE BaseCaseFails(j) \/ BaseCaseCompletes(j) \/ Unresolved(j) \/ MergeCompletes(j)
  <2>1. PICK s, x : EndsAs(j, s, x) /\ x \in {"failed", "completed"}
    BY <1>4 DEF BaseCaseFails, BaseCaseCompletes, Unresolved, MergeCompletes
  <2>2. pc'[j] = "raised" \/ (pc'[j] = "persist" /\ frame'[j].res \in {"failed", "completed"})
    BY <1>0, <2>1, FrameWrites
  <2> QED
    BY <2>2 DEF CurIs
<1>5. CASE CheckerBlocks(j)
  <2>1. pc[j] \in {"work", "loop"} /\ pc'[j] = "blk" /\ UNCHANGED nodes /\ frame'[j].cur = Cur(j)
    BY <1>0, <1>5, FrameWrites DEF CheckerBlocks, InService, storeVars
  <2> QED
    BY <2>1 DEF CurIs
<1>6. CASE Prune(j)
  <2>1. pc[j] = "work" /\ pc'[j] \in {"spawn", "raised"} /\ frame'[j].cur = Cur(j)
    BY <1>0, <1>6, FrameWrites DEF Prune
  <2>2. PICK S \in SUBSET Node : IsWaiting(S, j)
    BY <2>1 DEF HasStack, Calling
  <2>3. nodes'[Cur(j)] = nodes[Cur(j)]
    <3>1. Cur(j) \in S
      BY <2>2 DEF IsWaiting, IsStack
    <3>2. \A n \in S \union frame[j].todo : nodes'[n] = nodes[n]
      BY <1>6, <2>2, PruneWaits
    <3> QED
      BY <3>1, <3>2
  <2> QED
    BY <2>1, <2>3 DEF CurIs
<1>7. CASE Spawn(j)
  <2>1. pc[j] = "spawn" /\ pc'[j] \in {"spawn", "loop", "raised"} /\ frame'[j].cur = Cur(j)
    BY <1>0, <1>7, FrameWrites DEF Spawn
  <2>2. RunOf(j) \in Runs /\ Grows(RunOf(j), Cur(j)) /\ born \in Nat /\ Cur(j) <= born
        /\ Cur(j) \in Node
    BY <1>0, <1>7, <2>1, JobNodesBorn, SpawnGrows DEF Live, OnThread, Executing, TypeOK
  <2>3. nodes'[Cur(j)] = nodes[Cur(j)]
    BY <1>0, <2>2, GrowsBy, ConstantsAssumption DEF ConstantsAssumption
  <2> QED
    BY <2>1, <2>3 DEF CurIs
<1>8. CASE MarkBlocked(j) \/ MarkBlockedEnd(j)
  <2>1. \/ /\ SetNode(Cur(j), "waiting_check") /\ UNCHANGED frame
           /\ pc' = [pc EXCEPT ![j] = "blkFail"]
        \/ /\ SetNode(Cur(j), "blocked_human") \/ (nodes[Cur(j)].status = "blocked_human"
                                                   /\ UNCHANGED nodes)
           /\ BlockedBy(j)
        \/ pc' = [pc EXCEPT ![j] = "raised"]
    BY <1>8, BlocksBefore DEF MarkBlocked, MarkBlockedEnd, CurIs
  <2>2. pc[j] \in Calling
    BY <1>8 DEF MarkBlocked, MarkBlockedEnd, Calling
  <2>3. CASE SetNode(Cur(j), "waiting_check") /\ UNCHANGED frame /\ pc' = [pc EXCEPT ![j] = "blkFail"]
    BY <1>0, <1>a, <1>b, <2>2, <2>3 DEF CurIs
  <2>4. CASE BlockedBy(j) /\ (SetNode(Cur(j), "blocked_human")
                              \/ (nodes[Cur(j)].status = "blocked_human" /\ UNCHANGED nodes))
    <3>1. nodes'[Cur(j)].status = "blocked_human"
      BY <1>a, <1>b, <2>2, <2>4
    <3>2. frame'[j].cur = Cur(j) /\ pc'[j] \in {"blk", "persist", "raised"}
      BY <1>0, <2>4, FrameWrites
    <3> QED
      BY <3>1, <3>2 DEF CurIs
  <2>5. CASE pc' = [pc EXCEPT ![j] = "raised"]
    BY <1>0, <2>5 DEF CurIs
  <2> QED
    BY <2>1, <2>3, <2>4, <2>5
<1>9. CASE MarkBlockedFail(j)
  <2>1. /\ pc[j] = "blkFail" /\ UNCHANGED frame
        /\ (SetNode(Cur(j), "failed_check") /\ pc'[j] = "blkEnd") \/ pc'[j] = "raised"
    BY <1>0, <1>9 DEF MarkBlockedFail
  <2> QED
    BY <1>a, <1>b, <2>1 DEF CurIs, Calling
<1>10. CASE Persist(j)
  <2>1. /\ pc[j] = "persist" /\ UNCHANGED nodes /\ pc'[j] \in {"pop", "raised"}
        /\ frame'[j].cur = Cur(j) /\ frame'[j].res \in {frame[j].res, "failed"}
    BY <1>0, <1>10, FrameWrites DEF Persist
  <2> QED
    BY <2>1 DEF CurIs
<1>11. CASE ReturnToParent(j)
  <2> DEFINE p == nodes[Cur(j)].parent
  <2>1. PICK S \in SUBSET Node : IsWaiting(S, j)
    BY <1>11 DEF ReturnToParent, HasStack, Calling
  <2>2. nodes[p].status = "running"
    <3>1. PICK T \in SUBSET Node : T = S \ {Cur(j)}
      BY <2>1
    <3> QED
      BY <1>11, <2>1, <3>1, ReturnWaits
  <2>3. /\ frame'[j].cur = p /\ frame'[j].res = frame[j].res
        /\ \/ pc'[j] \in {"loop", "blk"} /\ UNCHANGED nodes
           \/ pc'[j] \in {"persist", "raised"} /\ frame[j].res = "failed"
    BY <1>0, <1>11, FrameWrites DEF ReturnToParent
  <2> QED
    BY <2>2, <2>3 DEF CurIs
<1> QED
  BY <1>1, <1>2, <1>3, <1>4, <1>5, <1>6, <1>7, <1>8, <1>9, <1>10, <1>11 DEF JobStep

\* A run that is reported blocked has a blocked node: the one the job was for, or
\* one that the aggregation has found.
LEMMA StepKeepsGoal ==
  ASSUME IInv, IdsInOrder, NEW j \in Job, JobInTree(j), CurIs(j), JobStep(j)
  PROVE  GoalIsTrue(j)'
<1>0. /\ TypeOK /\ pc \in [Job -> PC]
      /\ pc[j] \in OnThread => Cur(j) \in Node
  BY JobNodesBorn DEF IInv, TypeOK
<1>1. SUFFICES ASSUME pc'[j] = "finalize", frame'[j].goal = "blocked_human"
               PROVE  HasBlockedNode(RunOf(j))'
  BY DEF GoalIsTrue
<1>2. ReturnToOrchestrator(j) \/ Aggregate(j)
  <2>1. CASE StartJob(j) \/ MarkRunRunning(j) \/ MarkRunRunningWrite(j) \/ EnterRaises(j)
             \/ ServiceRaises(j) \/ SpawnRaises(j) \/ MarkBlockedRaises(j)
             \/ (\E c \in Node : NextChild(j, c)) \/ EnterRefused(j) \/ Enter(j)
             \/ CheckerBlocks(j) \/ Prune(j) \/ Spawn(j) \/ MarkBlockedFail(j) \/ Persist(j)
             \/ ReturnToParent(j) \/ Finalize(j) \/ Raised(j) \/ ClearRun(j) \/ Discard(j)
    BY <1>0, <1>1, <2>1 DEF StartJob, MarkRunRunning, MarkRunRunningWrite, EnterRaises,
       ServiceRaises, SpawnRaises, MarkBlockedRaises, NextChild, EnterRefused, Enter,
       CheckerBlocks, Prune, Spawn, MarkBlockedFail, Persist, ReturnToParent, Finalize, Raised,
       ClearRun, Discard
  <2>2. CASE BaseCaseFails(j) \/ BaseCaseCompletes(j) \/ Unresolved(j) \/ MergeCompletes(j)
    BY <1>0, <1>1, <2>2, FrameWrites DEF BaseCaseFails, BaseCaseCompletes, Unresolved,
       MergeCompletes
  <2>3. CASE MarkBlocked(j) \/ MarkBlockedEnd(j)
    <3>1. BlockedBy(j) \/ pc'[j] \in {"blkFail", "blkEnd", "raised"}
      BY <1>0, <2>3, BlocksBefore DEF MarkBlocked, MarkBlockedEnd
    <3> QED
      BY <1>0, <1>1, <3>1, FrameWrites
  <2> QED
    BY <2>1, <2>2, <2>3 DEF JobStep
<1>3. UNCHANGED <<nodes, jobs>>
  BY <1>2 DEF ReturnToOrchestrator, Aggregate, storeVars, poolVars
<1>4. HasBlockedNode(RunOf(j))
  <2>1. CASE ReturnToOrchestrator(j)
    <3>1. pc[j] = "pop" /\ GoalOf(frame[j].res) = "blocked_human"
      BY <1>0, <1>1, <2>1, FrameWrites DEF ReturnToOrchestrator
    <3>2. frame[j].res = "blocked"
      BY <3>1 DEF GoalOf
    <3>3. nodes[Cur(j)].status = "blocked_human" /\ Cur(j) \in Node /\ nodes[Cur(j)].run = RunOf(j)
      BY <1>0, <3>1, <3>2 DEF CurIs, JobInTree, OnThread, Executing
    <3> QED
      BY <3>3 DEF HasBlockedNode, NodesOf, Present, NodeStatus
  <2>2. CASE Aggregate(j)
    <3>1. AggregateRunStatus(RunOf(j)) = "blocked_human"
      BY <1>0, <1>1, <2>2, FrameWrites
    <3> DEFINE statuses == {nodes[n].status : n \in NodesOf(RunOf(j))}
    <3>2. "blocked_human" \in statuses
      BY <3>1 DEF AggregateRunStatus, NodesOf
    <3> QED
      BY <3>2 DEF HasBlockedNode
  <2> QED
    BY <1>2, <2>1, <2>2
<1> QED
  BY <1>3, <1>4 DEF HasBlockedNode, NodesOf, Present
-----------------------------------------------------------------------------
(* Careful clients: every step, when they intervene on idle runs only.     *)

\* A job whose nodes are left alone keeps its stack.
LEMMA LeftAloneKeepsStack ==
  ASSUME IInv, IdsInOrder, NEW j \in Job, JobInTree(j), HasStack(j), CurIs(j), GoalIsTrue(j),
         pc'[j] = pc[j], jobs'[j] = jobs[j], frame'[j] = frame[j],
         \A n \in Node : n <= born => /\ nodes'[n].run = nodes[n].run
                                     /\ nodes'[n].parent = nodes[n].parent,
         pc[j] \in Live => \A n \in Node : nodes[n].run = RunOf(j) => nodes'[n] = nodes[n]
  PROVE  HasStack(j)' /\ CurIs(j)' /\ GoalIsTrue(j)'
<1>0. /\ pc[j] \in OnThread => /\ Cur(j) \in Node /\ Cur(j) <= born
                              /\ nodes[Cur(j)].run = RunOf(j)
      /\ pc[j] \in OnThread => pc[j] \in Live
      /\ frame[j].todo \subseteq Node
  BY JobNodesBorn DEF JobInTree, Live, IInv, TypeOK, Frame
<1>1. HasStack(j)'
  <2>1. SUFFICES ASSUME pc[j] \in Calling PROVE \E S \in SUBSET Node : IsWaiting(S, j)'
    BY DEF HasStack
  <2>2. PICK S \in SUBSET Node : IsWaiting(S, j)
    BY <2>1 DEF HasStack
  <2>3. pc[j] \in OnThread
    BY <2>1 DEF Calling, OnThread, Executing
  <2>4. \A n \in S \union frame[j].todo : nodes[n].run = RunOf(j)
    <3>1. \A n \in S : nodes[n].run = RunOf(j)
      BY <2>2 DEF IsWaiting
    <3>2. ASSUME NEW n \in frame[j].todo
          PROVE  nodes[n].run = RunOf(j)
      <4>1. n \in Node /\ nodes[n].parent \in S /\ nodes[n].parent # NoNode
        BY <1>0, <2>2 DEF IsWaiting
      <4>2. nodes[nodes[n].parent].run = nodes[n].run
        BY <4>1 DEF IdsInOrder
      <4> QED
        BY <3>1, <4>1, <4>2
    <3> QED
      BY <3>1, <3>2
  <2>5. \A n \in S \union frame[j].todo : nodes'[n] = nodes[n]
    BY <1>0, <2>3, <2>4
  <2>6. pc'[j] \notin {"spawn", "loop"} => \A c \in frame'[j].todo : nodes[c].parent # Cur(j)
    BY <2>2 DEF IsWaiting
  <2>7. IsWaiting(S, j)'
    BY <1>0, <2>2, <2>3, <2>5, <2>6, SameWaiting
  <2> QED
    BY <2>7
<1>2. CurIs(j)'
  <2>1. CASE pc[j] \in OnThread
    BY <1>0, <2>1 DEF CurIs
  <2>2. CASE pc[j] \notin OnThread
    BY <2>2 DEF CurIs, OnThread, Executing
  <2> QED
    BY <2>1, <2>2
<1>3. GoalIsTrue(j)'
  BY <1>0 DEF GoalIsTrue, HasBlockedNode, NodesOf, Present, OnThread, Executing
<1> QED
  BY <1>1, <1>2, <1>3

\* A step outside the pool that leaves the nodes of active runs alone, and the jobs,
\* unless it submits or ends them.
LEMMA OutsideKeepsCareful ==
  ASSUME IInv, SettleInv, CarefulInv, OneIntervenes',
         \A n \in Node : n <= born => /\ nodes'[n].run = nodes[n].run
                                     /\ nodes'[n].parent = nodes[n].parent,
         \A n \in Node : nodes[n].run \in active => nodes'[n] = nodes[n],
         \A j \in Job : \/ pc'[j] = pc[j] /\ jobs'[j] = jobs[j] /\ frame'[j] = frame[j]
                        \/ pc'[j] \in {"queued", "none", "done"}
  PROVE  CarefulInv'
<1>1. SUFFICES ASSUME NEW j \in Job PROVE HasStack(j)' /\ CurIs(j)' /\ GoalIsTrue(j)'
  BY DEF CarefulInv
<1>2. CASE pc'[j] \in {"queued", "none", "done"}
  BY <1>2 DEF HasStack, CurIs, GoalIsTrue, Calling
<1>3. CASE pc'[j] = pc[j] /\ jobs'[j] = jobs[j] /\ frame'[j] = frame[j]
  <2>1. JobInTree(j) /\ (pc[j] \in Live => RunOf(j) \in active)
    BY DEF SettleInv, JobsOK, JobOK, IInv, OneWorkerPerRun, ClaimIsHeld
  <2> QED
    BY <1>3, <2>1, LeftAloneKeepsStack DEF CarefulInv, SettleInv
<1> QED
  BY <1>2, <1>3

\* A step of a job touches neither the others nor a run that is being intervened on.
LEMMA JobKeepsCareful ==
  ASSUME IInv, SettleInv, CarefulInv, NEW j \in Job, JobStep(j)
  PROVE  CarefulInv'
<1> USE DEF SettleInv, CarefulInv
<1>0. JobInTree(j) /\ \A i \in Job : JobInTree(i)
  BY DEF JobsOK, JobOK
<1>1. /\ pc[j] \in Live /\ RunOf(j) \in Runs /\ RunOf(j) \in active
      /\ jobs' = jobs /\ active' \subseteq active /\ UNCHANGED <<req, creating>>
      /\ \A i \in Job : i # j => pc'[i] = pc[i] /\ frame'[i] = frame[i]
      /\ active \subseteq Runs /\ creating \subseteq Runs
  <2>1. pc[j] \in Live /\ jobs' = jobs /\ active' \subseteq active
        /\ \A i \in Job : i # j => pc'[i] = pc[i]
    BY StepMoves DEF IInv, TypeOK, Moves, Discard, poolVars, Live, OnThread, Executing
  <2> QED
    BY <2>1, StepKeepsRest, StepKeepsFrame
    DEF IInv, TypeOK, OneWorkerPerRun, ClaimIsHeld, apiVars, FrameKept
<1>2. /\ \A r \in Runs : r # RunOf(j) => runStatus'[r] = runStatus[r]
      /\ \A n \in Node : n <= born => /\ nodes'[n].run = nodes[n].run
                                     /\ nodes'[n].parent = nodes[n].parent
  BY <1>0, StepSettlesOwn, StepKeepsOrder DEF SettlesOwn
<1>3. OneIntervenes'
  <2>1. ASSUME NEW c \in Clients, req[c].at # "idle"
        PROVE  LET r == nodes'[req[c].node].run
               IN /\ r \notin active' \union creating
                  /\ req[c].seen = "blocked_human"
                  /\ req[c].at \in {"check", "update", "run"} => runStatus'[r] = "blocked_human"
    <3>1. req[c].node \in Node /\ req[c].node <= born /\ nodes[req[c].node].run \in Runs
      BY <2>1, RequestNodeBorn
    <3> QED
      BY <1>1, <1>2, <2>1, <3>1 DEF OneIntervenes
  <2>2. ASSUME NEW r \in creating
        PROVE  runStatus'[r] = "queued"
    BY <1>1, <1>2 DEF OneIntervenes, CreatingIsFresh
  <2> QED
    BY <1>1, <2>1, <2>2 DEF OneIntervenes
<1>4. ASSUME NEW i \in Job, i # j
      PROVE  HasStack(i)' /\ CurIs(i)' /\ GoalIsTrue(i)'
  <2>1. pc[i] \in Live => RunOf(i) # RunOf(j) /\ RunOf(i) \in Runs
    BY <1>1, <1>4 DEF IInv, OneWorkerPerRun, NoTwoWorkers, ClaimIsHeld
  <2>2. pc[i] \in Live => \A n \in Node : nodes[n].run = RunOf(i) => nodes'[n] = nodes[n]
    BY <1>0, <2>1, StepLeavesOthers
  <2> QED
    BY <1>0, <1>1, <1>2, <1>4, <2>2, LeftAloneKeepsStack
<1>5. HasStack(j)' /\ CurIs(j)' /\ GoalIsTrue(j)'
  BY <1>0, StepKeepsStack, StepKeepsCur, StepKeepsGoal
<1> QED
  BY <1>3, <1>4, <1>5

\* Removing a node or what is below it leaves the other runs alone.
LEMMA RemovedLeavesOthers ==
  ASSUME TypeOK, IdsInOrder, NEW n \in Node, NEW T,
         T = Descendants(n) \/ T = Subtree(n) \/ T = {n}, nodes' = Removed(T),
         NEW m \in Node, nodes[m].run # nodes[n].run
  PROVE  nodes'[m] = nodes[m]
<1>1. m \notin T
  BY DescendantsAbove DEF Subtree
<1> QED
  BY <1>1 DEF Removed, TypeOK

\* Storing a run keeps the invariant ...
LEMMA CreateKeepsCareful ==
  ASSUME IInv, SettleInv, CarefulInv, NEW r \in Runs, CreateRun(r)
  PROVE  CarefulInv'
<1> USE DEF SettleInv, CarefulInv
<1>0. runStatus \in [Runs -> RunStatus \union {"none"}] /\ creating \subseteq Runs
  BY DEF IInv, TypeOK
<1>1. /\ UNCHANGED <<nodes, active, jobs, pc, frame, req>>
      /\ runStatus[r] = "none" /\ runStatus'[r] = "queued"
      /\ \A q \in Runs : q # r => runStatus'[q] = runStatus[q]
      /\ creating' = creating \union {r}
  BY <1>0 DEF CreateRun, SetRun, poolVars, threadVars
<1>2. OneIntervenes'
  <2>1. ASSUME NEW c \in Clients, req[c].at # "idle"
        PROVE  LET q == nodes[req[c].node].run
               IN /\ q \notin active \union creating'
                  /\ req[c].seen = "blocked_human"
                  /\ req[c].at \in {"check", "update", "run"} => runStatus'[q] = "blocked_human"
    <3>1. /\ req[c].node \in Node /\ nodes[req[c].node].run \in Runs
          /\ runStatus[nodes[req[c].node].run] # "none"
      BY <2>1, RequestNodeBorn DEF RunsCreated
    <3> QED
      BY <1>1, <2>1, <3>1 DEF OneIntervenes
  <2>2. ASSUME NEW q \in creating'
        PROVE  runStatus'[q] = "queued"
    BY <1>0, <1>1, <2>2 DEF OneIntervenes
  <2> QED
    BY <1>1, <2>1, <2>2 DEF OneIntervenes
<1> QED
  BY <1>1, <1>2, OutsideKeepsCareful

\* ... so do storing its root ...
LEMMA RootKeepsCareful ==
  ASSUME IInv, SettleInv, CarefulInv, NEW r \in Runs, CreateRoot(r)
  PROVE  CarefulInv'
<1> USE DEF SettleInv, CarefulInv
<1>0. /\ TypeOK /\ ConstantsAssumption /\ active \subseteq Runs
      /\ born \in Nat /\ MaxNodes \in Nat
  BY ConstantsAssumption DEF IInv, TypeOK, ConstantsAssumption
<1>1. UNCHANGED <<runStatus, active, jobs, pc, frame, req, creating>>
  BY DEF CreateRoot, poolVars, threadVars, apiVars
<1>2. Grows(r, NoNode)
  <2>1. born < MaxNodes /\ born' = born + 1
        /\ nodes' = [nodes EXCEPT ![born + 1] = NewNode(r, NoNode, 0)]
    BY DEF CreateRoot
  <2>2. \E d \in Nat : nodes' = [nodes EXCEPT ![born + 1] = NewNode(r, NoNode, d)]
    BY <2>1
  <2>3. born + 1 \in Node
    BY <1>0, <2>1
  <2> QED
    BY <2>1, <2>2, <2>3 DEF Grows
<1>3. /\ \A n \in Node : n # born + 1 => nodes'[n] = nodes[n]
      /\ nodes[born + 1].run \notin Runs
  BY <1>0, <1>2, GrowsBy
<1>4. OneIntervenes'
  <2>1. ASSUME NEW c \in Clients, req[c].at # "idle"
        PROVE  nodes'[req[c].node] = nodes[req[c].node]
    <3>1. req[c].node \in Node /\ nodes[req[c].node].run \in Runs
      BY <2>1, RequestNodeBorn
    <3> QED
      BY <1>3, <3>1
  <2> QED
    BY <1>1, <2>1 DEF OneIntervenes
<1>5. \A n \in Node : /\ n <= born => nodes'[n] = nodes[n]
                      /\ nodes[n].run \in active => nodes'[n] = nodes[n]
  BY <1>0, <1>3
<1> QED
  BY <1>1, <1>4, <1>5, OutsideKeepsCareful

\* ... and giving it up ...
LEMMA AbandonKeepsCareful ==
  ASSUME IInv, SettleInv, CarefulInv, NEW r \in Runs, CreateRaises(r)
  PROVE  CarefulInv'
<1>1. /\ UNCHANGED <<runStatus, nodes, active, jobs, pc, frame, req>>
      /\ creating' \subseteq creating
  BY DEF CreateRaises, storeVars, poolVars, threadVars
<1>2. OneIntervenes'
  BY <1>1 DEF CarefulInv, OneIntervenes
<1> QED
  BY <1>1, <1>2, OutsideKeepsCareful

\* ... and so does submitting its job.
LEMMA SubmitKeepsCareful ==
  ASSUME IInv, SettleInv, CarefulInv, NEW r \in Runs, NEW n \in Node, SubmitRun(r, n)
  PROVE  CarefulInv'
<1>1. /\ r \in creating /\ active' = active \union {r} /\ creating' = creating \ {r}
      /\ UNCHANGED <<runStatus, nodes, born, frame, req>> /\ Submit(r, n, "start")
  BY DEF SubmitRun, storeVars
<1>2. \A j \in Job : \/ pc'[j] = pc[j] /\ jobs'[j] = jobs[j]
                     \/ pc'[j] = "queued"
  BY <1>1 DEF Submit, IInv, TypeOK
<1>3. OneIntervenes'
  BY <1>1 DEF CarefulInv, OneIntervenes
<1> QED
  BY <1>1, <1>2, <1>3, OutsideKeepsCareful

\* The one client that intervenes sets a node running or completed, then the run
\* running, then claims it, or removes nodes of a blocked run.
LEMMA HandlerKeepsCareful ==
  ASSUME IInv, SettleInv, CarefulInv, NEW c \in Clients, HandlerStep(c)
  PROVE  CarefulInv'
<1> DEFINE n == req[c].node
           r == nodes[n].run
<1>0. /\ TypeOK /\ SameTree /\ IdsInOrder
      /\ runStatus \in [Runs -> RunStatus \union {"none"}] /\ active \subseteq Runs
  BY OutsideShape DEF IInv, TypeOK, SettleInv
<1>1. /\ req[c].at # "idle" /\ n \in Node /\ r \in Runs
      /\ r \notin active \union creating /\ req[c].seen = "blocked_human"
      /\ req[c].at \in {"check", "update", "run"} => runStatus[r] = "blocked_human"
      /\ \A d \in Clients : d # c => req[d].at = "idle"
      /\ \A q \in creating : runStatus[q] = "queued"
  <2>1. req[c].at # "idle"
    BY DEF HandlerStep, CheckEligible, ApplyToNode, ApplyToRun, Claim, DeleteNode
  <2> QED
    BY <2>1, RequestNodeBorn DEF CarefulInv, OneIntervenes, SettleInv
<1>2. ASSUME NEW to, Advance(c, to), to \in {"idle", "update", "run", "claim"},
             UNCHANGED creating, to # "idle" => UNCHANGED active,
             \A q \in Runs : q # r => runStatus'[q] = runStatus[q],
             to \in {"update", "run"} => UNCHANGED runStatus /\ req[c].at \in {"check", "update"}
      PROVE  OneIntervenes'
  <2>1. ASSUME NEW d \in Clients, req'[d].at # "idle"
        PROVE  /\ d = c /\ req'[d].at = to
               /\ LET q == nodes'[req'[d].node].run
                  IN /\ q \notin active' \union creating'
                     /\ req'[d].seen = "blocked_human"
                     /\ req'[d].at \in {"check", "update", "run"}
                          => runStatus'[q] = "blocked_human"
    <3>1. d = c /\ req'[d].at = to /\ to # "idle"
      BY <1>0, <1>1, <1>2, <2>1, AdvanceBy
    <3>2. req'[d].node = n /\ req'[d].seen = "blocked_human"
      BY <1>0, <1>1, <1>2, <3>1, AdvanceBy
    <3>3. nodes'[n].run = r
      BY <1>0, <1>1 DEF SameTree
    <3> QED
      BY <1>1, <1>2, <3>1, <3>2, <3>3
  <2>2. ASSUME NEW q \in creating'
        PROVE  runStatus'[q] = "queued"
    BY <1>1, <1>2, <2>2 DEF IInv, TypeOK
  <2> QED
    BY <2>1, <2>2 DEF OneIntervenes
<1>3. \A m \in Node : /\ nodes'[m].run = nodes[m].run
                      /\ nodes'[m].parent = nodes[m].parent
  BY <1>0 DEF SameTree
<1>4. ASSUME OneIntervenes', UNCHANGED <<jobs, pc, frame>>,
             \A m \in Node : nodes[m].run # r => nodes'[m] = nodes[m]
      PROVE  CarefulInv'
  BY <1>1, <1>3, <1>4, OutsideKeepsCareful
<1>5. CASE CheckEligible(c)
  <2>1. PICK to \in {"update", "idle"} : Advance(c, to)
    BY <1>5 DEF CheckEligible
  <2>2. /\ req[c].at = "check"
        /\ UNCHANGED <<runStatus, nodes, active, jobs, pc, frame, creating>>
    BY <1>5 DEF CheckEligible, storeVars, poolVars, threadVars
  <2> QED
    BY <1>2, <1>4, <2>1, <2>2
<1>6. CASE ApplyToNode(c)
  <2>1. /\ req[c].at = "update"
        /\ UNCHANGED <<runStatus, active, jobs, pc, frame, creating>>
        /\ UNCHANGED nodes \/ \E s : SetNode(n, s)
        /\ Advance(c, "run") \/ Advance(c, "idle")
    BY <1>1, <1>6 DEF ApplyToNode, poolVars, threadVars
  <2>2. \A m \in Node : nodes[m].run # r => nodes'[m] = nodes[m]
    BY <1>0, <1>1, <2>1 DEF SetNode, TypeOK
  <2> QED
    BY <1>2, <1>4, <2>1, <2>2
<1>7. CASE ApplyToRun(c)
  <2>1. /\ UNCHANGED <<nodes, active, jobs, pc, frame, creating>>
        /\ UNCHANGED runStatus \/ SetRun(r, "running")
    BY <1>7 DEF ApplyToRun, poolVars, threadVars
  <2>2. Advance(c, "claim") \/ Advance(c, "idle")
    BY <1>7 DEF ApplyToRun
  <2>3. \A q \in Runs : q # r => runStatus'[q] = runStatus[q]
    BY <1>0, <2>1 DEF SetRun
  <2> QED
    BY <1>2, <1>4, <2>1, <2>2, <2>3
<1>8. CASE Claim(c)
  <2>1. /\ Advance(c, "idle") /\ UNCHANGED <<runStatus, nodes, born, frame, creating>>
        /\ Submit(r, n, "resume") \/ UNCHANGED <<jobs, pc>>
    BY <1>8 DEF Claim, storeVars, poolVars
  <2>2. \A j \in Job : \/ pc'[j] = pc[j] /\ jobs'[j] = jobs[j]
                       \/ pc'[j] = "queued"
    BY <2>1 DEF Submit, IInv, TypeOK
  <2>3. OneIntervenes'
    BY <1>2, <2>1
  <2> QED
    BY <2>1, <2>2, <2>3, OutsideKeepsCareful
<1>9. CASE DeleteNode(c)
  <2>1. /\ Advance(c, "idle") /\ UNCHANGED <<runStatus, active, jobs, pc, frame, creating>>
        /\ nodes' = Removed(Subtree(n)) \/ nodes' = Removed({n})
    BY <1>9 DEF DeleteNode, poolVars, threadVars
  <2>2. \A m \in Node : nodes[m].run # r => nodes'[m] = nodes[m]
    BY <1>0, <1>1, <2>1, RemovedLeavesOthers
  <2> QED
    BY <1>2, <1>4, <2>1, <2>2
<1> QED
  BY <1>5, <1>6, <1>7, <1>8, <1>9 DEF HandlerStep

\* A client that begins finds the run blocked, with nobody else at work.
LEMMA RequestKeepsCareful ==
  ASSUME IInv, SettleInv, CarefulInv, OnlyIdle, NEW c \in Clients, NEW n \in Node,
         \/ DeleteDescendants(c, n)
         \/ \E a \in {"retry", "skip"} : BeginIntervention(c, n, a)
  PROVE  CarefulInv'
<1> DEFINE r == nodes[n].run
<1>0. /\ TypeOK /\ SameTree /\ IdsInOrder /\ req \in [Clients -> Request]
      /\ \A q \in creating : runStatus[q] = "queued"
  BY OutsideShape DEF IInv, TypeOK, SettleInv, CarefulInv, OneIntervenes
<1>1. PICK a, at : Ask(c, n, a, at)
  BY DEF DeleteDescendants, BeginIntervention
<1>2. /\ UNCHANGED <<runStatus, active, jobs, pc, frame, creating>>
      /\ UNCHANGED nodes \/ nodes' = Removed(Descendants(n))
  BY DEF DeleteDescendants, BeginIntervention, storeVars, poolVars, threadVars
<1>3. /\ runStatus[r] = "blocked_human" /\ r \notin active \union creating
      /\ \A d \in Clients : req[d].at = "idle"
  BY <1>0, <1>1 DEF Ask, Idle
<1>4. \A d \in Clients : req'[d].at # "idle" =>
        d = c /\ req'[d].node = n /\ req'[d].seen = "blocked_human"
  BY <1>0, <1>1, <1>3 DEF Ask
<1>5. \A m \in Node : /\ nodes'[m].run = nodes[m].run
                      /\ nodes'[m].parent = nodes[m].parent
                      /\ nodes[m].run # r => nodes'[m] = nodes[m]
  BY <1>0, <1>2, RemovedLeavesOthers DEF SameTree
<1>6. OneIntervenes'
  BY <1>0, <1>2, <1>3, <1>4, <1>5 DEF OneIntervenes
<1> QED
  BY <1>2, <1>3, <1>5, <1>6, OutsideKeepsCareful

\* In a new process nobody intervenes and no job is under way.
LEMMA RebootKeepsCareful ==
  ASSUME IInv, SettleInv, CarefulInv, Reboot
  PROVE  CarefulInv'
<1>1. /\ creating' = {} /\ \A c \in Clients : req'[c].at = "idle"
      /\ \A j \in Job : pc'[j] \in {"none", "done"}
  BY DEF Reboot, NoRequest
<1> QED
  BY <1>1 DEF CarefulInv, OneIntervenes, HasStack, CurIs, GoalIsTrue, Calling

LEMMA InitCareful ==
  Init => CarefulInv
BY DEF Init, NoRequest, CarefulInv, OneIntervenes, HasStack, CurIs, GoalIsTrue, Calling

\* A step that changes none of this keeps it.
LEMMA SameKeepsCareful ==
  ASSUME IInv, SettleInv, CarefulInv,
         UNCHANGED <<runStatus, nodes, active, jobs, pc, frame, req, creating>>
  PROVE  CarefulInv'
<1>1. OneIntervenes'
  BY DEF CarefulInv, OneIntervenes
<1> QED
  BY <1>1, OutsideKeepsCareful

\* The invariant of careful clients is inductive.
LEMMA NextKeepsCareful ==
  IInv /\ SettleInv /\ (OnlyIdle => CarefulInv) /\ [Next]_vars => (OnlyIdle => CarefulInv')
<1> SUFFICES ASSUME IInv, SettleInv, CarefulInv, OnlyIdle, [Next]_vars PROVE CarefulInv'
  OBVIOUS
<1>1. CASE \E j \in Job : JobStep(j)
  BY <1>1, JobKeepsCareful
<1>2. CASE \E r \in Runs : CreateRun(r) \/ CreationStep(r)
  BY <1>2, CreateKeepsCareful, RootKeepsCareful, AbandonKeepsCareful, SubmitKeepsCareful
  DEF CreationStep
<1>3. CASE \E c \in Clients : HandlerStep(c)
  BY <1>3, HandlerKeepsCareful
<1>4. CASE \E c \in Clients, n \in Node :
             \/ DeleteDescendants(c, n)
             \/ \E a \in {"retry", "skip"} : BeginIntervention(c, n, a)
  BY <1>4, RequestKeepsCareful
<1>5. CASE Crash \/ Restart
  BY <1>5, RebootKeepsCareful DEF Crash, Restart
<1>6. CASE Shutdown \/ UNCHANGED vars
  BY <1>6, SameKeepsCareful DEF Shutdown, vars, storeVars, poolVars, threadVars, apiVars
<1> QED
  BY <1>1, <1>2, <1>3, <1>4, <1>5, <1>6 DEF Next
-----------------------------------------------------------------------------
(* Blocked runs, when nothing is deleted and no crash interrupts a client. *)

\* A node that is not changed still blocks its run.
LEMMA SameBlocked ==
  ASSUME NEW r, HasBlockedNode(r),
         \A n \in Node : nodes[n].run = r => nodes'[n] = nodes[n]
  PROVE  HasBlockedNode(r)'
BY DEF HasBlockedNode, NodesOf, Present

\* A job that does not execute leaves the nodes alone.
LEMMA OnlyExecutingWrites ==
  ASSUME NEW j \in Job, JobStep(j), pc[j] \notin Executing
  PROVE  UNCHANGED nodes
<1>1. CASE StartJob(j) \/ MarkRunRunning(j) \/ MarkRunRunningWrite(j) \/ Raised(j) \/ ClearRun(j)
           \/ Discard(j)
  BY <1>1 DEF StartJob, MarkRunRunning, MarkRunRunningWrite, Raised, ClearRun, Discard, storeVars
<1>2. CASE pc[j] \notin {"queued", "mark", "markWrite", "raised", "clear", "discard"}
  BY <1>2 DEF JobStep, Executing, StartJob, MarkRunRunning, MarkRunRunningWrite, EnterRefused,
     Enter, EnterRaises, ServiceRaises, InService, BaseCaseFails, BaseCaseCompletes,
     CheckerBlocks, Prune, Spawn, SpawnRaises, NextChild, Unresolved, MergeCompletes,
     MarkBlocked, MarkBlockedRaises, MarkBlockedFail, MarkBlockedEnd, Persist, ReturnToParent,
     ReturnToOrchestrator, Aggregate, Finalize, Raised, ClearRun, Discard
<1> QED
  BY <1>1, <1>2 DEF JobStep, Executing, EnterRefused,
     Enter, EnterRaises, ServiceRaises, InService, BaseCaseFails, BaseCaseCompletes,
     CheckerBlocks, Prune, Spawn, SpawnRaises, NextChild, Unresolved, MergeCompletes,
     MarkBlocked, MarkBlockedRaises, MarkBlockedFail, MarkBlockedEnd, Persist, ReturnToParent,
     ReturnToOrchestrator, Aggregate, Finalize

\* A run is blocked by its own job, when that reports it.
LEMMA FinalizeBlocks ==
  ASSUME IInv, NEW j \in Job, JobStep(j), RunOf(j) \in Runs, NEW r \in Runs,
         runStatus[r] # "blocked_human", runStatus'[r] = "blocked_human"
  PROVE  /\ r = RunOf(j) /\ pc[j] = "finalize" /\ frame[j].goal = "blocked_human"
         /\ UNCHANGED <<nodes, jobs>>
<1>0. runStatus \in [Runs -> RunStatus \union {"none"}]
  BY DEF IInv, TypeOK
<1>1. CASE Finalize(j)
  BY <1>0, <1>1 DEF Finalize, SetRun, poolVars
<1>2. CASE Raised(j) \/ MarkRunRunningWrite(j)
  BY <1>0, <1>2 DEF Raised, MarkRunRunningWrite, SetRun
<1>3. CASE ~(Finalize(j) \/ Raised(j) \/ MarkRunRunningWrite(j))
  BY <1>3 DEF JobStep, storeVars, StartJob, MarkRunRunning, EnterRefused,
     Enter, EnterRaises, ServiceRaises, BaseCaseFails, BaseCaseCompletes,
     CheckerBlocks, Prune, Spawn, SpawnRaises, NextChild, Unresolved, MergeCompletes,
     MarkBlocked, MarkBlockedRaises, MarkBlockedFail, MarkBlockedEnd, Persist, ReturnToParent,
     ReturnToOrchestrator, Aggregate, ClearRun, Discard
<1> QED
  BY <1>1, <1>2, <1>3

\* A job blocks its run when a node of it is blocked, and leaves the nodes of a run
\* that is blocked alone.
LEMMA JobKeepsBlocked ==
  ASSUME IInv, SettleInv, CarefulInv, BlockedHasNode, NEW j \in Job, JobStep(j)
  PROVE  BlockedHasNode'
<1>0. /\ JobInTree(j) /\ RaisedHasRun(j) /\ GoalIsReported(j) /\ GoalIsTrue(j) /\ IdsInOrder
      /\ pc[j] \in Live /\ RunOf(j) \in Runs
      /\ UNCHANGED <<req, stopping>>
      /\ \A n \in Node : n <= born => nodes'[n].run = nodes[n].run
  <2>1. JobInTree(j) /\ RaisedHasRun(j) /\ GoalIsReported(j) /\ IdsInOrder /\ GoalIsTrue(j)
    BY DEF SettleInv, JobsOK, JobOK, CarefulInv
  <2>2. pc[j] \in Live /\ RunOf(j) \in Runs
    BY StepMoves DEF IInv, TypeOK, Moves, Discard, Live, OnThread, Executing, OneWorkerPerRun,
       ClaimIsHeld
  <2> QED
    BY <2>1, <2>2, StepKeepsRest, StepKeepsOrder DEF apiVars, procVars
<1>1. \A c \in Clients : req'[c].at # "delete" /\ (stopping' => req'[c].at = "idle")
  BY <1>0 DEF BlockedHasNode
<1>2. ASSUME NEW r \in Runs, runStatus'[r] = "blocked_human"
      PROVE  \/ HasBlockedNode(r)'
             \/ \E c \in Clients : req'[c].at = "run" /\ nodes'[req'[c].node].run = r
  <2>1. CASE runStatus[r] = "blocked_human"
    <3>1. CASE HasBlockedNode(r)
      <4>1. ASSUME NEW n \in Node, nodes[n].run = r
            PROVE  nodes'[n] = nodes[n]
        <5>1. CASE r # RunOf(j)
          BY <1>0, <4>1, <5>1, StepLeavesOthers
        <5>2. CASE r = RunOf(j)
          <6>1. pc[j] \notin Executing
            BY <2>1, <5>2 DEF IInv, WorkerSeesRunning
          <6> QED
            BY <6>1, OnlyExecutingWrites
        <5> QED
          BY <5>1, <5>2
      <4> QED
        BY <3>1, <4>1, SameBlocked
    <3>2. CASE \E c \in Clients : req[c].at = "run" /\ nodes[req[c].node].run = r
      BY <1>0, <3>2, RequestNodeBorn
    <3> QED
      BY <2>1, <3>1, <3>2 DEF BlockedHasNode
  <2>2. CASE runStatus[r] # "blocked_human"
    <3>1. /\ r = RunOf(j) /\ pc[j] = "finalize" /\ frame[j].goal = "blocked_human"
          /\ UNCHANGED nodes
      BY <1>0, <1>2, <2>2, FinalizeBlocks
    <3> QED
      BY <1>0, <3>1, SameBlocked DEF GoalIsTrue
  <2> QED
    BY <2>1, <2>2
<1> QED
  BY <1>1, <1>2 DEF BlockedHasNode

\* A handler that sets the blocked node running or completed does the same to its run
\* before anything else happens to it.
LEMMA HandlerKeepsBlocked ==
  ASSUME IInv, SettleInv, CarefulInv, BlockedHasNode, NEW c \in Clients, HandlerStep(c)
  PROVE  BlockedHasNode'
<1> DEFINE n == req[c].node
           r == nodes[n].run
<1>0. /\ TypeOK /\ SameTree /\ runStatus \in [Runs -> RunStatus \union {"none"}]
  BY OutsideShape DEF IInv, TypeOK
<1>1. /\ req[c].at \notin {"idle", "delete"} /\ n \in Node /\ r \in Runs
      /\ req[c].seen = "blocked_human"
      /\ req[c].at \in {"check", "update", "run"} => runStatus[r] = "blocked_human"
      /\ \A d \in Clients : d # c => req[d].at = "idle"
      /\ ~stopping
  <2>1. req[c].at # "idle"
    BY DEF HandlerStep, CheckEligible, ApplyToNode, ApplyToRun, Claim, DeleteNode
  <2> QED
    BY <2>1, RequestNodeBorn DEF CarefulInv, OneIntervenes, SettleInv, BlockedHasNode
<1>2. PICK to \in {"idle", "update", "run", "claim"} : Advance(c, to)
  BY <1>1 DEF HandlerStep, CheckEligible, ApplyToNode, ApplyToRun, Claim, DeleteNode
<1>3. /\ req'[c].at = to /\ (to # "idle" => req'[c].node = n)
      /\ \A d \in Clients : d # c => req'[d] = req[d]
  BY <1>0, <1>1, <1>2, AdvanceBy
<1>4. ~stopping'
  BY <1>1 DEF HandlerStep, CheckEligible, ApplyToNode, ApplyToRun, Claim, DeleteNode, procVars
<1>5. \A d \in Clients : req'[d].at # "delete" /\ (stopping' => req'[d].at = "idle")
  BY <1>1, <1>3, <1>4
<1>6. ASSUME NEW q \in Runs, runStatus[q] = "blocked_human", req[c].at # "run" \/ q # r
      PROVE  HasBlockedNode(q)
  BY <1>1, <1>6 DEF BlockedHasNode
<1>7. CASE CheckEligible(c) \/ Claim(c)
  <2>1. req[c].at # "run" /\ UNCHANGED <<nodes, runStatus>>
    BY <1>7 DEF CheckEligible, Claim, storeVars
  <2>2. \A q \in Runs : runStatus'[q] = "blocked_human" => HasBlockedNode(q)'
    BY <1>6, <2>1, SameBlocked
  <2> QED
    BY <1>5, <2>2 DEF BlockedHasNode
<1>8. CASE ApplyToNode(c)
  <2>1. /\ req[c].at = "update" /\ UNCHANGED runStatus
        /\ \/ Advance(c, "run") /\ \E s : SetNode(n, s)
           \/ UNCHANGED nodes
    BY <1>1, <1>8 DEF ApplyToNode
  <2>2. CASE UNCHANGED nodes
    <3>1. \A q \in Runs : runStatus'[q] = "blocked_human" => HasBlockedNode(q)'
      BY <1>6, <2>1, <2>2, SameBlocked
    <3> QED
      BY <1>5, <3>1 DEF BlockedHasNode
  <2>3. CASE Advance(c, "run") /\ \E s : SetNode(n, s)
    <3>1. req'[c].at = "run" /\ req'[c].node = n /\ nodes'[n].run = r
      BY <1>0, <1>1, <2>3, AdvanceBy DEF SameTree
    <3>2. \A m \in Node : nodes[m].run # r => nodes'[m] = nodes[m]
      BY <1>0, <1>1, <2>3 DEF SetNode, TypeOK
    <3>3. \A q \in Runs : runStatus'[q] = "blocked_human" /\ q # r => HasBlockedNode(q)'
      BY <1>6, <2>1, <3>2, SameBlocked
    <3> QED
      BY <1>5, <3>1, <3>3 DEF BlockedHasNode
  <2> QED
    BY <2>1, <2>2, <2>3
<1>9. CASE ApplyToRun(c)
  <2>1. req[c].at = "run" /\ UNCHANGED nodes /\ SetRun(r, "running")
    BY <1>1, <1>9, RunTransitions DEF ApplyToRun
  <2>2. \A q \in Runs : runStatus'[q] = "blocked_human" => q # r /\ runStatus[q] = "blocked_human"
    BY <1>0, <1>1, <2>1 DEF SetRun
  <2>3. \A q \in Runs : runStatus'[q] = "blocked_human" => HasBlockedNode(q)'
    BY <1>6, <2>1, <2>2, SameBlocked
  <2> QED
    BY <1>5, <2>3 DEF BlockedHasNode
<1>10. ~DeleteNode(c)
  BY <1>1 DEF DeleteNode
<1> QED
  BY <1>7, <1>8, <1>9, <1>10 DEF HandlerStep

\* Storing a run leaves the blocked ones alone ...
LEMMA CreateKeepsBlocked ==
  ASSUME IInv, BlockedHasNode, NEW r \in Runs, CreateRun(r)
  PROVE  BlockedHasNode'
<1>0. runStatus \in [Runs -> RunStatus \union {"none"}]
  BY DEF IInv, TypeOK
<1>1. /\ UNCHANGED <<nodes, req, stopping>>
      /\ \A q \in Runs : runStatus'[q] = "blocked_human" => runStatus[q] = "blocked_human"
  BY <1>0 DEF CreateRun, SetRun, procVars
<1> QED
  BY <1>1 DEF BlockedHasNode, HasBlockedNode, NodesOf, Present

\* ... and so does storing its root.
LEMMA RootKeepsBlocked ==
  ASSUME IInv, SettleInv, BlockedHasNode, NEW r \in Runs, CreateRoot(r)
  PROVE  BlockedHasNode'
<1>0. /\ TypeOK /\ IdsInOrder /\ MaxNodes \in Nat /\ born \in Nat
  BY ConstantsAssumption DEF IInv, TypeOK, SettleInv, ConstantsAssumption
<1>1. UNCHANGED <<req, stopping, runStatus>>
  BY DEF CreateRoot, procVars, apiVars
<1>2. \A n \in Node : n # born + 1 => nodes'[n] = nodes[n]
  BY <1>0 DEF CreateRoot, TypeOK
<1>3. nodes[born + 1] = Unused /\ Unused.run \notin Runs
  <2>1. born + 1 \in Node
    BY <1>0 DEF CreateRoot
  <2> QED
    BY <1>0, <2>1, ConstantsAssumption DEF IdsInOrder, Unused, ConstantsAssumption
<1>4. ASSUME NEW q \in Runs, runStatus'[q] = "blocked_human"
      PROVE  \/ HasBlockedNode(q)'
             \/ \E c \in Clients : req'[c].at = "run" /\ nodes'[req'[c].node].run = q
  <2>1. runStatus[q] = "blocked_human"
    BY <1>1, <1>4
  <2>2. CASE HasBlockedNode(q)
    BY <1>2, <1>3, <2>2, SameBlocked
  <2>3. CASE \E c \in Clients : req[c].at = "run" /\ nodes[req[c].node].run = q
    <3>1. PICK c \in Clients : req[c].at = "run" /\ nodes[req[c].node].run = q
      BY <2>3
    <3>2. req[c].node \in Node /\ req[c].node # born + 1
      BY <1>0, <1>3, <3>1, RequestNodeBorn
    <3> QED
      BY <1>1, <1>2, <3>1, <3>2
  <2> QED
    BY <2>1, <2>2, <2>3 DEF BlockedHasNode
<1>5. \A c \in Clients : req'[c].at # "delete" /\ (stopping' => req'[c].at = "idle")
  BY <1>1 DEF BlockedHasNode
<1> QED
  BY <1>4, <1>5 DEF BlockedHasNode

\* A step that begins and ends with no request at work on a run.
LEMMA QuietKeepsBlocked ==
  ASSUME BlockedHasNode, UNCHANGED nodes,
         \A c \in Clients : req[c].at # "run",
         \A c \in Clients : req'[c].at # "delete" /\ (stopping' => req'[c].at = "idle"),
         \A r \in Runs : runStatus'[r] = "blocked_human" => runStatus[r] = "blocked_human"
  PROVE  BlockedHasNode'
<1>1. \A r \in Runs : runStatus'[r] = "blocked_human" => HasBlockedNode(r)'
  BY SameBlocked DEF BlockedHasNode
<1> QED
  BY <1>1 DEF BlockedHasNode

LEMMA RequestKeepsBlocked ==
  ASSUME IInv, BlockedHasNode, OnlyIdle, Undisturbed, NEW c \in Clients, NEW n \in Node,
         \/ DeleteDescendants(c, n)
         \/ \E a \in {"retry", "skip"} : BeginIntervention(c, n, a)
  PROVE  BlockedHasNode'
<1>1. PICK a \in {"retry", "skip"} : BeginIntervention(c, n, a)
  BY DEF DeleteDescendants, Ask, Undisturbed
<1>2. /\ UNCHANGED <<nodes, runStatus, stopping>> /\ Ask(c, n, a, "check")
      /\ req \in [Clients -> Request]
  BY <1>1 DEF BeginIntervention, storeVars, procVars, IInv, TypeOK
<1>3. ~stopping /\ \A d \in Clients : req[d].at = "idle"
  BY <1>2 DEF Ask, Idle
<1>4. \A d \in Clients : req'[d].at \in {"idle", "check"}
  BY <1>2, <1>3 DEF Ask
<1> QED
  BY <1>2, <1>3, <1>4, QuietKeepsBlocked

\* The process stops and starts between requests.
LEMMA ProcessKeepsBlocked ==
  ASSUME IInv, BlockedHasNode, Undisturbed, Shutdown \/ Crash \/ Restart
  PROVE  BlockedHasNode'
<1>1. CASE Shutdown
  <2>1. UNCHANGED <<nodes, runStatus, req>> /\ \A c \in Clients : req[c].at = "idle"
    BY <1>1 DEF Shutdown, NoHandler, storeVars, apiVars
  <2> QED
    BY <2>1, QuietKeepsBlocked
<1>2. CASE Restart
  <2>1. /\ UNCHANGED nodes /\ \A c \in Clients : req[c].at = "idle" /\ req'[c].at = "idle"
        /\ \A r \in Runs : runStatus'[r] = "blocked_human" => runStatus[r] = "blocked_human"
    BY <1>2 DEF Restart, Reboot, NoRequest, BlockedHasNode
  <2> QED
    BY <2>1, QuietKeepsBlocked
<1>3. ~Crash
  BY DEF Crash, Undisturbed, IInv, TypeOK
<1> QED
  BY <1>1, <1>2, <1>3

LEMMA InitBlocked ==
  Init => BlockedHasNode
BY DEF Init, NoRequest, BlockedHasNode

\* So is the one of blocked runs.
LEMMA NextKeepsBlocked ==
  /\ IInv /\ SettleInv /\ (OnlyIdle => CarefulInv)
  /\ OnlyIdle /\ Undisturbed => BlockedHasNode
  /\ [Next]_vars
  => (OnlyIdle /\ Undisturbed => BlockedHasNode')
<1> SUFFICES ASSUME IInv, SettleInv, CarefulInv, OnlyIdle, Undisturbed, BlockedHasNode,
                    [Next]_vars
             PROVE  BlockedHasNode'
  OBVIOUS
<1>1. CASE \E j \in Job : JobStep(j)
  BY <1>1, JobKeepsBlocked
<1>2. CASE \E r \in Runs : CreateRun(r) \/ CreateRoot(r)
  BY <1>2, CreateKeepsBlocked, RootKeepsBlocked
<1>3. CASE (\E r \in Runs : CreateRaises(r) \/ \E n \in Node : SubmitRun(r, n)) \/ UNCHANGED vars
  <2>1. UNCHANGED <<nodes, runStatus, req, stopping>>
    BY <1>3 DEF CreateRaises, SubmitRun, vars, storeVars, apiVars, procVars
  <2> QED
    BY <2>1 DEF BlockedHasNode, HasBlockedNode, NodesOf, Present
<1>4. CASE \E c \in Clients : HandlerStep(c)
  BY <1>4, HandlerKeepsBlocked
<1>5. CASE \E c \in Clients, n \in Node :
             \/ DeleteDescendants(c, n)
             \/ \E a \in {"retry", "skip"} : BeginIntervention(c, n, a)
  BY <1>5, RequestKeepsBlocked
<1>6. CASE Shutdown \/ Crash \/ Restart
  BY <1>6, ProcessKeepsBlocked
<1> QED
  BY <1>1, <1>2, <1>3, <1>4, <1>5, <1>6 DEF Next, CreationStep
-----------------------------------------------------------------------------
(* Theorems.                                                               *)

\* Beside the invariant of the pool: nodes form one tree per run, jobs and requests
\* stay in the tree of their run, and the stack of a job that executes a new run
\* covers the nodes that are not completed yet.
THEOREM SettlementInvariant == Spec => []SettleInv
<1>1. Init => SettleInv
  BY InitSettling
<1>2. IInv /\ SettleInv /\ [Next]_vars => SettleInv'
  BY NextKeepsSettling
<1> QED
  BY <1>1, <1>2, Invariant, PTL DEF Spec

\* Whatever was retried, skipped, pruned or deleted, and whenever the process
\* crashed: a run reported completed has no node left that is not completed.
THEOREM CompletedIsComplete == Spec => []CompletedRunIsComplete
<1>1. SettleInv => CompletedRunIsComplete
  BY DEF SettleInv
<1> QED
  BY <1>1, SettlementInvariant, PTL

\* The orchestration implements the lease specification: a run is started and
\* settled by the job that has claimed it and by nobody else, which may fail it even
\* when it is blocked already (the event of that status has raised), a human takes
\* back only a blocked run, and a restart drops every claim (api/runs.py:274-310,
\* 548-566).
THEOREM ImplementsLease == Spec => LeaseSpec
<1>1. Init => Lease!Init
  BY DEF Init, Lease!Init
<1>2. IInv /\ SettleInv /\ [Next]_vars => [Lease!Next]_(Lease!leaseVars)
  BY NextOfLease
<1> QED
  BY <1>1, <1>2, Invariant, SettlementInvariant, PTL DEF Spec, LeaseSpec, Lease!Spec

\* Careful clients, who intervene on blocked runs that nobody executes, never meet a
\* worker on its stack: the nodes of the calls that wait are running and the children
\* still to be run are queued (executor.py, execute_node and _execute_recursive_case).
THEOREM CarefulStackIsRunning == Spec => [](OnlyIdle => StackIsRunning)
<1>1. Init => (OnlyIdle => CarefulInv)
  BY InitCareful
<1>2. IInv /\ SettleInv /\ (OnlyIdle => CarefulInv) /\ [Next]_vars => (OnlyIdle => CarefulInv)'
  BY NextKeepsCareful
<1>3. IInv /\ SettleInv /\ (OnlyIdle => CarefulInv) => (OnlyIdle => StackIsRunning)
  BY StackFollows DEF CarefulInv, SettleInv
<1> QED
  BY <1>1, <1>2, <1>3, Invariant, SettlementInvariant, PTL DEF Spec

\* When such clients delete nothing and no crash interrupts them between the node and
\* its run, a blocked run always has a node to intervene on (api/runs.py:488-566).
THEOREM BlockedIsActionable == Spec => [](OnlyIdle /\ Undisturbed => BlockedRunIsActionable)
<1>1. Init => (OnlyIdle => CarefulInv) /\ (OnlyIdle /\ Undisturbed => BlockedHasNode)
  BY InitCareful, InitBlocked
<1>2. IInv /\ SettleInv /\ (OnlyIdle => CarefulInv) /\ [Next]_vars => (OnlyIdle => CarefulInv)'
  BY NextKeepsCareful
<1>3. /\ IInv /\ SettleInv /\ (OnlyIdle => CarefulInv)
      /\ OnlyIdle /\ Undisturbed => BlockedHasNode
      /\ [Next]_vars
      => (OnlyIdle /\ Undisturbed => BlockedHasNode)'
  BY NextKeepsBlocked DEF Undisturbed
<1>4. (OnlyIdle /\ Undisturbed => BlockedHasNode)
        => (OnlyIdle /\ Undisturbed => BlockedRunIsActionable)
  BY DEF BlockedHasNode, BlockedRunIsActionable, HasBlockedNode, Idle
<1> QED
  BY <1>1, <1>2, <1>3, <1>4, Invariant, SettlementInvariant, PTL DEF Spec
=============================================================================
