----------------------------- MODULE RunControl -----------------------------
(***************************************************************************)
(* The orchestration core of the backend: runs and their node trees in the *)
(* state repository, the HTTP handlers that create runs, intervene on      *)
(* nodes and delete nodes (api/runs.py), the thread pool whose jobs run    *)
(* Orchestrator.run_existing and resume_from_node, the unwinding of        *)
(* RecursiveExecutor.execute_node through the tree, and process crash,     *)
(* graceful shutdown and recovery (app/__init__.py).                       *)
(*                                                                         *)
(* One action is the code between two accesses to state that another       *)
(* thread can reach; one call of a repository method is atomic.  What the  *)
(* LLM services answer is a choice of the environment.                     *)
(***************************************************************************)
EXTENDS FiniteSets, Functions, Policies

CONSTANTS
  Runs,        \* run ids
  Clients,     \* API requests that can be in flight at the same time
  Actions,     \* what clients ask for, a subset of {"retry", "skip", "delete"}
  OnlyIdle,    \* clients intervene only on a blocked run nobody works on
  MaxNodes,    \* bound: node ids handed out
  MaxKids,     \* RunConfig.max_children_per_node
  MaxDepth,    \* RunConfig.max_depth
  MaxWorkers,  \* max_workers of the thread pool
  MaxAsks,     \* bound: client requests in a behaviour
  MaxJobs,     \* bound: jobs submitted, enough for every run and request
  MaxCrashes,  \* bound: crashes in a behaviour
  MaxStops,    \* bound: graceful shutdowns in a behaviour
  Durable,     \* SQLiteRunStateRepository (TRUE) or InMemoryRunStateRepository
  BudgetFails  \* token_budget.on_exhausted = "fail"

ASSUME ConstantsAssumption ==
  /\ Actions \subseteq {"retry", "skip", "delete"}
  /\ OnlyIdle \in BOOLEAN /\ Durable \in BOOLEAN /\ BudgetFails \in BOOLEAN
  /\ MaxNodes \in Nat /\ MaxKids \in Nat \ {0} /\ MaxDepth \in Nat
  /\ MaxWorkers \in Nat /\ MaxAsks \in Nat /\ MaxJobs \in Nat
  /\ MaxCrashes \in Nat /\ MaxStops \in Nat
  /\ "none" \notin Runs

VARIABLES
  runStatus,   \* runs table: "none" until the run is created
  overBudget,  \* runs whose tokens_used has reached max_total_tokens
  nodes,       \* nodes table, by node id
  born,        \* ids handed out by the id factory: 1..born
  outputs,     \* RecursiveExecutor._outputs: nodes with an output in memory
  active,      \* _active_runs
  submitted,   \* jobs handed to the thread pool: 1..submitted
  jobs,        \* what each job executes
  pc,          \* where each job is
  frame,       \* the local state of each job
  req,         \* client requests in flight
  asked,       \* client requests made
  creating,    \* create_run handlers between the stored run and the pool
  stopping,    \* the cancellation event is set
  crashes,     \* crashes so far
  stops        \* graceful shutdowns so far

storeVars  == <<runStatus, overBudget, nodes, born>>
poolVars   == <<active, submitted, jobs>>
threadVars == <<pc, frame>>
apiVars    == <<req, asked, creating>>
procVars   == <<stopping, crashes, stops>>
vars == <<storeVars, outputs, poolVars, threadVars, apiVars, procVars>>

NoNode == 0
Node   == 1..MaxNodes
Job    == 1..MaxJobs

Results == {"none", "completed", "failed", "blocked"}

\* A job is live from its submission until it has left _active_runs; it
\* executes nodes from the moment the run is running until the run is settled.
Executing == {"enter", "work", "spawn", "loop", "blk", "blkFail", "blkEnd", "persist",
              "pop", "aggregate", "finalize"}
OnThread  == Executing \union {"mark", "markWrite", "raised", "clear", "discard"}
Live      == OnThread \union {"queued"}
PC        == Live \union {"none", "done"}

Unused    == [run |-> "none", parent |-> NoNode, depth |-> 0, status |-> "unused"]
NoJob     == [run |-> "none", node |-> NoNode, kind |-> "none"]
NoFrame   == [cur |-> NoNode, todo |-> {}, left |-> 0, res |-> "none",
              again |-> FALSE, goal |-> "none"]
NoRequest == [at |-> "idle", node |-> NoNode, action |-> "none", seen |-> "none"]

Init ==
  /\ runStatus = [r \in Runs |-> "none"]
  /\ overBudget = {}
  /\ nodes = [n \in Node |-> Unused]
  /\ born = 0
  /\ outputs = {}
  /\ active = {} /\ submitted = 0
  /\ jobs = [j \in Job |-> NoJob]
  /\ pc = [j \in Job |-> "none"]
  /\ frame = [j \in Job |-> NoFrame]
  /\ req = [c \in Clients |-> NoRequest]
  /\ asked = 0
  /\ creating = {}
  /\ stopping = FALSE /\ crashes = 0 /\ stops = 0
-----------------------------------------------------------------------------
(* The repository.                                                         *)

Present(n) == nodes[n].status \in NodeStatus

NodeCan(n, s) == Present(n) /\ NodeMay(nodes[n].status, s)

SetNode(n, s) == nodes' = [nodes EXCEPT ![n].status = s]

RunCan(r, s) == runStatus[r] \in RunStatus /\ RunMay(runStatus[r], s)

SetRun(r, s) == runStatus' = [runStatus EXCEPT ![r] = s]

ChildrenOf(n) == {c \in Node : nodes[c].parent = n}

\* delete_children_of walks down through the nodes that are present.  A parent is
\* always created before its children, so its id is smaller.
Descendants(n) ==
  LET below[c \in Node] == \/ nodes[c].parent = n
                           \/ nodes[c].parent \in Node /\ nodes[c].parent < c
                              /\ Present(nodes[c].parent) /\ below[nodes[c].parent]
  IN {c \in Node : below[c]}

Subtree(n) == {n} \union Descendants(n)

\* Node ids are uuid4: a removed id is never handed out again.
Removed(S) == [c \in Node |-> IF c \in S /\ Present(c)
                              THEN [nodes[c] EXCEPT !.status = "deleted"]
                              ELSE nodes[c]]

NewNode(r, p, d) == [run |-> r, parent |-> p, depth |-> d, status |-> "queued"]
-----------------------------------------------------------------------------
(* Jobs: Orchestrator.run_existing ("start") and resume_from_node          *)
(* ("resume") with the executor's recursion unrolled.  frame.cur is the    *)
(* node whose execute_node call is on top of the stack; the stack below it *)
(* is the path of parents up to the job's node.  frame.todo holds the      *)
(* children still to be run by the calls on the stack.                     *)

At(j, from) == pc[j] = from
Goto(j, to) == pc' = [pc EXCEPT ![j] = to]

RunOf(j) == jobs[j].run
Cur(j)   == frame[j].cur

\* The children the call on node n has still to execute.
Pending(j, n) == frame[j].todo \cap ChildrenOf(n)

Submit(r, n, k) ==
  /\ submitted < MaxJobs
  /\ submitted' = submitted + 1
  /\ jobs' = [jobs EXCEPT ![submitted + 1] = [run |-> r, node |-> n, kind |-> k]]
  /\ pc' = [pc EXCEPT ![submitted + 1] = "queued"]

\* Mutant: a graceful shutdown cancels the queued jobs (cancel_futures).
StartJobUnlessStopping(j) ==
  /\ At(j, "queued") /\ ~stopping
  /\ \A i \in Job : i < j => ~At(i, "queued")
  /\ Cardinality({i \in Job : pc[i] \in OnThread}) < MaxWorkers
  /\ Goto(j, "mark")
  /\ frame' = [frame EXCEPT ![j] = [NoFrame EXCEPT !.cur = jobs[j].node]]
  /\ UNCHANGED <<storeVars, outputs, poolVars, apiVars, procVars>>

\* An event cannot be stored: the database refuses it inside another thread's
\* transaction, and the call raises.  Memory refuses nothing.
EventRaises(j) == Durable /\ Goto(j, "raised") /\ UNCHANGED frame

\* An exception outside the try blocks of run_existing and resume_from_node:
\* _run_background fails the run, _resume_background only logs.
Escapes(j) == Goto(j, IF jobs[j].kind = "start" THEN "raised" ELSE "discard")

\* The pool serves its queue in order.
StartJob(j) ==
  /\ At(j, "queued")
  /\ \A i \in Job : i < j => ~At(i, "queued")
  /\ Cardinality({i \in Job : pc[i] \in OnThread}) < MaxWorkers
  /\ Goto(j, "mark")
  /\ frame' = [frame EXCEPT ![j] = [NoFrame EXCEPT !.cur = jobs[j].node]]
  /\ UNCHANGED <<storeVars, outputs, poolVars, apiVars, procVars>>

\* Mutant: a resume job trusts the handler to have set the run running.
MarkStartedRunRunning(j) ==
  /\ At(j, "mark")
  /\ Goto(j, IF runStatus[RunOf(j)] = "running" \/ jobs[j].kind = "resume"
             THEN "enter" ELSE "markWrite")
  /\ UNCHANGED <<storeVars, outputs, poolVars, frame, apiVars, procVars>>

\* _mark_run_running reads the status ...
MarkRunRunning(j) ==
  /\ At(j, "mark")
  /\ Goto(j, IF runStatus[RunOf(j)] = "running" THEN "enter" ELSE "markWrite")
  /\ UNCHANGED <<storeVars, outputs, poolVars, frame, apiVars, procVars>>

\* ... and then writes it.  The call is outside the try block of both methods: an
\* invalid transition, or the event after it, ends the job.
MarkRunRunningWrite(j) ==
  /\ At(j, "markWrite")
  /\ \/ /\ RunCan(RunOf(j), "running")
        /\ SetRun(RunOf(j), "running")
        /\ Goto(j, "enter") \/ (Durable /\ Escapes(j))
     \/ /\ ~RunCan(RunOf(j), "running")
        /\ Escapes(j) /\ UNCHANGED runStatus
  /\ UNCHANGED <<overBudget, nodes, born, outputs, poolVars, frame, apiVars,
                 procVars>>

\* execute_node, up to the divider: refused when cancelled or over budget
\* (the node is left as it is, with an event about it if it is over budget),
\* otherwise the node is recorded as started.
EnterRefused(j) ==
  /\ At(j, "enter")
  /\ stopping \/ RunOf(j) \in overBudget
  /\ Goto(j, "pop")
  /\ frame' = [frame EXCEPT ![j].res = "failed"]
  /\ UNCHANGED <<storeVars, outputs, poolVars, apiVars, procVars>>

\* Mutant: the start of a node is not recorded.
EnterUnrecorded(j) ==
  /\ At(j, "enter")
  /\ ~stopping /\ RunOf(j) \notin overBudget
  /\ Present(Cur(j))
  /\ nodes[Cur(j)].status = "running" \/ NodeCan(Cur(j), "running")
  /\ Goto(j, "work")
  /\ UNCHANGED <<storeVars, outputs, poolVars, frame, apiVars, procVars>>

Enter(j) ==
  /\ At(j, "enter")
  /\ ~stopping /\ RunOf(j) \notin overBudget
  /\ Present(Cur(j))
  /\ nodes[Cur(j)].status = "running" \/ NodeCan(Cur(j), "running")
  /\ SetNode(Cur(j), "running")
  /\ Goto(j, "work")
  /\ UNCHANGED <<runStatus, overBudget, born, outputs, poolVars, frame, apiVars,
                 procVars>>

EnterRaises(j) ==
  /\ At(j, "enter") /\ ~stopping
  /\ \/ Durable /\ RunOf(j) \in overBudget
     \/ /\ RunOf(j) \notin overBudget
        /\ nodes[Cur(j)].status # "running" /\ ~NodeCan(Cur(j), "running")
  /\ Goto(j, "raised")
  /\ UNCHANGED <<storeVars, outputs, poolVars, frame, apiVars, procVars>>

\* The call on the current node uses the LLM services: before it has children,
\* and when the last of them has completed.
InService(j) == At(j, "work") \/ (At(j, "loop") /\ Pending(j, Cur(j)) = {})

\* An LLM service raises, or the store does because the node is gone or the event
\* of its start refused.
ServiceRaises(j) ==
  /\ InService(j)
  /\ Goto(j, "raised")
  /\ UNCHANGED <<storeVars, outputs, poolVars, frame, apiVars, procVars>>

\* _end_node(cur, s) with the result it stands for, or the error of the transition
\* or of the event.
EndsAs(j, s, result) ==
  \/ /\ NodeCan(Cur(j), s)
     /\ SetNode(Cur(j), s)
     /\ \/ /\ Goto(j, "persist")
           /\ frame' = [frame EXCEPT ![j].res = result,
                                     ![j].todo = @ \ ChildrenOf(Cur(j))]
        \/ EventRaises(j)
  \/ /\ ~NodeCan(Cur(j), s)
     /\ Goto(j, "raised")
     /\ UNCHANGED <<nodes, frame>>

\* _execute_base_case: the worker fails, or its output is accepted.
BaseCaseFails(j) ==
  /\ At(j, "work")
  /\ EndsAs(j, "error", "failed")
  /\ UNCHANGED <<runStatus, overBudget, born, outputs, poolVars, apiVars, procVars>>

BaseCaseCompletes(j) ==
  /\ At(j, "work")
  /\ EndsAs(j, "completed", "completed")
  /\ outputs' = IF pc'[j] = "persist" THEN outputs \union {Cur(j)} ELSE outputs
  /\ UNCHANGED <<runStatus, overBudget, born, poolVars, apiVars, procVars>>

\* The checker blocks: at the failure threshold _evaluate_checker and
\* _handle_checker_outcome both mark the node (again); on "pause" only the latter.
CheckerBlocks(j) ==
  /\ InService(j)
  /\ Goto(j, "blk")
  /\ \E twice \in BOOLEAN : frame' = [frame EXCEPT ![j].again = twice]
  /\ UNCHANGED <<storeVars, outputs, poolVars, apiVars, procVars>>

HasRoot(r) == \E n \in Node : nodes[n].run = r /\ nodes[n].parent = NoNode

\* Bound: the ids of the roots and children still to be created are set aside.
Room(k) ==
  born + k + Cardinality({r \in creating : ~HasRoot(r)})
    + FoldFunction(+, 0, [i \in Job |-> frame[i].left]) <= MaxNodes

\* _execute_recursive_case: prune the subtree of an earlier attempt, then
\* create the children one by one, with fresh ids.  The divider proposes at
\* least two children and the guardrail truncates them.
KidCounts == IF MaxKids < 2 THEN {MaxKids} ELSE 2..MaxKids

Prune(j) ==
  /\ At(j, "work")
  /\ Present(Cur(j))
  /\ nodes[Cur(j)].depth < MaxDepth
  /\ nodes' = Removed(Descendants(Cur(j)))
  /\ \/ \E k \in KidCounts : /\ Room(k) /\ Goto(j, "spawn")
                            /\ frame' = [frame EXCEPT ![j].left = k]
     \/ EventRaises(j)
  /\ UNCHANGED <<runStatus, overBudget, born, outputs, poolVars, apiVars, procVars>>

Spawn(j) ==
  /\ At(j, "spawn")
  /\ Durable => Present(Cur(j))
  /\ frame[j].left > 0 /\ born < MaxNodes
  /\ born' = born + 1
  /\ nodes' = [nodes EXCEPT ![born + 1] =
                 NewNode(RunOf(j), Cur(j), nodes[Cur(j)].depth + 1)]
  /\ \/ /\ frame' = [frame EXCEPT ![j].left = @ - 1, ![j].todo = @ \union {born + 1}]
        /\ Goto(j, IF frame[j].left = 1 THEN "loop" ELSE "spawn")
     \/ EventRaises(j)
  /\ UNCHANGED <<runStatus, overBudget, outputs, poolVars, apiVars, procVars>>

\* The database has a foreign key on the parent; memory has not.
SpawnRaises(j) ==
  /\ At(j, "spawn")
  /\ Durable /\ ~Present(Cur(j))
  /\ Goto(j, "raised")
  /\ UNCHANGED <<storeVars, outputs, poolVars, frame, apiVars, procVars>>

\* The children run one after the other, in an order their dependencies allow.
NextChild(j, c) ==
  /\ At(j, "loop")
  /\ c \in Pending(j, Cur(j))
  /\ Goto(j, "enter")
  /\ frame' = [frame EXCEPT ![j].cur = c, ![j].todo = @ \ {c}]
  /\ UNCHANGED <<storeVars, outputs, poolVars, apiVars, procVars>>

\* No pending child has its dependencies completed.
Unresolved(j) ==
  /\ At(j, "loop")
  /\ Pending(j, Cur(j)) # {}
  /\ EndsAs(j, "error", "failed")
  /\ UNCHANGED <<runStatus, overBudget, born, outputs, poolVars, apiVars, procVars>>

\* All children done: merge, check, keep the output, end the node.
MergeCompletes(j) ==
  /\ At(j, "loop")
  /\ Pending(j, Cur(j)) = {}
  /\ EndsAs(j, "completed", "completed")
  /\ outputs' = outputs \union {Cur(j)}
  /\ UNCHANGED <<runStatus, overBudget, born, poolVars, apiVars, procVars>>

\* _mark_blocked_human walks the node to blocked_human, one store write per
\* status; a second round follows when frame.again is set.
BlockedBefore(j) ==
  IF frame[j].again
  THEN /\ Goto(j, "blk")
       /\ frame' = [frame EXCEPT ![j].again = FALSE]
  ELSE /\ Goto(j, "persist")
       /\ frame' = [frame EXCEPT ![j].res = "blocked"]

\* The last status has events.
BlockedBy(j) == BlockedBefore(j) \/ EventRaises(j)

MarkBlocked(j) ==
  /\ At(j, "blk")
  /\ Present(Cur(j))
  /\ \/ /\ nodes[Cur(j)].status = "running"
        /\ SetNode(Cur(j), "waiting_check")
        /\ Goto(j, "blkFail") /\ UNCHANGED frame
     \/ /\ nodes[Cur(j)].status = "waiting_check"
        /\ SetNode(Cur(j), "failed_check")
        /\ Goto(j, "blkEnd") /\ UNCHANGED frame
     \/ /\ nodes[Cur(j)].status = "failed_check"
        /\ SetNode(Cur(j), "blocked_human")
        /\ BlockedBy(j)
     \/ /\ nodes[Cur(j)].status = "blocked_human"
        /\ BlockedBefore(j) /\ UNCHANGED nodes
     \/ /\ nodes[Cur(j)].status = "queued"
        /\ SetNode(Cur(j), "error")
        /\ BlockedBy(j)
  /\ UNCHANGED <<runStatus, overBudget, born, outputs, poolVars, apiVars, procVars>>

MarkBlockedRaises(j) ==
  /\ At(j, "blk")
  /\ ~Present(Cur(j)) \/ nodes[Cur(j)].status \in {"completed", "error"}
  /\ Goto(j, "raised")
  /\ UNCHANGED <<storeVars, outputs, poolVars, frame, apiVars, procVars>>

MarkBlockedFail(j) ==
  /\ At(j, "blkFail")
  /\ \/ /\ NodeCan(Cur(j), "failed_check")
        /\ SetNode(Cur(j), "failed_check")
        /\ Goto(j, "blkEnd")
     \/ /\ ~NodeCan(Cur(j), "failed_check")
        /\ Goto(j, "raised") /\ UNCHANGED nodes
  /\ UNCHANGED <<runStatus, overBudget, born, outputs, poolVars, frame, apiVars,
                 procVars>>

MarkBlockedEnd(j) ==
  /\ At(j, "blkEnd")
  /\ \/ /\ NodeCan(Cur(j), "blocked_human")
        /\ SetNode(Cur(j), "blocked_human")
        /\ BlockedBy(j)
     \/ /\ ~NodeCan(Cur(j), "blocked_human")
        /\ Goto(j, "raised") /\ UNCHANGED <<nodes, frame>>
  /\ UNCHANGED <<runStatus, overBudget, born, outputs, poolVars, apiVars, procVars>>

\* _terminal records the attempt (an error when the node is gone), then
\* _persist_usage flushes the tokens, with events, and turns the result of a run
\* over its budget into a failure.
Persist(j) ==
  /\ At(j, "persist")
  /\ \/ /\ Present(Cur(j))
        /\ \/ overBudget' = overBudget
           \/ BudgetFails /\ overBudget' = overBudget \union {RunOf(j)}
        /\ \/ /\ frame' = [frame EXCEPT ![j].res =
                             IF RunOf(j) \in overBudget' THEN "failed" ELSE @]
              /\ Goto(j, "pop")
           \/ EventRaises(j)
     \/ /\ ~Present(Cur(j))
        /\ Goto(j, "raised")
        /\ UNCHANGED <<overBudget, frame>>
  /\ UNCHANGED <<runStatus, nodes, born, outputs, poolVars, apiVars, procVars>>

\* execute_node returns to the call on the parent: the next child, the parent
\* blocked, or the parent ended in error.
ReturnToParent(j) ==
  LET p == nodes[Cur(j)].parent
  IN /\ At(j, "pop")
     /\ Cur(j) # jobs[j].node /\ p # NoNode
     /\ \/ /\ frame[j].res = "completed"
           /\ Goto(j, "loop")
           /\ frame' = [frame EXCEPT ![j].cur = p] /\ UNCHANGED nodes
        \/ /\ frame[j].res = "blocked"
           /\ Goto(j, "blk")
           /\ frame' = [frame EXCEPT ![j].cur = p, ![j].todo = @ \ ChildrenOf(p)]
           /\ UNCHANGED nodes
        \/ /\ frame[j].res = "failed"
           /\ frame' = [frame EXCEPT ![j].cur = p, ![j].todo = @ \ ChildrenOf(p)]
           /\ \/ /\ NodeCan(p, "error") /\ SetNode(p, "error")
                 /\ Goto(j, "persist") \/ (Durable /\ Goto(j, "raised"))
              \/ ~NodeCan(p, "error") /\ Goto(j, "raised") /\ UNCHANGED nodes
     /\ UNCHANGED <<runStatus, overBudget, born, outputs, poolVars, apiVars, procVars>>

\* Mutants: the result of the executor is not mapped to a run status; only a
\* completed one is told apart.
UnmappedGoal(result) == result
BlockedUnlessCompleted(result) ==
  IF result = "completed" THEN "completed" ELSE "blocked_human"

\* The outermost execute_node returns to the orchestrator.
GoalOf(result) == CASE result = "completed" -> "completed"
                    [] result = "blocked"   -> "blocked_human"
                    [] OTHER                -> "failed"

ReturnToOrchestrator(j) ==
  /\ At(j, "pop")
  /\ Cur(j) = jobs[j].node
  /\ Goto(j, IF jobs[j].kind = "resume" /\ frame[j].res = "completed"
                    THEN "aggregate" ELSE "finalize")
  /\ frame' = [frame EXCEPT ![j].goal = GoalOf(frame[j].res)]
  /\ UNCHANGED <<storeVars, outputs, poolVars, apiVars, procVars>>

\* Mutant: whatever is not blocked counts as completed.
AggregateBlockedOnly(r) ==
  IF \E n \in Node : nodes[n].run = r /\ nodes[n].status = "blocked_human"
  THEN "blocked_human" ELSE "completed"

\* _aggregate_run_status over the nodes the run has now.
AggregateRunStatus(r) ==
  LET statuses == {nodes[n].status : n \in {m \in Node : nodes[m].run = r /\ Present(m)}}
  IN CASE statuses \subseteq {"completed"}  -> "completed"
       [] "blocked_human" \in statuses      -> "blocked_human"
       [] OTHER                             -> "running"

Aggregate(j) ==
  /\ At(j, "aggregate")
  /\ Goto(j, "finalize")
  /\ frame' = [frame EXCEPT ![j].goal = AggregateRunStatus(RunOf(j))]
  /\ UNCHANGED <<storeVars, outputs, poolVars, apiVars, procVars>>

\* _finalize_run: an aggregate of "running" is no transition and raises; and an
\* event that raises comes after the status, which may be "blocked_human" already.
Finalize(j) ==
  LET goal == frame[j].goal
  IN /\ At(j, "finalize")
     /\ \/ /\ RunCan(RunOf(j), goal)
           /\ SetRun(RunOf(j), goal)
           /\ \/ Goto(j, IF goal = "blocked_human" THEN "discard" ELSE "clear")
              \/ Durable /\ Escapes(j)
        \/ /\ ~RunCan(RunOf(j), goal)
           /\ Escapes(j) /\ UNCHANGED runStatus
     /\ UNCHANGED <<overBudget, nodes, born, outputs, poolVars, frame, apiVars, procVars>>

\* Mutant: _active_runs is discarded after the call, not in a finally block.
RaisedUnreleased(j) ==
  /\ At(j, "raised")
  /\ \/ /\ RunCan(RunOf(j), "failed")
        /\ SetRun(RunOf(j), "failed")
     \/ /\ ~RunCan(RunOf(j), "failed")
        /\ UNCHANGED runStatus
  /\ Goto(j, "done")
  /\ UNCHANGED <<overBudget, nodes, born, outputs, poolVars, frame, apiVars, procVars>>

\* The except blocks: the run fails; only resume_from_node clears the outputs, after
\* the event.
Raised(j) ==
  /\ At(j, "raised")
  /\ \/ /\ RunCan(RunOf(j), "failed")
        /\ SetRun(RunOf(j), "failed")
        /\ \/ Goto(j, IF jobs[j].kind = "start" THEN "discard" ELSE "clear")
           \/ Durable /\ Goto(j, "discard")
     \/ /\ ~RunCan(RunOf(j), "failed")
        /\ Goto(j, "discard") /\ UNCHANGED runStatus
  /\ UNCHANGED <<overBudget, nodes, born, outputs, poolVars, frame, apiVars, procVars>>

ClearRun(j) ==
  /\ At(j, "clear")
  /\ Goto(j, "discard")
  /\ outputs' = {n \in outputs : nodes[n].run # RunOf(j)}
  /\ UNCHANGED <<storeVars, poolVars, frame, apiVars, procVars>>

\* The finally block of _run_background and _resume_background.
Discard(j) ==
  /\ At(j, "discard")
  /\ Goto(j, "done")
  /\ active' = active \ {RunOf(j)}
  /\ frame' = [frame EXCEPT ![j] = NoFrame]
  /\ UNCHANGED <<storeVars, outputs, submitted, jobs, apiVars, procVars>>
-----------------------------------------------------------------------------
(* The HTTP handlers.  Only their accesses to shared state are steps.      *)

\* POST /runs: the run is stored ...
CreateRun(r) ==
  /\ ~stopping
  /\ runStatus[r] = "none"
  /\ Room(1)
  /\ SetRun(r, "queued")
  /\ creating' = creating \union {r}
  /\ UNCHANGED <<overBudget, nodes, born, outputs, poolVars, threadVars, req, asked,
                 procVars>>

\* ... and its root ...
CreateRoot(r) ==
  /\ r \in creating /\ ~HasRoot(r)
  /\ born < MaxNodes
  /\ nodes' = [nodes EXCEPT ![born + 1] = NewNode(r, NoNode, 0)]
  /\ born' = born + 1
  /\ UNCHANGED <<runStatus, overBudget, outputs, poolVars, threadVars, apiVars, procVars>>

\* ... their events may raise: the client is told of an error, and the run is queued
\* for good ...
CreateRaises(r) ==
  /\ r \in creating /\ HasRoot(r) /\ Durable
  /\ creating' = creating \ {r}
  /\ UNCHANGED <<storeVars, outputs, poolVars, threadVars, req, asked, procVars>>

\* ... or the run is claimed and its job submitted.
SubmitRun(r, n) ==
  /\ r \in creating /\ r \notin active
  /\ nodes[n].run = r /\ nodes[n].parent = NoNode
  /\ active' = active \union {r}
  /\ Submit(r, n, "start")
  /\ creating' = creating \ {r}
  /\ UNCHANGED <<storeVars, outputs, frame, req, asked, procVars>>

\* A blocked run nobody works on and nobody else is intervening on.
Idle(r) == /\ runStatus[r] = "blocked_human"
           /\ r \notin active
           /\ \A c \in Clients : req[c].at = "idle"

Ask(c, n, a, at) ==
  /\ ~stopping
  /\ asked < MaxAsks /\ a \in Actions
  /\ req[c].at = "idle"
  /\ Present(n)
  /\ OnlyIdle => Idle(nodes[n].run)
  /\ req' = [req EXCEPT ![c] = [at |-> at, node |-> n, action |-> a,
                               seen |-> runStatus[nodes[n].run]]]
  /\ asked' = asked + 1

\* The handler goes on to its next access, or answers.
Advance(c, to) ==
  req' = [req EXCEPT ![c] = IF to = "idle" THEN NoRequest ELSE [@ EXCEPT !.at = to]]

\* apply_intervention reads the run ...
BeginIntervention(c, n, a) ==
  /\ a \in {"retry", "skip"}
  /\ Ask(c, n, a, "check")
  /\ UNCHANGED <<storeVars, outputs, poolVars, threadVars, creating, procVars>>

\* ... and the node, which must be eligible (404 or 409 otherwise) ...
CheckEligible(c) ==
  LET n == req[c].node
      eligible == IF req[c].action = "skip" THEN {"blocked_human"}
                                            ELSE {"blocked_human", "failed_check"}
  IN /\ req[c].at = "check"
     /\ Advance(c, IF nodes[n].status \in eligible THEN "update" ELSE "idle")
     /\ UNCHANGED <<storeVars, outputs, poolVars, threadVars, asked, creating, procVars>>

\* ... changes the node's status: the transition table is the only check left ...
ApplyToNode(c) ==
  LET n      == req[c].node
      target == IF req[c].action = "skip" THEN "completed" ELSE "running"
  IN /\ req[c].at = "update"
     /\ \/ /\ NodeCan(n, target)
           /\ SetNode(n, target)
           /\ \/ Advance(c, IF req[c].seen = "blocked_human" THEN "run"
                            ELSE IF target = "running" THEN "claim" ELSE "idle")
              \/ Durable /\ req[c].seen # "blocked_human" /\ Advance(c, "idle")
        \/ /\ ~NodeCan(n, target)
           /\ Advance(c, "idle") /\ UNCHANGED nodes
     /\ UNCHANGED <<runStatus, overBudget, born, outputs, poolVars, threadVars,
                    asked, creating, procVars>>

\* ... the run's, if it was blocked when the handler read it (an error of the events
\* after that leaves a running run nobody works on) ...
ApplyToRun(c) ==
  LET r == nodes[req[c].node].run
  IN /\ req[c].at = "run"
     /\ \/ /\ RunCan(r, "running")
           /\ SetRun(r, "running")
           /\ \/ Advance(c, IF req[c].action = "skip" THEN "idle" ELSE "claim")
              \/ Durable /\ Advance(c, "idle")
        \/ /\ ~RunCan(r, "running")
           /\ Advance(c, "idle") /\ UNCHANGED runStatus
     /\ UNCHANGED <<overBudget, nodes, born, outputs, poolVars, threadVars, asked,
                    creating, procVars>>

\* Mutant: the retry does not ask whether somebody works on the run.
ClaimUnchecked(c) ==
  LET r == nodes[req[c].node].run
  IN /\ req[c].at = "claim"
     /\ active' = active \union {r}
     /\ Submit(r, req[c].node, "resume")
     /\ Advance(c, "idle")
     /\ UNCHANGED <<storeVars, outputs, frame, asked, creating, procVars>>

\* ... and, for a retry, claims the run for a resume job.  A run somebody still
\* works on is a 409, after the node and the run have been changed.
Claim(c) ==
  LET r == nodes[req[c].node].run
  IN /\ req[c].at = "claim"
     /\ \/ /\ r \notin active
           /\ active' = active \union {r}
           /\ Submit(r, req[c].node, "resume")
        \/ /\ r \in active
           /\ UNCHANGED <<poolVars, pc>>
     /\ Advance(c, "idle")
     /\ UNCHANGED <<storeVars, outputs, frame, asked, creating, procVars>>

\* DELETE /nodes/{id}: the descendants of any node but the root, then the node.
\* Nothing asks whether the run is being executed.
DeleteDescendants(c, n) ==
  /\ nodes[n].parent # NoNode
  /\ Ask(c, n, "delete", "delete")
  /\ nodes' = Removed(Descendants(n))
  /\ UNCHANGED <<runStatus, overBudget, born, outputs, poolVars, threadVars,
                 creating, procVars>>

\* In the database the deletion cascades to children created since.
DeleteNode(c) ==
  /\ req[c].at = "delete"
  /\ nodes' = Removed(IF Durable THEN Subtree(req[c].node) ELSE {req[c].node})
  /\ Advance(c, "idle")
  /\ UNCHANGED <<runStatus, overBudget, born, outputs, poolVars, threadVars,
                 asked, creating, procVars>>
-----------------------------------------------------------------------------
(* The process.                                                            *)

NoLiveJob == \A j \in Job : pc[j] \notin Live
NoHandler == creating = {} /\ \A c \in Clients : req[c].at = "idle"

\* The server has answered its last request; _lifespan sets the event and waits
\* for the pool.
Shutdown ==
  /\ ~stopping /\ NoHandler
  /\ stops < MaxStops
  /\ stopping' = TRUE
  /\ stops' = stops + 1
  /\ UNCHANGED <<storeVars, outputs, poolVars, threadVars, apiVars, crashes>>

\* Mutant: the recovery fails every run that is not settled, blocked ones included.
RebootFailingBlocked ==
  /\ runStatus' = [r \in Runs |-> IF runStatus[r] \in {"running", "blocked_human"}
                                  THEN "failed" ELSE runStatus[r]]
  /\ outputs' = {} /\ active' = {} /\ creating' = {}
  /\ pc' = [j \in Job |-> IF pc[j] = "none" THEN "none" ELSE "done"]
  /\ frame' = [j \in Job |-> NoFrame]
  /\ req' = [c \in Clients |-> NoRequest]
  /\ stopping' = FALSE
  /\ UNCHANGED <<overBudget, nodes, born, submitted, jobs, asked, stops>>

\* A new process on the same database: memory is empty and
\* _recover_interrupted_runs fails what the database says is running.
Reboot ==
  /\ runStatus' = [r \in Runs |-> IF runStatus[r] = "running" THEN "failed"
                                                              ELSE runStatus[r]]
  /\ outputs' = {} /\ active' = {} /\ creating' = {}
  /\ pc' = [j \in Job |-> IF pc[j] = "none" THEN "none" ELSE "done"]
  /\ frame' = [j \in Job |-> NoFrame]
  /\ req' = [c \in Clients |-> NoRequest]
  /\ stopping' = FALSE
  /\ UNCHANGED <<overBudget, nodes, born, submitted, jobs, asked, stops>>

Crash == Durable /\ crashes < MaxCrashes /\ crashes' = crashes + 1 /\ Reboot

Restart == Durable /\ stopping /\ NoLiveJob /\ UNCHANGED crashes /\ Reboot
-----------------------------------------------------------------------------
JobStep(j) ==
  \/ StartJob(j) \/ MarkRunRunning(j) \/ MarkRunRunningWrite(j)
  \/ EnterRefused(j) \/ Enter(j) \/ EnterRaises(j) \/ ServiceRaises(j)
  \/ BaseCaseFails(j) \/ BaseCaseCompletes(j) \/ CheckerBlocks(j)
  \/ Prune(j) \/ Spawn(j) \/ SpawnRaises(j) \/ (\E n \in Node : NextChild(j, n))
  \/ Unresolved(j) \/ MergeCompletes(j)
  \/ MarkBlocked(j) \/ MarkBlockedRaises(j) \/ MarkBlockedFail(j) \/ MarkBlockedEnd(j)
  \/ Persist(j) \/ ReturnToParent(j) \/ ReturnToOrchestrator(j)
  \/ Aggregate(j) \/ Finalize(j) \/ Raised(j) \/ ClearRun(j) \/ Discard(j)

CreationStep(r) == CreateRoot(r) \/ CreateRaises(r) \/ \E n \in Node : SubmitRun(r, n)

HandlerStep(c) ==
  CheckEligible(c) \/ ApplyToNode(c) \/ ApplyToRun(c) \/ Claim(c) \/ DeleteNode(c)

Next ==
  \/ \E j \in Job : JobStep(j)
  \/ \E r \in Runs : CreateRun(r) \/ CreationStep(r)
  \/ \E c \in Clients : HandlerStep(c)
  \/ \E c \in Clients, n \in Node :
       DeleteDescendants(c, n) \/ \E a \in {"retry", "skip"} : BeginIntervention(c, n, a)
  \/ Shutdown \/ Crash \/ Restart

\* Threads are scheduled, the LLM adapters return (they carry timeouts) and a
\* handler that has begun goes on; nobody has to call the API or to crash.
Fairness ==
  /\ \A j \in Job : WF_vars(JobStep(j))
  /\ \A c \in Clients : WF_vars(HandlerStep(c))
  /\ \A r \in Runs : WF_vars(CreationStep(r))

Spec     == Init /\ [][Next]_vars
FairSpec == Spec /\ Fairness
-----------------------------------------------------------------------------
(* Properties.                                                             *)

NodeRecord == [run    : Runs \union {"none"},
               parent : Node \union {NoNode},
               depth  : Nat,
               status : NodeStatus \union {"unused", "deleted"}]

JobRecord == [run  : Runs \union {"none"},
              node : Node \union {NoNode},
              kind : {"none", "start", "resume"}]

Frame == [cur   : Node \union {NoNode},
          todo  : SUBSET Node,
          left  : Nat,
          res   : Results,
          again : BOOLEAN,
          goal  : RunStatus \union {"none"}]

Request == [at     : {"idle", "check", "update", "run", "claim", "delete"},
            node   : Node \union {NoNode},
            action : {"none", "retry", "skip", "delete"},
            seen   : RunStatus \union {"none"}]

\* The types of the state of the repository, the pool, the jobs and the requests.
TypeOK ==
  /\ runStatus \in [Runs -> RunStatus \union {"none"}]
  /\ overBudget \subseteq Runs
  /\ nodes \in [Node -> NodeRecord]
  /\ born \in 0..MaxNodes
  /\ outputs \subseteq Node
  /\ active \subseteq Runs
  /\ submitted \in 0..MaxJobs
  /\ jobs \in [Job -> JobRecord]
  /\ pc \in [Job -> PC]
  /\ frame \in [Job -> Frame]
  /\ req \in [Clients -> Request]
  /\ asked \in Nat
  /\ creating \subseteq Runs
  /\ stopping \in BOOLEAN
  /\ crashes \in Nat /\ stops \in Nat

\* A run is in _active_runs exactly while one job of the pool has it: no two
\* workers execute the same tree, whatever the clients do concurrently, and no
\* run keeps its claim after its job has ended (api/runs.py:274-310, 548-566).
NoTwoWorkers ==
  \A i, j \in Job : pc[i] \in Live /\ pc[j] \in Live /\ RunOf(i) = RunOf(j) => i = j

ClaimIsHeld ==
  /\ \A j \in Job : pc[j] \in Live => RunOf(j) \in active
  /\ \A r \in active : \E j \in Job : pc[j] \in Live /\ RunOf(j) = r

OneWorkerPerRun == NoTwoWorkers /\ ClaimIsHeld

\* From _mark_run_running to _finalize_run the worker's run stays running: no
\* intervention, deletion or other job settles a run under its worker.
WorkerSeesRunning ==
  \A j \in Job : pc[j] \in Executing => runStatus[RunOf(j)] = "running"

\* The inductive invariant behind the three properties above.  A node of the
\* table has a run; a live job and a request in flight are about such a node; a
\* job beyond the last submitted one has not begun.
NodesHaveRun == \A n \in Node : nodes[n].status # "unused" => nodes[n].run \in Runs

JobsHaveNode ==
  \A j \in Job : /\ pc[j] \in Live => jobs[j].node \in Node
                 /\ pc[j] \in Live \ {"queued"} => Cur(j) \in Node

RequestsHaveNode ==
  \A c \in Clients : req[c].at # "idle" => /\ req[c].node \in Node
                                           /\ nodes[req[c].node].status # "unused"

JobsInOrder == \A j \in Job : j > submitted => pc[j] = "none"

IInv == /\ TypeOK
        /\ NodesHaveRun /\ JobsHaveNode /\ RequestsHaveNode /\ JobsInOrder
        /\ OneWorkerPerRun
        /\ WorkerSeesRunning

NodesOf(r) == {n \in Node : nodes[n].run = r /\ Present(n)}

\* A run is reported completed only when every node it still has is completed,
\* whatever was retried, skipped, pruned or deleted on the way.
CompletedRunIsComplete ==
  \A r \in Runs : runStatus[r] = "completed"
                 => \A n \in NodesOf(r) : nodes[n].status = "completed"

\* The calls on the stack of a job: the current node and its ancestors up to the
\* node the job was submitted for.
Stack(j) == {n \in Subtree(jobs[j].node) : Cur(j) \in Subtree(n)}

\* When clients intervene on idle runs only, the nodes on the stack of a worker
\* are running, so the human can act on none of them, and no child of theirs is
\* still pending when it has been started.
StackIsRunning ==
  \A j \in Job : pc[j] \in {"work", "spawn", "loop"} =>
    /\ \A n \in Stack(j) : nodes[n].status = "running"
    /\ \A c \in frame[j].todo : nodes[c].status = "queued"

\* A blocked run that nobody works on has a node a human can act on: it is never
\* out of reach of the intervention endpoint.
BlockedRunIsActionable ==
  \A r \in Runs : Idle(r) => \E n \in NodesOf(r) : nodes[n].status = "blocked_human"

\* Every claim is given up: a run never stays in _active_runs for ever, which
\* would answer every later retry with a 409.
ClaimIsReleased == \A r \in Runs : r \in active ~> r \notin active

\* Every run that its handler has accepted, by claiming it for a job, reaches a
\* settled status: behind other runs in the pool, in a graceful shutdown, and when
\* the event of any status raises.
EveryRunSettles ==
  \A r \in Runs : r \in active /\ runStatus[r] = "queued"
                 ~> runStatus[r] \in {"blocked_human", "completed", "failed"}

\* Runs and their claims behave as the lease specification says.
Lease == INSTANCE RunLease

LeaseSpec == Lease!Spec
=============================================================================
