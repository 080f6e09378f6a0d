# Recursia in TLA+

Recursia takes an objective, lets an LLM divide it into a tree of smaller ones, executes
the leaves, checks and merges the results upwards, and asks a human where the checks
keep failing. This directory models the orchestration behind that: runs and their node
trees, the jobs of the thread pool, the HTTP handlers that intervene while jobs run,
crash and restart, the check-and-retry loops of one node and the services they call, the
database connection all threads share, the token budget, the event stream to the browser
and the page's view of a run. Paths below are relative to the repository; `app/` is
`backend/app/`.

* [Components](#components) the system, its state, what is hard about it
* [Modules](#modules) which module models what, and how
* [Runs](#runs) what TLC checks, with which bounds and fairness
* [Proofs](#proofs) what TLAPS proves, and along which argument
* [Disagreements](#disagreements-between-the-code-and-what-is-said-of-it)
* [Limits and plan](#limits) what is not modelled, what comes next

## Components

| Component | State | Operations | Interacts with |
|---|---|---|---|
| **Domain** `app/domain/enums.py`, `policies.py`, `models.py` | none | transition tables of runs and nodes, `CheckerFailurePolicy` | every writer of a status |
| **Repository** `app/state/memory_repo.py`, `sqlite_repo.py`, `sql/schema.sql` | tables of runs, nodes, attempts, events, interventions | status updates guarded by the transition tables, node creation, `delete_node`, `delete_children_of`, `append_event`, token counters | shared by all jobs and handlers |
| **Orchestrator** `app/services/orchestrator.py` | none of its own | `create_run`, `run_existing`, `resume_from_node`, `_finalize_run`, `_aggregate_run_status` | called by the pool's jobs; calls the executor |
| **Executor** `app/services/executor.py` | `_outputs` in memory | `execute_node`, recursive: divide, work or create children, check, merge, mark blocked | repository, LLM services, event emitter |
| **Divider, worker, merger** `app/services/{divider,worker,merger}.py` | none | questions to a model with schema retries, candidates, steps of a plan | called by the executor |
| **Checker** `app/services/{checker,execution_checker,test_generator}.py`, `app/sandbox/executor.py` | none | verdict by a model, or by generated tests run in a process or container | called by the executor |
| **Usage tracker** `app/adapters/llm_client.py` | token counts of the process | counted by every model call, charged to a run and reset by `_persist_usage` | shared by all jobs |
| **Runs API and pool** `app/api/runs.py` | `_active_runs` with its lock, the thread pool | create a run, retry / edit-and-retry / skip a node, delete a node, read-only views | repository, orchestrator; many requests at once |
| **Lifecycle** `app/__init__.py` | the cancellation event | start-up recovery of interrupted runs, graceful shutdown | repository, pool |
| **Event stream** `app/services/event_stream.py`, `app/api/events.py` | one asyncio queue per subscriber | `publish` from worker threads, `stream_events` with replay after `Last-Event-ID` | repository, browsers |
| **Browser client** `frontend/src/lib/events.ts` | the last sequence number | EventSource with reconnection, duplicate filter | event stream |
| **Browser store** `frontend/src/state/runStore.ts`, `app/page.tsx`, `components/{NodeDetailsDrawer,GraphCanvas}.tsx`, `lib/api.ts` | run, nodes, edges, `lastSeq` | hydrate from a snapshot, apply events, optimistic intervention with confirmation or rollback, deletion | browser client, API |
| **Personas, LLM providers, config, observability, views** | files, network | | |

What is hard:

* **Concurrency.** A run is executed by one job of the pool while any number of
  handlers change the same nodes and the same run. No lock spans two repository
  calls; `_active_runs` is the only claim there is, and only a retry's last step
  and a new run take it. Handlers act on a status they read several steps ago.
* **Unwinding.** A node blocks or fails deep in the tree and every ancestor is
  moved in turn; a blocked node takes three writes. A later retry starts
  somewhere in the middle of a tree in which ancestors are still blocked, prunes
  what an earlier attempt left, and the run's status has to be computed from all of it.
* **Failure.** Every service call may raise, the budget may run out at any node,
  the process may die between any two writes and the recovery sees the database only.
* **Retry loops.** Two loops with different policies and bounds, around a failure
  counter that lives in the database across executions and human retries.
* **Shared resources.** All threads use one SQLite connection, so one transaction:
  a commit or rollback of one is that of all. All runs use one usage tracker.
* **Delivery.** Events are numbered by one lock and queued under another (or none);
  connections break with frames on them; replay and live queue overlap.
* **The page.** A snapshot, the events and the answers to the user's own calls
  arrive in any order and each overwrites what it finds.

What makes each part correct: a run is executed by at most one job and its claim is
given up (API, pool); a run's status is settled by its own job only, never under it, and
*completed* means that all nodes are (orchestrator); the nodes on a worker's stack are
running, and a blocked run has a node a human can act on (executor); a node never fails
its checks more often than the threshold without a human, and keeps an output its last
verdict is about (executor, checker); a run without budget calls no model (executor,
tracker); what a repository method has returned is stored, and events are numbered
without a gap (repository); a browser sees a gap-free prefix of the history (events)
and, when all has arrived, shows what the repository holds (store).

## Modules

```
Policies ── RunLease  <= implemented by =  RunControl ── MCRunControl, RunControl_proofs
        ├── NodeLife  <= implemented by =  NodeExecution ── NodeExecution_proofs
        ├── SharedConnection ── SharedConnection_proofs
        └── RunStore ── MCRunStore, RunStore_proofs ── SettledView_proofs
            EventLog  <= implemented by =  EventStream ── MCEventStream, EventStream_proofs
            UsageCharging ── UsageCharging_proofs
SchemaRetries, PersonaChain, ChildScheduling, ExecutionCheck
        └── composed by NodeServices ── MCNodeServices, NodeServices_proofs
```

**Policies** has the status sets, both transition tables as functions, and
`ShouldBlock`. `ensure_*_transition` raises; here `RunMay` and `NodeMay` are
predicates, and each caller has a disjunct for the refusal.

**RunLease** is the abstract view of a run: a status and a lease. Only the holder
of the lease settles the run, and it may fail a run after all that it has blocked
(`Fail`: the event of that status raised); a human may take a blocked run back to
running at any time; a restart drops all leases and fails what was running.

**RunControl** is the core. Its variables are the tables of the repository
(`runStatus`, `nodes` with run, parent, depth and status, `overBudget` for the
token counter), the executor's `outputs`, the API's `active`, the pool (`jobs`,
`submitted`), and the control state of every actor: `pc` and `frame` of each job,
`req` of each request, `creating` for `POST /runs`, `stopping` for the
cancellation event.

* *Grain.* One action is the code between two accesses to state that another
  thread can reach; one repository method is atomic. A read directly followed by
  a write is two actions (`MarkRunRunning`, `MarkRunRunningWrite`) unless every
  change in between leads to the same outcome (`Enter`, `MarkBlocked`).
* *Recursion.* A job has one frame instead of a stack: `cur` is the node of the
  innermost `execute_node`, the calls below it are its ancestors up to the job's
  node, `todo` holds the children any of them has still to run, and `res` is the
  result being returned. `ReturnToParent` is the code after the recursive call.
* *Jobs.* `StartJob` takes the next queued job when one of `MaxWorkers` threads is
  free. `mark` to `finalize` is `run_existing` or `resume_from_node`, `raised`
  their except blocks, `clear` is `clear_run`, `discard` the finally block.
* *Events.* With SQLite every `publish` may raise, since its `BEGIN IMMEDIATE` does
  so while another thread's transaction is open on the connection they share. So each
  action that ends in a publish has a second outcome: the write has happened, and
  the exception takes the job to `raised` (`EventRaises`, inside the orchestrator's
  try blocks), to the except of `_run_background` or the log of `_resume_background`
  (`Escapes`), or ends the request.
* *Creation.* `CreateRun`, `CreateRoot` and `SubmitRun` are the three stages of `POST /runs`;
  `CreateRaises` ends the request at either event and leaves the run queued, with or
  without its root, and without a job.
* *Handlers.* `BeginIntervention` reads the run, `CheckEligible` the node,
  `ApplyToNode` and `ApplyToRun` write, `Claim` takes the run and submits or
  answers 409. An edit-and-retry is a retry: the objective is data.
  `DeleteDescendants` and `DeleteNode` are the two calls of `DELETE /nodes/{id}`.
* *Repositories.* `Durable` chooses SQLite (foreign key on the parent, so `Spawn`
  below a deleted node raises; deletion cascades; events raise; the tables survive a
  crash) or memory (orphans; nothing survives, so `Crash` and `Restart` are
  disabled). The runs take SQLite, the theorems hold for both.
* *Process.* `Shutdown` sets the event when the server has answered its last
  request; jobs still in the queue run to their refusal. `Reboot`, shared by
  `Crash` and `Restart`, is the new process with `_recover_interrupted_runs`.

**NodeLife** and **NodeExecution** zoom in on one node. NodeExecution has what
RunControl leaves to chance: base or recursive case, the checker's configuration
(enabled, per scope, switched off by `needs_qa`), its failure counter and
threshold, `_checker_retry_loop`, the merge loop (at most two rounds, whatever
the policy), `pause` and `auto_retry`, and the attempt records. Outputs are
numbered by round, so that the model can tell which output a verdict, a record
or the kept result is about. In exchange it has one caller and one human at a
time, and the three writes of a block are one step: RunControl has those.

**EventLog** says that the history grows and that each subscriber sees a prefix
of it. **EventStream** has `publish` in its steps (number, store, copy the
subscribers, put on each queue), the generator (register, list, replay, live),
the connection with frames in flight, and the browser's filter. `append_event` is
one step for SQLite, whose lock covers both halves, and two for memory.

**SharedConnection** opens the repository methods that the other modules take as
one step. A thread's `pc` holds the call it is in: the row it has read, the
statement it will execute. A step is one call into SQLite: `Read` and `Reread`
(`get_node`, once more in `_update_node`), `Execute` and `ImplicitBegin` (the
driver looks for a transaction, then opens one), `Statement`, `Commit` and
`Committing`; for `append_event` `Lock`, `BeginImmediate`, `Number`, and
`Rollback`/`Rolling` when it fails. `db` is what every thread sees, `disk` what is
committed, so a crash at any moment leaves `disk`. History variables record what
has returned, what a rollback has taken away and which rows two calls had in hand
at once: the properties say that nothing goes wrong beyond those.

**UsageCharging** has the tracker of all model calls and the flush of
`_persist_usage` in its four steps (read, charge, publish, reset) by threads that
work on the trees of different runs; a model call costs one token. The publication may
raise (`EmitRaises`), which leaves what has been charged in the tracker.

**NodeServices** is `execute_node` seen from its services: `Start` and `Divided` choose
the case, `Retry` and `DividedAgain` are the retry loop, and each service is a module
with its own record as VARIABLE that NodeServices extends: **SchemaRetries** (one or
several candidates with retries, for the divider and the merger), **PersonaChain** (a
base case's personas and steps, the second call after an error), **ChildScheduling**
(truncation, aliases, waves of children) and **ExecutionCheck** (validation retries
around model judgement or generated tests in either sandbox). `Batches` says what comes
of a batch of cases: in a container a C++ program is not found by the shell
(`NotFound`), in a process a public Java class does not compile (`Compiles`), and
neither is ever run. What models, programs and children answer is arbitrary.

**RunStore** is the page of one run against its server. The server's job and
handlers are sequences of writes and publications in program order (`ProgramsOf`,
`RunPrograms`, `HandlerOps`), the page hydrates, applies events, shows an
intervention before the answer and rolls it back. A job that divides a node goes on
storing children of it, whatever has become of the node (`CreatesChild`,
`done.dividing`), as the memory repository asks for the run alone; nodes stored below one
that is gone are `Adrift`. `raced` collects the parts of
the view a known race has left out of date, each at the step where it happens
(`Hydrate`, `Orphans`, `Ghosts`, `TakeIntervention`, `JobBegins`, `JobStep`,
`HandlerStep`); all else must be right.

## Runs

`CHECK_DEADLOCK FALSE` everywhere: nobody has to call the server again, and the
models stop when all requests are answered or all calls made. "States" are distinct states.

| Run | Instance | Shows |
|---|---|---|
| `rc_race` | SQLite, 1 run, 2 clients with 2 requests (retry, skip, delete), 3 nodes, budget, 1 crash, 1 shutdown; 1 100 000 states | `TypeOK`, `OneWorkerPerRun`, `WorkerSeesRunning`, `CompletedRunIsComplete`, `LeaseSpec` |
| `rc_idle` | SQLite, depth 2, 5 nodes, 3 retries on idle runs, budget; 319 000 states | `StackIsRunning`, `BlockedRunIsActionable`, `ClaimIsReleased` |
| `rc_live` | SQLite, 2 runs on 1 thread, depth 2, 1 deletion, 1 shutdown; 115 000 states | `EveryRunSettles`, `ClaimIsReleased` |
| `ne_checks` | threshold 3, all checker configurations, up to 3 retries and 2 human ones; 19 500 states | `TypeOK`, `HumanAfterThreshold`, `CompletedIsVouched`, `LifeSpec`, `ExecutionEnds` |
| `es_view` | 1 publisher, 2 browsers with 2 connections each, 3 events, memory; 167 000 states | `HistorySpec`, `EveryEventArrives` |
| `es_race` | 2 publishers, 1 browser with 2 connections, 4 events, memory | `TypeOK`, `SentInOrder` |
| `db_shared` | a worker and a handler, root and child, every kind of write, 3 calls; 739 000 states | `TypeOK`, `EventNumbers`, `AckedEventIsDurable`, `OnlyRollbackLoses`, `LegalMoves`, `EveryCallReturns` |
| `fs_view` | memory, a node with 2 children below the root, run fresh or that node already under way, 4 programs of the job, 1 call of the user; 5 008 000 states | `TypeOK`, `ViewIsTree`, `SettledViewIsTrue` |
| `uc_tokens` | 2 threads, a run with budget 2 and one without, depth 2, 5 model calls, 1 token charged again; 1 134 000 states | `TokensConserved`, `BudgetStops` |
| `ns_calls` | 1 to 3 candidates of 2 scores, 1 retry each, 3 persona chains, 735 plans, both sandboxes, 2 test cases, 1 retry round; 32 000 states | `TypeOK`, `BestIsTaken`, `StepsArePaired`, `PlanIsFollowed`, `FailIsEarned`, `ServicesEnd` |
| `es_lost`, `ns_passed` | as `es_race` with fewer events, as `ns_calls` | each refutes one statement, see [below](#disagreements-between-the-code-and-what-is-said-of-it) |

**Why the bounds are enough.** The races of a run are between its job, another job and
two requests: a third request repeats what two can do, since a request holds nothing but
a node, an action and the status it has seen. Three nodes give a root with two children,
so siblings, pruning and the aggregate over mixed statuses all occur; depth two is in
`rc_idle`, where the stack matters, and in `rc_live`, where a node is deleted while it
creates its children. A second run only matters through the pool, hence `rc_live` with
one thread for two runs; the claims of resumed jobs are in `rc_idle`, whose one client
resumes three. Whose transaction makes an event raise is not in the model, as any thread
of the process may have one open: every event of these runs may raise. One crash and one
shutdown are enough as `Reboot` leaves no memory. `MaxJobs` is one job per run and
request, and `Room` sets the ids of promised children aside, so that no bound ever
blocks a step of the code. In NodeExecution the threshold is the shipped 3 and the retry
limit runs from 0 to the shipped 3, so that each of the two ends the loop in some
configuration, and two human retries let the counter enter an execution at the
threshold. Four events and two connections let the replay of one connection overlap two
publishers. In `db_shared` a thread's interference with another goes through one
transaction and one row: two threads and three calls let a call fail in another's
transaction and a third meet what both have left; root and child let a deletion cascade.
In `fs_view` a node with two children gives a pruning that takes both, a deletion of the
node between their creations, and a creation that comes late; four programs on top of
the node under way let one node block, be retried and end while the snapshot travels,
and the run itself block and go on under the hands of an intervention; `LeftOver` = 2 is
an earlier run whose last number hides events of this one. In `uc_tokens` the unbudgeted
run is there to race with the other, and five calls are more than two flushes and a
budget. `ns_calls` has every plan of two children, and of three with equal or distinct
objectives, with up to two dependencies by objective, by alias, or on a child that is
cut.

**What is and is not a restriction.** In `rc_idle` clients act only on blocked
runs nobody works on (`OnlyIdle`). That is the intended use of the interface, not
something the server enforces: `StackIsRunning` and `BlockedRunIsActionable` say
what careful clients get. All other properties are checked without it
(`ClaimIsReleased` in `rc_live`). Clients
are symmetric in `rc_race`, publishers in `es_race`, the two children in `fs_view`; no
run with a liveness property uses symmetry.

**Fairness.** RunControl: weak fairness for each job, for each handler that has begun
and for the submission after a created run, as threads are scheduled and the LLM
adapters return by timeout; none for new requests, crashes or shutdowns. `rc_live` has
no crash, since the code leaves a run that was queued at a crash queued for ever
(`_recover_interrupted_runs` looks for running ones), and says nothing else. Nor is it
fair that a creation succeeds: its events may raise, so `EveryRunSettles` speaks of the
runs that have been claimed for a job. NodeExecution: weak fairness of the executing
thread, whatever the services answer. EventStream: a publish call goes on, the generator
and the connection make progress while they are up, EventSource reconnects by itself
while `MaxConnects` lasts; no fairness for `AppendEvent` and `Disconnect`.
SharedConnection: weak fairness for each thread inside a call; `EveryCallReturns` then
says that waiting for `_event_lock` ends. NodeServices: weak fairness of the one thread,
since model calls, test programs and children have time limits or bounds of their own.
RunStore and UsageCharging have no liveness properties.

**Each property in a sentence.** `OneWorkerPerRun`: no two live jobs have the same run,
and a run is claimed exactly while a job has it. `WorkerSeesRunning`: from
`_mark_run_running` to `_finalize_run` the run is running. `CompletedRunIsComplete`: a
completed run has completed nodes only, after any skip, prune or deletion. `LeaseSpec`:
runs and claims behave as RunLease. `StackIsRunning`: nodes on a worker's stack are
running, children it has still to run are queued. `BlockedRunIsActionable`: a blocked
run nobody works on has a blocked node. `EveryRunSettles`: a queued run that its handler
has claimed for a job ends, whatever events raise. `ClaimIsReleased`: claims are given
up. `HumanAfterThreshold`: a failing verdict that is the third in a row has blocked the
node, over retry rounds, scopes and executions; the counter is *not* reset by a human
retry, so one more failure blocks again. `CompletedIsVouched`: the kept output, the
latest attempt (which `GET /runs/{id}` reports for the root) and the verdict are about
the same round, and the verdict passes or the policy let it through with a warning (for
merges: without one). `LifeSpec`: an execution moves its node only as NodeLife allows.
`ExecutionEnds`: both loops are finite. `HistorySpec`: with one publisher every browser
sees a gap-free prefix, over any disconnections. `EveryEventArrives`: and every event in
the end. `SentInOrder`: with several publishers, still nothing twice and nothing out of
order. `EventNumbers`: events are numbered without a gap, also on disk, and the number a
publisher has read stays free although other threads end its transaction.
`AckedEventIsDurable`: an event is committed when `append_event` returns.
`OnlyRollbackLoses`: so is any other write, but for the rollback of a failing
`append_event`. `LegalMoves`: a node moves against the transition table only where two
calls had its row in hand at once. `EveryCallReturns`: no failing call keeps the event
lock. `TokensConserved`: tokens are charged once, and once more where the event after
the charge raised (`again` counts those), unless two threads meet between read and
reset. `BudgetStops`: after its budget is charged a run calls no model, whoever's tokens
they were. `BestIsTaken`: the divider decides for the first best of its valid
candidates, and fails only without any or by a provider's exception, which discards
them. `StepsArePaired`: a step that is announced is ended before the next.
`PlanIsFollowed`: no child runs twice or before what it depends on, and only an unsound
or cut plan is given up. `FailIsEarned`: tests fail code for its own fault only, unless
it is a program that the sandbox does not run (`Unrun`). `ServicesEnd`: every execution
ends. `SettledViewIsTrue`: when everything has arrived the page shows the repository,
apart from the listed races. `ViewIsTree`: and meanwhile its graph is a tree with the
repository's edges, but for nodes stored or shown after their parent was removed.

Some hazards are races that the code loses: a row written over, a token lost, a part of the
page left out of date. History variables (`raced`, `again`) name these
where they happen and the properties exempt what they name: such a property does not say
that the race is harmless, but that nothing else goes wrong, and the lists
[below](#disagreements-between-the-code-and-what-is-said-of-it) say what the race does.

For every property, PROJECT.json names a mutant, a definition such as
`ClaimUnchecked` or `CheckFailsLate` that stands in the module before the one it
replaces and breaks the property as a plausible slip in the code would.

## Proofs

The proof modules are checked by `tlapm` to the last leaf; they assume nothing
but the modules' named assumptions on their constants (types of the bounds, that
a child's number can be read off its alias, and that the page's nodes hang from one root).

**RunControl_proofs**, for any number of runs, clients, nodes, workers, requests,
crashes and shutdowns:

| Theorem | States |
|---|---|
| `Invariant` | `Spec => []IInv` |
| `TypeCorrect` | `Spec => []TypeOK` |
| `AtMostOneWorker` | `Spec => []OneWorkerPerRun` |
| `RunningUnderWorker` | `Spec => []WorkerSeesRunning` |
| `SettlementInvariant` | `Spec => []SettleInv` |
| `CompletedIsComplete` | `Spec => []CompletedRunIsComplete` |
| `ImplementsLease` | `Spec => LeaseSpec` |
| `CarefulStackIsRunning` | `Spec => [](OnlyIdle => StackIsRunning)` |
| `BlockedIsActionable` | `Spec => [](OnlyIdle /\ Undisturbed => BlockedRunIsActionable)` |

`OneWorkerPerRun` is inductive only with its second half: a claim is released by
"the" job of a run, which is harmless because no other live job has the run.
`WorkerSeesRunning` needs both: a job's `Finalize` writes its own run, and that no
other executing job sees the write follows from `NoTwoWorkers`; handlers can only
take a run *to* running, a deletion touches no run, and `Reboot` ends every job.
`JobsInOrder` (jobs beyond the last submitted have not begun) keeps `Submit` from
overwriting a live job, and `NodesHaveRun`, `JobsHaveNode` and
`RequestsHaveNode` carry the types through indirections such as
`nodes[req[c].node].run`: a node may be removed while somebody holds its id, but
its run stays known. `IInv` is their conjunction with `TypeOK`. The proof has one
lemma per concern (pool, nodes, frames, run status) over the 28 steps of a job,
and one per handler.

`CompletedRunIsComplete` is about a job that reports its node completed at its
last step, long after it has gone through the children. What it has gone through
is not in the state, since `frame` has no history; what is left is. `Covered`
says of a job with a new run that there is a stack, the nodes between the job's
node and the current one, such that every node not completed is on it or below
it among the children still to run. `NextChild` moves a child from `todo` to the
stack, `ReturnToParent` takes a completed node off it, and a job that resumes in
the middle of a tree needs no stack, as its goal comes from the aggregate over
all nodes. The order of the ids (`IdsInOrder`: a child's is above its
parent's) tells which nodes a stack can hold. Nobody un-completes a node
(`SameTree`), handlers complete or delete only. `LeaseSpec` needs that a
request remembers a run's past truly (`SeenIsPast`: a run once blocked is neither
queued nor uncreated), that no job exists for a run before its creation ends
(`CreatingIsFresh`), and that a raised job's run can still fail (`RaisedHasRun`): it is
running, or the job has blocked it and the event of that raised (`Fail` of RunLease).

The last two are for clients who act on idle runs only (`OnlyIdle`); without it TLC finds a
deletion or an intervention under a worker. `CarefulInv` says that at most one request
is under way and its run has no job (`OneIntervenes`), so every step leaves the nodes of
a live job to that job (`StepLeavesOthers`, `LeftAloneKeepsStack`), and that a
job has a stack whose calls wait: `HasStack` is `Covered` for any job, resumed ones too,
with the statuses in place of what is completed. `StackIsRunning` reads the stack off the tree by
`Descendants`, a recursive function over the ids; `DescendantsStep` shows that such
a function exists (what is in every set closed under the recursion), and `StackIsIn`
that all of the path is on the stack, by the least id that is not. `BlockedRunIsActionable`
needs more: `BlockedHasNode` says that a blocked run has a blocked node, or that the
one request has taken it out of that status and is about to set the run running. `Undisturbed`
excludes what breaks this: a deletion of the blocked node, and a crash between the
two writes (`runs.py:538`, `:540`), after either of which the run stays blocked and nobody can
act on it. Graceful restarts are allowed, they wait for requests.

**NodeExecution_proofs**, for every threshold, retry limit and number of human
retries:

| Theorem | States |
|---|---|
| `NodeInvariant` | `Spec => []IInv` |
| `TypeCorrect` | `Spec => []TypeOK` |
| `NoFailureBeyondThreshold` | `Spec => []HumanAfterThreshold` |
| `CompletedOutputIsVouched` | `Spec => []CompletedIsVouched` |
| `ImplementsNodeLife` | `Spec => LifeSpec` |

The counter argument: the stored counter never falls below the failures since the
last human decision (`CounterCovers`), so when those reach the threshold the
counter has too, and `ShouldBlock` holds. `VerdictFollowsCall` says at each point
of the call what verdict and which output the locals hold; a retry is left
unchecked in neither loop. `StatusFollowsCall` ties the node's status to the call
and is what the refinement needs: `End` steps start from a running node, a
`Return` from an ended one, and only a blocked node is retried or skipped.

**UsageCharging_proofs**, for any number of threads, runs, tokens and calls:

| Theorem | States |
|---|---|
| `UsageInvariant` | `Spec => []IInv` |
| `BudgetIsKept` | `Spec => BudgetStops` |
| `TokensAreConserved` | `Spec => []TokensConserved` |

However threads race on the tracker, a run's `tokens_used` changes only in
`Charge`, and only by the run's own thread (`OneThread`). That thread is
inside `_persist_usage` then, and the check at its end, or at the start of the next node,
comes before any further call: `WorksInBudget` says that a thread at work has a
run that is not exhausted. `BudgetStops` follows step by step from this invariant;
without `OneThread` another thread's charge could exhaust the run of one at work.
`TokensConserved` needs that without a race at most one thread is between
reading and reset, and that what it holds is still the count (`HoldsCount`): then
`Charge` adds to the charges what the `reset` part of the sum takes back, and a publication
that raises moves that part to `again`, the tokens the next flush charges once more. The sums
are folds, whose recursion is unfolded once and for all (`TokensAreSums`): what passes
from a set without its first element to the set holds of all finite sets (`TakingAway`).

**SharedConnection_proofs**, for any number of threads, nodes and calls, with
commits, rollbacks and crashes at any point:

| Theorem | States |
|---|---|
| `ConnectionInvariant` | `Spec => []IInv` |
| `TypeCorrect` | `Spec => []TypeOK` |
| `EventsAreNumbered` | `Spec => []EventNumbers` |
| `AckedEventsAreDurable` | `Spec => []AckedEventIsDurable` |
| `OnlyRollbacksLose` | `Spec => []OnlyRollbackLoses` |
| `MovesAreLegal` | `Spec => LegalMoves` |

A publisher holds `_event_lock` from its first step to its last (`LockIsHeld`),
and nobody else writes events, so the number it has read is still the next one
when it inserts (`EventsNumbered`), although any thread may commit or roll back the
transaction it is in: both leave a prefix of the events. `Synced` says that without an open
transaction the tables are those of the disk, and `CallsUnique` and
`StatementDone` that each call takes effect at its statement and once: an
event, unlike another write, cannot be rolled back by somebody else, because
only the holder of the lock rolls back. For `LegalMoves` a call that has read a
row finds it unchanged at its statement unless another call was on it
(`RowsFresh`), which the history variable then knows (`RacesKnown`).

**EventStream_proofs**, for any number of publishers, browsers, events and
connections:

| Theorem | States |
|---|---|
| `StreamInvariant` | `Spec => []IInv` |
| `TypeCorrect` | `Spec => []TypeOK` |
| `FramesInOrder` | `Spec => []SentInOrder` |
| `ImplementsEventLog` | `Spec => HistorySpec`, if `Publishers` has one member |

With several publishers an event may be missed (run `es_lost`), so only the order
can be proved for all: whatever arrives on a queue, the generator
sends what is above its last number, and `SentUpToLast` says that nothing taken or on
its way is beyond it, also after a reconnection that starts at the last number the
browser has. With one publisher nothing is missed. `LogIsComplete` says that the
log is 1, 2 ... n, and `Gapless` puts the pieces together: what the browser has and
what is on the wire are the first events, the replay goes on where they end,
and the queue ends at the last event published and reaches back to the end of the
replay, so that the two overlap or touch. The log is read by the recursive function
`After`; its value is found by counting up (`CountingUp`), an induction over
sets of numbers that needs no operator as parameter.

**NodeServices_proofs**, for any number of candidates, retries, personas, steps,
children and tests:

| Theorem | States |
|---|---|
| `ServicesInvariant` | `Spec => []IInv` |
| `TypeCorrect` | `Spec => []TypeOK` |
| `BestAnswerIsTaken` | `Spec => []BestIsTaken` |
| `EventsArePaired` | `Spec => []StepsArePaired` |
| `ChildrenFollowPlan` | `Spec => []PlanIsFollowed` |
| `FailuresAreEarned` | `Spec => []FailIsEarned` |

Each service's record has an invariant of its own, since NodeServices only begins
and clears the records. `Attempts` counts the answers while none is valid: every
round has used all its attempts. That a best answer exists is shown by counting up
over the list (`BestIsPreferred`). `Reached` counts a chain's events by persona and
step. The children's invariant (`InWaves`, `Results`) is in terms of aliases, which
is what the code compares; `ResolveMeans` takes it back to the plan, where a
dependency means children. If the plan has an order, then of the children left
over the first in it is ready, so the executor does not give up. This needs that different
children have different aliases, which is assumed (`AliasAssumption`), as a prover
does not know how numbers are written. `FailIsEarned` holds for what the sandbox runs
(`~Unrun`); for C++ in a container and public Java classes in a process it would be false.

**RunStore_proofs**, for any finite tree of nodes, any head start that begins parents
first, and any number of the job's programs and the user's calls:

| Theorem | States |
|---|---|
| `StoreInvariant` | `Spec => [](IInv /\ CallInv)` |
| `TypeCorrect` | `Spec => []TypeOK` |
| `GraphIsTree` | `Spec => []ViewIsTree` |

The page's graph comes from two sources, so `IInv` speaks of both. `ServerInv` and
`PageInv` say of what is on its way that it is right for what is stored and shown, and
`DriftInv` that every node the repository holds below one that is gone, and every such
node of an answer on its way, is known to be out of date (`raced`): a deletion takes all
that is below, but the job that divides the node may store one more child, whose own
children are adrift like it. All other nodes hang from the root. Events keep what the
page shows a tree by themselves, but for a creation below a node that is not shown:
`removeDescendants` walks over the nodes shown, and takes with a node all that hangs
from it (`DescendantsGo`). An answer to an intervention or its rollback may not bring a
node back: `call.previous` is a status (`PageInv`), and a node gone meanwhile is left
alone. That the recursive function `Ancestors` is what it says, and has no cycle,
follows from the tree's depths (`AncestorsAre`, `NoCycle`).

**SettledView_proofs** builds on it, under the same assumptions:

| Theorem | States |
|---|---|
| `SettlingInvariant` | `Spec => []SettlingInv` |
| `SettledIsTrue` | `Spec => []SettledViewIsTrue` |

`SettledViewIsTrue` speaks of the end, when the events have all arrived; before that
the page may show anything old. So `SettlingInv` says of every moment what the events
still to come (`Future`) will make of what they are applied to (`Base`: what is shown,
the snapshot that will replace it, or what a refused intervention goes back to).

* *What is to come* (`FutureInv`). A node of the repository will be on the page
  (`Present`: shown before or created later, and created again after any
  pruning), the last event about it has its status (`Current`), and a node the
  repository no longer has will be gone (`Gone`); likewise the status of the run
  and, by counting, the tokens. The exception is a part whose event is still to be
  published: then the job or the handler has it before it, and the invariant
  names what is left of the program (`Rest`, `Creation`, `Pruning`, `Setting`, `Charge`,
  `Before`, `After`, `Deletion`) for the status that is stored (`JobAt`, `HandlerAt`).
* *What is left* (`FormInv`). Job and handler have nothing but such rests, and work on
  the same part only in a race (`Apart`); a node that is being deleted stays gone.
* *What has been* (`HistoryInv`). Who is shown has been created, and nobody twice
  (`Made`), which is why no event brings back a node that was deleted. What is shown
  hangs from the root, so a pruning that walks over what is shown reaches all it
  should. The last event of an intervention is the one the answer is about (`Own`),
  so the answer shows the same as the event that came before it or will come after.

`raced` is left out throughout: those parts are the divergences of the code, and a lemma
for each action shows that it puts nothing out of date but them. The proof has a few
lemmas per action, by the parts it can disturb (`JobStepForm`, `JobStepHistory`,
`JobStepNodes`, `JobStepRun`, `JobStepTokens`), over some on lists of events: the first
is applied, one more is published, the base is another (`FirstApplied`, `OneMore`,
`BothShown`). The beginning is a lemma of its own: the head start is a `FlattenSeq` of
what was published for each node, and counting up over its beginnings shows what it has
(`FlattenSeqStays`, `FlattenSeqHas`).

Model-checked only: liveness (`EveryRunSettles`, `ClaimIsReleased`,
`ExecutionEnds`, `EveryEventArrives`, `EveryCallReturns`, `ServicesEnd`), which needs
ENABLED and is out of the prover's reach. Every invariant, action property and
refinement that a passing run checks is proved, under the conditions of its run.

## Disagreements between the code and what is said of it

| Run | The code | What is said |
|---|---|---|
| `es_lost` | `event_stream.py:59`: two threads may queue events 2, 1; the generator drops 1 and the browser resumes after 2 | `docs/subtle-details.md:63` reconnection replays missed events |
| `ns_passed` | `execution_checker.py:128` gives a passed suite an empty `suggested_fix`, which `schemas/contracts.py:57` refuses; the check is repeated and then raises, which fails the run | `backend/tests/unit/test_execution_checker.py:78-81` a suite that passes gets the verdict pass |

Seen while modelling, without a run of their own:

* `orchestrator.py:222` clears the outputs right after the run is settled, so
  `GET /runs/{id}/result` finds none; `docs/data-flow.md:85` says they are available.
* A skip completes a node that a concurrent retry has set running in between
  (`runs.py:538`; `:478` says that a skip requires a blocked node), and a skip
  submits no job, so the run of a skipped root stays running with all nodes
  completed (`runs.py:547`; `docs/data-flow.md:82` says the status is computed).
* `auto_retry` completes a node whose last verdict fails (`executor.py:389`;
  `docs/data-flow.md:56` says failed or blocked).
* A crash between an intervention's two writes (`runs.py:538`, `:540`) leaves a blocked
  run without a blocked node: interventions get a 409, and the recovery looks for
  running runs.
* A retry that loses the race for the claim gets its 409 after node and run were
  set running; nobody executes the node. Likewise an intervention between the
  read and the write of `_mark_run_running` makes the resume job end at once.
* When a resumed node completes but an ancestor still waits, the aggregate is
  *running*, `_finalize_run` raises, and the run stays running without a job.
* In memory, children created below a node while it is deleted are stored all the same
  (`executor.py:570`, `memory_repo.py:74-80`): after the deletion has answered, descendants
  of the node are in the run graph, and no deletion from the node reaches them;
  `runs.py:424` says that all descendants are deleted.
* With SQLite the event of a status may raise when the status is written already: a job then
  fails a run that it has just blocked (`orchestrator.py:203-211`, `runs.py:288-296`), an
  intervention leaves its node and run running without a job (`runs.py:543`), and a
  creation leaves a queued run, with or without its root, that no job and no recovery
  touches (`orchestrator.py:89-125`).
* The attempt recorded for a node blocked after retries pairs the output of the
  first round with the verdict of the last (`executor.py:383`, `Recorded`).
* A merge that still fails after its retries is completed under `auto_retry`
  without the `validation_warning` a base case gets, and its retries ignore `pause`.
* `append_event` of the memory repository can store events out of order.
* The default of `on_check_fail` is `pause` in `schemas/api.py`, `auto_retry` in
  `docs/config-reference.md`.

Of the shared connection:

* A failing `create_node`, `delete_node` or row update leaves its transaction open. The next
  `append_event` then raises at its `BEGIN IMMEDIATE`, as it does whenever
  another thread's transaction is open, and the caller's publish with it.
* The rollback of a failing `append_event` discards what another thread has
  written, and possibly been told is stored.
* `delete_children_of` is a `WITH ... DELETE`, whose rowcount the driver reports
  as -1: `pruned > 0` (`executor.py:479`) is false and no `node.subtree_pruned` event is published.

Of the services:

* Code whose tests all pass makes the checker raise (`ns_passed`), and so does a
  failing case with nothing on stderr; in a container a compile error has nothing there
  either. A verdict pass comes from the model's judgement only.
* In a container the exit codes of single cases are lost, and one that is stopped fails all.
* `execution_checker.py:23` says that a failed execution falls back to the model;
  the code returns fail.
* A provider's exception discards the valid candidates asked for before (`divider.py:201`).
* In a container C++ is never run: the harness calls the binary as `solution`
  (`sandbox/executor.py:290`), which the shell looks for in PATH only, the last `echo` exits
  with 0, and a program that is right gets a wrong answer in every case. In a process Java is compiled
  as `solution.java` (`:158`), which a public class of another name does not allow.
* A chain of personas that ends with the name of an earlier one hands nothing on
  from that one (`executor.py:346` compares names; `docs/subtle-details.md:21` says that
  the prior output is passed between personas). Retries use the node's own
  persona only, whatever the chain.
* The worker's second call after an error leaves out model and context, and takes
  a JSON `null` for a failure.
* Cutting a plan leaves dependencies on children that are gone, and two children with one objective
  make dependencies ambiguous: both end as unresolved.
* `checker.started` is emitted also when the check is skipped (`executor.py:633`);
  the second depth check (`executor.py:263`) can never hold.

Of tokens and the page:

* Tokens whose event raises after the charge (`executor.py:189`) stay in the tracker and are
  charged once more by the next flush.
* Tokens of one run are charged to another that flushes first, and may exhaust
  its budget; a node that raises leaves its tokens to whoever flushes next.
* The snapshot carries no tokens, so hydrating sets them to zero, and events
  that come while it is on its way are lost. `lastSeq` of an earlier run on the same page hides
  this run's first events until then.
* A refusal over the budget publishes `failed_check` without a change in the
  repository (`executor.py:208`); the recovery's `run.failed` has no status
  (`app/__init__.py:106`), so the page goes on showing the run as running.
* An answer to an intervention, or the rollback of a refused one, overwrites newer events.
* A creation that arrives after the pruning or deletion of its parent brings the
  node back as an orphan, and so does one below such an orphan.
* An intervention whose write of the run raises (`runs.py:540`) leaves the node
  changed; no event tells of it, and the page rolls the node back.

## Limits

Abstracted away: objectives, prompts, outputs, the texts of personas, scores,
timestamps. A run's usage is a flag in RunControl and a number in UsageCharging.
External and modelled from their use: the thread pool, uvicorn's shutdown order,
the crash, and the steps in which Python's sqlite3 module opens and ends transactions.

Simplified, and to be kept in mind when reading the results: RunStore has a
server with one publishing job and one handler at a time, and the memory
repository; SharedConnection has one run and lets callers pass any argument, so it
also has orders of calls the executor never makes; NodeServices sees a
child's execution as an answer and judges nobody's blocking; UsageCharging charges
one token per call.

Not modelled: races inside the memory repository (single operations on
dicts), asyncio's own queue, selection and scoring of personas and of
decompositions (text heuristics without state), providers and configuration (I/O
and parsing), observability, rendering.

**Plan.** Done, in this order: Policies, RunLease and RunControl (the most
important behaviour), EventLog and EventStream, NodeLife and NodeExecution with
their proofs; then SharedConnection, RunStore, UsageCharging with its proofs, and
NodeServices with the four services.
Last, the proofs: all the safety that the runs check is proved.
