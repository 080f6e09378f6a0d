------------------------------ MODULE RunStore -------------------------------
(***************************************************************************)
(* The page of one run (frontend/src/state/runStore.ts, the handlers of    *)
(* page.tsx and NodeDetailsDrawer.tsx) against the server that executes    *)
(* it.  The page opens the event stream, then reads a snapshot of the run  *)
(* and replaces its view by it, applies events as they come, shows an      *)
(* intervention before the server has answered, and removes nodes it has   *)
(* deleted.  The server writes first and publishes later; the stream       *)
(* delivers every event in order (EventStream, with one publisher).        *)
(***************************************************************************)
EXTENDS Policies, Sequences, SequencesExt, FiniteSets

CONSTANTS
  Nodes,        \* node ids of the run
  Root,
  ParentOf,     \* the node each other node is a child of
  LeftOver,     \* lastSeq that an earlier run on the page has left; 0 for a new page
  HeadStarts,   \* children, in order, that the job has started before the page listens
  MaxPrograms,  \* bound: things the job does
  MaxCalls,     \* bound: interventions and deletions by the user
  None

ASSUME ConstantsAssumption ==
  /\ Root \in Nodes /\ MaxPrograms \in Nat /\ MaxCalls \in Nat /\ LeftOver \subseteq Nat
  /\ None \notin Nodes \cup RunStatus \cup {"retry", "skip", "delete"}
  /\ Nodes \cap {"run", "tokens"} = {}

\* Root is above all nodes; of the children started first, each comes after its
\* parent, and starting them is within the bound.
ASSUME TreeAssumption ==
  /\ IsFiniteSet(Nodes)
  /\ ParentOf \in [Nodes -> Nodes \cup {None}] /\ ParentOf[Root] = None
  /\ \A n \in Nodes \ {Root} : ParentOf[n] \in Nodes
  /\ \E depth \in [Nodes -> 0..Cardinality(Nodes)] :
       \A n \in Nodes \ {Root} : depth[ParentOf[n]] < depth[n]
  /\ HeadStarts \subseteq Seq(Nodes \ {Root})
  /\ \A ns \in HeadStarts :
       /\ Len(ns) < MaxPrograms
       /\ \A i \in DOMAIN ns : ParentOf[ns[i]] \in {Root} \cup {ns[j] : j \in 1..(i - 1)}

VARIABLES
  repo,    \* the repository: status of the run, tokens used, status of the nodes
  log,     \* the events published
  job,     \* what the run's job has still to write and to publish, in order
  handler, \* likewise the handler of the user's call, and its answer
  next,    \* position in log of the event the stream delivers next
  snap,    \* GET /runs/{id}: asked, or the answer on its way, or shown
  view,    \* the store: run, nodesById, edges, lastSeq
  call,    \* the user's call in flight
  done,    \* programs begun by the job, the node it is dividing, and calls made
  raced    \* history: parts of the view that a race has left out of date

vars == <<repo, log, job, handler, next, snap, view, call, done, raced>>

Things == Nodes \cup {"run", "tokens"}
Absent == "absent"

Ancestors[n \in Nodes] ==
  IF n = Root THEN {} ELSE {ParentOf[n]} \cup Ancestors[ParentOf[n]]

Below(n)   == {m \in Nodes : n \in Ancestors[m]}
Subtree(n) == {n} \cup Below(n)

Op(do, kind, n, s) == [do |-> do, kind |-> kind, node |-> n, status |-> s]
Write(kind, n, s)  == Op("write", kind, n, s)
Publish(kind, n, s) == Op("publish", kind, n, s)

\* The parts of the view an event or a write is about.
About(op) == CASE op.kind = "tokens" -> {"tokens"}
               [] op.kind = "run"    -> {"run"}
               [] op.kind = "pruned" -> Below(op.node)
               [] op.kind = "delete" -> Subtree(op.node)
               [] OTHER              -> {op.node}

Ahead(ops)    == UNION {About(o) : o \in ToSet(ops)}
NoCall        == [kind |-> None, node |-> None, previous |-> Absent, heard |-> {}]
NoHandler     == [ops |-> <<>>, answer |-> "none"]
NoAnswer      == [at |-> "asked", run |-> None, node |-> <<>>, since |-> {}]

Created(n) == Publish("created", n, "queued")

\* createRun has answered: the root is stored and both events are published.
\* The job may have gone on since, until some nodes are running.
Init ==
  /\ \E started \in {<<>>} \cup {<<Root>> \o ns : ns \in HeadStarts} :
       /\ repo = [run |-> IF started = <<>> THEN "queued" ELSE "running", tokens |-> 0,
                  node |-> [n \in Nodes |-> IF n \in ToSet(started) THEN "running"
                                            ELSE IF n = Root THEN "queued" ELSE Absent]]
       /\ log = <<Publish("run", Root, "queued"), Created(Root)>>
                \o (IF started = <<>> THEN <<>> ELSE <<Publish("run", None, "running")>>)
                \o FlattenSeq([i \in DOMAIN started |->
                     (IF i = 1 THEN <<>> ELSE <<Created(started[i])>>)
                     \o <<Publish("status", started[i], "running")>>])
       /\ done = [programs |-> Len(started), dividing |-> None, calls |-> 0]
  /\ job = <<>> /\ handler = NoHandler
  /\ next = 1
  /\ snap = NoAnswer
  /\ \E seq \in LeftOver :
       view = [run |-> None, tokens |-> 0, node |-> [n \in Nodes |-> Absent],
               edges |-> {}, lastSeq |-> seq]
  /\ call = NoCall
  /\ raced = {}
-----------------------------------------------------------------------------
(* The server.                                                             *)

\* removeDescendants of the page and delete_children_of of the repository walk down
\* from a node over the nodes that are there.
Descendants(v, p) ==
  {n \in Below(p) : \A m \in ({n} \cup Ancestors[n]) \cap Below(p) : v.node[m] # Absent}

\* What a write leaves in the repository, which is kept in memory.
Written(op) ==
  CASE op.kind = "tokens" -> [repo EXCEPT !.tokens = @ + 1]
    [] op.kind = "run"    -> [repo EXCEPT !.run = op.status]
    [] op.kind \in {"pruned", "delete"} ->
         LET gone == IF op.kind = "delete" THEN {op.node} ELSE Descendants(repo, op.node)
         IN [repo EXCEPT !.node = [n \in Nodes |-> IF n \in gone THEN Absent ELSE @[n]]]
    [] OTHER -> [repo EXCEPT !.node[op.node] = op.status]

\* The repository method or the lookup before an event raises.  A child is stored
\* whether its parent is there or not.
Fails(op) ==
  CASE op.kind = "status"  -> \/ repo.node[op.node] = Absent
                              \/ (op.do = "write" /\ ~NodeMay(repo.node[op.node], op.status))
    [] op.kind = "run"     -> op.do = "write" /\ ~RunMay(repo.run, op.status)
    [] op.kind = "delete"  -> repo.node[op.node] = Absent
    [] OTHER               -> FALSE

\* Nodes stored below a node that is gone: what takes them off the page does not
\* take them out of the repository, nor the other way round.
Adrift(r) == {n \in Nodes : r.node[n] # Absent /\ \E m \in Ancestors[n] : r.node[m] = Absent}

\* One write or one publish call, in program order.
Perform(op) ==
  IF op.do = "write" THEN repo' = Written(op) /\ UNCHANGED log
  ELSE log' = Append(log, op) /\ UNCHANGED repo

\* Mutant: the status of a node that has raised is not mapped.
EventStatusButError(s) == CASE s = "waiting_check" -> "running"
                            [] s = "failed_check"  -> "failed"
                            [] OTHER               -> s

\* _event_node_status
EventStatus(s) == CASE s = "waiting_check"             -> "running"
                    [] s \in {"failed_check", "error"} -> "failed"
                    [] OTHER                           -> s

Ends(n, s)  == <<Write("status", n, s), Publish("status", n, EventStatus(s))>>
Blocks(n)   == <<Write("status", n, "waiting_check"), Write("status", n, "failed_check")>>
               \o Ends(n, "blocked_human") \o <<Publish("status", n, "blocked_human")>>

ChildrenOf(n) == {m \in Nodes \ {Root} : ParentOf[m] = n}

\* _create_child_nodes stores and announces one more child; ids are never used again.
CreatesChild(n) ==
  {<<Write("created", m, "queued"), Created(m)>> :
     m \in {k \in ChildrenOf(n) : \A o \in ToSet(log) : ~(o.kind = "created" /\ o.node = k)}}

\* What the job does next with a node: start it, drop the children of an earlier
\* attempt, create the first child, merge, end it; or refuse it over the budget.
ProgramsOf(n) ==
  CASE repo.node[n] = "queued"  -> {Ends(n, "running"), <<Publish("status", n, "failed_check")>>}
    [] repo.node[n] = "running" ->
         LET ending == {Ends(n, "completed"), Ends(n, "error"), Blocks(n)}
             hasKid == \E m \in ChildrenOf(n) : repo.node[m] # Absent
         IN ending
            \cup (IF hasKid
                  THEN {<<Publish("merged", n, "merged")>> \o e : e \in ending}
                       \cup {<<Write("pruned", n, None), Publish("pruned", n, None)>>}
                  ELSE CreatesChild(n))
    [] OTHER -> {}

\* ... or with the run: charge tokens, or set its status; the recovery after a
\* restart publishes run.failed without one.
RunPrograms ==
  {<<Write("tokens", None, None), Publish("tokens", None, None)>>}
  \cup {<<Write("run", None, s), Publish("run", None, s)>> :
          s \in {t \in {"running", "blocked_human", "completed"} : RunMay(repo.run, t)}}
  \cup {<<Write("run", None, "failed"), Publish("run", None, None)>> :
          s \in {t \in {"running"} : repo.run = t}}

\* The job goes on: it stores one more child of the node it is dividing, whatever
\* has become of that, or it turns to the run or to a node no handler has in hand.
\* Events that do not tell what the repository holds leave the view out of date.
JobBegins ==
  /\ job = <<>> /\ done.programs < MaxPrograms
  /\ \E program \in RunPrograms \cup CreatesChild(done.dividing)
                    \cup UNION {ProgramsOf(n) : n \in Nodes \ Ahead(handler.ops)} :
       /\ job' = program
       /\ done' = [done EXCEPT !.programs = @ + 1,
                               !.dividing = IF Head(program).kind = "created"
                                            THEN ParentOf[Head(program).node] ELSE None]
       /\ raced' = raced \cup (Ahead(program) \cap Ahead(handler.ops))
                         \cup (IF Len(program) = 1 \/ Last(program) = Publish("run", None, None)
                               THEN Ahead(program) ELSE {})
  /\ UNCHANGED <<repo, log, handler, next, snap, view, call>>

JobStep ==
  /\ job # <<>>
  /\ IF Fails(Head(job)) THEN job' = <<>> /\ UNCHANGED <<repo, log>>
     ELSE job' = Tail(job) /\ Perform(Head(job))
  /\ raced' = raced \cup Adrift(repo')
  /\ UNCHANGED <<handler, next, snap, view, call, done>>

\* apply_intervention and delete_node, from the check of the node's status on.
Eligible(n) == repo.node[n] \in {"blocked_human", "failed_check"}

TargetOf(kind) == IF kind = "skip" THEN "completed" ELSE "running"

HandlerOps(kind, n) ==
  IF kind = "delete" THEN <<Write("pruned", n, None), Write("delete", n, None)>>
  ELSE <<Write("status", n, TargetOf(kind))>>
       \o (IF repo.run = "blocked_human"
           THEN <<Write("run", None, "running"), Publish("run", None, "running")>> ELSE <<>>)
       \o <<Publish("intervention", n, TargetOf(kind))>>

Refused(kind, n) ==
  IF kind = "delete" THEN repo.node[n] = Absent
  ELSE ~Eligible(n) \/ (kind = "skip" /\ repo.node[n] # "blocked_human")

Handle ==
  /\ call.kind # None /\ handler = NoHandler
  /\ IF Refused(call.kind, call.node)
     THEN handler' = [NoHandler EXCEPT !.answer = "refused"] /\ UNCHANGED raced
     ELSE LET ops == HandlerOps(call.kind, call.node)
          IN /\ handler' = [ops |-> ops, answer |-> "working"]
             /\ raced' = raced \cup (Ahead(ops) \cap Ahead(job))
  /\ UNCHANGED <<repo, log, job, next, snap, view, call, done>>

\* A retry whose run is claimed by another job is refused after all.  When the
\* write of the run raises, the node keeps its new status and no event tells it.
HandlerStep ==
  /\ handler.answer = "working"
  /\ IF handler.ops = <<>>
     THEN /\ \E a \in {"accepted"} \cup (IF call.kind = "retry" THEN {"refused"} ELSE {}) :
               handler' = [handler EXCEPT !.answer = a]
          /\ UNCHANGED <<repo, log, raced>>
     ELSE IF Fails(Head(handler.ops))
     THEN /\ handler' = [NoHandler EXCEPT !.answer = "refused"]
          /\ raced' = raced \cup (IF Head(handler.ops).kind = "run" THEN {call.node} ELSE {})
          /\ UNCHANGED <<repo, log>>
     ELSE /\ handler' = [handler EXCEPT !.ops = Tail(@)] /\ Perform(Head(handler.ops))
          /\ raced' = raced \cup Adrift(repo')
  /\ UNCHANGED <<job, next, snap, view, call, done>>
-----------------------------------------------------------------------------
(* The store.                                                              *)

\* normalizeNodeStatus, of what the API returns.
Normalized(s) == EventStatus(s)

\* Mutant: keeps the edge to a node that is removed.
WithoutOutgoing(v, ns) ==
  [v EXCEPT !.node = [n \in Nodes |-> IF n \in ns THEN Absent ELSE @[n]],
            !.edges = {e \in @ : e[1] \notin ns}]

\* The state without some nodes and the edges at them.
Without(v, ns) ==
  [v EXCEPT !.node = [n \in Nodes |-> IF n \in ns THEN Absent ELSE @[n]],
            !.edges = {e \in @ : e[1] \notin ns /\ e[2] \notin ns}]

\* The switch of applyEvent.  Events about what is not shown change nothing, a
\* run event without a status neither; run.created is the one that names Root.
Applied(v, e) ==
  IF e.kind \in {"run", "tokens"} /\ v.run = None /\ e.node # Root THEN v
  ELSE CASE e.kind = "created" ->
              [v EXCEPT !.node[e.node] = e.status,
                        !.edges = @ \cup (IF e.node = Root THEN {}
                                          ELSE {<<ParentOf[e.node], e.node>>})]
         [] e.kind \in {"status", "merged", "intervention"} ->
              IF v.node[e.node] = Absent THEN v ELSE [v EXCEPT !.node[e.node] = e.status]
         [] e.kind = "pruned" -> Without(v, Descendants(v, e.node))
         [] e.kind = "tokens" -> [v EXCEPT !.tokens = @ + 1]
         [] e.kind = "run"    -> IF e.status = None THEN v ELSE [v EXCEPT !.run = e.status]

\* What the answer to GET /runs/{id} no longer takes in: tokens never, the run
\* once it is read, the nodes once they are.
Missed == CASE snap.at = "asked"    -> {"tokens"}
            [] snap.at = "run read" -> {"tokens", "run"}
            [] snap.at = "answered" -> Things
            [] snap.at = "shown"    -> {}

\* A creation shown below a node the snapshot no longer had, or below such a
\* creation: the pruning that is still to come does not reach it.
Orphans(e) ==
  {n \in {e.node} \ {Root} : e.kind = "created" /\ snap.at = "shown"
                             /\ \E m \in Ancestors[n] : view.node[m] = Absent}

\* onEvent, then applyEvent with its own filter on lastSeq.
ApplyEvent ==
  LET e == log[next]
  IN /\ next <= Len(log)
     /\ next' = next + 1
     /\ view' = IF next <= view.lastSeq THEN view
                ELSE [Applied(view, e) EXCEPT !.lastSeq = next]
     /\ snap' = [snap EXCEPT !.since = @ \cup (About(e) \cap Missed)]
     /\ call' = IF call.kind # None /\ call.node \in About(e)
                THEN [call EXCEPT !.heard = @ \cup {IF e.kind = "intervention" THEN "own" ELSE "other"}]
                ELSE call
     /\ raced' = raced \cup Orphans(e)
     /\ UNCHANGED <<repo, log, job, handler, done>>

\* get_run_graph reads the run, then its nodes; the answer is on its way.
ReadRun ==
  /\ snap.at = "asked"
  /\ snap' = [snap EXCEPT !.at = "run read", !.run = repo.run]
  /\ UNCHANGED <<repo, log, job, handler, next, view, call, done, raced>>

ReadNodes ==
  /\ snap.at = "run read"
  /\ snap' = [snap EXCEPT !.at = "answered", !.node = repo.node]
  /\ UNCHANGED <<repo, log, job, handler, next, view, call, done, raced>>

\* mapGetRunResponse: run, nodes and edges of the answer; no tokens in it.
Mapped(answer) ==
  [run |-> answer.run, tokens |-> 0,
   node |-> [n \in Nodes |-> Normalized(answer.node[n])],
   edges |-> {<<ParentOf[n], n>> : n \in {m \in Nodes \ {Root} : answer.node[m] # Absent}},
   lastSeq |-> 0]

\* hydrate replaces run, nodes and edges and sets lastSeq to -1.  What was heard
\* since the answer was read is lost.
Hydrate ==
  /\ snap.at = "answered"
  /\ view' = Mapped(snap)
  /\ snap' = [NoAnswer EXCEPT !.at = "shown"]
  /\ raced' = raced \cup snap.since
  /\ UNCHANGED <<repo, log, job, handler, next, call, done>>

MayCall == snap.at = "shown" /\ call = NoCall /\ done.calls < MaxCalls

\* Mutant: the status to go back to is read after the node is shown running.
AskedTooLate(kind, n) == [kind |-> kind, node |-> n, previous |-> "running", heard |-> {}]

\* What performIntervention keeps of the node: its status, read before it is shown running.
Asked(kind, n) == [kind |-> kind, node |-> n, previous |-> view.node[n], heard |-> {}]

\* performIntervention shows the node running, then asks.
UserIntervenes ==
  /\ MayCall
  /\ \E n \in Nodes, kind \in {"retry", "skip"} :
       /\ view.node[n] \in {"blocked_human", "failed"}
       /\ call' = Asked(kind, n)
       /\ view' = [view EXCEPT !.node[n] = "running"]
  /\ done' = [done EXCEPT !.calls = @ + 1]
  /\ UNCHANGED <<repo, log, job, handler, next, snap, raced>>

\* handleDeleteNode of GraphCanvas asks, and waits for the answer.
UserDeletes ==
  /\ MayCall
  /\ \E n \in Nodes \ {Root} : view.node[n] # Absent /\ call' = Asked("delete", n)
  /\ done' = [done EXCEPT !.calls = @ + 1]
  /\ UNCHANGED <<repo, log, job, handler, next, snap, view, raced>>

\* created events that are still to come for nodes that are gone.
Ghosts(ns) ==
  {o.node : o \in {p \in ToSet(job) \cup {log[i] : i \in next..Len(log)} :
                     p.kind = "created" /\ p.node \in ns}}

Answered(kinds) ==
  /\ call.kind \in kinds /\ handler.answer \in {"accepted", "refused"}
  /\ call' = NoCall /\ handler' = NoHandler
  /\ UNCHANGED <<repo, log, job, next, snap, done>>

\* applyInterventionResult or rollbackOptimisticIntervention: the answer may come
\* after newer events.
TakeIntervention ==
  LET n == call.node
  IN /\ Answered({"retry", "skip"})
     /\ view' = IF view.node[n] = Absent THEN view
                ELSE [view EXCEPT !.node[n] = IF handler.answer = "accepted"
                                              THEN TargetOf(call.kind) ELSE call.previous]
     /\ raced' = IF "other" \in call.heard \/ (handler.answer = "refused" /\ call.heard # {})
                 THEN raced \cup {n} ELSE raced

\* removeNodeAndDescendants, if the server has deleted the node.
TakeDeletion ==
  LET n == call.node
  IN /\ Answered({"delete"})
     /\ IF handler.answer = "accepted"
        THEN /\ view' = Without(view, {n} \cup Descendants(view, n))
             /\ raced' = raced \cup Ghosts(Subtree(n))
        ELSE UNCHANGED <<view, raced>>
-----------------------------------------------------------------------------
Page == ApplyEvent \/ ReadRun \/ ReadNodes \/ Hydrate \/ TakeIntervention \/ TakeDeletion

Server == JobStep \/ Handle \/ HandlerStep

Next == JobBegins \/ Server \/ Page \/ UserIntervenes \/ UserDeletes

Spec == Init /\ [][Next]_vars
-----------------------------------------------------------------------------
(* Properties.                                                             *)

Statuses  == NodeStatus \cup RunStatus \cup {"failed", "merged", Absent, None}
Ops       == [do : {"write", "publish"}, node : Nodes \cup {None}, status : Statuses,
              kind : {"run", "tokens", "created", "status", "merged", "pruned",
                      "delete", "intervention"}]

\* The types of the repository, the stream, the requests and the store.
TypeOK ==
  /\ repo \in [run : RunStatus, tokens : Nat, node : [Nodes -> NodeStatus \cup {Absent}]]
  /\ log \in Seq(Ops) /\ job \in Seq(Ops) /\ handler.ops \in Seq(Ops)
  /\ handler.answer \in {"none", "working", "accepted", "refused"}
  /\ next \in 1..(Len(log) + 1)
  /\ snap.at \in {"asked", "run read", "answered", "shown"} /\ snap.since \subseteq Things
  /\ view \in [run : RunStatus \cup {None}, tokens : Nat, lastSeq : Nat, edges : SUBSET (Nodes \X Nodes),
               node : [Nodes -> {"queued", "running", "blocked_human", "completed", "failed",
                                 "merged", "failed_check", Absent}]]
  /\ call.kind \in {None, "retry", "skip", "delete"} /\ call.node \in Nodes \cup {None}
  /\ done \in [programs : 0..MaxPrograms, dividing : Nodes \cup {None}, calls : 0..MaxCalls]
  /\ raced \subseteq Things

\* The part x of the view shows what the repository holds.
Shows(x) == CASE x = "run"    -> view.run = repo.run
              [] x = "tokens" -> view.tokens = repo.tokens
              [] OTHER        -> view.node[x] = Normalized(repo.node[x])

Settled == /\ snap.at = "shown" /\ next > Len(log)
           /\ job = <<>> /\ handler = NoHandler /\ call = NoCall

\* When every event has arrived and no call is in flight, the page shows the
\* repository's state, except where a race has left it out of date.
SettledViewIsTrue == Settled => \A x \in Things \ raced : Shows(x)

\* Once the snapshot is shown, the graph on the page is a tree: every node but the
\* root hangs from the parent it has in the repository, which is shown too, unless
\* its creation came after its parent was pruned or deleted, here or there.
ViewIsTree ==
  snap.at = "shown" =>
    LET shown == {n \in Nodes : view.node[n] # Absent}
    IN /\ view.edges = {<<ParentOf[n], n>> : n \in shown \ {Root}}
       /\ \A n \in shown \ (raced \cup {Root}) : ParentOf[n] \in shown
=============================================================================
