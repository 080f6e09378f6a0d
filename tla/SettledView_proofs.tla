-------------------------- MODULE SettledView_proofs --------------------------
(***************************************************************************)
(* When everything has arrived, the page shows what the repository holds   *)
(* (RunStore).  While it has not, the invariant says what the events still *)
(* to come would make of what is shown, and who is about to publish the    *)
(* events that are still missing: for any tree of nodes, any number of     *)
(* things the job does and any number of calls by the user.                *)
(***************************************************************************)
EXTENDS RunStore_proofs

-----------------------------------------------------------------------------
(* What is still to come: the invariant behind SettledViewIsTrue.          *)

\* The events of l at the places F keep a node on the page, or drop it from there,
\* if b is shown before; the last of them has status s.
Keeps(l, F, b) ==
  /\ b = Absent => \E j \in F : l[j].kind = "created"
  /\ \A i \in F : l[i].kind = "pruned" => \E j \in F : i < j /\ l[j].kind = "created"

Drops(l, F, b) ==
  /\ b # Absent => \E j \in F : l[j].kind = "pruned"
  /\ \A i \in F : l[i].kind = "created" => \E j \in F : i < j /\ l[j].kind = "pruned"

Tells(l, F, b, s) ==
  /\ F = {} => b = s
  /\ \A i \in F : (\A j \in F : j <= i) => l[i].status = s

\* The events about a part of the view that have not arrived yet.
Future(x) == {i \in next..Len(log) : x \in About(log[i])}

\* The parts that a race has left out of date, or that hydrating will.
Off == raced \cup snap.since

\* An intervention is shown at the node x that nothing has been heard of.
Optimistic(x) == call.kind \in {"retry", "skip"} /\ call.node = x /\ call.heard = {}

\* What the events to come are applied to at a node, once the snapshot is shown.
Base(x) == IF snap.at \in {"asked", "run read"} THEN Normalized(repo.node[x])
           ELSE IF snap.at = "answered" THEN Normalized(snap.node[x])
           ELSE IF Optimistic(x) THEN call.previous ELSE view.node[x]

\* The page will show x, or will not; and it will show what the repository holds.
Present(x) == Keeps(log, Future(x), Base(x))
Gone(x)    == Drops(log, Future(x), Base(x))
Current(x) == Tells(log, Future(x), Base(x), Normalized(repo.node[x]))
Told(x)    == IF repo.node[x] = Absent THEN Gone(x) ELSE Present(x) /\ Current(x)

\* The operations with a node's status that are left to the job when it is s.
Rest(n, s) ==
  LET W(t) == Write("status", n, t)
      P(t) == Publish("status", n, t)
      M    == Publish("merged", n, "merged")
      block == <<W("waiting_check"), W("failed_check"), W("blocked_human"), P("blocked_human"),
                 P("blocked_human")>>
  IN CASE s = "queued"  -> {<<W("running"), P("running")>>}
       [] s = "running" -> {<<P("running")>>, <<W("completed"), P("completed")>>,
                            <<W("error"), P("failed")>>, block,
                            <<M, W("completed"), P("completed")>>, <<M, W("error"), P("failed")>>,
                            <<M, W("waiting_check"), W("failed_check"), W("blocked_human"),
                              P("blocked_human"), P("blocked_human")>>}
       [] s = "waiting_check" -> {<<W("failed_check"), W("blocked_human"), P("blocked_human"),
                                    P("blocked_human")>>}
       [] s = "failed_check"  -> {<<W("blocked_human"), P("blocked_human"), P("blocked_human")>>}
       [] s = "blocked_human" -> {<<P("blocked_human"), P("blocked_human")>>, <<P("blocked_human")>>}
       [] s = "completed"     -> {<<P("completed")>>}
       [] s = "error"         -> {<<P("failed")>>}
       [] OTHER -> {}

Creation(n) == <<Write("created", n, "queued"), Created(n)>>
Pruning(p)  == <<Write("pruned", p, None), Publish("pruned", p, None)>>
Charge      == <<Write("tokens", None, None), Publish("tokens", None, None)>>
Setting(s)  == <<Write("run", None, s), Publish("run", None, s)>>

\* The job is about to change the node x, or to tell what it has changed.
JobAt(x) ==
  \/ job \in Rest(x, repo.node[x]) /\ Present(x)
  \/ job = Creation(x) /\ x # Root /\ Told(x)
  \/ job = <<Created(x)>> /\ repo.node[x] = "queued"
  \/ \E p \in Nodes : x \in Below(p) /\ job = Pruning(p) /\ Told(x)
  \/ \E p \in Nodes : x \in Below(p) /\ job = Tail(Pruning(p)) /\ repo.node[x] = Absent

\* What is left of an intervention before and after it has changed the node.
Before(n, t) ==
  {<<Write("status", n, t), Write("run", None, "running"), Publish("run", None, "running"),
     Publish("intervention", n, t)>>,
   <<Write("status", n, t), Publish("intervention", n, t)>>}

After(n, t) ==
  {<<Write("run", None, "running"), Publish("run", None, "running"), Publish("intervention", n, t)>>,
   <<Publish("run", None, "running"), Publish("intervention", n, t)>>,
   <<Publish("intervention", n, t)>>}

Deletion(n) == <<Write("pruned", n, None), Write("delete", n, None)>>

Busy == handler.answer \in {"working", "accepted"}

\* The handler is about to change x, or to tell of it; or the page is to remove it.
HandlerOn(x) ==
  /\ Busy
  /\ \/ call.kind = "delete" /\ x \in Subtree(call.node)
     \/ call.kind # "delete" /\ x = call.node /\ handler.ops # <<>>

HandlerAt(x) ==
  IF call.kind = "delete"
  THEN /\ handler.ops = Deletion(call.node) => Told(x)
       /\ handler.ops = Tail(Deletion(call.node)) =>
            IF x = call.node THEN Told(x) ELSE repo.node[x] = Absent
       /\ handler.ops = <<>> /\ x \in Ahead(job) =>
            \/ job = Creation(x)
            \/ \E p \in Nodes : x \in Below(p) /\ job \in {Pruning(p), Tail(Pruning(p))}
  ELSE IF handler.ops \in Before(call.node, TargetOf(call.kind)) THEN Told(x)
  ELSE repo.node[x] = TargetOf(call.kind) /\ Present(x)

NodeInv(x) == IF HandlerOn(x) THEN HandlerAt(x)
              ELSE IF x \in Ahead(job) THEN JobAt(x) ELSE Told(x)

NodesInv == \A x \in Nodes \ Off : NodeInv(x)

\* The forms of what the job has left.
StatusJob(n) == \A o \in ToSet(job) : o.kind \in {"status", "merged"} /\ o.node = n

JobForm ==
  \/ \E n \in Nodes : StatusJob(n)
  \/ \E n \in Nodes \ {Root} : job = Creation(n) \/ job = <<Created(n)>>
  \/ \E p \in Nodes : job = Pruning(p) \/ job = Tail(Pruning(p))
  \/ job = Charge \/ job = Tail(Charge)
  \/ \E s \in RunStatus : job = Setting(s) \/ job = Tail(Setting(s))
  \/ "run" \in raced /\ \A o \in ToSet(job) : o.kind = "run"

\* ... and the handler.
HandlerForm ==
  LET n == call.node
      t == TargetOf(call.kind)
  IN /\ handler.answer = "working" =>
          IF call.kind = "delete" THEN handler.ops \in {Deletion(n), Tail(Deletion(n)), <<>>}
          ELSE handler.ops \in Before(n, t) \cup After(n, t) \cup {<<>>}
     /\ handler.answer # "working" => handler.ops = <<>>
     /\ call.kind # None => snap.at = "shown"

\* They work on the same part only in a race.
Apart == Ahead(job) \cap Ahead(handler.ops) \subseteq raced

\* A node that is being deleted is gone before only in a race, and stays gone.
DeletionInv ==
  call.kind = "delete" /\ Busy =>
    /\ handler.ops # <<>> /\ repo.node[call.node] = Absent => Subtree(call.node) \subseteq raced
    /\ handler.ops = <<>> => repo.node[call.node] = Absent

\* A node that somebody has seen has been created, and no node is created twice.
Made(x) == job = <<Created(x)>> \/ \E i \in DOMAIN log : log[i].kind = "created" /\ log[i].node = x

MadeInv ==
  /\ \A x \in Nodes :
       /\ repo.node[x] # Absent => Made(x)
       /\ snap.at = "answered" /\ snap.node[x] # Absent => Made(x)
       /\ view.node[x] # Absent => Made(x)
       /\ call.kind = "delete" /\ call.node = x => Made(x)
       /\ job = Creation(x) => ~ Made(x)

\* What the page shows hangs from the root, but for parts out of date.
ShownInv ==
  snap.at = "shown" =>
    /\ view.run # None /\ view.lastSeq < next /\ snap.since = {}
    /\ \A x \in Nodes \ raced : view.node[x] # Absent => \A m \in Ancestors[x] : view.node[m] # Absent

\* The last event of the intervention at n that the handler has ended.
Own(k) ==
  /\ log[k].kind = "intervention" /\ log[k].node = call.node /\ log[k].status = TargetOf(call.kind)
  /\ \A i \in DOMAIN log : i > k => log[i].kind # "intervention"

\* It is still to come, or what is shown was not changed by anything else since.
OwnInv ==
  call.kind \in {"retry", "skip"} =>
    /\ call.heard = {} => view.node[call.node] = "running"
    /\ Busy /\ handler.ops = <<>> =>
         \E k \in DOMAIN log : Own(k) /\ (k < next =>
           \/ "other" \in call.heard
           \/ call.heard # {} /\ view.node[call.node] \in {TargetOf(call.kind), Absent})

BaseRun == IF snap.at = "asked" THEN repo.run
           ELSE IF snap.at = "shown" THEN view.run ELSE snap.run

RunTold == Tells(log, Future("run"), BaseRun, repo.run)

\* The handler has set the run running, and is about to tell.
HandlerTells == Len(handler.ops) = 2 /\ Head(handler.ops) = Publish("run", None, "running")

RunInv ==
  "run" \notin Off =>
    IF "run" \in Ahead(job)
    THEN \E s \in RunStatus : \/ job = Setting(s) /\ RunTold
                              \/ job = Tail(Setting(s)) /\ repo.run = s
    ELSE IF HandlerTells THEN repo.run = "running"
    ELSE RunTold

TokensInv ==
  "tokens" \notin Off =>
    repo.tokens = (IF snap.at = "shown" THEN view.tokens ELSE 0) + Cardinality(Future("tokens"))
                  + (IF job = Tail(Charge) THEN 1 ELSE 0)

\* What the operations left look like; what has been; and what is to come.
FormInv    == JobForm /\ HandlerForm /\ Apart /\ DeletionInv
HistoryInv == MadeInv /\ ShownInv /\ OwnInv
FutureInv  == NodesInv /\ RunInv /\ TokensInv

SettlingInv == FormInv /\ HistoryInv /\ FutureInv

-----------------------------------------------------------------------------
(* Events to come, and what is shown before them.                          *)

\* What an event about a node makes of what is shown there.
Step(e, b) == CASE e.kind = "created" -> e.status
                [] e.kind = "pruned"  -> Absent
                [] OTHER -> IF b = Absent THEN Absent ELSE e.status

\* An event about a node, as it is published.
NodeEvent(e) ==
  /\ e.kind \in {"created", "pruned", "status", "merged", "intervention"}
  /\ e.kind # "pruned" => e.status # Absent

\* The first of the events is applied.
LEMMA FirstApplied ==
  ASSUME NEW l, NEW F \in SUBSET Nat, NEW b, NEW i \in F, \A j \in F : i <= j, NodeEvent(l[i])
  PROVE  /\ Keeps(l, F, b) => Keeps(l, F \ {i}, Step(l[i], b))
         /\ Drops(l, F, b) => Drops(l, F \ {i}, Step(l[i], b))
         /\ \A s : Keeps(l, F, b) /\ Tells(l, F, b, s) => Tells(l, F \ {i}, Step(l[i], b), s)
<1> DEFINE G == F \ {i}
           c == Step(l[i], b)
<1>1. \A j \in F, k \in F : j < k => k \in G
  BY DEF G
<1>2. /\ l[i].kind = "created" => c # Absent
      /\ l[i].kind = "pruned" => c = Absent
      /\ l[i].kind \notin {"created", "pruned"} => (c = Absent <=> b = Absent) /\ (b # Absent => c = l[i].status)
      /\ l[i].kind = "created" => c = l[i].status
  BY DEF Step, NodeEvent
<1> HIDE DEF c
<1>3. ASSUME Keeps(l, F, b) PROVE Keeps(l, G, c)
  <2>1. ASSUME c = Absent PROVE \E j \in G : l[j].kind = "created"
    <3>1. CASE l[i].kind = "pruned"
      <4>1. PICK j \in F : i < j /\ l[j].kind = "created"
        BY <1>3, <3>1 DEF Keeps
      <4> QED
        BY <1>1, <4>1
    <3>2. CASE l[i].kind # "pruned"
      <4>1. b = Absent /\ l[i].kind # "created"
        BY <1>2, <2>1, <3>2
      <4>2. PICK j \in F : l[j].kind = "created"
        BY <1>3, <4>1 DEF Keeps
      <4> QED
        BY <4>1, <4>2
    <3> QED
      BY <3>1, <3>2
  <2>2. ASSUME NEW k \in G, l[k].kind = "pruned" PROVE \E j \in G : k < j /\ l[j].kind = "created"
    <3>1. PICK j \in F : k < j /\ l[j].kind = "created"
      BY <1>3, <2>2 DEF Keeps
    <3> QED
      BY <1>1, <3>1
  <2> QED
    BY <2>1, <2>2 DEF Keeps
<1>4. ASSUME Drops(l, F, b) PROVE Drops(l, G, c)
  <2>1. ASSUME c # Absent PROVE \E j \in G : l[j].kind = "pruned"
    <3>1. CASE l[i].kind = "created"
      <4>1. PICK j \in F : i < j /\ l[j].kind = "pruned"
        BY <1>4, <3>1 DEF Drops
      <4> QED
        BY <1>1, <4>1
    <3>2. CASE l[i].kind # "created"
      <4>1. b # Absent /\ l[i].kind # "pruned"
        BY <1>2, <2>1, <3>2
      <4>2. PICK j \in F : l[j].kind = "pruned"
        BY <1>4, <4>1 DEF Drops
      <4> QED
        BY <4>1, <4>2
    <3> QED
      BY <3>1, <3>2
  <2>2. ASSUME NEW k \in G, l[k].kind = "created" PROVE \E j \in G : k < j /\ l[j].kind = "pruned"
    <3>1. PICK j \in F : k < j /\ l[j].kind = "pruned"
      BY <1>4, <2>2 DEF Drops
    <3> QED
      BY <1>1, <3>1
  <2> QED
    BY <2>1, <2>2 DEF Drops
<1>5. ASSUME NEW s, Keeps(l, F, b), Tells(l, F, b, s) PROVE Tells(l, G, c, s)
  <2>1. ASSUME G = {} PROVE c = s
    <3>1. \A j \in F : j <= i
      BY <2>1
    <3>2. l[i].status = s
      BY <1>5, <3>1 DEF Tells
    <3>3. l[i].kind # "pruned"
      BY <1>5, <2>1, <1>1 DEF Keeps
    <3>4. CASE l[i].kind = "created"
      BY <1>2, <3>2, <3>4
    <3>5. CASE l[i].kind # "created"
      <4>1. b # Absent
        BY <1>5, <2>1, <3>5 DEF Keeps
      <4> QED
        BY <1>2, <3>2, <3>3, <3>5, <4>1
    <3> QED
      BY <3>4, <3>5
  <2>2. ASSUME NEW k \in G, \A j \in G : j <= k PROVE l[k].status = s
    <3>1. \A j \in F : j <= k
      BY <2>2
    <3> QED
      BY <1>5, <3>1 DEF Tells
  <2> QED
    BY <2>1, <2>2 DEF Tells
<1> QED
  BY <1>3, <1>4, <1>5 DEF c

\* The first of the events is passed over.
LEMMA FirstPassed ==
  ASSUME NEW l, NEW F \in SUBSET Nat, NEW b, NEW i \in F, \A j \in F : i <= j
  PROVE  /\ b # Absent /\ Keeps(l, F, b) => Keeps(l, F \ {i}, b)
         /\ b = Absent /\ Drops(l, F, b) => Drops(l, F \ {i}, b)
         /\ Tells(l, F, b, b) => Tells(l, F \ {i}, b, b)
<1>1. \A j \in F, k \in F : j < k => k \in F \ {i}
  OBVIOUS
<1>2. b # Absent /\ Keeps(l, F, b) => Keeps(l, F \ {i}, b)
  BY <1>1 DEF Keeps
<1>3. b = Absent /\ Drops(l, F, b) => Drops(l, F \ {i}, b)
  BY <1>1 DEF Drops
<1>4. ASSUME Tells(l, F, b, b) PROVE Tells(l, F \ {i}, b, b)
  <2>1. ASSUME NEW k \in F \ {i}, \A j \in F \ {i} : j <= k PROVE l[k].status = b
    <3>1. \A j \in F : j <= k
      BY <2>1
    <3> QED
      BY <1>4, <2>1, <3>1 DEF Tells
  <2> QED
    BY <2>1 DEF Tells
<1> QED
  BY <1>2, <1>3, <1>4

\* One more event.
LEMMA OneMore ==
  ASSUME NEW l, NEW F \in SUBSET Nat, NEW b, NEW m \in Nat, \A j \in F : j < m,
         NEW k, \A j \in F : k[j] = l[j]
  PROVE  /\ k[m].kind = "created" => Keeps(k, F \cup {m}, b)
         /\ k[m].kind # "pruned" /\ Keeps(l, F, b) => Keeps(k, F \cup {m}, b)
         /\ k[m].kind = "pruned" => Drops(k, F \cup {m}, b)
         /\ Tells(k, F \cup {m}, b, k[m].status)
<1>1. k[m].kind = "created" => Keeps(k, F \cup {m}, b)
  BY DEF Keeps
<1>2. k[m].kind # "pruned" /\ Keeps(l, F, b) => Keeps(k, F \cup {m}, b)
  BY DEF Keeps
<1>3. k[m].kind = "pruned" => Drops(k, F \cup {m}, b)
  BY DEF Drops
<1>4. Tells(k, F \cup {m}, b, k[m].status)
  <2>1. ASSUME NEW i \in F \cup {m}, \A j \in F \cup {m} : j <= i PROVE i = m
    BY <2>1
  <2> QED
    BY <2>1 DEF Tells
<1> QED
  BY <1>1, <1>2, <1>3, <1>4

\* The same events in another list.
LEMMA SameEvents ==
  ASSUME NEW l, NEW F, NEW b, NEW k, \A j \in F : k[j] = l[j]
  PROVE  /\ Keeps(k, F, b) <=> Keeps(l, F, b)
         /\ Drops(k, F, b) <=> Drops(l, F, b)
         /\ \A s : Tells(k, F, b, s) <=> Tells(l, F, b, s)
<1>1. Keeps(k, F, b) <=> Keeps(l, F, b)
  BY DEF Keeps
<1>2. Drops(k, F, b) <=> Drops(l, F, b)
  BY DEF Drops
<1>3. \A s : Tells(k, F, b, s) <=> Tells(l, F, b, s)
  BY DEF Tells
<1> QED
  BY <1>1, <1>2, <1>3
-----------------------------------------------------------------------------
(* The events of the log.                                                  *)

\* What the invariant says of the events.
LEMMA EventsAre ==
  ASSUME IInv
  PROVE  /\ log \in Seq(RightOps) /\ Len(log) \in Nat /\ next \in Nat /\ 1 <= next /\ next <= Len(log) + 1
         /\ \A i \in 1..Len(log) : log[i] \in Published
         /\ \A x : /\ Future(x) \in SUBSET Nat
                   /\ \A i \in Future(x) : i \in 1..Len(log) /\ next <= i /\ x \in About(log[i])
<1>1. /\ log \in Seq(RightOps) /\ next \in 1..(Len(log) + 1) /\ \A i \in DOMAIN log : log[i].do = "publish"
  BY DEF IInv, ServerInv
<1>2. Len(log) \in Nat /\ DOMAIN log = 1..Len(log) /\ next \in Nat /\ 1 <= next /\ next <= Len(log) + 1
  BY <1>1
<1>3. \A i \in 1..Len(log) : log[i] \in Published
  BY <1>1, <1>2 DEF Published
<1>4. \A x : Future(x) \in SUBSET Nat /\ \A i \in Future(x) : i \in 1..Len(log) /\ next <= i /\ x \in About(log[i])
  BY <1>2 DEF Future
<1> QED
  BY <1>1, <1>2, <1>3, <1>4

\* An event about a node.
LEMMA AboutNode ==
  ASSUME NEW e \in RightOps, NEW x \in Nodes
  PROVE  /\ x \in About(e) <=> \/ e.kind \in {"created", "status", "merged", "intervention"} /\ e.node = x
                               \/ e.kind = "pruned" /\ x \in Below(e.node)
                               \/ e.kind = "delete" /\ x \in Subtree(e.node)
         /\ x \in About(e) /\ e.do = "publish" => NodeEvent(e)
<1>1. x # "run" /\ x # "tokens"
  BY ConstantsAssumption DEF ConstantsAssumption
<1>2. RightOp(e) /\ e.kind \in {"run", "tokens", "created", "status", "merged", "pruned", "delete", "intervention"}
  BY DEF RightOps, Ops
<1>3. x \in About(e) <=> \/ e.kind \in {"created", "status", "merged", "intervention"} /\ e.node = x
                         \/ e.kind = "pruned" /\ x \in Below(e.node)
                         \/ e.kind = "delete" /\ x \in Subtree(e.node)
  BY <1>1, <1>2 DEF About
<1>4. x \in About(e) /\ e.do = "publish" => NodeEvent(e)
  BY <1>2, <1>3 DEF RightOp, NodeEvent, ViewStatus, Absent
<1> QED
  BY <1>3, <1>4

\* What the page makes of a status; only of an absent node it shows none.
LEMMA NormalizedIs ==
  /\ \A s \in NodeStatus : s # Absent /\ Normalized(s) # Absent
  /\ Normalized(Absent) = Absent
  BY DEF Normalized, EventStatus, NodeStatus, Absent

\* A write leaves what is to come; a node that it keeps will be shown.
LEMMA WriteKeeps ==
  ASSUME IInv, NEW x \in Nodes, UNCHANGED <<log, next, snap, view, call>>, (repo.node)'[x] \in NodeStatus \cup {Absent}
  PROVE  /\ (repo.node)'[x] = repo.node[x] => (Present(x) <=> Present(x)') /\ (Told(x) <=> Told(x)')
         /\ (repo.node)'[x] # Absent /\ Present(x) => Present(x)'
<1>1. Future(x)' = Future(x)
  BY DEF Future
<1>2. Base(x)' = IF snap.at \in {"asked", "run read"} THEN Normalized((repo.node)'[x]) ELSE Base(x)
  BY DEF Base, Optimistic
<1>3. Present(x)' <=> Keeps(log, Future(x), Base(x)')
  BY <1>1 DEF Present
<1>4. ASSUME (repo.node)'[x] = repo.node[x] PROVE (Present(x) <=> Present(x)') /\ (Told(x) <=> Told(x)')
  <2>1. Base(x)' = Base(x)
    BY <1>2, <1>4 DEF Base
  <2> QED
    BY <1>1, <1>4, <2>1 DEF Present, Told, Gone, Current
<1>5. ASSUME (repo.node)'[x] # Absent, Present(x) PROVE Present(x)'
  <2>1. CASE Base(x)' = Base(x)
    BY <1>3, <1>5, <2>1 DEF Present
  <2>2. CASE Base(x)' # Base(x)
    <3>1. Base(x)' = Normalized((repo.node)'[x])
      BY <1>2, <2>2
    <3>2. Base(x)' # Absent
      BY <1>5, <3>1, NormalizedIs
    <3>3. Keeps(log, Future(x), Base(x)) => Keeps(log, Future(x), Base(x)')
      <4> DEFINE c == Base(x)'
      <4>1. c # Absent
        BY <3>2
      <4> HIDE DEF c
      <4>2. Keeps(log, Future(x), Base(x)) => Keeps(log, Future(x), c)
        BY <4>1 DEF Keeps
      <4> QED
        BY <4>2 DEF c
    <3> QED
      BY <1>3, <1>5, <3>3 DEF Present
  <2> QED
    BY <2>1, <2>2
<1> QED
  BY <1>4, <1>5

\* The events to come, with one more.
LEMMA FutureLonger ==
  ASSUME IInv, NEW e \in Published, log' = Append(log, e), next' = next
  PROVE  /\ Len(log') = Len(log) + 1 /\ log'[Len(log) + 1] = e /\ \A i \in 1..Len(log) : log'[i] = log[i]
         /\ \A x : Future(x)' = Future(x) \cup (IF x \in About(e) THEN {Len(log) + 1} ELSE {})
<1>1. /\ log \in Seq(RightOps) /\ Len(log) \in Nat /\ next \in Nat /\ 1 <= next /\ next <= Len(log) + 1
      /\ e \in RightOps
  BY EventsAre DEF Published
<1>2. Len(log') = Len(log) + 1 /\ log'[Len(log) + 1] = e /\ \A i \in 1..Len(log) : log'[i] = log[i]
  BY <1>1
<1>3. next..Len(log') = (next..Len(log)) \cup {Len(log) + 1}
  BY <1>1, <1>2
<1>4. ASSUME NEW x PROVE Future(x)' = Future(x) \cup (IF x \in About(e) THEN {Len(log) + 1} ELSE {})
  <2>1. Future(x)' = {i \in next..Len(log') : x \in About(log'[i])}
    BY DEF Future
  <2>2. \A i \in next..Len(log) : i \in 1..Len(log)
    BY <1>1
  <2>3. \A i \in next..Len(log) : log'[i] = log[i]
    BY <1>2, <2>2
  <2>4. {i \in (next..Len(log)) \cup {Len(log) + 1} : x \in About(log'[i])}
        = Future(x) \cup (IF x \in About(e) THEN {Len(log) + 1} ELSE {})
    BY <1>2, <2>3 DEF Future
  <2> QED
    BY <1>3, <2>1, <2>4
<1> QED
  BY <1>2, <1>4

\* An event that is published, about the node x or not.
LEMMA PublishKeeps ==
  ASSUME IInv, NEW x \in Nodes, NEW e \in Published, log' = Append(log, e), UNCHANGED <<repo, next, snap, view, call>>
  PROVE  /\ x \notin About(e) => (Present(x) <=> Present(x)') /\ (Told(x) <=> Told(x)')
         /\ x \in About(e) =>
              /\ e.kind = "created" \/ (e.kind # "pruned" /\ Present(x)) =>
                   /\ Present(x)'
                   /\ repo.node[x] # Absent /\ e.status = Normalized(repo.node[x]) => Told(x)'
              /\ e.kind = "pruned" /\ repo.node[x] = Absent => Told(x)'
<1>1. /\ \A i \in 1..Len(log) : log'[i] = log[i]
      /\ log'[Len(log) + 1] = e
      /\ Future(x)' = Future(x) \cup (IF x \in About(e) THEN {Len(log) + 1} ELSE {})
  BY FutureLonger
<1>2. Base(x)' = Base(x) /\ (repo.node)'[x] = repo.node[x]
  BY DEF Base, Optimistic
<1>3. Future(x) \in SUBSET Nat /\ \A i \in Future(x) : i \in 1..Len(log)
  BY EventsAre
<1>4. \A i \in Future(x) : log'[i] = log[i] /\ i < Len(log) + 1
  BY <1>1, <1>3
<1> DEFINE F == Future(x)
           G == Future(x)'
           k == log'
           b == Base(x)
           m == Len(log) + 1
           s == Normalized(repo.node[x])
<1>5. /\ Present(x) <=> Keeps(log, F, b)
      /\ Told(x) <=> IF repo.node[x] = Absent THEN Drops(log, F, b) ELSE Keeps(log, F, b) /\ Tells(log, F, b, s)
  BY DEF Present, Told, Gone, Current
<1>6. /\ Present(x)' <=> Keeps(k, G, b)
      /\ Told(x)' <=> IF repo.node[x] = Absent THEN Drops(k, G, b) ELSE Keeps(k, G, b) /\ Tells(k, G, b, s)
  BY <1>2 DEF Present, Told, Gone, Current
<1>7. F \in SUBSET Nat /\ m \in Nat /\ (\A j \in F : j < m) /\ (\A j \in F : k[j] = log[j]) /\ k[m] = e
      /\ G = F \cup (IF x \in About(e) THEN {m} ELSE {})
  BY <1>1, <1>3, <1>4, EventsAre
<1> HIDE DEF F, G, k, b, m, s
<1>8. CASE x \notin About(e)
  <2>1. G = F
    BY <1>7, <1>8
  <2>2. /\ Keeps(k, F, b) <=> Keeps(log, F, b)
        /\ Drops(k, F, b) <=> Drops(log, F, b)
        /\ Tells(k, F, b, s) <=> Tells(log, F, b, s)
    BY <1>7, SameEvents
  <2> QED
    BY <1>5, <1>6, <1>8, <2>1, <2>2, Zenon
<1>9. CASE x \in About(e)
  <2>1. G = F \cup {m}
    BY <1>7, <1>9
  <2>2. /\ e.kind = "created" => Keeps(k, F \cup {m}, b)
        /\ e.kind # "pruned" /\ Keeps(log, F, b) => Keeps(k, F \cup {m}, b)
        /\ e.kind = "pruned" => Drops(k, F \cup {m}, b)
        /\ Tells(k, F \cup {m}, b, e.status)
    BY <1>7, OneMore
  <2> QED
    BY <1>5, <1>6, <1>9, <2>1, <2>2 DEF s
<1> QED
  BY <1>8, <1>9
-----------------------------------------------------------------------------
(* What is left of the operations, one by one.                             *)

\* Lists put together.
LEMMA SameSequence ==
  ASSUME NEW S, NEW s \in Seq(S), NEW t \in Seq(S), Len(s) = Len(t), \A i \in 1..Len(s) : s[i] = t[i]
  PROVE  s = t
  OBVIOUS

\* The programs of the job and the handlers are put together of short lists.
LEMMA Joining ==
  /\ \A a, b, c : <<a>> \o <<b, c>> = <<a, b, c>>
  /\ \A a, b, c, d, e, f : <<a>> \o <<b, c, d, e, f>> = <<a, b, c, d, e, f>>
  /\ \A a, b, c, d, e : <<a, b>> \o <<c, d>> \o <<e>> = <<a, b, c, d, e>>
  /\ \A a, b, c, d : <<a>> \o <<b, c>> \o <<d>> = <<a, b, c, d>>
  /\ \A a, b : <<a>> \o <<>> \o <<b>> = <<a, b>>
<1>1. ASSUME NEW a, NEW b, NEW c PROVE <<a>> \o <<b, c>> = <<a, b, c>>
  <2> DEFINE S == {a, b, c}
             s == <<a>> \o <<b, c>>
             t == <<a, b, c>>
  <2>1. s \in Seq(S) /\ t \in Seq(S) /\ Len(s) = 3 /\ Len(t) = 3
    OBVIOUS
  <2>2. s[1] = t[1] /\ s[2] = t[2] /\ s[3] = t[3]
    OBVIOUS
  <2>3. 1..3 = {1, 2, 3}
    OBVIOUS
  <2> HIDE DEF S, s, t
  <2>4. s = t
    BY <2>1, <2>2, <2>3, SameSequence
  <2> QED
    BY <2>4 DEF s, t
<1>2. ASSUME NEW a, NEW b, NEW c, NEW d, NEW e, NEW f PROVE <<a>> \o <<b, c, d, e, f>> = <<a, b, c, d, e, f>>
  <2> DEFINE S == {a, b, c, d, e, f}
             s == <<a>> \o <<b, c, d, e, f>>
             t == <<a, b, c, d, e, f>>
  <2>1. s \in Seq(S) /\ t \in Seq(S) /\ Len(s) = 6 /\ Len(t) = 6
    OBVIOUS
  <2>2. s[1] = t[1] /\ s[2] = t[2] /\ s[3] = t[3] /\ s[4] = t[4] /\ s[5] = t[5] /\ s[6] = t[6]
    OBVIOUS
  <2>3. 1..6 = {1, 2, 3, 4, 5, 6}
    OBVIOUS
  <2> HIDE DEF S, s, t
  <2>4. s = t
    BY <2>1, <2>2, <2>3, SameSequence
  <2> QED
    BY <2>4 DEF s, t
<1>3. ASSUME NEW a, NEW b, NEW c, NEW d, NEW e PROVE <<a, b>> \o <<c, d>> \o <<e>> = <<a, b, c, d, e>>
  <2> DEFINE S == {a, b, c, d, e}
             s == <<a, b>> \o <<c, d>> \o <<e>>
             t == <<a, b, c, d, e>>
  <2>1. s \in Seq(S) /\ t \in Seq(S) /\ Len(s) = 5 /\ Len(t) = 5
    OBVIOUS
  <2>2. s[1] = t[1] /\ s[2] = t[2] /\ s[3] = t[3] /\ s[4] = t[4] /\ s[5] = t[5]
    OBVIOUS
  <2>3. 1..5 = {1, 2, 3, 4, 5}
    OBVIOUS
  <2> HIDE DEF S, s, t
  <2>4. s = t
    BY <2>1, <2>2, <2>3, SameSequence
  <2> QED
    BY <2>4 DEF s, t
<1>4. ASSUME NEW a, NEW b, NEW c, NEW d PROVE <<a>> \o <<b, c>> \o <<d>> = <<a, b, c, d>>
  <2> DEFINE S == {a, b, c, d}
             s == <<a>> \o <<b, c>> \o <<d>>
             t == <<a, b, c, d>>
  <2>1. s \in Seq(S) /\ t \in Seq(S) /\ Len(s) = 4 /\ Len(t) = 4
    OBVIOUS
  <2>2. s[1] = t[1] /\ s[2] = t[2] /\ s[3] = t[3] /\ s[4] = t[4]
    OBVIOUS
  <2>3. 1..4 = {1, 2, 3, 4}
    OBVIOUS
  <2> HIDE DEF S, s, t
  <2>4. s = t
    BY <2>1, <2>2, <2>3, SameSequence
  <2> QED
    BY <2>4 DEF s, t
<1>5. ASSUME NEW a, NEW b PROVE <<a>> \o <<>> \o <<b>> = <<a, b>>
  <2> DEFINE S == {a, b}
             s == <<a>> \o <<>> \o <<b>>
             t == <<a, b>>
  <2>1. s \in Seq(S) /\ t \in Seq(S) /\ Len(s) = 2 /\ Len(t) = 2
    OBVIOUS
  <2>2. s[1] = t[1] /\ s[2] = t[2]
    OBVIOUS
  <2>3. 1..2 = {1, 2}
    OBVIOUS
  <2> HIDE DEF S, s, t
  <2>4. s = t
    BY <2>1, <2>2, <2>3, SameSequence
  <2> QED
    BY <2>4 DEF s, t
<1> QED
  BY <1>1, <1>2, <1>3, <1>4, <1>5

\* The longest of them, a merge that ends in a failed check.
LEMMA SixTail ==
  ASSUME NEW a, NEW b, NEW c, NEW d, NEW e, NEW f
  PROVE  Head(<<a, b, c, d, e, f>>) = a /\ Tail(<<a, b, c, d, e, f>>) = <<b, c, d, e, f>>
<1> DEFINE S == {a, b, c, d, e, f}
           u == <<a, b, c, d, e, f>>
           s == Tail(u)
           t == <<b, c, d, e, f>>
<1>1. u \in Seq(S) /\ Len(u) = 6 /\ t \in Seq(S) /\ Len(t) = 5 /\ Head(u) = a
  OBVIOUS
<1>2. s \in Seq(S) /\ Len(s) = 5
  BY <1>1
<1>3. s[1] = t[1] /\ s[2] = t[2] /\ s[3] = t[3] /\ s[4] = t[4] /\ s[5] = t[5]
  OBVIOUS
<1>4. 1..5 = {1, 2, 3, 4, 5}
  OBVIOUS
<1> HIDE DEF S, s, t
<1>5. s = t
  BY <1>1, <1>2, <1>3, <1>4, SameSequence
<1> QED
  BY <1>1, <1>5 DEF s, t

\* The operations left for a status: the next one is about the node, does not
\* raise, and leaves the rest for the status it writes; the last one tells it.
LEMMA RestStep ==
  ASSUME NEW n \in Nodes, NEW s, NEW p \in Rest(n, s)
  PROVE  /\ p # <<>> /\ s \in NodeStatus
         /\ Head(p).node = n /\ Head(p).do \in {"write", "publish"}
         /\ Head(p).do = "write" =>
              /\ Head(p).kind = "status" /\ Head(p).status \in NodeStatus /\ NodeMay(s, Head(p).status)
              /\ Tail(p) \in Rest(n, Head(p).status)
         /\ Head(p).do = "publish" =>
              /\ Head(p).kind \in {"status", "merged"} /\ Head(p).status # Absent
              /\ \/ Tail(p) = <<>> /\ Head(p).status = Normalized(s)
                 \/ Tail(p) \in Rest(n, s)
<1> USE DEF Write, Publish, Op, NodeMay, NODE_ALLOWED_TRANSITIONS, NodeStatus, Absent, Normalized, EventStatus
<1> DEFINE W(t) == Write("status", n, t)
           P(t) == Publish("status", n, t)
           M    == Publish("merged", n, "merged")
           block == <<W("waiting_check"), W("failed_check"), W("blocked_human"), P("blocked_human"),
                      P("blocked_human")>>
           mblock == <<M, W("waiting_check"), W("failed_check"), W("blocked_human"), P("blocked_human"),
                       P("blocked_human")>>
<1>1. CASE s = "queued"
  <2>1. p = <<W("running"), P("running")>>
    BY <1>1 DEF Rest
  <2>2. Tail(p) = <<P("running")>> /\ Head(p) = W("running")
    BY <2>1
  <2>3. Tail(p) \in Rest(n, "running")
    BY <2>2 DEF Rest
  <2> QED
    BY <1>1, <2>1, <2>2, <2>3
<1>2. CASE s = "running"
  <2>1. \/ p = <<P("running")>>
        \/ p = <<W("completed"), P("completed")>>
        \/ p = <<W("error"), P("failed")>>
        \/ p = block
        \/ p = <<M, W("completed"), P("completed")>>
        \/ p = <<M, W("error"), P("failed")>>
        \/ p = mblock
    BY <1>2 DEF Rest
  <2>2. CASE p = <<P("running")>>
    BY <1>2, <2>2
  <2>3. CASE p = <<W("completed"), P("completed")>>
    <3>1. Tail(p) = <<P("completed")>> /\ Head(p) = W("completed")
      BY <2>3
    <3>2. Tail(p) \in Rest(n, "completed")
      BY <3>1 DEF Rest
    <3> QED
      BY <1>2, <2>3, <3>1, <3>2
  <2>4. CASE p = <<W("error"), P("failed")>>
    <3>1. Tail(p) = <<P("failed")>> /\ Head(p) = W("error")
      BY <2>4
    <3>2. Tail(p) \in Rest(n, "error")
      BY <3>1 DEF Rest
    <3> QED
      BY <1>2, <2>4, <3>1, <3>2
  <2>5. CASE p = block
    <3>1. Tail(p) = <<W("failed_check"), W("blocked_human"), P("blocked_human"), P("blocked_human")>>
          /\ Head(p) = W("waiting_check")
      BY <2>5
    <3>2. Tail(p) \in Rest(n, "waiting_check")
      BY <3>1 DEF Rest
    <3> QED
      BY <1>2, <2>5, <3>1, <3>2
  <2>6. CASE p \in {<<M, W("completed"), P("completed")>>, <<M, W("error"), P("failed")>>, mblock}
    <3>1. Head(p) = M
      BY <2>6
    <3>2. \/ Tail(p) = <<W("completed"), P("completed")>>
          \/ Tail(p) = <<W("error"), P("failed")>>
          \/ Tail(p) = block
      <4> HIDE DEF W, P, M
      <4>1. CASE p = <<M, W("completed"), P("completed")>>
        BY <4>1
      <4>2. CASE p = mblock
        BY <4>2, SixTail
      <4>3. CASE p = <<M, W("error"), P("failed")>>
        BY <4>3
      <4> QED
        BY <2>6, <4>1, <4>2, <4>3
    <3>3. Tail(p) \in Rest(n, "running")
      BY <3>2 DEF Rest
    <3> QED
      BY <1>2, <2>6, <3>1, <3>3
  <2> QED
    BY <2>1, <2>2, <2>3, <2>4, <2>5, <2>6
<1>3. CASE s = "waiting_check"
  <2>1. p = <<W("failed_check"), W("blocked_human"), P("blocked_human"), P("blocked_human")>>
    BY <1>3 DEF Rest
  <2>2. Tail(p) = <<W("blocked_human"), P("blocked_human"), P("blocked_human")>> /\ Head(p) = W("failed_check")
    BY <2>1
  <2>3. Tail(p) \in Rest(n, "failed_check")
    BY <2>2 DEF Rest
  <2> QED
    BY <1>3, <2>1, <2>2, <2>3
<1>4. CASE s = "failed_check"
  <2>1. p = <<W("blocked_human"), P("blocked_human"), P("blocked_human")>>
    BY <1>4 DEF Rest
  <2>2. Tail(p) = <<P("blocked_human"), P("blocked_human")>> /\ Head(p) = W("blocked_human")
    BY <2>1
  <2>3. Tail(p) \in Rest(n, "blocked_human")
    BY <2>2 DEF Rest
  <2> QED
    BY <1>4, <2>1, <2>2, <2>3
<1>5. CASE s = "blocked_human"
  <2>1. p = <<P("blocked_human"), P("blocked_human")>> \/ p = <<P("blocked_human")>>
    BY <1>5 DEF Rest
  <2>2. CASE p = <<P("blocked_human"), P("blocked_human")>>
    <3>1. Tail(p) = <<P("blocked_human")>> /\ Head(p) = P("blocked_human")
      BY <2>2
    <3>2. Tail(p) \in Rest(n, "blocked_human")
      BY <3>1 DEF Rest
    <3> QED
      BY <1>5, <2>2, <3>1, <3>2
  <2>3. CASE p = <<P("blocked_human")>>
    BY <1>5, <2>3
  <2> QED
    BY <2>1, <2>2, <2>3
<1>6. CASE s = "completed"
  <2>1. p = <<P("completed")>>
    BY <1>6 DEF Rest
  <2> QED
    BY <1>6, <2>1
<1>7. CASE s = "error"
  <2>1. p = <<P("failed")>>
    BY <1>7 DEF Rest
  <2> QED
    BY <1>7, <2>1
<1>8. s \in {"queued", "running", "waiting_check", "failed_check", "blocked_human", "completed", "error"}
  BY DEF Rest
<1> QED
  BY <1>1, <1>2, <1>3, <1>4, <1>5, <1>6, <1>7, <1>8

\* Something is left of them.
LEMMA RestNotEmpty ==
  ASSUME NEW n \in Nodes, NEW s, NEW p \in Rest(n, s)
  PROVE  p # <<>>
BY DEF Rest

\* All of them are about the node.
LEMMA RestAbout ==
  ASSUME NEW n \in Nodes, NEW s, NEW p \in Rest(n, s)
  PROVE  /\ p \in Seq(RightOps)
         /\ \A o \in ToSet(p) : o.kind \in {"status", "merged"} /\ o.node = n /\ o.do \in {"write", "publish"}
<1> DEFINE W(t) == Write("status", n, t)
           P(t) == Publish("status", n, t)
           M    == Publish("merged", n, "merged")
           Right == {W(t) : t \in NodeStatus} \cup {P(t) : t \in ViewStatus} \cup {M}
           block == <<W("waiting_check"), W("failed_check"), W("blocked_human"), P("blocked_human"),
                      P("blocked_human")>>
           mblock == <<M, W("waiting_check"), W("failed_check"), W("blocked_human"), P("blocked_human"),
                       P("blocked_human")>>
<1>1. /\ \A t \in {"waiting_check", "failed_check", "blocked_human", "running", "completed", "error"} : W(t) \in Right
      /\ \A t \in {"running", "completed", "failed", "blocked_human"} : P(t) \in Right
      /\ M \in Right
  BY DEF NodeStatus, ViewStatus
<1>2. \A o \in Right : o.kind \in {"status", "merged"} /\ o.node = n /\ o.do \in {"write", "publish"}
  BY DEF Write, Publish, Op
<1>6. Right \subseteq RightOps
  <2>1. "merged" \in ViewStatus
    BY DEF ViewStatus
  <2> QED
    BY <2>1, RightWrites, RightPublishes, PublishedAreRight
<1>3. \/ p \in {<<W("running"), P("running")>>, <<P("running")>>, <<W("completed"), P("completed")>>}
      \/ p \in {<<W("error"), P("failed")>>, <<M, W("completed"), P("completed")>>, <<M, W("error"), P("failed")>>}
      \/ p \in {block, mblock}
      \/ p \in {<<W("failed_check"), W("blocked_human"), P("blocked_human"), P("blocked_human")>>,
                <<W("blocked_human"), P("blocked_human"), P("blocked_human")>>}
      \/ p \in {<<P("blocked_human"), P("blocked_human")>>, <<P("blocked_human")>>, <<P("completed")>>, <<P("failed")>>}
  BY DEF Rest
<1> HIDE DEF W, P, M, Right
<1>4. p \in Seq(Right)
  <2>1. block \in Seq(Right)
    BY <1>1
  <2>2. mblock \in Seq(Right)
    BY <1>1
  <2> HIDE DEF block, mblock
  <2>3. \A u, w \in Right : <<u>> \in Seq(Right) /\ <<u, w>> \in Seq(Right)
    OBVIOUS
  <2>4. \A u, w, x, y \in Right : <<u, w, x>> \in Seq(Right) /\ <<u, w, x, y>> \in Seq(Right)
    OBVIOUS
  <2>5. CASE p \in {<<W("running"), P("running")>>, <<P("running")>>, <<W("completed"), P("completed")>>,
                    <<W("error"), P("failed")>>}
    BY <1>1, <2>3, <2>5
  <2>6. CASE p \in {<<M, W("completed"), P("completed")>>, <<M, W("error"), P("failed")>>}
    <3>1. <<M, W("completed"), P("completed")>> \in Seq(Right)
      BY <1>1, <2>4
    <3>2. <<M, W("error"), P("failed")>> \in Seq(Right)
      BY <1>1, <2>4
    <3> QED
      BY <2>6, <3>1, <3>2
  <2>7. CASE p \in {block, mblock}
    BY <2>1, <2>2, <2>7
  <2>8. CASE p \in {<<W("failed_check"), W("blocked_human"), P("blocked_human"), P("blocked_human")>>,
                    <<W("blocked_human"), P("blocked_human"), P("blocked_human")>>}
    <3>1. <<W("failed_check"), W("blocked_human"), P("blocked_human"), P("blocked_human")>> \in Seq(Right)
      BY <1>1, <2>4
    <3>2. <<W("blocked_human"), P("blocked_human"), P("blocked_human")>> \in Seq(Right)
      BY <1>1, <2>4
    <3> QED
      BY <2>8, <3>1, <3>2
  <2>9. CASE p \in {<<P("blocked_human"), P("blocked_human")>>, <<P("blocked_human")>>, <<P("completed")>>,
                    <<P("failed")>>}
    BY <1>1, <2>3, <2>9
  <2> QED
    BY <1>3, <2>5, <2>6, <2>7, <2>8, <2>9
<1>5. \A o \in ToSet(p) : o \in Right
  BY <1>4 DEF ToSet
<1>7. p \in Seq(RightOps)
  BY <1>4, <1>6
<1> QED
  BY <1>2, <1>5, <1>7

\* A sequence of operations and the parts it is about.
LEMMA AheadIs ==
  /\ Ahead(<<>>) = {}
  /\ \A a : Ahead(<<a>>) = About(a)
  /\ \A a, b : Ahead(<<a, b>>) = About(a) \cup About(b)
<1>1. ToSet(<<>>) = {} /\ (\A a : ToSet(<<a>>) = {a}) /\ (\A a, b : ToSet(<<a, b>>) = {a, b})
  BY DEF ToSet
<1> QED
  BY <1>1 DEF Ahead

\* The first of them, and the rest.
LEMMA AheadTail ==
  ASSUME NEW ops \in Seq(RightOps), ops # <<>>
  PROVE  /\ About(Head(ops)) \subseteq Ahead(ops) /\ Ahead(Tail(ops)) \subseteq Ahead(ops)
         /\ ToSet(Tail(ops)) \subseteq ToSet(ops) /\ Head(ops) \in ToSet(ops)
<1>1. Head(ops) \in ToSet(ops)
  BY DEF ToSet
<1>2. ToSet(Tail(ops)) \subseteq ToSet(ops)
  <2>1. \A i \in DOMAIN Tail(ops) : i + 1 \in DOMAIN ops /\ Tail(ops)[i] = ops[i + 1]
    OBVIOUS
  <2> QED
    BY <2>1 DEF ToSet
<1> QED
  BY <1>1, <1>2 DEF Ahead

\* What the operations are about.
LEMMA AheadForms ==
  /\ \A n \in Nodes : \A s : \A p \in Rest(n, s) : Ahead(p) = {n}
  /\ \A n \in Nodes : Ahead(Creation(n)) = {n} /\ Ahead(<<Created(n)>>) = {n}
  /\ \A n \in Nodes : Ahead(Pruning(n)) = Below(n) /\ Ahead(Tail(Pruning(n))) = Below(n)
  /\ Ahead(Charge) = {"tokens"} /\ Ahead(Tail(Charge)) = {"tokens"}
  /\ \A s : Ahead(Setting(s)) = {"run"} /\ Ahead(Tail(Setting(s))) = {"run"}
<1> USE DEF Write, Publish, Op
<1>1. ASSUME NEW n \in Nodes, NEW s, NEW p \in Rest(n, s) PROVE Ahead(p) = {n}
  <2>1. \A o \in ToSet(p) : o.kind \in {"status", "merged"} /\ o.node = n
    BY RestAbout
  <2>2. \A o \in ToSet(p) : About(o) = {n}
    BY <2>1 DEF About
  <2>3. Head(p) \in ToSet(p)
    <3>1. p # <<>>
      BY RestNotEmpty
    <3>2. p \in Seq(RightOps)
      BY RestAbout
    <3> QED
      BY <3>1, <3>2 DEF ToSet
  <2> QED
    BY <2>2, <2>3 DEF Ahead
<1>2. ASSUME NEW n \in Nodes PROVE Ahead(Creation(n)) = {n} /\ Ahead(<<Created(n)>>) = {n}
  <2>1. About(Write("created", n, "queued")) = {n} /\ About(Created(n)) = {n}
    BY DEF About, Created
  <2> QED
    BY <2>1, AheadIs DEF Creation
<1>3. ASSUME NEW n \in Nodes PROVE Ahead(Pruning(n)) = Below(n) /\ Ahead(Tail(Pruning(n))) = Below(n)
  <2>1. About(Write("pruned", n, None)) = Below(n) /\ About(Publish("pruned", n, None)) = Below(n)
    BY DEF About
  <2>2. Tail(Pruning(n)) = <<Publish("pruned", n, None)>>
    BY DEF Pruning
  <2>3. Ahead(Pruning(n)) = About(Write("pruned", n, None)) \cup About(Publish("pruned", n, None))
    BY AheadIs DEF Pruning
  <2>4. Ahead(Tail(Pruning(n))) = About(Publish("pruned", n, None))
    BY <2>2, AheadIs
  <2> QED
    BY <2>1, <2>3, <2>4
<1>4. Ahead(Charge) = {"tokens"} /\ Ahead(Tail(Charge)) = {"tokens"}
  <2>1. About(Write("tokens", None, None)) = {"tokens"} /\ About(Publish("tokens", None, None)) = {"tokens"}
    BY DEF About
  <2>2. Tail(Charge) = <<Publish("tokens", None, None)>>
    BY DEF Charge
  <2> QED
    BY <2>1, <2>2, AheadIs DEF Charge
<1>5. ASSUME NEW s PROVE Ahead(Setting(s)) = {"run"} /\ Ahead(Tail(Setting(s))) = {"run"}
  <2>1. About(Write("run", None, s)) = {"run"} /\ About(Publish("run", None, s)) = {"run"}
    BY DEF About
  <2>2. Tail(Setting(s)) = <<Publish("run", None, s)>>
    BY DEF Setting
  <2> QED
    BY <2>1, <2>2, AheadIs DEF Setting
<1> QED
  BY <1>1, <1>2, <1>3, <1>4, <1>5
-----------------------------------------------------------------------------
(* Nodes below nodes.                                                      *)

\* What is below a node that is below another is below that.
LEMMA AncestorsGoOn ==
  ASSUME NEW x \in Nodes, NEW m \in Ancestors[x]
  PROVE  m \in Nodes /\ Ancestors[m] \subseteq Ancestors[x]
<1> DEFINE T == {n \in Nodes : \A k \in Ancestors[n] : Ancestors[k] \subseteq Ancestors[n]}
<1>1. Root \in T
  BY AncestorsStep, ConstantsAssumption DEF ConstantsAssumption
<1>2. ASSUME NEW n \in Nodes \ {Root}, ParentOf[n] \in T PROVE n \in T
  BY <1>2, AncestorsStep
<1>3. Nodes \subseteq T
  <2> HIDE DEF T
  <2> QED
    BY <1>1, <1>2, DownTheTree
<1> QED
  BY <1>3, NoCycle

\* ... and the same from above.
LEMMA BelowGoesOn ==
  ASSUME NEW p \in Nodes, NEW n \in Below(p)
  PROVE  n \in Nodes /\ Subtree(n) \subseteq Below(p)
BY AncestorsGoOn DEF Below, Subtree

\* No node is below itself.
LEMMA NotBelowItself == \A n \in Nodes : n \notin Below(n) /\ n \in Subtree(n) /\ Below(n) \subseteq Subtree(n)
  BY NoCycle DEF Below, Subtree
-----------------------------------------------------------------------------
(* What the job and the handlers set out to do.                            *)

\* The job creates only a node that no event has created.
LEMMA CreatesChildForms ==
  ASSUME NEW n, NEW program \in CreatesChild(n)
  PROVE  \E m \in Nodes \ {Root} : /\ program = Creation(m)
                                  /\ \A o \in ToSet(log) : ~ (o.kind = "created" /\ o.node = m)
BY DEF CreatesChild, ChildrenOf, Creation

\* What the job begins with a node: to change its status, to refuse it, to create a
\* child, or to drop its children.
LEMMA ProgramForms ==
  ASSUME NEW n \in Nodes, NEW program \in ProgramsOf(n)
  PROVE  \/ program \in Rest(n, repo.node[n])
         \/ program = <<Publish("status", n, "failed_check")>> /\ repo.node[n] # Absent
         \/ program \in CreatesChild(n)
         \/ program = Pruning(n)
<1> DEFINE W(t) == Write("status", n, t)
           P(t) == Publish("status", n, t)
           M    == Publish("merged", n, "merged")
           C    == <<W("completed"), P("completed")>>
           E    == <<W("error"), P("failed")>>
           block == <<W("waiting_check"), W("failed_check"), W("blocked_human"), P("blocked_human"),
                      P("blocked_human")>>
<1>1. /\ Ends(n, "running") = <<W("running"), P("running")>> /\ Ends(n, "completed") = C
      /\ Ends(n, "error") = E /\ Ends(n, "blocked_human") = <<W("blocked_human"), P("blocked_human")>>
  BY DEF Ends, EventStatus
<1>2. Blocks(n) = block
  <2> HIDE DEF W, P
  <2>1. Blocks(n) = <<W("waiting_check"), W("failed_check")>> \o <<W("blocked_human"), P("blocked_human")>>
                    \o <<P("blocked_human")>>
    BY <1>1 DEF Blocks, W, P
  <2> QED
    BY <2>1, Joining
<1>3. CASE repo.node[n] = "queued"
  <2>1. program = Ends(n, "running") \/ program = <<Publish("status", n, "failed_check")>>
    BY <1>3 DEF ProgramsOf
  <2>2. Ends(n, "running") \in Rest(n, "queued")
    BY <1>1 DEF Rest
  <2> QED
    BY <1>3, <2>1, <2>2 DEF Absent
<1>4. CASE repo.node[n] = "running"
  <2> HIDE DEF C, E, block, M
  <2>1. /\ {C, E, block} \subseteq Rest(n, "running")
        /\ {<<M>> \o C, <<M>> \o E, <<M>> \o block} \subseteq Rest(n, "running")
    <3>1. {C, E, block} \subseteq Rest(n, "running")
      BY DEF Rest, C, E, block
    <3>2. /\ <<M>> \o C = <<M, W("completed"), P("completed")>>
          /\ <<M>> \o E = <<M, W("error"), P("failed")>>
          /\ <<M>> \o block = <<M, W("waiting_check"), W("failed_check"), W("blocked_human"),
                                P("blocked_human"), P("blocked_human")>>
      <4> HIDE DEF W, P
      <4> QED
        BY Joining DEF C, E, block
    <3>3. {<<M, W("completed"), P("completed")>>, <<M, W("error"), P("failed")>>,
           <<M, W("waiting_check"), W("failed_check"), W("blocked_human"),
             P("blocked_human"), P("blocked_human")>>} \subseteq Rest(n, "running")
      BY DEF Rest, M
    <3> HIDE DEF W, P
    <3> QED
      BY <3>1, <3>2, <3>3
  <2>2. \/ program \in {Ends(n, "completed"), Ends(n, "error"), Blocks(n)}
        \/ \E e \in {Ends(n, "completed"), Ends(n, "error"), Blocks(n)} : program = <<M>> \o e
        \/ program \in CreatesChild(n)
        \/ program = <<Write("pruned", n, None), Publish("pruned", n, None)>>
    BY <1>4 DEF ProgramsOf, M
  <2>4. CASE program \in {Ends(n, "completed"), Ends(n, "error"), Blocks(n)}
    BY <1>1, <1>2, <1>4, <2>1, <2>4
  <2>5. CASE \E e \in {Ends(n, "completed"), Ends(n, "error"), Blocks(n)} : program = <<M>> \o e
    <3>1. program \in {<<M>> \o C, <<M>> \o E, <<M>> \o block}
      BY <1>1, <1>2, <2>5
    <3> QED
      BY <1>4, <2>1, <3>1
  <2>6. CASE program \in CreatesChild(n)
    BY <2>6
  <2>7. CASE program = <<Write("pruned", n, None), Publish("pruned", n, None)>>
    BY <2>7 DEF Pruning
  <2> QED
    BY <2>2, <2>4, <2>5, <2>6, <2>7
<1>5. repo.node[n] \in {"queued", "running"}
  BY DEF ProgramsOf
<1> QED
  BY <1>3, <1>4, <1>5

\* ... and with the run.
LEMMA RunProgramForms ==
  ASSUME NEW program \in RunPrograms
  PROVE  \/ program = Charge
         \/ \E s \in RunStatus : program = Setting(s)
         \/ program = <<Write("run", None, "failed"), Publish("run", None, None)>>
BY DEF RunPrograms, Charge, Setting, RunStatus

\* What a handler has to do.
LEMMA HandlerOpsForms ==
  ASSUME NEW kind \in {"retry", "skip", "delete"}, NEW n \in Nodes
  PROVE  IF kind = "delete" THEN HandlerOps(kind, n) = Deletion(n)
         ELSE HandlerOps(kind, n) \in Before(n, TargetOf(kind))
<1> DEFINE W == Write("status", n, TargetOf(kind))
           R == Write("run", None, "running")
           Q == Publish("run", None, "running")
           I == Publish("intervention", n, TargetOf(kind))
<1>1. CASE kind = "delete"
  BY <1>1 DEF HandlerOps, Deletion
<1>2. CASE kind # "delete"
  <2>1. HandlerOps(kind, n) \in {<<W>> \o <<R, Q>> \o <<I>>, <<W>> \o <<>> \o <<I>>}
    BY <1>2 DEF HandlerOps
  <2> HIDE DEF W, R, Q, I
  <2>2. HandlerOps(kind, n) \in {<<W, R, Q, I>>, <<W, I>>}
    BY <2>1, Joining
  <2> QED
    BY <1>2, <2>2 DEF Before, W, R, Q, I
<1> QED
  BY <1>1, <1>2

\* A deletion, operation by operation.
LEMMA DeletionSteps ==
  ASSUME NEW n \in Nodes
  PROVE  /\ Deletion(n) # <<>> /\ Deletion(n) # Tail(Deletion(n)) /\ Tail(Deletion(n)) # <<>>
         /\ Head(Deletion(n)) = Write("pruned", n, None)
         /\ Head(Tail(Deletion(n))) = Write("delete", n, None) /\ Tail(Tail(Deletion(n))) = <<>>
         /\ About(Write("pruned", n, None)) = Below(n) /\ About(Write("delete", n, None)) = Subtree(n)
         /\ Ahead(Deletion(n)) = Subtree(n) /\ Ahead(Tail(Deletion(n))) = Subtree(n)
<1>1. About(Write("pruned", n, None)) = Below(n) /\ About(Write("delete", n, None)) = Subtree(n)
  BY DEF About, Write, Op
<1> DEFINE a == Write("pruned", n, None)
           b == Write("delete", n, None)
<1> HIDE DEF a, b
<1>2. Deletion(n) = <<a, b>>
  BY DEF Deletion, a, b
<1>3. Tail(Deletion(n)) = <<b>> /\ Head(Deletion(n)) = a
  BY <1>2
<1>4. Ahead(Deletion(n)) = About(a) \cup About(b) /\ Ahead(Tail(Deletion(n))) = About(b)
  BY <1>2, <1>3, AheadIs
<1>5. Ahead(Deletion(n)) = Subtree(n) /\ Ahead(Tail(Deletion(n))) = Subtree(n)
  BY <1>1, <1>4, NotBelowItself DEF a, b
<1>6. Deletion(n) # <<>> /\ Deletion(n) # Tail(Deletion(n)) /\ Tail(Deletion(n)) # <<>>
      /\ Head(Tail(Deletion(n))) = b /\ Tail(Tail(Deletion(n))) = <<>>
  <2>1. Len(Deletion(n)) = 2 /\ Len(Tail(Deletion(n))) = 1
    BY <1>2, <1>3
  <2> QED
    BY <1>2, <1>3, <2>1
<1> QED
  BY <1>1, <1>3, <1>5, <1>6 DEF a, b

\* The begin of an intervention.
LEMMA BeforeSteps ==
  ASSUME NEW n \in Nodes, NEW t, NEW p \in Before(n, t)
  PROVE  /\ p # <<>> /\ Head(p) = Write("status", n, t) /\ Tail(p) \in After(n, t) /\ n \in Ahead(p)
         /\ "tokens" \notin Ahead(p) /\ Len(Tail(p)) # 2
<1> DEFINE W == Write("status", n, t)
           R == Write("run", None, "running")
           Q == Publish("run", None, "running")
           I == Publish("intervention", n, t)
<1>1. p = <<W, R, Q, I>> \/ p = <<W, I>>
  BY DEF Before
<1>2. About(W) = {n} /\ About(R) = {"run"} /\ About(Q) = {"run"} /\ About(I) = {n} /\ n # "tokens"
  BY ConstantsAssumption DEF About, Write, Publish, Op, ConstantsAssumption
<1>3. <<R, Q, I>> \in After(n, t) /\ <<I>> \in After(n, t)
  BY DEF After
<1> HIDE DEF W, R, Q, I
<1>4. CASE p = <<W, R, Q, I>>
  <2>1. p # <<>> /\ Head(p) = W /\ Tail(p) = <<R, Q, I>> /\ Len(p) = 4 /\ Len(Tail(p)) = 3
    BY <1>4
  <2>2. ToSet(p) = {W, R, Q, I}
    BY <1>4 DEF ToSet
  <2>3. Ahead(p) = {n, "run"}
    BY <1>2, <2>2 DEF Ahead
  <2>6. Tail(p) \in After(n, t)
    BY <1>3, <2>1, Zenon
  <2>4. Len(Tail(p)) # 2
    BY <2>1
  <2>5. n \in Ahead(p) /\ "tokens" \notin Ahead(p)
    BY <1>2, <2>3
  <2> QED
    BY <2>1, <2>4, <2>5, <2>6 DEF W
<1>5. CASE p = <<W, I>>
  <2>1. p # <<>> /\ Head(p) = W /\ Tail(p) = <<I>> /\ Len(p) = 2 /\ Len(Tail(p)) = 1
    BY <1>5
  <2>2. Ahead(p) = {n}
    BY <1>2, <1>5, AheadIs
  <2>6. Tail(p) \in After(n, t)
    BY <1>3, <2>1, Zenon
  <2>4. Len(Tail(p)) # 2
    BY <2>1
  <2>5. n \in Ahead(p) /\ "tokens" \notin Ahead(p)
    BY <1>2, <2>2
  <2> QED
    BY <2>1, <2>4, <2>5, <2>6 DEF W
<1> QED
  BY <1>1, <1>4, <1>5

\* The end of an intervention.
LEMMA AfterSteps ==
  ASSUME NEW n \in Nodes, NEW t, NEW p \in After(n, t)
  PROVE  /\ p # <<>> /\ n \in Ahead(p) /\ p \notin Before(n, t) /\ "tokens" \notin Ahead(p)
         /\ \/ /\ Head(p) = Write("run", None, "running") /\ Tail(p) \in After(n, t)
               /\ Len(p) = 3 /\ Head(Tail(p)) = Publish("run", None, "running") /\ Len(Tail(p)) = 2
               /\ "run" \in Ahead(p)
            \/ /\ Head(p) = Publish("run", None, "running") /\ Tail(p) \in After(n, t)
               /\ Len(p) = 2 /\ Len(Tail(p)) = 1 /\ "run" \in Ahead(p)
            \/ Head(p) = Publish("intervention", n, t) /\ Tail(p) = <<>> /\ Len(p) = 1
<1> DEFINE R == Write("run", None, "running")
           Q == Publish("run", None, "running")
           I == Publish("intervention", n, t)
<1>1. p = <<R, Q, I>> \/ p = <<Q, I>> \/ p = <<I>>
  BY DEF After
<1>2. About(R) = {"run"} /\ About(Q) = {"run"} /\ About(I) = {n} /\ n # "tokens"
  BY ConstantsAssumption DEF About, Write, Publish, Op, ConstantsAssumption
<1>3. <<Q, I>> \in After(n, t) /\ <<I>> \in After(n, t)
  BY DEF After
<1>4. R # Write("status", n, t) /\ Q # Write("status", n, t) /\ I # Write("status", n, t)
  BY DEF Write, Publish, Op
<1>5. \A q \in Before(n, t) : Head(q) = Write("status", n, t)
  BY BeforeSteps
<1> HIDE DEF R, Q, I
<1>6. CASE p = <<R, Q, I>>
  <2>1. p # <<>> /\ Head(p) = R /\ Tail(p) = <<Q, I>> /\ Head(Tail(p)) = Q /\ Len(Tail(p)) = 2 /\ Len(p) = 3
    BY <1>6
  <2>2. ToSet(p) = {R, Q, I}
    BY <1>6 DEF ToSet
  <2>3. Ahead(p) = {n, "run"}
    BY <1>2, <2>2 DEF Ahead
  <2> QED
    BY <1>2, <1>3, <1>4, <1>5, <2>1, <2>3 DEF R, Q
<1>7. CASE p = <<Q, I>>
  <2>1. p # <<>> /\ Head(p) = Q /\ Tail(p) = <<I>> /\ Len(p) = 2 /\ Len(Tail(p)) = 1
    BY <1>7
  <2>2. Ahead(p) = {n, "run"}
    BY <1>2, <1>7, AheadIs
  <2> QED
    BY <1>2, <1>3, <1>4, <1>5, <2>1, <2>2 DEF Q
<1>8. CASE p = <<I>>
  <2>1. p # <<>> /\ Head(p) = I /\ Tail(p) = <<>> /\ Len(p) = 1
    BY <1>8
  <2>2. Ahead(p) = {n}
    BY <1>2, <1>8, AheadIs
  <2> QED
    BY <1>2, <1>4, <1>5, <2>1, <2>2 DEF I
<1> QED
  BY <1>1, <1>6, <1>7, <1>8

\* The other things the job does have two operations.
LEMMA CreationSteps ==
  ASSUME NEW n \in Nodes
  PROVE  /\ Creation(n) # <<>> /\ Head(Creation(n)) = Write("created", n, "queued")
         /\ Tail(Creation(n)) = <<Created(n)>>
         /\ <<Created(n)>> # <<>> /\ Head(<<Created(n)>>) = Created(n) /\ Tail(<<Created(n)>>) = <<>>
         /\ Creation(n) # <<Created(n)>>
<1> DEFINE a == Write("created", n, "queued")
           b == Created(n)
<1> HIDE DEF a, b
<1>1. Creation(n) = <<a, b>>
  BY DEF Creation, a, b
<1>2. Len(Creation(n)) = 2 /\ Len(<<b>>) = 1
  BY <1>1
<1> QED
  BY <1>1, <1>2 DEF a, b

\* To drop the children of an earlier attempt.
LEMMA PruningSteps ==
  ASSUME NEW n \in Nodes
  PROVE  /\ Pruning(n) # <<>> /\ Head(Pruning(n)) = Write("pruned", n, None)
         /\ Tail(Pruning(n)) # <<>> /\ Head(Tail(Pruning(n))) = Publish("pruned", n, None)
         /\ Tail(Tail(Pruning(n))) = <<>>
<1> DEFINE a == Write("pruned", n, None)
           b == Publish("pruned", n, None)
<1> HIDE DEF a, b
<1>1. Pruning(n) = <<a, b>>
  BY DEF Pruning, a, b
<1> QED
  BY <1>1 DEF a, b

\* To charge tokens.
LEMMA ChargeSteps ==
  /\ Charge # <<>> /\ Head(Charge) = Write("tokens", None, None)
  /\ Tail(Charge) # <<>> /\ Head(Tail(Charge)) = Publish("tokens", None, None)
  /\ Tail(Tail(Charge)) = <<>> /\ Charge # Tail(Charge)
<1> DEFINE a == Write("tokens", None, None)
           b == Publish("tokens", None, None)
<1> HIDE DEF a, b
<1>1. Charge = <<a, b>>
  BY DEF Charge, a, b
<1>2. Len(Charge) = 2 /\ Len(Tail(Charge)) = 1
  BY <1>1
<1> QED
  BY <1>1, <1>2 DEF a, b

\* To set the status of the run.
LEMMA SettingSteps ==
  ASSUME NEW s
  PROVE  /\ Setting(s) # <<>> /\ Head(Setting(s)) = Write("run", None, s)
         /\ Tail(Setting(s)) # <<>> /\ Head(Tail(Setting(s))) = Publish("run", None, s)
         /\ Tail(Tail(Setting(s))) = <<>>
<1> DEFINE a == Write("run", None, s)
           b == Publish("run", None, s)
<1> HIDE DEF a, b
<1>1. Setting(s) = <<a, b>>
  BY DEF Setting, a, b
<1> QED
  BY <1>1 DEF a, b

\* A form says what the job does next, and is kept when it has done it.
LEMMA JobFormStep ==
  ASSUME JobForm, job # <<>>, job \in Seq(RightOps), job' \in {<<>>, Tail(job)}, raced \subseteq raced'
  PROVE  /\ JobForm'
         /\ Head(job).kind \notin {"intervention", "delete"}
         /\ Head(job).kind = "created" =>
              \E n \in Nodes \ {Root} : \/ job = Creation(n) /\ Head(job) = Write("created", n, "queued")
                                        \/ job = <<Created(n)>> /\ Head(job) = Created(n)
         /\ \A n \in Nodes : job' # Creation(n)
<1> DEFINE op == Head(job)
           Goal == /\ JobForm' /\ op.kind \notin {"intervention", "delete"}
                   /\ op.kind = "created" =>
                        \E n \in Nodes \ {Root} : \/ job = Creation(n) /\ op = Write("created", n, "queued")
                                                  \/ job = <<Created(n)>> /\ op = Created(n)
                   /\ \A n \in Nodes : job' # Creation(n)
<1>1. op \in ToSet(job) /\ ToSet(Tail(job)) \subseteq ToSet(job)
  BY AheadTail
<1>2. ToSet(<<>>) = {}
  BY DEF ToSet
<1>3. ToSet(job') \subseteq ToSet(job)
  BY <1>1, <1>2
<1>4. Root \in Nodes
  BY ConstantsAssumption DEF ConstantsAssumption
<1>5. job' = <<>> => JobForm' /\ \A n \in Nodes : job' # Creation(n)
  <2>1. job' = <<>> => JobForm'
    BY <1>2, <1>4 DEF JobForm, StatusJob
  <2> QED
    BY <2>1, CreationSteps
<1>6. \A n \in Nodes : Head(Creation(n)).kind = "created" /\ Len(Creation(n)) = 2 /\ Creation(n) # <<>>
      /\ Head(Creation(n)) \in ToSet(Creation(n))
  BY DEF Creation, Created, Write, Publish, Op, ToSet
<1>7. ASSUME NEW n \in Nodes, StatusJob(n) PROVE Goal
  <2>1. StatusJob(n)'
    BY <1>3, <1>7 DEF StatusJob
  <2>2. \A m \in Nodes : job' # Creation(m)
    BY <1>6, <2>1 DEF StatusJob
  <2>3. op.kind \in {"status", "merged"}
    BY <1>1, <1>7 DEF StatusJob
  <2> QED
    BY <2>1, <2>2, <2>3 DEF JobForm
<1>8. ASSUME NEW n \in Nodes \ {Root}, job = Creation(n) \/ job = <<Created(n)>> PROVE Goal
  <2>1. \/ job = Creation(n) /\ op = Write("created", n, "queued")
        \/ job = <<Created(n)>> /\ op = Created(n)
    BY <1>8, CreationSteps
  <2>2. job' \in {<<>>, <<Created(n)>>}
    BY <1>8, CreationSteps
  <2>3. job' = <<Created(n)>> => JobForm' /\ \A m \in Nodes : job' # Creation(m)
    <3>1. job' = <<Created(n)>> => JobForm'
      BY DEF JobForm
    <3>2. Len(<<Created(n)>>) = 1
      OBVIOUS
    <3>3. ASSUME NEW m \in Nodes PROVE <<Created(n)>> # Creation(m)
      <4>1. <<Created(n)>> = Creation(m) => Len(Creation(m)) = 1
        BY <3>2, Zenon
      <4>2. Len(Creation(m)) = 2
        BY <1>6
      <4>3. Len(Creation(m)) # 1
        BY <4>2
      <4> QED
        BY <4>1, <4>3, Zenon
    <3> QED
      BY <3>1, <3>3, Zenon
  <2>4. op.kind = "created"
    BY <2>1 DEF Created, Write, Publish, Op
  <2> QED
    BY <1>5, <2>1, <2>2, <2>3, <2>4
<1>9. ASSUME NEW p \in Nodes, job = Pruning(p) \/ job = Tail(Pruning(p)) PROVE Goal
  <2>1. op.kind = "pruned"
    BY <1>9, PruningSteps DEF Write, Publish, Op
  <2>2. job' = <<>> \/ job' = Tail(Pruning(p))
    BY <1>9, PruningSteps
  <2>3. job' = Tail(Pruning(p)) => JobForm' /\ \A m \in Nodes : job' # Creation(m)
    <3>1. job' = Tail(Pruning(p)) => JobForm'
      BY DEF JobForm
    <3>2. Head(Tail(Pruning(p))).kind = "pruned"
      BY PruningSteps DEF Publish, Op
    <3> QED
      BY <1>6, <3>1, <3>2
  <2> QED
    BY <1>5, <2>1, <2>2, <2>3
<1>10. ASSUME job = Charge \/ job = Tail(Charge) PROVE Goal
  <2>1. op.kind = "tokens"
    BY <1>10, ChargeSteps DEF Write, Publish, Op
  <2>2. job' = <<>> \/ job' = Tail(Charge)
    BY <1>10, ChargeSteps
  <2>3. job' = Tail(Charge) => JobForm' /\ \A m \in Nodes : job' # Creation(m)
    <3>1. job' = Tail(Charge) => JobForm'
      BY DEF JobForm
    <3>2. Head(Tail(Charge)).kind = "tokens"
      BY ChargeSteps DEF Publish, Op
    <3> QED
      BY <1>6, <3>1, <3>2
  <2> QED
    BY <1>5, <2>1, <2>2, <2>3
<1>11. ASSUME NEW s \in RunStatus, job = Setting(s) \/ job = Tail(Setting(s)) PROVE Goal
  <2>1. op.kind = "run"
    BY <1>11, SettingSteps DEF Write, Publish, Op
  <2>2. job' = <<>> \/ job' = Tail(Setting(s))
    BY <1>11, SettingSteps
  <2>3. job' = Tail(Setting(s)) => JobForm' /\ \A m \in Nodes : job' # Creation(m)
    <3>1. job' = Tail(Setting(s)) => JobForm'
      BY DEF JobForm
    <3>2. Head(Tail(Setting(s))).kind = "run"
      BY SettingSteps DEF Publish, Op
    <3> QED
      BY <1>6, <3>1, <3>2
  <2> QED
    BY <1>5, <2>1, <2>2, <2>3
<1>12. ASSUME "run" \in raced, \A o \in ToSet(job) : o.kind = "run" PROVE Goal
  <2>1. op.kind = "run" /\ \A o \in ToSet(job') : o.kind = "run"
    BY <1>1, <1>3, <1>12
  <2>2. JobForm'
    BY <1>12, <2>1 DEF JobForm
  <2> QED
    BY <1>6, <2>1, <2>2
<1> HIDE DEF Goal
<1>13. Goal
  BY <1>7, <1>8, <1>9, <1>10, <1>11, <1>12 DEF JobForm
<1> QED
  BY <1>13 DEF Goal
-----------------------------------------------------------------------------
(* What a write and an event of the server change.                         *)

\* What a removal leaves is not below the node removed, or it is left adrift.
LEMMA RemovedIs ==
  ASSUME repo \in Repos, NEW op \in RightOps, op.kind \in {"pruned", "delete"}, NEW x \in Nodes
  PROVE  /\ Written(op).node[x] \in {repo.node[x], Absent}
         /\ x \notin About(op) => Written(op).node[x] = repo.node[x]
         /\ x \in About(op) \ Adrift(Written(op)) => Written(op).node[x] = Absent
         /\ op.kind = "delete" => Written(op).node[op.node] = Absent
         /\ Written(op).run = repo.run /\ Written(op).tokens = repo.tokens
<1> DEFINE gone == IF op.kind = "delete" THEN {op.node} ELSE Descendants(repo, op.node)
           left == [n \in Nodes |-> IF n \in gone THEN Absent ELSE repo.node[n]]
           w == Written(op)
<1>1. op.node \in Nodes
  BY DEF RightOps, RightOp
<1>2. w = [repo EXCEPT !.node = left]
  BY DEF Written
<1>3. w.node = left /\ w.run = repo.run /\ w.tokens = repo.tokens
  <2> HIDE DEF left
  <2> QED
    BY <1>2 DEF Repos
<1>4. \A n \in Nodes : w.node[n] = IF n \in gone THEN Absent ELSE repo.node[n]
  BY <1>3
<1>5. gone \subseteq About(op)
  BY <1>1, NotBelowItself DEF About, Descendants
<1> HIDE DEF w, gone, left
<1>6. ASSUME x \in About(op), w.node[x] # Absent PROVE x \in Adrift(w)
  <2>1. x \notin gone /\ repo.node[x] # Absent
    BY <1>4, <1>6
  <2>2. CASE op.kind = "delete"
    <3>1. gone = {op.node} /\ x \in Below(op.node)
      BY <1>6, <2>1, <2>2 DEF gone, About, Subtree
    <3>2. op.node \in Ancestors[x] /\ w.node[op.node] = Absent
      BY <1>1, <1>4, <3>1 DEF Below
    <3> QED
      BY <1>6, <3>2 DEF Adrift
  <2>3. CASE op.kind # "delete"
    <3>1. gone = Descendants(repo, op.node) /\ x \in Below(op.node)
      BY <1>6, <2>3 DEF gone, About
    <3>2. PICK m \in ({x} \cup Ancestors[x]) \cap Below(op.node) : repo.node[m] = Absent
      BY <2>1, <3>1 DEF Descendants
    <3>3. m \in Ancestors[x] /\ m \in Nodes
      BY <2>1, <3>2 DEF Below
    <3>4. w.node[m] = Absent
      BY <1>4, <3>2, <3>3
    <3> QED
      BY <1>6, <3>3, <3>4 DEF Adrift
  <2> QED
    BY <2>2, <2>3
<1>7. op.kind = "delete" => w.node[op.node] = Absent
  BY <1>1, <1>4 DEF gone
<1> QED
  BY <1>3, <1>4, <1>5, <1>6, <1>7 DEF w

\* What a write leaves in each part of the repository.
LEMMA WrittenIs ==
  ASSUME repo \in Repos, NEW op \in RightOps, op.do = "write"
  PROVE  /\ \A x \in Nodes : Written(op).node[x] \in
              {repo.node[x], IF op.kind \in {"pruned", "delete"} THEN Absent ELSE op.status}
         /\ \A x \in Nodes : x \notin About(op) => Written(op).node[x] = repo.node[x]
         /\ \A x \in Nodes : x \in About(op) /\ op.kind \notin {"pruned", "delete"} =>
              Written(op).node[x] = op.status
         /\ \A x \in Nodes : x \in About(op) /\ op.kind \in {"pruned", "delete"} =>
              x \in Adrift(Written(op)) \/ Written(op).node[x] = Absent
         /\ op.kind = "delete" => Written(op).node[op.node] = Absent
         /\ Written(op).run = IF op.kind = "run" THEN op.status ELSE repo.run
         /\ Written(op).tokens = IF op.kind = "tokens" THEN repo.tokens + 1 ELSE repo.tokens
<1>1. RightOp(op) /\ op.kind \in {"run", "tokens", "created", "status", "pruned", "delete"}
  BY DEF RightOps, RightOp
<1>2. \A x \in Nodes : x \notin {"run", "tokens"}
  BY ConstantsAssumption DEF ConstantsAssumption
<1>3. CASE op.kind = "tokens"
  BY <1>2, <1>3 DEF Written, About, Repos
<1>4. CASE op.kind = "run"
  BY <1>2, <1>4 DEF Written, About, Repos
<1>5. CASE op.kind \in {"pruned", "delete"}
  <2> DEFINE w == Written(op)
  <2>1. /\ \A x \in Nodes : /\ w.node[x] \in {repo.node[x], Absent}
                            /\ x \notin About(op) => w.node[x] = repo.node[x]
                            /\ x \in About(op) \ Adrift(w) => w.node[x] = Absent
        /\ op.kind = "delete" => w.node[op.node] = Absent
        /\ w.run = repo.run /\ w.tokens = repo.tokens
    BY <1>5, RemovedIs, ConstantsAssumption DEF ConstantsAssumption
  <2> HIDE DEF w
  <2> QED
    BY <1>5, <2>1 DEF w
<1>6. CASE op.kind \in {"created", "status"}
  <2>1. Written(op) = [repo EXCEPT !.node[op.node] = op.status] /\ About(op) = {op.node} /\ op.node \in Nodes
    BY <1>1, <1>6 DEF Written, About, RightOp
  <2> QED
    BY <1>6, <2>1 DEF Repos, NodeTables
<1> QED
  BY <1>1, <1>3, <1>4, <1>5, <1>6

\* What an operation is not about stays as it is, and as it will be shown.
LEMMA Untouched ==
  ASSUME IInv, NEW op \in RightOps, Perform(op), UNCHANGED <<next, snap, view, call>>,
         NEW x \in Nodes, x \notin About(op)
  PROVE  (repo.node)'[x] = repo.node[x] /\ (Present(x) <=> Present(x)') /\ (Told(x) <=> Told(x)')
<1>1. repo \in Repos /\ repo.node[x] \in NodeStatus \cup {Absent}
  BY DEF IInv, ServerInv, Repos, NodeTables
<1>2. CASE op.do = "write"
  <2>1. repo' = Written(op) /\ log' = log
    BY <1>2 DEF Perform
  <2>2. (repo.node)'[x] = repo.node[x]
    BY <1>1, <1>2, <2>1, WrittenIs
  <2> QED
    BY <1>1, <2>1, <2>2, WriteKeeps
<1>3. CASE op.do # "write"
  <2>1. log' = Append(log, op) /\ repo' = repo
    BY <1>3 DEF Perform
  <2>2. op \in Published
    BY <1>3 DEF Published, RightOps, Ops
  <2> QED
    BY <2>1, <2>2, PublishKeeps
<1> QED
  BY <1>2, <1>3
-----------------------------------------------------------------------------
(* A step of the job.                                                      *)

\* The job performs its next operation, or ends with an exception.
LEMMA JobStepDoes ==
  ASSUME IInv, JobStep
  PROVE  /\ job # <<>> /\ job \in Seq(RightOps) /\ Head(job) \in RightOps
         /\ UNCHANGED <<handler, next, snap, view, call, done>>
         /\ raced \subseteq raced' /\ Off \subseteq Off' /\ Adrift(repo') \subseteq raced'
         /\ \/ Fails(Head(job)) /\ job' = <<>> /\ UNCHANGED <<repo, log>>
            \/ ~ Fails(Head(job)) /\ job' = Tail(job) /\ Perform(Head(job))
BY DEF Off, JobStep, IInv, ServerInv

\* A write changes the repository and a publish call the log, neither both.
LEMMA PerformDoes ==
  ASSUME IInv, NEW op \in RightOps, Perform(op)
  PROVE  /\ op.do = "write" => repo' = Written(op) /\ log' = log
         /\ op.do = "publish" => op \in Published /\ log' = Append(log, op) /\ repo' = repo
         /\ op.do \in {"write", "publish"}
BY DEF Perform, RightOps, Ops, Published

\* The job's operations left are about no more than before.
LEMMA JobShrinks ==
  ASSUME job \in Seq(RightOps), job # <<>>, job' \in {<<>>, Tail(job)}
  PROVE  Ahead(job') \subseteq Ahead(job) /\ About(Head(job)) \subseteq Ahead(job)
BY AheadTail, AheadIs

\* While the handler works on a node, its operations are about the node.
LEMMA HandlerIsAhead ==
  ASSUME IInv, CallInv, HandlerForm, NEW x \in Nodes, HandlerOn(x), handler.ops # <<>>
  PROVE  x \in Ahead(handler.ops)
<1>1. handler.answer = "working" /\ call.kind # None
  BY DEF HandlerOn, Busy, HandlerForm, CallInv
<1>2. call.node \in Nodes
  BY <1>1 DEF IInv, PageInv
<1>3. CASE call.kind = "delete"
  <2>1. handler.ops \in {Deletion(call.node), Tail(Deletion(call.node))} /\ x \in Subtree(call.node)
    BY <1>1, <1>3 DEF HandlerForm, HandlerOn
  <2> QED
    BY <1>2, <2>1, DeletionSteps
<1>4. CASE call.kind # "delete"
  <2>1. handler.ops \in Before(call.node, TargetOf(call.kind)) \cup After(call.node, TargetOf(call.kind))
        /\ x = call.node
    BY <1>1, <1>4 DEF HandlerForm, HandlerOn
  <2> QED
    BY <1>2, <2>1, BeforeSteps, AfterSteps
<1> QED
  BY <1>3, <1>4

\* The job's step leaves a node that the handler is on to the handler.
LEMMA JobLeavesHandler ==
  ASSUME IInv, CallInv, FormInv, MadeInv, JobStep, NEW x \in Nodes \ Off', HandlerOn(x), HandlerAt(x)
  PROVE  HandlerOn(x)' /\ HandlerAt(x)'
<1>1. /\ job # <<>> /\ job \in Seq(RightOps) /\ Head(job) \in RightOps /\ job' \in {<<>>, Tail(job)}
      /\ UNCHANGED <<handler, next, snap, view, call, done>>
      /\ raced \subseteq raced' /\ Off \subseteq Off' /\ Adrift(repo') \subseteq raced'
      /\ \/ UNCHANGED <<repo, log>>
         \/ Perform(Head(job))
  BY JobStepDoes
<1>2. HandlerOn(x)'
  BY <1>1 DEF HandlerOn, Busy
<1>3. CASE handler.ops # <<>>
  <2>1. x \in Ahead(handler.ops)
    BY <1>3, HandlerIsAhead DEF FormInv
  <2>2. x \notin Ahead(job)
    BY <1>1, <2>1 DEF FormInv, Apart, Off
  <2>3. x \notin About(Head(job))
    BY <1>1, <2>2, JobShrinks
  <2>4. (repo.node)'[x] = repo.node[x] /\ (Present(x) <=> Present(x)') /\ (Told(x) <=> Told(x)')
    <3>1. CASE UNCHANGED <<repo, log>>
      <4>1. repo.node[x] \in NodeStatus \cup {Absent}
        BY DEF IInv, ServerInv, Repos, NodeTables
      <4> QED
        BY <1>1, <3>1, <4>1, WriteKeeps
    <3>2. CASE Perform(Head(job))
      BY <1>1, <2>3, <3>2, Untouched
    <3> QED
      BY <1>1, <3>1, <3>2
  <2> QED
    BY <1>1, <1>2, <1>3, <2>4 DEF HandlerAt
<1>4. CASE handler.ops = <<>>
  <2>1. call.kind = "delete" /\ call.node \in Nodes
    <3>1. call.kind = "delete"
      BY <1>4 DEF HandlerOn
    <3> QED
      BY <3>1, ConstantsAssumption DEF ConstantsAssumption, IInv, PageInv
  <2>2. handler.ops # Deletion(call.node) /\ handler.ops # Tail(Deletion(call.node))
    BY <1>4, <2>1, DeletionSteps
  <2>3. ASSUME x \in Ahead(job') PROVE \E p \in Nodes : x \in Below(p) /\ job' \in {Pruning(p), Tail(Pruning(p))}
    <3>1. x \in Ahead(job) /\ job' # <<>>
      BY <1>1, <2>3, JobShrinks, AheadIs
    <3>2. CASE job = Creation(x)
      <4>1. call.node \in Ancestors[x]
        <5>1. x # call.node
          BY <2>1, <3>2 DEF MadeInv
        <5> QED
          BY <1>4, <2>1, <5>1 DEF HandlerOn, Subtree, Below
      <4>2. (repo.node)'[x] # Absent /\ (repo.node)'[call.node] = Absent
        <5> DEFINE op == Head(job)
        <5>1. op = Write("created", x, "queued")
          BY <3>2, CreationSteps
        <5>2. op.do = "write" /\ op.kind = "created" /\ op.node = x /\ op.status = "queued" /\ About(op) = {x}
          BY <5>1 DEF Write, Op, About
        <5>3. Perform(op) /\ repo \in Repos
          BY <1>1, <3>1, JobStepDoes DEF IInv, ServerInv
        <5>4. repo' = Written(op)
          BY <1>1, <5>2, <5>3, PerformDoes
        <5>5. (repo.node)'[x] = "queued" /\ (repo.node)'[call.node] = repo.node[call.node]
          <6>1. call.node # x
            BY <4>1, NoCycle
          <6> QED
            BY <1>1, <2>1, <5>2, <5>3, <5>4, <6>1, WrittenIs
        <5>6. repo.node[call.node] = Absent
          BY <1>4, <2>1 DEF FormInv, DeletionInv, HandlerOn
        <5> QED
          BY <5>5, <5>6 DEF Absent
      <4>3. x \in Adrift(repo')
        BY <4>1, <4>2 DEF Adrift
      <4> QED
        BY <1>1, <4>3 DEF Off
    <3>3. ASSUME NEW p \in Nodes, x \in Below(p), job \in {Pruning(p), Tail(Pruning(p))}
          PROVE  job' = Tail(Pruning(p))
      BY <1>1, <3>1, <3>3, PruningSteps
    <3> QED
      BY <1>4, <2>1, <3>1, <3>2, <3>3 DEF HandlerAt
  <2>4. HandlerAt(x)'
    BY <1>1, <1>4, <2>1, <2>2, <2>3 DEF HandlerAt
  <2> QED
    BY <1>2, <2>4
<1> QED
  BY <1>3, <1>4

\* The job's step at a node that it is about.
LEMMA JobWorks ==
  ASSUME IInv, CallInv, FormInv, JobStep, NEW x \in Nodes \ Off', JobAt(x)
  PROVE  IF x \in Ahead(job') THEN JobAt(x)' ELSE Told(x)'
<1> DEFINE op == Head(job)
           s  == repo.node[x]
<1>1. /\ job # <<>> /\ job \in Seq(RightOps) /\ op \in RightOps
      /\ UNCHANGED <<handler, next, snap, view, call, done>>
      /\ raced \subseteq raced' /\ Off \subseteq Off' /\ Adrift(repo') \subseteq raced'
      /\ \/ Fails(op) /\ job' = <<>> /\ UNCHANGED <<repo, log>>
         \/ ~ Fails(op) /\ job' = Tail(job) /\ Perform(op)
  BY JobStepDoes
<1>2. repo \in Repos /\ s \in NodeStatus \cup {Absent}
  BY DEF IInv, ServerInv, Repos, NodeTables
<1>3. Ahead(<<>>) = {}
  BY AheadIs
<1>4. \A t \in NodeStatus : t # Absent
  BY NormalizedIs
<1>5. CASE job \in Rest(x, s) /\ Present(x)
  <2>1. /\ s \in NodeStatus /\ op.node = x /\ op.do \in {"write", "publish"}
        /\ op.do = "write" =>
             /\ op.kind = "status" /\ op.status \in NodeStatus /\ NodeMay(s, op.status)
             /\ Tail(job) \in Rest(x, op.status)
        /\ op.do = "publish" =>
             /\ op.kind \in {"status", "merged"} /\ op.status # Absent
             /\ \/ Tail(job) = <<>> /\ op.status = Normalized(s)
                \/ Tail(job) \in Rest(x, s)
    BY <1>5, RestStep
  <2>2. ~ Fails(op)
    BY <1>4, <2>1 DEF Fails
  <2>3. job' = Tail(job) /\ Perform(op)
    BY <1>1, <2>2
  <2>4. x \in About(op)
    BY <2>1 DEF About
  <2>5. CASE op.do = "write"
    <3>1. repo' = Written(op) /\ log' = log
      BY <1>1, <2>3, <2>5, PerformDoes
    <3>2. (repo.node)'[x] = op.status
      BY <1>1, <1>2, <2>1, <2>4, <2>5, <3>1, WrittenIs
    <3>3. Present(x)'
      BY <1>1, <1>4, <1>5, <2>1, <2>5, <3>1, <3>2, WriteKeeps
    <3>4. job' \in Rest(x, (repo.node)'[x])
      BY <2>1, <2>3, <2>5, <3>2
    <3>5. Ahead(job') = {x}
      BY <3>4, AheadForms
    <3> QED
      BY <3>3, <3>4, <3>5 DEF JobAt
  <2>6. CASE op.do = "publish"
    <3>1. op \in Published /\ log' = Append(log, op) /\ repo' = repo
      BY <1>1, <2>3, <2>6, PerformDoes
    <3>2. Present(x)' /\ (op.status = Normalized(repo.node[x]) => Told(x)')
      BY <1>1, <1>4, <1>5, <2>1, <2>4, <2>6, <3>1, PublishKeeps
    <3>3. CASE Tail(job) = <<>> /\ op.status = Normalized(s)
      BY <1>3, <2>3, <3>2, <3>3
    <3>4. CASE Tail(job) \in Rest(x, s)
      <4>1. job' \in Rest(x, (repo.node)'[x])
        BY <2>3, <3>1, <3>4
      <4>2. Ahead(job') = {x}
        BY <4>1, AheadForms
      <4> QED
        BY <3>2, <4>1, <4>2 DEF JobAt
    <3> QED
      BY <2>1, <2>6, <3>3, <3>4
  <2> QED
    BY <2>1, <2>5, <2>6
<1>6. CASE job = Creation(x) /\ x # Root /\ Told(x)
  <2>1. op = Write("created", x, "queued") /\ Tail(job) = <<Created(x)>>
    BY <1>6, CreationSteps
  <2>2. CASE job' = <<>> /\ UNCHANGED <<repo, log>>
    BY <1>1, <1>2, <1>3, <1>6, <2>2, WriteKeeps
  <2>3. CASE job' = Tail(job) /\ Perform(op)
    <3>1. op.do = "write" /\ op.kind = "created" /\ op.node = x /\ op.status = "queued" /\ About(op) = {x}
      BY <2>1 DEF Write, Op, About
    <3>2. repo' = Written(op)
      BY <1>1, <2>3, <3>1, PerformDoes
    <3>3. (repo.node)'[x] = "queued"
      BY <1>1, <1>2, <3>1, <3>2, WrittenIs
    <3>4. Ahead(job') = {x}
      BY <2>1, <2>3, AheadForms
    <3> QED
      BY <2>1, <2>3, <3>3, <3>4 DEF JobAt
  <2> QED
    BY <1>1, <2>2, <2>3
<1>7. CASE job = <<Created(x)>> /\ s = "queued"
  <2>1. op = Created(x) /\ Tail(job) = <<>>
    BY <1>7, CreationSteps
  <2>2. op.do = "publish" /\ op.kind = "created" /\ op.node = x /\ op.status = "queued" /\ About(op) = {x}
    BY <2>1 DEF Created, Publish, Op, About
  <2>3. ~ Fails(op)
    BY <2>2 DEF Fails
  <2>4. op \in Published /\ log' = Append(log, op) /\ repo' = repo /\ job' = <<>>
    BY <1>1, <2>1, <2>2, <2>3, PerformDoes
  <2>5. "queued" = Normalized("queued") /\ "queued" # Absent
    BY DEF Normalized, EventStatus, Absent
  <2>6. Told(x)'
    BY <1>1, <1>7, <2>2, <2>4, <2>5, PublishKeeps
  <2> QED
    BY <1>3, <2>4, <2>6
<1>8. ASSUME NEW p \in Nodes, x \in Below(p), job = Pruning(p), Told(x)
      PROVE  IF x \in Ahead(job') THEN JobAt(x)' ELSE Told(x)'
  <2>1. op = Write("pruned", p, None)
    BY <1>8, PruningSteps
  <2>2. op.do = "write" /\ op.kind = "pruned" /\ About(op) = Below(p)
    BY <2>1 DEF Write, Op, About
  <2>3. ~ Fails(op)
    BY <2>2 DEF Fails
  <2>4. repo' = Written(op) /\ job' = Tail(Pruning(p))
    BY <1>1, <1>8, <2>2, <2>3, PerformDoes
  <2>5. (repo.node)'[x] = Absent
    <3>1. x \notin Adrift(repo')
      BY <1>1 DEF Off
    <3> QED
      BY <1>1, <1>2, <1>8, <2>2, <2>4, <3>1, WrittenIs
  <2>6. x \in Ahead(job')
    BY <1>8, <2>4, AheadForms
  <2> QED
    BY <1>8, <2>4, <2>5, <2>6 DEF JobAt
<1>9. ASSUME NEW p \in Nodes, x \in Below(p), job = Tail(Pruning(p)), s = Absent
      PROVE  IF x \in Ahead(job') THEN JobAt(x)' ELSE Told(x)'
  <2>1. op = Publish("pruned", p, None) /\ Tail(job) = <<>>
    BY <1>9, PruningSteps
  <2>2. op.do = "publish" /\ op.kind = "pruned" /\ About(op) = Below(p)
    BY <2>1 DEF Publish, Op, About
  <2>3. ~ Fails(op)
    BY <2>2 DEF Fails
  <2>4. op \in Published /\ log' = Append(log, op) /\ repo' = repo /\ job' = <<>>
    BY <1>1, <2>1, <2>2, <2>3, PerformDoes
  <2>5. Told(x)'
    BY <1>1, <1>9, <2>2, <2>4, PublishKeeps
  <2> QED
    BY <1>3, <2>4, <2>5
<1> QED
  BY <1>5, <1>6, <1>7, <1>8, <1>9 DEF JobAt

\* The job's step leaves every node shown, told, or about to be.
LEMMA JobStepNodes ==
  ASSUME IInv, CallInv, FormInv, MadeInv, NodesInv, JobStep
  PROVE  NodesInv'
<1>1. /\ job # <<>> /\ job \in Seq(RightOps) /\ Head(job) \in RightOps /\ job' \in {<<>>, Tail(job)}
      /\ UNCHANGED <<handler, next, snap, view, call, done>>
      /\ raced \subseteq raced' /\ Off \subseteq Off' /\ Adrift(repo') \subseteq raced'
      /\ \/ UNCHANGED <<repo, log>>
         \/ Perform(Head(job))
  BY JobStepDoes
<1>2. Off \subseteq Off'
  BY <1>1
<1>3. SUFFICES ASSUME NEW x \in Nodes \ Off' PROVE NodeInv(x)'
  BY DEF NodesInv
<1>4. NodeInv(x)
  BY <1>2 DEF NodesInv
<1>5. CASE HandlerOn(x)
  BY <1>4, <1>5, JobLeavesHandler DEF NodeInv
<1>6. CASE ~ HandlerOn(x)
  <2>1. ~ HandlerOn(x)'
    BY <1>1, <1>6 DEF HandlerOn, Busy
  <2>2. CASE x \in Ahead(job)
    <3>1. JobAt(x)
      BY <1>4, <1>6, <2>2 DEF NodeInv
    <3> QED
      BY <2>1, <3>1, JobWorks DEF NodeInv
  <2>3. CASE x \notin Ahead(job)
    <3>1. Told(x) /\ x \notin Ahead(job') /\ x \notin About(Head(job))
      BY <1>1, <1>4, <1>6, <2>3, JobShrinks DEF NodeInv
    <3>2. Told(x)'
      <4>1. CASE UNCHANGED <<repo, log>>
        <5>1. repo.node[x] \in NodeStatus \cup {Absent}
          BY DEF IInv, ServerInv, Repos, NodeTables
        <5> QED
          BY <1>1, <3>1, <4>1, <5>1, WriteKeeps
      <4>2. CASE Perform(Head(job))
        BY <1>1, <3>1, <4>2, Untouched
      <4> QED
        BY <1>1, <4>1, <4>2
    <3> QED
      BY <2>1, <3>1, <3>2 DEF NodeInv
  <2> QED
    BY <2>2, <2>3
<1> QED
  BY <1>5, <1>6

\* The job's step takes a node away with all that is below some node, and brings one by
\* creating it.
LEMMA JobChanges ==
  ASSUME IInv, JobForm, JobStep, NEW n \in Nodes
  PROVE  /\ repo.node[n] # Absent /\ (repo.node)'[n] = Absent =>
              \E p \in Nodes : n \in Below(p) /\ Below(p) \subseteq Ahead(job)
         /\ repo.node[n] = Absent /\ (repo.node)'[n] # Absent => job = Creation(n) /\ job' = <<Created(n)>>
<1> DEFINE op == Head(job)
<1>1. /\ job # <<>> /\ job \in Seq(RightOps) /\ op \in RightOps /\ job' \in {<<>>, Tail(job)}
      /\ UNCHANGED <<handler, next, snap, view, call, done>>
      /\ raced \subseteq raced' /\ Off \subseteq Off' /\ Adrift(repo') \subseteq raced'
      /\ \/ UNCHANGED <<repo, log>>
         \/ ~ Fails(op) /\ job' = Tail(job) /\ Perform(op)
  BY JobStepDoes
<1>2. repo \in Repos
  BY DEF IInv, ServerInv
<1>3. SUFFICES ASSUME (repo.node)'[n] # repo.node[n]
               PROVE  /\ (repo.node)'[n] = Absent => \E p \in Nodes : n \in Below(p) /\ Below(p) \subseteq Ahead(job)
                      /\ repo.node[n] = Absent => job = Creation(n) /\ job' = <<Created(n)>>
  OBVIOUS
<1>4. ~ Fails(op) /\ job' = Tail(job) /\ op.do = "write" /\ repo' = Written(op)
  BY <1>1, <1>3, PerformDoes
<1>5. n \in About(op) /\ (repo.node)'[n] = IF op.kind \in {"pruned", "delete"} THEN Absent ELSE op.status
  BY <1>1, <1>2, <1>3, <1>4, WrittenIs
<1>6. /\ op.kind \notin {"intervention", "delete"}
      /\ op.kind = "created" =>
           \E m \in Nodes \ {Root} : \/ job = Creation(m) /\ op = Write("created", m, "queued")
                                     \/ job = <<Created(m)>> /\ op = Created(m)
  BY <1>1, JobFormStep
<1>7. RightOp(op)
  BY <1>1 DEF RightOps
<1>8. op.kind \in {"created", "status", "pruned"}
  <2>1. n # "run" /\ n # "tokens"
    BY ConstantsAssumption DEF ConstantsAssumption
  <2> QED
    BY <1>4, <1>5, <1>6, <1>7, <2>1 DEF RightOp, About
<1>9. CASE op.kind = "pruned"
  <2>1. About(op) = Below(op.node) /\ op.node \in Nodes
    BY <1>4, <1>7, <1>9 DEF About, RightOp
  <2>2. About(op) \subseteq Ahead(job)
    BY <1>1, JobShrinks
  <2>3. repo.node[n] # Absent
    BY <1>3, <1>5, <1>9
  <2> QED
    BY <1>5, <2>1, <2>2, <2>3
<1>10. CASE op.kind = "status"
  <2>1. op.node = n /\ op.status \in NodeStatus
    BY <1>4, <1>5, <1>7, <1>10 DEF About, RightOp
  <2>2. repo.node[n] # Absent
    BY <1>4, <1>10, <2>1 DEF Fails
  <2> QED
    BY <1>5, <1>10, <2>1, <2>2, NormalizedIs
<1>11. CASE op.kind = "created"
  <2>1. PICK m \in Nodes \ {Root} : \/ job = Creation(m) /\ op = Write("created", m, "queued")
                                    \/ job = <<Created(m)>> /\ op = Created(m)
    BY <1>6, <1>11
  <2>2. op # Created(m)
    <3>1. Created(m).do = "publish"
      BY DEF Created, Publish, Op
    <3> QED
      BY <1>4, <3>1
  <2>3. job = Creation(m) /\ op.node = m /\ op.status = "queued"
    BY <2>1, <2>2 DEF Write, Op
  <2>4. m = n
    BY <1>5, <1>11, <2>3 DEF About
  <2>5. job = Creation(n) /\ job' = <<Created(n)>>
    BY <1>4, <2>3, <2>4, CreationSteps
  <2>6. (repo.node)'[n] # Absent
    BY <1>5, <1>11, <2>3 DEF Absent
  <2> QED
    BY <2>5, <2>6
<1> QED
  BY <1>8, <1>9, <1>10, <1>11

\* The job's step leaves an expected rest.
LEMMA JobStepForm ==
  ASSUME IInv, CallInv, FormInv, MadeInv, JobStep
  PROVE  FormInv'
<1>1. /\ job # <<>> /\ job \in Seq(RightOps) /\ job' \in {<<>>, Tail(job)}
      /\ UNCHANGED <<handler, next, snap, view, call, done>>
      /\ raced \subseteq raced' /\ Off \subseteq Off' /\ Adrift(repo') \subseteq raced'
  BY JobStepDoes
<1>2. JobForm /\ HandlerForm /\ Apart /\ DeletionInv
  BY DEF FormInv
<1>3. JobForm'
  BY <1>1, <1>2, JobFormStep
<1>4. HandlerForm'
  BY <1>1, <1>2 DEF HandlerForm
<1>5. Apart'
  <2>1. Ahead(job') \subseteq Ahead(job)
    BY <1>1, JobShrinks
  <2> QED
    BY <1>1, <1>2, <2>1 DEF Apart
<1>6. ASSUME call.kind = "delete", Busy, handler.ops # <<>>, (repo.node)'[call.node] = Absent
      PROVE  Subtree(call.node) \subseteq raced
  <2>1. call.node \in Nodes
    BY <1>6, ConstantsAssumption DEF ConstantsAssumption, IInv, PageInv
  <2>2. CASE repo.node[call.node] = Absent
    BY <1>2, <1>6, <2>2 DEF DeletionInv
  <2>3. CASE repo.node[call.node] # Absent
    <3>1. PICK p \in Nodes : call.node \in Below(p) /\ Below(p) \subseteq Ahead(job)
      BY <1>2, <1>6, <2>1, <2>3, JobChanges
    <3>2. Subtree(call.node) \subseteq Ahead(job)
      BY <3>1, BelowGoesOn
    <3>3. Subtree(call.node) \subseteq Ahead(handler.ops)
      <4>1. handler.answer = "working"
        BY <1>2, <1>6 DEF Busy, HandlerForm
      <4>2. handler.ops \in {Deletion(call.node), Tail(Deletion(call.node))}
        BY <1>2, <1>6, <4>1 DEF HandlerForm
      <4> QED
        BY <2>1, <4>2, DeletionSteps
    <3> QED
      BY <1>2, <3>2, <3>3 DEF Apart
  <2> QED
    BY <2>2, <2>3
<1>7. ASSUME call.kind = "delete", Busy, handler.ops = <<>> PROVE (repo.node)'[call.node] = Absent
  <2>1. call.node \in Nodes
    BY <1>7, ConstantsAssumption DEF ConstantsAssumption, IInv, PageInv
  <2>2. repo.node[call.node] = Absent
    BY <1>2, <1>7 DEF DeletionInv
  <2>3. job # Creation(call.node)
    BY <1>7, <2>1 DEF MadeInv
  <2> QED
    BY <1>2, <2>1, <2>2, <2>3, JobChanges
<1>8. DeletionInv'
  BY <1>1, <1>6, <1>7 DEF DeletionInv, Busy
<1> QED
  BY <1>3, <1>4, <1>5, <1>8 DEF FormInv

\* What has been created stays created.
LEMMA MadeStays ==
  ASSUME IInv, NEW x \in Nodes, Made(x), log' = log \/ (\E e : log' = Append(log, e)),
         job = <<Created(x)>> => job' = job \/ log' = Append(log, Created(x))
  PROVE  Made(x)'
<1>1. log \in Seq(RightOps) /\ Len(log) \in Nat
  BY EventsAre
<1>2. CASE job = <<Created(x)>>
  <2>1. CASE job' = job
    BY <1>2, <2>1 DEF Made
  <2>2. CASE log' = Append(log, Created(x))
    <3>1. Created(x).kind = "created" /\ Created(x).node = x
      BY DEF Created, Publish, Op
    <3> DEFINE e == Created(x)
    <3> HIDE DEF e
    <3>2. log' = Append(log, e) /\ e.kind = "created" /\ e.node = x
      BY <2>2, <3>1 DEF e
    <3>3. Len(log) + 1 \in DOMAIN log' /\ log'[Len(log) + 1] = e
      BY <1>1, <3>2
    <3> QED
      BY <3>2, <3>3 DEF Made
  <2> QED
    BY <1>2, <2>1, <2>2
<1>3. CASE \E i \in DOMAIN log : log[i].kind = "created" /\ log[i].node = x
  <2>1. PICK i \in DOMAIN log : log[i].kind = "created" /\ log[i].node = x
    BY <1>3
  <2>2. i \in DOMAIN log' /\ log'[i] = log[i]
    <3>1. CASE log' = log
      BY <3>1
    <3>2. ASSUME NEW e, log' = Append(log, e) PROVE i \in DOMAIN log' /\ log'[i] = log[i]
      BY <1>1, <3>2
    <3> QED
      BY <3>1, <3>2
  <2> QED
    BY <2>1, <2>2 DEF Made
<1> QED
  BY <1>2, <1>3 DEF Made

\* What the job's step brings into being has been created.
LEMMA JobStepMade ==
  ASSUME IInv, JobForm, MadeInv, JobStep
  PROVE  MadeInv'
<1> DEFINE op == Head(job)
<1>1. /\ job # <<>> /\ job \in Seq(RightOps) /\ op \in RightOps /\ job' \in {<<>>, Tail(job)}
      /\ UNCHANGED <<handler, next, snap, view, call, done>>
      /\ raced \subseteq raced' /\ Off \subseteq Off' /\ Adrift(repo') \subseteq raced'
      /\ \/ Fails(op) /\ UNCHANGED <<repo, log>>
         \/ ~ Fails(op) /\ Perform(op)
  BY JobStepDoes
<1>2. log' = log \/ \E e : log' = Append(log, e)
  BY <1>1, PerformDoes
<1>3. ASSUME NEW x \in Nodes, job = <<Created(x)>> PROVE log' = Append(log, Created(x))
  <2>1. op = Created(x)
    BY <1>3, CreationSteps
  <2>2. op.do = "publish" /\ op.kind = "created"
    BY <2>1 DEF Created, Publish, Op
  <2>3. ~ Fails(op)
    BY <2>2 DEF Fails
  <2> QED
    BY <1>1, <2>1, <2>2, <2>3, PerformDoes
<1>4. \A x \in Nodes : Made(x) => Made(x)'
  BY <1>2, <1>3, MadeStays
<1>5. \A x \in Nodes : job' # Creation(x)
  BY <1>1, JobFormStep
<1>6. ASSUME NEW x \in Nodes, (repo.node)'[x] # Absent PROVE Made(x)'
  <2>1. CASE repo.node[x] # Absent
    BY <1>4, <2>1 DEF MadeInv
  <2>2. CASE repo.node[x] = Absent
    <3>1. job' = <<Created(x)>>
      BY <1>6, <2>2, JobChanges
    <3> QED
      BY <3>1 DEF Made
  <2> QED
    BY <2>1, <2>2
<1> QED
  BY <1>1, <1>4, <1>5, <1>6 DEF MadeInv

\* An event that is none of an intervention leaves the last one of it what it is.
LEMMA OwnStays ==
  ASSUME IInv, OwnInv, UNCHANGED <<handler, next, view, call>>,
         log' = log \/ \E e : e.kind # "intervention" /\ log' = Append(log, e)
  PROVE  OwnInv'
<1>1. log \in Seq(RightOps) /\ Len(log) \in Nat /\ DOMAIN log = 1..Len(log)
  BY EventsAre
<1>2. CASE log' = log
  BY <1>2 DEF OwnInv, Own, Busy
<1>3. ASSUME NEW e, e.kind # "intervention", log' = Append(log, e) PROVE OwnInv'
  <2>1. /\ Len(log') = Len(log) + 1 /\ DOMAIN log' = 1..(Len(log) + 1)
        /\ log'[Len(log) + 1] = e /\ \A i \in DOMAIN log : i \in DOMAIN log' /\ log'[i] = log[i]
    <3>1. log \in Seq(RightOps \cup {e})
      BY <1>1
    <3>2. Len(log') = Len(log) + 1 /\ log'[Len(log) + 1] = e /\ \A i \in 1..Len(log) : log'[i] = log[i]
      BY <1>3, <3>1
    <3>3. DOMAIN log' = 1..(Len(log) + 1)
      BY <1>3, <3>1
    <3> QED
      BY <1>1, <3>2, <3>3
  <2>2. \A i \in DOMAIN log' : i \in DOMAIN log \/ i = Len(log) + 1
    BY <1>1, <2>1
  <2>3. \A k \in DOMAIN log : Own(k) => k \in DOMAIN log' /\ Own(k)'
    BY <1>3, <2>1, <2>2 DEF Own
  <2> QED
    BY <2>3 DEF OwnInv, Busy
<1> QED
  BY <1>2, <1>3

\* The job publishes no event of an intervention, and leaves the page alone.
LEMMA JobStepHistory ==
  ASSUME IInv, JobForm, HistoryInv, JobStep
  PROVE  HistoryInv'
<1>1. /\ job # <<>> /\ job \in Seq(RightOps) /\ Head(job) \in RightOps /\ job' \in {<<>>, Tail(job)}
      /\ UNCHANGED <<handler, next, snap, view, call, done>>
      /\ raced \subseteq raced' /\ Off \subseteq Off' /\ Adrift(repo') \subseteq raced'
      /\ \/ UNCHANGED <<repo, log>>
         \/ Perform(Head(job))
  BY JobStepDoes
<1>2. MadeInv'
  BY JobStepMade DEF HistoryInv
<1>3. ShownInv'
  BY <1>1 DEF HistoryInv, ShownInv
<1>4. log' = log \/ \E e : e.kind # "intervention" /\ log' = Append(log, e)
  <2>1. Head(job).kind # "intervention"
    BY <1>1, JobFormStep
  <2> QED
    BY <1>1, <2>1, PerformDoes
<1>5. OwnInv'
  BY <1>1, <1>4, OwnStays DEF HistoryInv
<1> QED
  BY <1>2, <1>3, <1>5 DEF HistoryInv

\* The events about the run and about its tokens.
LEMMA AboutRun ==
  ASSUME NEW e \in RightOps
  PROVE  /\ "run" \in About(e) <=> e.kind = "run"
         /\ "tokens" \in About(e) <=> e.kind = "tokens"
<1>1. RightOp(e) /\ e.do \in {"write", "publish"}
  BY DEF RightOps, Ops
<1>2. "run" \notin Nodes /\ "tokens" \notin Nodes
  BY ConstantsAssumption DEF ConstantsAssumption
<1>3. CASE e.kind \in {"run", "tokens"}
  BY <1>3 DEF About
<1>4. CASE e.kind \in {"pruned", "delete"}
  <2>1. e.node \in Nodes
    BY <1>1, <1>4 DEF RightOp
  <2>2. About(e) \in SUBSET Nodes
    BY <1>4, <2>1, BelowType DEF About
  <2> QED
    BY <1>2, <1>4, <2>2
<1>5. CASE e.kind \notin {"run", "tokens", "pruned", "delete"}
  <2>1. e.node \in Nodes
    BY <1>1, <1>5 DEF RightOp
  <2>2. About(e) = {e.node}
    BY <1>5 DEF About
  <2> QED
    BY <1>2, <1>5, <2>1, <2>2
<1> QED
  BY <1>3, <1>4, <1>5

\* What is not about the run leaves what will be shown of it; and an event tells it.
LEMMA RunSame ==
  ASSUME IInv, UNCHANGED <<next, snap, view>>, (repo.run)' = repo.run,
         log' = log \/ \E e \in Published : log' = Append(log, e) /\ "run" \notin About(e)
  PROVE  RunTold <=> RunTold'
<1>1. BaseRun' = BaseRun
  BY DEF BaseRun
<1>2. Future("run")' = Future("run") /\ \A j \in Future("run") : log'[j] = log[j]
  <2>1. CASE log' = log
    BY <2>1 DEF Future
  <2>2. ASSUME NEW e \in Published, log' = Append(log, e), "run" \notin About(e)
        PROVE  Future("run")' = Future("run") /\ \A j \in Future("run") : log'[j] = log[j]
    <3>1. Future("run")' = Future("run") \cup {} /\ \A i \in 1..Len(log) : log'[i] = log[i]
      BY <2>2, FutureLonger
    <3>2. Future("run") \subseteq 1..Len(log)
      BY EventsAre
    <3> QED
      BY <3>1, <3>2
  <2> QED
    BY <2>1, <2>2
<1>3. RunTold' <=> Tells(log', Future("run"), BaseRun, repo.run)
  BY <1>1, <1>2 DEF RunTold
<1> QED
  BY <1>2, <1>3, SameEvents DEF RunTold

\* An event with the run's status tells it.
LEMMA RunPublished ==
  ASSUME IInv, UNCHANGED <<next, snap, view, repo>>, NEW e \in Published, log' = Append(log, e),
         "run" \in About(e), e.status = repo.run
  PROVE  RunTold'
<1> DEFINE m == Len(log) + 1
<1>1. /\ Len(log) \in Nat /\ Future("run") \in SUBSET Nat
      /\ \A i \in Future("run") : i \in 1..Len(log)
  BY EventsAre
<1>2. /\ Future("run")' = Future("run") \cup {m} /\ log'[m] = e
      /\ \A i \in 1..Len(log) : log'[i] = log[i]
  BY FutureLonger
<1>3. BaseRun' = BaseRun
  BY DEF BaseRun
<1>4. m \in Nat /\ \A j \in Future("run") : j < m
  BY <1>1
<1> HIDE DEF m
<1>5. Tells(log', Future("run") \cup {m}, BaseRun, log'[m].status)
  BY <1>1, <1>2, <1>4, OneMore
<1> QED
  BY <1>2, <1>3, <1>5 DEF RunTold

\* Who works on the run, or on the tokens.
LEMMA JobOfRun ==
  ASSUME JobForm
  PROVE  /\ "tokens" \in Ahead(job) => job \in {Charge, Tail(Charge)}
         /\ "run" \in Ahead(job) \ raced => \E s \in RunStatus : job \in {Setting(s), Tail(Setting(s))}
<1>1. "run" \notin Nodes /\ "tokens" \notin Nodes
  BY ConstantsAssumption DEF ConstantsAssumption
<1>2. ASSUME NEW n \in Nodes, StatusJob(n) PROVE Ahead(job) \subseteq {n}
  <2>1. \A o \in ToSet(job) : About(o) = {n}
    BY <1>2 DEF StatusJob, About
  <2> QED
    BY <2>1 DEF Ahead
<1>3. ASSUME NEW n \in Nodes, job = Creation(n) \/ job = <<Created(n)>> PROVE Ahead(job) = {n}
  BY <1>3, AheadForms
<1>4. ASSUME NEW p \in Nodes, job = Pruning(p) \/ job = Tail(Pruning(p)) PROVE Ahead(job) \subseteq Nodes
  <2>1. Ahead(Pruning(p)) = Below(p) /\ Ahead(Tail(Pruning(p))) = Below(p)
    BY AheadForms
  <2> QED
    BY <1>4, <2>1, BelowType
<1>5. job \in {Charge, Tail(Charge)} => Ahead(job) = {"tokens"}
  BY AheadForms
<1>6. ASSUME NEW s \in RunStatus, job = Setting(s) \/ job = Tail(Setting(s)) PROVE Ahead(job) = {"run"}
  <2>1. Ahead(Setting(s)) = {"run"} /\ Ahead(Tail(Setting(s))) = {"run"}
    BY AheadForms
  <2> QED
    BY <1>6, <2>1
<1>7. ASSUME \A o \in ToSet(job) : o.kind = "run" PROVE Ahead(job) \subseteq {"run"}
  <2>1. \A o \in ToSet(job) : About(o) = {"run"}
    BY <1>7 DEF About
  <2> QED
    BY <2>1 DEF Ahead
<1>8. CASE \E n \in Nodes : StatusJob(n)
  BY <1>1, <1>2, <1>8
<1>9. CASE \E n \in Nodes \ {Root} : job = Creation(n) \/ job = <<Created(n)>>
  BY <1>1, <1>3, <1>9
<1>10. CASE \E p \in Nodes : job = Pruning(p) \/ job = Tail(Pruning(p))
  BY <1>1, <1>4, <1>10
<1>11. CASE job = Charge \/ job = Tail(Charge)
  BY <1>5, <1>11
<1>12. CASE \E s \in RunStatus : job = Setting(s) \/ job = Tail(Setting(s))
  BY <1>6, <1>12
<1>13. CASE "run" \in raced /\ \A o \in ToSet(job) : o.kind = "run"
  BY <1>7, <1>13
<1> QED
  BY <1>8, <1>9, <1>10, <1>11, <1>12, <1>13 DEF JobForm

\* A handler that is about to tell of the run has that event among its operations.
LEMMA HandlerTellsRun ==
  ASSUME IInv, HandlerTells
  PROVE  "run" \in Ahead(handler.ops)
<1>1. handler.ops \in Seq(RightOps) /\ handler.ops # <<>>
  BY DEF IInv, ServerInv, Handlers, HandlerTells
<1>2. About(Head(handler.ops)) = {"run"}
  BY DEF HandlerTells, About, Publish, Op
<1> QED
  BY <1>1, <1>2, AheadTail

\* The job writes the status of the run, and tells it with the next step.
LEMMA JobStepRun ==
  ASSUME IInv, FormInv, RunInv, JobStep
  PROVE  RunInv'
<1> DEFINE op == Head(job)
<1>1. /\ job # <<>> /\ job \in Seq(RightOps) /\ op \in RightOps
      /\ UNCHANGED <<handler, next, snap, view, call, done>>
      /\ raced \subseteq raced' /\ Off \subseteq Off' /\ Adrift(repo') \subseteq raced'
      /\ \/ Fails(op) /\ job' = <<>> /\ UNCHANGED <<repo, log>>
         \/ ~ Fails(op) /\ job' = Tail(job) /\ Perform(op)
  BY JobStepDoes
<1>2. JobForm /\ Apart /\ repo \in Repos
  BY DEF FormInv, IInv, ServerInv
<1>3. SUFFICES ASSUME "run" \notin Off'
               PROVE  IF ("run" \in Ahead(job))'
                      THEN \E s \in RunStatus : \/ job' = Setting(s) /\ RunTold'
                                                \/ job' = Tail(Setting(s)) /\ (repo.run)' = s
                      ELSE IF HandlerTells THEN (repo.run)' = "running"
                      ELSE RunTold'
  BY <1>1 DEF RunInv, HandlerTells
<1>4. "run" \notin Off
  BY <1>1, <1>3
<1>5. Ahead(<<>>) = {}
  BY AheadIs
<1>6. CASE "run" \in Ahead(job)
  <2>1. ~ HandlerTells
    BY <1>2, <1>4, <1>6, HandlerTellsRun DEF Apart, Off
  <2>2. PICK s \in RunStatus : \/ job = Setting(s) /\ RunTold
                               \/ job = Tail(Setting(s)) /\ repo.run = s
    BY <1>4, <1>6 DEF RunInv
  <2>3. CASE Fails(op)
    <3>1. job = Setting(s) /\ RunTold
      <4>1. job = Tail(Setting(s)) => op = Publish("run", None, s)
        BY SettingSteps, Zenon
      <4>2. job = Tail(Setting(s)) => ~ Fails(op)
        <5>1. ASSUME op = Publish("run", None, s) PROVE op.kind = "run" /\ op.do = "publish"
          BY <5>1 DEF Publish, Op
        <5> QED
          BY <4>1, <5>1 DEF Fails
      <4> QED
        BY <2>2, <2>3, <4>2
    <3>2. RunTold'
      BY <1>1, <2>3, <3>1, RunSame
    <3> QED
      BY <1>1, <1>5, <2>1, <2>3, <3>2
  <2>4. CASE ~ Fails(op) /\ job = Setting(s)
    <3>1. op = Write("run", None, s)
      BY <2>4, SettingSteps
    <3>2. op.do = "write" /\ op.kind = "run" /\ op.status = s
      BY <3>1 DEF Write, Op
    <3>3. repo' = Written(op) /\ job' = Tail(Setting(s))
      BY <1>1, <2>4, <3>2, PerformDoes
    <3>4. (repo.run)' = s
      BY <1>1, <1>2, <3>2, <3>3, WrittenIs
    <3>5. Ahead(job') = {"run"}
      BY <3>3, AheadForms
    <3> QED
      BY <3>3, <3>4, <3>5
  <2>5. CASE ~ Fails(op) /\ job = Tail(Setting(s)) /\ repo.run = s
    <3>1. op = Publish("run", None, s) /\ job' = <<>>
      BY <1>1, <2>5, SettingSteps
    <3>2. op.do = "publish" /\ op.kind = "run" /\ op.status = s /\ "run" \in About(op)
      BY <3>1 DEF Publish, Op, About
    <3>3. repo' = repo /\ op \in Published /\ log' = Append(log, op)
      BY <1>1, <2>5, <3>2, PerformDoes
    <3>4. RunTold'
      BY <1>1, <2>5, <3>2, <3>3, RunPublished
    <3> QED
      BY <1>5, <2>1, <3>1, <3>4
  <2> QED
    BY <2>2, <2>3, <2>4, <2>5
<1>7. CASE "run" \notin Ahead(job)
  <2>1. "run" \notin Ahead(job') /\ "run" \notin About(op)
    BY <1>1, <1>7, JobShrinks
  <2>2. op.kind # "run"
    BY <1>1, <2>1, AboutRun
  <2>3. (repo.run)' = repo.run /\ (log' = log \/ \E e \in Published : log' = Append(log, e) /\ "run" \notin About(e))
    BY <1>1, <1>2, <2>1, <2>2, PerformDoes, WrittenIs
  <2>4. RunTold <=> RunTold'
    BY <1>1, <2>3, RunSame
  <2> QED
    BY <1>4, <1>7, <2>1, <2>3, <2>4 DEF RunInv
<1> QED
  BY <1>6, <1>7

\* The events to come can be counted.
LEMMA FutureIsFinite ==
  ASSUME IInv, NEW x
  PROVE  IsFiniteSet(Future(x)) /\ Cardinality(Future(x)) \in Nat
<1>1. Len(log) \in Nat /\ Future(x) \subseteq 1..Len(log)
  BY EventsAre
<1>2. IsFiniteSet(1..Len(log))
  BY <1>1, FS_Interval
<1> QED
  BY <1>1, <1>2, FS_Subset, FS_CardinalityType

\* The token events to come grow by those that are published.
LEMMA TokensToCome ==
  ASSUME IInv, UNCHANGED next
  PROVE  /\ log' = log => Future("tokens")' = Future("tokens")
         /\ \A e \in Published : log' = Append(log, e) =>
              Cardinality(Future("tokens")') = Cardinality(Future("tokens"))
                                               + (IF e.kind = "tokens" THEN 1 ELSE 0)
<1>1. log' = log => Future("tokens")' = Future("tokens")
  BY DEF Future
<1>2. ASSUME NEW e \in Published, log' = Append(log, e)
      PROVE  Cardinality(Future("tokens")') = Cardinality(Future("tokens")) + (IF e.kind = "tokens" THEN 1 ELSE 0)
  <2> DEFINE F == Future("tokens")
             m == Len(log) + 1
  <2>1. Len(log) \in Nat /\ \A i \in F : i \in 1..Len(log)
    BY EventsAre
  <2>2. Future("tokens")' = F \cup (IF "tokens" \in About(e) THEN {m} ELSE {})
    BY <1>2, FutureLonger
  <2>3. "tokens" \in About(e) <=> e.kind = "tokens"
    BY AboutRun DEF Published
  <2>4. m \notin F
    BY <2>1
  <2>5. IsFiniteSet(F) /\ Cardinality(F) \in Nat
    BY FutureIsFinite
  <2> HIDE DEF F, m
  <2>6. Cardinality(F \cup {m}) = Cardinality(F) + 1
    BY <2>4, <2>5, FS_AddElement
  <2>7. CASE e.kind = "tokens"
    BY <2>2, <2>3, <2>6, <2>7 DEF F
  <2>8. CASE e.kind # "tokens"
    <3>1. Future("tokens")' = F
      BY <2>2, <2>3, <2>8
    <3> QED
      BY <2>5, <2>8, <3>1 DEF F
  <2> QED
    BY <2>7, <2>8
<1> QED
  BY <1>1, <1>2

\* Every charge to the run is followed by an event of its own.
LEMMA JobStepTokens ==
  ASSUME IInv, FormInv, TokensInv, JobStep
  PROVE  TokensInv'
<1> DEFINE op == Head(job)
           told == IF snap.at = "shown" THEN view.tokens ELSE 0
           F == Cardinality(Future("tokens"))
<1>1. /\ job # <<>> /\ job \in Seq(RightOps) /\ op \in RightOps
      /\ UNCHANGED <<handler, next, snap, view, call, done>>
      /\ raced \subseteq raced' /\ Off \subseteq Off' /\ Adrift(repo') \subseteq raced'
      /\ \/ Fails(op) /\ job' = <<>> /\ UNCHANGED <<repo, log>>
         \/ ~ Fails(op) /\ job' = Tail(job) /\ Perform(op)
  BY JobStepDoes
<1>2. JobForm /\ repo \in Repos /\ told \in Nat /\ repo.tokens \in Nat
  BY DEF FormInv, IInv, ServerInv, PageInv, Repos, Views
<1>3. F \in Nat
  BY FutureIsFinite
<1>4. SUFFICES ASSUME "tokens" \notin Off'
               PROVE  (repo.tokens)' = told + Cardinality(Future("tokens")') + (IF job' = Tail(Charge) THEN 1 ELSE 0)
  BY <1>1 DEF TokensInv
<1>5. "tokens" \notin Off
  BY <1>1, <1>4
<1>6. repo.tokens = told + F + (IF job = Tail(Charge) THEN 1 ELSE 0)
  BY <1>5 DEF TokensInv
<1>7. CASE job = Charge
  <2>1. op = Write("tokens", None, None) /\ job # Tail(Charge)
    BY <1>7, ChargeSteps
  <2>2. op.do = "write" /\ op.kind = "tokens"
    BY <2>1 DEF Write, Op
  <2>3. ~ Fails(op)
    BY <2>2 DEF Fails
  <2>4. repo' = Written(op) /\ log' = log /\ job' = Tail(Charge)
    BY <1>1, <1>7, <2>2, <2>3, PerformDoes
  <2>5. (repo.tokens)' = repo.tokens + 1
    BY <1>1, <1>2, <2>2, <2>4, WrittenIs
  <2>6. Cardinality(Future("tokens")') = F
    BY <1>1, <2>4, TokensToCome
  <2> HIDE DEF F, told
  <2> QED
    BY <1>2, <1>3, <1>6, <2>1, <2>4, <2>5, <2>6
<1>8. CASE job = Tail(Charge)
  <2>1. op = Publish("tokens", None, None) /\ Tail(job) = <<>> /\ <<>> # Tail(Charge)
    BY <1>8, ChargeSteps
  <2>2. op.do = "publish" /\ op.kind = "tokens"
    BY <2>1 DEF Publish, Op
  <2>3. ~ Fails(op)
    BY <2>2 DEF Fails
  <2>4. repo' = repo /\ op \in Published /\ log' = Append(log, op) /\ job' = <<>>
    BY <1>1, <2>1, <2>2, <2>3, PerformDoes
  <2>5. Cardinality(Future("tokens")') = F + 1
    BY <1>1, <2>2, <2>4, TokensToCome
  <2> HIDE DEF F, told
  <2> QED
    BY <1>2, <1>3, <1>6, <1>8, <2>1, <2>4, <2>5
<1>9. CASE job \notin {Charge, Tail(Charge)}
  <2>1. "tokens" \notin Ahead(job)
    BY <1>2, <1>9, JobOfRun
  <2>2. "tokens" \notin Ahead(job') /\ "tokens" \notin About(op)
    BY <1>1, <2>1, JobShrinks
  <2>3. op.kind # "tokens" /\ job' # Tail(Charge)
    <3>1. "tokens" \in Ahead(Tail(Charge))
      BY AheadForms
    <3> QED
      BY <1>1, <2>2, <3>1, AboutRun
  <2>4. (repo.tokens)' = repo.tokens /\ (log' = log \/ (op \in Published /\ log' = Append(log, op)))
    BY <1>1, <1>2, <2>3, PerformDoes, WrittenIs
  <2>5. Cardinality(Future("tokens")') = F
    BY <1>1, <1>3, <2>3, <2>4, TokensToCome
  <2> HIDE DEF F, told
  <2> QED
    BY <1>2, <1>3, <1>6, <1>9, <2>3, <2>4, <2>5
<1> QED
  BY <1>7, <1>8, <1>9

\* A step of the job keeps the invariant.
LEMMA JobStepSettles ==
  ASSUME IInv, CallInv, SettlingInv, JobStep
  PROVE  SettlingInv'
<1>1. FormInv /\ HistoryInv /\ FutureInv
  BY DEF SettlingInv
<1>2. FormInv'
  BY <1>1, JobStepForm DEF HistoryInv
<1>3. HistoryInv'
  BY <1>1, JobStepHistory DEF FormInv
<1>4. FutureInv'
  BY <1>1, JobStepNodes, JobStepRun, JobStepTokens DEF FutureInv, HistoryInv
<1> QED
  BY <1>2, <1>3, <1>4 DEF SettlingInv
-----------------------------------------------------------------------------
(* The job begins something.                                               *)

\* The job begins something new: what is left to do has one of the forms.
LEMMA JobBeginsDoes ==
  ASSUME IInv, JobBegins
  PROVE  /\ job = <<>> /\ UNCHANGED <<repo, log, handler, next, snap, view, call>>
         /\ raced \subseteq raced' /\ Ahead(job') \cap Ahead(handler.ops) \subseteq raced'
         /\ \/ \E n \in Nodes : job' \in Rest(n, repo.node[n])
            \/ \E n \in Nodes : job' = <<Publish("status", n, "failed_check")>> /\ n \in raced'
            \/ \E m \in Nodes \ {Root} : job' = Creation(m) /\ ~ Made(m)
            \/ \E n \in Nodes : job' = Pruning(n)
            \/ job' = Charge
            \/ \E s \in RunStatus : job' = Setting(s)
            \/ job' = <<Write("run", None, "failed"), Publish("run", None, None)>> /\ "run" \in raced'
<1> DEFINE Stale(p) == IF Len(p) = 1 \/ Last(p) = Publish("run", None, None) THEN Ahead(p) ELSE {}
<1>1. PICK program \in RunPrograms \cup CreatesChild(done.dividing)
                       \cup UNION {ProgramsOf(n) : n \in Nodes \ Ahead(handler.ops)} :
        job' = program /\ raced' = raced \cup (Ahead(program) \cap Ahead(handler.ops)) \cup Stale(program)
  BY DEF JobBegins
<1>2. job = <<>> /\ UNCHANGED <<repo, log, handler, next, snap, view, call>>
  BY DEF JobBegins
<1>3. raced \subseteq raced' /\ Ahead(job') \cap Ahead(handler.ops) \subseteq raced' /\ Stale(job') \subseteq raced'
  <2> HIDE DEF Stale
  <2> QED
    BY <1>1
<1>4. CASE program \in RunPrograms
  <2>1. CASE program = Charge
    BY <1>1, <1>2, <1>3, <2>1
  <2>2. CASE \E s \in RunStatus : program = Setting(s)
    BY <1>1, <1>2, <1>3, <2>2
  <2>3. CASE program = <<Write("run", None, "failed"), Publish("run", None, None)>>
    <3> DEFINE a == Write("run", None, "failed")
               b == Publish("run", None, None)
    <3>1. About(b) = {"run"}
      BY DEF About, Publish, Op
    <3> HIDE DEF a, b
    <3>2. program = <<a, b>>
      BY <2>3 DEF a, b
    <3>3. Last(program) = b /\ Ahead(program) = About(a) \cup About(b)
      <4>1. Ahead(program) = About(a) \cup About(b)
        BY <3>2, AheadIs
      <4>2. Last(program) = b
        BY <3>2 DEF Last
      <4> QED
        BY <4>1, <4>2
    <3>4. Stale(job') = Ahead(job')
      BY <1>1, <3>3 DEF b
    <3>5. "run" \in raced'
      BY <1>1, <1>3, <3>1, <3>3, <3>4
    <3> QED
      BY <1>1, <1>2, <1>3, <2>3, <3>5
  <2> QED
    BY <1>4, <2>1, <2>2, <2>3, RunProgramForms
<1>7. ASSUME NEW n, program \in CreatesChild(n)
      PROVE  \E m \in Nodes \ {Root} : job' = Creation(m) /\ ~ Made(m)
  <2>1. PICK m \in Nodes \ {Root} : /\ program = Creation(m)
                                    /\ \A o \in ToSet(log) : ~ (o.kind = "created" /\ o.node = m)
    BY <1>7, CreatesChildForms
  <2>2. ~ Made(m)
    <3>1. job # <<Created(m)>>
      BY <1>2
    <3>2. \A i \in DOMAIN log : log[i] \in ToSet(log)
      BY EventsAre DEF ToSet
    <3> QED
      BY <2>1, <3>1, <3>2 DEF Made
  <2> QED
    BY <1>1, <2>1, <2>2
<1>5. ASSUME NEW n \in Nodes, program \in ProgramsOf(n)
      PROVE  \/ \E k \in Nodes : job' \in Rest(k, repo.node[k])
             \/ \E k \in Nodes : job' = <<Publish("status", k, "failed_check")>> /\ k \in raced'
             \/ \E m \in Nodes \ {Root} : job' = Creation(m) /\ ~ Made(m)
             \/ \E k \in Nodes : job' = Pruning(k)
  <2>1. CASE program \in Rest(n, repo.node[n])
    BY <1>1, <2>1
  <2>2. CASE program = <<Publish("status", n, "failed_check")>>
    <3> DEFINE a == Publish("status", n, "failed_check")
    <3>1. About(a) = {n}
      BY DEF About, Publish, Op
    <3> HIDE DEF a
    <3>2. program = <<a>>
      BY <2>2 DEF a
    <3>3. Len(program) = 1
      BY <3>2
    <3>4. Ahead(program) = {n}
      BY <3>1, <3>2, AheadIs
    <3>5. n \in raced'
      BY <1>1, <1>3, <3>3, <3>4
    <3> QED
      BY <1>1, <2>2, <3>5
  <2>3. CASE program \in CreatesChild(n)
    BY <2>3, <1>7
  <2>4. CASE program = Pruning(n)
    BY <1>1, <2>4
  <2> QED
    BY <1>5, <2>1, <2>2, <2>3, <2>4, ProgramForms
<1>6. CASE program \in UNION {ProgramsOf(n) : n \in Nodes \ Ahead(handler.ops)}
  <2>1. PICK n \in Nodes : program \in ProgramsOf(n)
    BY <1>6
  <2> QED
    BY <1>2, <1>3, <1>5, <2>1
<1>8. CASE program \in CreatesChild(done.dividing)
  BY <1>2, <1>3, <1>7, <1>8
<1> QED
  BY <1>1, <1>4, <1>6, <1>8

\* What the job is about when it begins.
LEMMA BeginsAhead ==
  /\ \A n \in Nodes : Ahead(<<Publish("status", n, "failed_check")>>) = {n}
  /\ Ahead(<<Write("run", None, "failed"), Publish("run", None, None)>>) = {"run"}
<1>1. ASSUME NEW n \in Nodes PROVE Ahead(<<Publish("status", n, "failed_check")>>) = {n}
  <2>1. About(Publish("status", n, "failed_check")) = {n}
    BY DEF About, Publish, Op
  <2> QED
    BY <2>1, AheadIs
<1>2. Ahead(<<Write("run", None, "failed"), Publish("run", None, None)>>) = {"run"}
  <2>1. About(Write("run", None, "failed")) = {"run"} /\ About(Publish("run", None, None)) = {"run"}
    BY DEF About, Write, Publish, Op
  <2> QED
    BY <2>1, AheadIs
<1> QED
  BY <1>1, <1>2

\* It works on no part of a handler's, but in a race.
LEMMA JobBeginsForm ==
  ASSUME IInv, FormInv, JobBegins
  PROVE  FormInv'
<1>1. /\ UNCHANGED <<repo, log, handler, next, snap, view, call>>
      /\ raced \subseteq raced' /\ Ahead(job') \cap Ahead(handler.ops) \subseteq raced'
      /\ \/ \E n \in Nodes : job' \in Rest(n, repo.node[n])
         \/ \E n \in Nodes : job' = <<Publish("status", n, "failed_check")>> /\ n \in raced'
         \/ \E m \in Nodes \ {Root} : job' = Creation(m) /\ ~ Made(m)
         \/ \E n \in Nodes : job' = Pruning(n)
         \/ job' = Charge
         \/ \E s \in RunStatus : job' = Setting(s)
         \/ job' = <<Write("run", None, "failed"), Publish("run", None, None)>> /\ "run" \in raced'
  BY JobBeginsDoes
<1>2. JobForm /\ HandlerForm /\ Apart /\ DeletionInv
  BY DEF FormInv
<1>3. JobForm'
  <2>1. ASSUME NEW n \in Nodes, job' \in Rest(n, repo.node[n]) PROVE JobForm'
    <3>1. StatusJob(n)'
      BY <2>1, RestAbout DEF StatusJob
    <3> QED
      BY <3>1 DEF JobForm
  <2>2. ASSUME NEW n \in Nodes, job' = <<Publish("status", n, "failed_check")>> PROVE JobForm'
    <3> DEFINE a == Publish("status", n, "failed_check")
    <3>1. a.kind = "status" /\ a.node = n
      BY DEF Publish, Op
    <3> HIDE DEF a
    <3>2. job' = <<a>>
      BY <2>2 DEF a
    <3>3. ToSet(job') = {a}
      BY <3>2 DEF ToSet
    <3>4. StatusJob(n)'
      BY <3>1, <3>3 DEF StatusJob
    <3> QED
      BY <3>4 DEF JobForm
  <2>3. ASSUME job' = <<Write("run", None, "failed"), Publish("run", None, None)>>, "run" \in raced' PROVE JobForm'
    <3> DEFINE a == Write("run", None, "failed")
               b == Publish("run", None, None)
    <3>1. a.kind = "run" /\ b.kind = "run"
      BY DEF Write, Publish, Op
    <3> HIDE DEF a, b
    <3>2. job' = <<a, b>>
      BY <2>3 DEF a, b
    <3>3. ToSet(job') = {a, b}
      BY <3>2 DEF ToSet
    <3> QED
      BY <2>3, <3>1, <3>3 DEF JobForm
  <2> QED
    BY <1>1, <2>1, <2>2, <2>3 DEF JobForm
<1>4. HandlerForm'
  BY <1>1, <1>2 DEF HandlerForm
<1>5. Apart'
  BY <1>1 DEF Apart
<1>6. DeletionInv'
  BY <1>1, <1>2 DEF DeletionInv, Busy
<1> QED
  BY <1>3, <1>4, <1>5, <1>6 DEF FormInv

\* A child is created only if no event has created it before.
LEMMA JobBeginsHistory ==
  ASSUME IInv, HistoryInv, JobBegins
  PROVE  HistoryInv'
<1>1. /\ job = <<>> /\ UNCHANGED <<repo, log, handler, next, snap, view, call>> /\ raced \subseteq raced'
      /\ \/ \E n \in Nodes : job' \in Rest(n, repo.node[n])
         \/ \E n \in Nodes : job' = <<Publish("status", n, "failed_check")>> /\ n \in raced'
         \/ \E m \in Nodes \ {Root} : job' = Creation(m) /\ ~ Made(m)
         \/ \E n \in Nodes : job' = Pruning(n)
         \/ job' = Charge
         \/ \E s \in RunStatus : job' = Setting(s)
         \/ job' = <<Write("run", None, "failed"), Publish("run", None, None)>> /\ "run" \in raced'
  BY JobBeginsDoes
<1>2. MadeInv /\ ShownInv /\ OwnInv
  BY DEF HistoryInv
<1>3. \A x \in Nodes : Made(x) => \E i \in DOMAIN log : log[i].kind = "created" /\ log[i].node = x
  BY <1>1 DEF Made
<1>4. \A x \in Nodes : Made(x) => Made(x)'
  BY <1>1, <1>3 DEF Made
<1>5. ASSUME NEW x \in Nodes, job' = Creation(x) PROVE ~ Made(x)'
  <2>1. Head(job').kind = "created" /\ Ahead(job') = {x} /\ job' # <<Created(x)>>
    <3>1. Head(Creation(x)).kind = "created"
      BY CreationSteps DEF Write, Op
    <3> QED
      BY <1>5, <3>1, CreationSteps, AheadForms
  <2>2. \A n \in Nodes : job' \notin Rest(n, repo.node[n])
    <3>1. SUFFICES ASSUME NEW n \in Nodes, job' \in Rest(n, repo.node[n]) PROVE FALSE
      OBVIOUS
    <3>2. \A o \in ToSet(job') : o.kind \in {"status", "merged"}
      BY <3>1, RestAbout
    <3>3. Head(job') \in ToSet(job')
      <4>1. job' \in Seq(RightOps) /\ job' # <<>>
        BY <3>1, RestAbout, RestNotEmpty
      <4> QED
        BY <4>1, AheadTail
    <3> QED
      BY <2>1, <3>2, <3>3
  <2>3. \A n \in Nodes : job' # <<Publish("status", n, "failed_check")>>
    <3>1. SUFFICES ASSUME NEW n \in Nodes, job' = <<Publish("status", n, "failed_check")>> PROVE FALSE
      OBVIOUS
    <3>2. Head(job') = Publish("status", n, "failed_check")
      BY <3>1
    <3> QED
      BY <2>1, <3>2 DEF Publish, Op
  <2>4. job' # <<Write("run", None, "failed"), Publish("run", None, None)>>
    <3>1. SUFFICES ASSUME job' = <<Write("run", None, "failed"), Publish("run", None, None)>> PROVE FALSE
      OBVIOUS
    <3>2. Head(job') = Write("run", None, "failed")
      BY <3>1
    <3> QED
      BY <2>1, <3>2 DEF Write, Op
  <2>5. \A n \in Nodes : Head(Pruning(n)).kind = "pruned"
    BY PruningSteps DEF Write, Op
  <2>6. Head(Charge).kind = "tokens"
    BY ChargeSteps DEF Write, Op
  <2>7. \A s \in RunStatus : Head(Setting(s)).kind = "run"
    BY SettingSteps DEF Write, Op
  <2>8. \E m \in Nodes \ {Root} : job' = Creation(m) /\ ~ Made(m)
    <3>1. \A n \in Nodes : job' # Pruning(n)
      BY <2>1, <2>5
    <3>2. job' # Charge
      BY <2>1, <2>6
    <3>3. \A s \in RunStatus : job' # Setting(s)
      BY <2>1, <2>7
    <3> QED
      BY <1>1, <2>2, <2>3, <2>4, <3>1, <3>2, <3>3
  <2>9. PICK m \in Nodes \ {Root} : job' = Creation(m) /\ ~ Made(m)
    BY <2>8
  <2>10. Ahead(job') = {m}
    BY <2>9, AheadForms
  <2>11. ~ Made(x)
    BY <2>1, <2>9, <2>10
  <2> QED
    BY <1>1, <2>1, <2>11 DEF Made
<1>6. MadeInv'
  BY <1>1, <1>2, <1>4, <1>5 DEF MadeInv
<1>7. ShownInv'
  BY <1>1, <1>2 DEF ShownInv
<1>8. OwnInv'
  BY <1>1, <1>2 DEF OwnInv, Own, Busy
<1> QED
  BY <1>6, <1>7, <1>8 DEF HistoryInv

\* A node that the handler has deleted, and all below it, are gone, but for what is
\* left adrift.
LEMMA DeletedIsGone ==
  ASSUME IInv, DeletionInv, call.kind = "delete", Busy, handler.ops = <<>>
  PROVE  call.node \in Nodes /\ \A x \in Subtree(call.node) \ raced : repo.node[x] = Absent
<1>1. call.node \in Nodes
  BY ConstantsAssumption DEF ConstantsAssumption, IInv, PageInv
<1>2. repo.node[call.node] = Absent /\ Adrift(repo) \subseteq raced
  BY DEF DeletionInv, IInv, DriftInv
<1>3. ASSUME NEW x \in Below(call.node), repo.node[x] # Absent PROVE x \in Adrift(repo)
  BY <1>2, <1>3 DEF Adrift, Below
<1> QED
  BY <1>1, <1>2, <1>3 DEF Subtree

\* Where it begins the node is told, as nobody has worked on it.
LEMMA JobBeginsNodes ==
  ASSUME IInv, FormInv, MadeInv, NodesInv, JobBegins
  PROVE  NodesInv'
<1>1. /\ job = <<>> /\ UNCHANGED <<repo, log, handler, next, snap, view, call>>
      /\ raced \subseteq raced' /\ Ahead(job') \cap Ahead(handler.ops) \subseteq raced'
      /\ \/ \E n \in Nodes : job' \in Rest(n, repo.node[n])
         \/ \E n \in Nodes : job' = <<Publish("status", n, "failed_check")>> /\ n \in raced'
         \/ \E m \in Nodes \ {Root} : job' = Creation(m) /\ ~ Made(m)
         \/ \E n \in Nodes : job' = Pruning(n)
         \/ job' = Charge
         \/ \E s \in RunStatus : job' = Setting(s)
         \/ job' = <<Write("run", None, "failed"), Publish("run", None, None)>> /\ "run" \in raced'
  BY JobBeginsDoes
<1>2. DeletionInv
  BY DEF FormInv
<1>3. SUFFICES ASSUME NEW x \in Nodes, x \notin raced', x \notin snap.since PROVE NodeInv(x)'
  BY <1>1 DEF NodesInv, Off
<1>4. x \in Nodes \ Off /\ x \notin Ahead(job)
  BY <1>1, <1>3, AheadIs DEF Off
<1>5. NodeInv(x)
  BY <1>4 DEF NodesInv
<1>6. /\ (HandlerOn(x) <=> HandlerOn(x)') /\ (Told(x) <=> Told(x)') /\ (Present(x) <=> Present(x)')
      /\ repo' = repo
  BY <1>1 DEF HandlerOn, Busy, Told, Gone, Present, Current, Future, Base, Optimistic
<1>7. x \in Ahead(job') =>
        \/ job' \in Rest(x, repo.node[x])
        \/ x # Root /\ job' = Creation(x) /\ ~ Made(x)
        \/ \E n \in Nodes : x \in Below(n) /\ job' = Pruning(n)
  <2>1. ASSUME x \in Ahead(job') PROVE \/ job' \in Rest(x, repo.node[x])
                                       \/ x # Root /\ job' = Creation(x) /\ ~ Made(x)
                                       \/ \E n \in Nodes : x \in Below(n) /\ job' = Pruning(n)
    <3>1. x # "run" /\ x # "tokens"
      BY ConstantsAssumption DEF ConstantsAssumption
    <3>2. \A n \in Nodes : job' \in Rest(n, repo.node[n]) => n = x
      BY <2>1, AheadForms
    <3>3. \A n \in Nodes : job' = <<Publish("status", n, "failed_check")>> => n = x
      BY <2>1, BeginsAhead
    <3>4. \A n \in Nodes : job' = Creation(n) => n = x
      BY <2>1, AheadForms
    <3>5. \A n \in Nodes : job' = Pruning(n) => x \in Below(n)
      BY <2>1, AheadForms
    <3>6. job' # Charge /\ (\A s \in RunStatus : job' # Setting(s))
          /\ job' # <<Write("run", None, "failed"), Publish("run", None, None)>>
      BY <2>1, <3>1, AheadForms, BeginsAhead
    <3> QED
      BY <1>1, <1>3, <3>2, <3>3, <3>4, <3>5, <3>6
  <2> QED
    BY <2>1
<1>8. CASE HandlerOn(x)
  <2>1. HandlerAt(x)
    BY <1>5, <1>8 DEF NodeInv
  <2>2. ASSUME call.kind = "delete", handler.ops = <<>>, x \in Ahead(job')
        PROVE  \/ job' = Creation(x)
               \/ \E p \in Nodes : x \in Below(p) /\ job' \in {Pruning(p), Tail(Pruning(p))}
    <3>1. repo.node[x] = Absent
      BY <1>2, <1>4, <1>8, <2>2, DeletedIsGone DEF HandlerOn, Off
    <3>2. job' \notin Rest(x, repo.node[x])
      <4>1. Absent \notin NodeStatus
        BY NormalizedIs
      <4> QED
        BY <3>1, <4>1, RestStep
    <3> QED
      BY <1>7, <2>2, <3>2
  <2>3. HandlerAt(x)'
    <3>1. CASE call.kind = "delete"
      BY <1>1, <1>6, <2>1, <2>2, <3>1 DEF HandlerAt
    <3>2. CASE call.kind # "delete"
      BY <1>1, <1>6, <2>1, <3>2 DEF HandlerAt
    <3> QED
      BY <3>1, <3>2
  <2> QED
    BY <1>6, <1>8, <2>3 DEF NodeInv
<1>9. CASE ~ HandlerOn(x)
  <2>1. Told(x)
    BY <1>4, <1>5, <1>9 DEF NodeInv
  <2>2. CASE x \notin Ahead(job')
    BY <1>6, <1>9, <2>1, <2>2 DEF NodeInv
  <2>3. CASE x \in Ahead(job')
    <3>1. CASE job' \in Rest(x, repo.node[x])
      <4>1. repo.node[x] # Absent
        BY <3>1, RestStep, NormalizedIs
      <4>2. Present(x)
        BY <2>1, <4>1 DEF Told
      <4> QED
        BY <1>6, <1>9, <2>3, <3>1, <4>2 DEF NodeInv, JobAt
    <3>2. CASE x # Root /\ job' = Creation(x)
      BY <1>6, <1>9, <2>1, <2>3, <3>2 DEF NodeInv, JobAt
    <3>3. CASE \E n \in Nodes : x \in Below(n) /\ job' = Pruning(n)
      BY <1>6, <1>9, <2>1, <2>3, <3>3 DEF NodeInv, JobAt
    <3> QED
      BY <1>7, <2>3, <3>1, <3>2, <3>3
  <2> QED
    BY <2>2, <2>3
<1> QED
  BY <1>8, <1>9

\* ... and so is the run; what is not told by an event of its own is out of date.
LEMMA JobBeginsRun ==
  ASSUME IInv, FormInv, RunInv, TokensInv, JobBegins
  PROVE  RunInv' /\ TokensInv'
<1>1. /\ job = <<>> /\ UNCHANGED <<repo, log, handler, next, snap, view, call>>
      /\ raced \subseteq raced' /\ Ahead(job') \cap Ahead(handler.ops) \subseteq raced'
      /\ \/ \E n \in Nodes : job' \in Rest(n, repo.node[n])
         \/ \E n \in Nodes : job' = <<Publish("status", n, "failed_check")>> /\ n \in raced'
         \/ \E m \in Nodes \ {Root} : job' = Creation(m) /\ ~ Made(m)
         \/ \E n \in Nodes : job' = Pruning(n)
         \/ job' = Charge
         \/ \E s \in RunStatus : job' = Setting(s)
         \/ job' = <<Write("run", None, "failed"), Publish("run", None, None)>> /\ "run" \in raced'
  BY JobBeginsDoes
<1>2. "run" \notin Ahead(job) /\ "run" \notin Nodes /\ "tokens" \notin Nodes /\ Ahead(job) = {}
  BY <1>1, AheadIs, ConstantsAssumption DEF ConstantsAssumption
<1>3. (HandlerTells <=> HandlerTells') /\ (RunTold <=> RunTold')
  BY <1>1 DEF HandlerTells, RunTold, Future, BaseRun
<1>4. JobForm'
  BY JobBeginsForm DEF FormInv
<1>5. RunInv'
  <2>1. SUFFICES ASSUME "run" \notin Off' PROVE RunInv'
    BY DEF RunInv
  <2>2. "run" \notin Off /\ "run" \notin raced'
    BY <1>1, <2>1 DEF Off
  <2>3. CASE "run" \notin Ahead(job')
    BY <1>1, <1>2, <1>3, <2>2, <2>3 DEF RunInv
  <2>4. CASE "run" \in Ahead(job')
    <3>1. ~ HandlerTells
      BY <1>1, <2>2, <2>4, HandlerTellsRun
    <3>2. RunTold'
      BY <1>2, <1>3, <2>2, <3>1 DEF RunInv
    <3>3. \E s \in RunStatus : job' = Setting(s)
      <4>1. \A n \in Nodes : job' \notin Rest(n, repo.node[n])
        BY <1>2, <2>4, AheadForms
      <4>2. \A n \in Nodes : job' # <<Publish("status", n, "failed_check")>>
        BY <1>2, <2>4, BeginsAhead
      <4>3. \A n \in Nodes : job' # Creation(n)
        <5>1. \A n \in Nodes : Ahead(Creation(n)) = {n}
          BY AheadForms
        <5> QED
          BY <1>2, <2>4, <5>1
      <4>4. \A n \in Nodes : job' # Pruning(n)
        BY <1>2, <2>4, AheadForms, BelowType
      <4>5. job' # Charge
        BY <2>4, AheadForms
      <4> QED
        BY <1>1, <2>2, <4>1, <4>2, <4>3, <4>4, <4>5
    <3> QED
      BY <2>4, <3>2, <3>3 DEF RunInv
  <2> QED
    BY <2>3, <2>4
<1>6. TokensInv'
  <2>1. job # Tail(Charge)
    BY <1>1, ChargeSteps
  <2>2. job' # Tail(Charge)
    <3>1. SUFFICES ASSUME job' = Tail(Charge) PROVE FALSE
      OBVIOUS
    <3>2. Ahead(job') = {"tokens"} /\ Head(job').do = "publish" /\ Head(job').kind = "tokens"
      <4>1. Head(Tail(Charge)).do = "publish" /\ Head(Tail(Charge)).kind = "tokens"
        BY ChargeSteps DEF Publish, Op
      <4> QED
        BY <3>1, <4>1, AheadForms
    <3>3. \A n \in Nodes : job' \notin Rest(n, repo.node[n])
      BY <1>2, <3>2, AheadForms
    <3>4. \A n \in Nodes : job' # <<Publish("status", n, "failed_check")>>
      BY <1>2, <3>2, BeginsAhead
    <3>5. \A n \in Nodes : job' # Creation(n)
      BY <1>2, <3>2, AheadForms
    <3>6. \A n \in Nodes : job' # Pruning(n)
      BY <1>2, <3>2, AheadForms, BelowType
    <3>7. job' # Charge
      BY <3>1, ChargeSteps
    <3>8. \A s \in RunStatus : job' # Setting(s)
      BY <3>2, AheadForms
    <3>9. job' # <<Write("run", None, "failed"), Publish("run", None, None)>>
      BY <3>2, BeginsAhead
    <3> QED
      BY <1>1, <3>3, <3>4, <3>5, <3>6, <3>7, <3>8, <3>9
  <2> QED
    BY <1>1, <2>1, <2>2 DEF TokensInv, Off, Future
<1> QED
  BY <1>5, <1>6

\* The job that begins something keeps the invariant.
LEMMA JobBeginsSettles ==
  ASSUME IInv, SettlingInv, JobBegins
  PROVE  SettlingInv'
BY JobBeginsForm, JobBeginsHistory, JobBeginsNodes, JobBeginsRun
DEF SettlingInv, FormInv, HistoryInv, FutureInv
-----------------------------------------------------------------------------
(* The handler.                                                            *)

\* The server takes up the user's call, or refuses it.
LEMMA HandleDoes ==
  ASSUME IInv, Handle
  PROVE  /\ UNCHANGED <<repo, log, job, next, snap, view, call, done>>
         /\ ~ Busy /\ handler.ops = <<>> /\ call.kind # None
         /\ call.kind \in {"retry", "skip", "delete"} /\ call.node \in Nodes
         /\ \/ ~ Busy' /\ (handler.ops)' = <<>> /\ (handler.answer)' = "refused" /\ raced' = raced
            \/ /\ (handler.answer)' = "working" /\ raced' = raced \cup (Ahead((handler.ops)') \cap Ahead(job))
               /\ IF call.kind = "delete" THEN (handler.ops)' = Deletion(call.node) /\ repo.node[call.node] # Absent
                  ELSE (handler.ops)' \in Before(call.node, TargetOf(call.kind))
<1>1. /\ call.kind # None /\ handler = NoHandler
      /\ UNCHANGED <<repo, log, job, next, snap, view, call, done>>
  BY DEF Handle
<1>2. ~ Busy /\ handler.ops = <<>>
  BY <1>1 DEF NoHandler, Busy
<1>3. call.kind \in {"retry", "skip", "delete"} /\ call.node \in Nodes
  BY <1>1 DEF IInv, PageInv, Calls
<1>4. CASE Refused(call.kind, call.node)
  <2>1. handler' = [NoHandler EXCEPT !.answer = "refused"] /\ raced' = raced
    BY <1>4 DEF Handle
  <2>2. (handler.answer)' = "refused" /\ (handler.ops)' = <<>>
    BY <2>1 DEF NoHandler
  <2> QED
    BY <1>1, <1>2, <1>3, <2>1, <2>2 DEF Busy
<1>5. CASE ~ Refused(call.kind, call.node)
  <2> DEFINE ops == HandlerOps(call.kind, call.node)
  <2>1. handler' = [ops |-> ops, answer |-> "working"] /\ raced' = raced \cup (Ahead(ops) \cap Ahead(job))
    BY <1>5 DEF Handle
  <2>2. IF call.kind = "delete" THEN ops = Deletion(call.node)
        ELSE ops \in Before(call.node, TargetOf(call.kind))
    BY <1>3, HandlerOpsForms
  <2>3. call.kind = "delete" => repo.node[call.node] # Absent
    BY <1>5 DEF Refused
  <2> HIDE DEF ops
  <2>4. (handler.ops)' = ops /\ (handler.answer)' = "working"
    BY <2>1
  <2> QED
    BY <1>1, <1>2, <1>3, <2>1, <2>2, <2>3, <2>4
<1> QED
  BY <1>4, <1>5

\* The operations of a handler begin in one of their forms.
LEMMA HandleForm ==
  ASSUME IInv, FormInv, HistoryInv, Handle
  PROVE  FormInv' /\ HistoryInv'
<1>1. /\ UNCHANGED <<repo, log, job, next, snap, view, call, done>>
      /\ ~ Busy /\ handler.ops = <<>> /\ call.kind # None
      /\ call.kind \in {"retry", "skip", "delete"} /\ call.node \in Nodes
      /\ \/ ~ Busy' /\ (handler.ops)' = <<>> /\ (handler.answer)' = "refused" /\ raced' = raced
         \/ /\ (handler.answer)' = "working" /\ raced' = raced \cup (Ahead((handler.ops)') \cap Ahead(job))
            /\ IF call.kind = "delete" THEN (handler.ops)' = Deletion(call.node) /\ repo.node[call.node] # Absent
               ELSE (handler.ops)' \in Before(call.node, TargetOf(call.kind))
  BY HandleDoes
<1>2. raced \subseteq raced'
  BY <1>1
<1>3. JobForm'
  BY <1>1, <1>2 DEF FormInv, JobForm, StatusJob
<1>4. HandlerForm'
  BY <1>1 DEF FormInv, HandlerForm
<1>5. Apart'
  <2>1. CASE (handler.ops)' = <<>>
    BY <2>1, AheadIs DEF Apart
  <2>2. CASE raced' = raced \cup (Ahead((handler.ops)') \cap Ahead(job))
    BY <1>1, <2>2 DEF Apart
  <2> QED
    BY <1>1, <2>1, <2>2
<1>6. call.kind \in {"delete"} /\ Busy' => (handler.ops)' # <<>> /\ repo.node[call.node] # Absent
  BY <1>1, DeletionSteps
<1>7. DeletionInv'
  BY <1>1, <1>6 DEF DeletionInv
<1>8. MadeInv'
  BY <1>1 DEF HistoryInv, MadeInv, Made
<1>9. ShownInv'
  BY <1>1, <1>2 DEF HistoryInv, ShownInv
<1>10. Busy' /\ call.kind # "delete" => (handler.ops)' # <<>>
  <2>1. ASSUME Busy', call.kind # "delete" PROVE (handler.ops)' # <<>>
    BY <1>1, <2>1, BeforeSteps
  <2> QED
    BY <2>1
<1>11. OwnInv'
  <2>1. call.kind \in {"retry", "skip"} /\ call.heard = {} => view.node[call.node] = "running"
    BY DEF HistoryInv, OwnInv
  <2>2. call.kind \in {"retry", "skip"} => ~ (Busy' /\ (handler.ops)' = <<>>)
    BY <1>10
  <2> QED
    BY <1>1, <2>1, <2>2 DEF OwnInv
<1> QED
  BY <1>3, <1>4, <1>5, <1>7, <1>8, <1>9, <1>11 DEF FormInv, HistoryInv

\* The handler begins at a node that is told.
LEMMA HandleFuture ==
  ASSUME IInv, FutureInv, Handle
  PROVE  FutureInv'
<1>1. /\ UNCHANGED <<repo, log, job, next, snap, view, call, done>>
      /\ ~ Busy /\ handler.ops = <<>> /\ call.kind # None
      /\ call.kind \in {"retry", "skip", "delete"} /\ call.node \in Nodes
      /\ \/ ~ Busy' /\ (handler.ops)' = <<>> /\ (handler.answer)' = "refused" /\ raced' = raced
         \/ /\ (handler.answer)' = "working" /\ raced' = raced \cup (Ahead((handler.ops)') \cap Ahead(job))
            /\ IF call.kind = "delete" THEN (handler.ops)' = Deletion(call.node) /\ repo.node[call.node] # Absent
               ELSE (handler.ops)' \in Before(call.node, TargetOf(call.kind))
  BY HandleDoes
<1>2. raced \subseteq raced' /\ Off \subseteq Off'
  BY <1>1 DEF Off
<1>3. \A x : (Told(x) <=> Told(x)') /\ (JobAt(x) <=> JobAt(x)')
  BY <1>1 DEF Told, Gone, Present, Current, Future, Base, Optimistic, JobAt
<1>4. NodesInv'
  <2>1. SUFFICES ASSUME NEW x \in Nodes, x \notin Off' PROVE NodeInv(x)'
    BY DEF NodesInv
  <2>2. ~ HandlerOn(x) /\ x \notin raced' /\ x \in Nodes \ Off
    BY <1>1, <1>2, <2>1 DEF HandlerOn, Off
  <2>3. NodeInv(x)
    BY <2>2 DEF FutureInv, NodesInv
  <2>4. IF x \in Ahead(job) THEN JobAt(x) ELSE Told(x)
    BY <2>2, <2>3 DEF NodeInv
  <2>5. CASE ~ HandlerOn(x)'
    BY <1>1, <1>3, <2>4, <2>5 DEF NodeInv
  <2>6. CASE HandlerOn(x)'
    <3>1. /\ raced' = raced \cup (Ahead((handler.ops)') \cap Ahead(job))
          /\ IF call.kind = "delete" THEN (handler.ops)' = Deletion(call.node)
             ELSE (handler.ops)' \in Before(call.node, TargetOf(call.kind))
      BY <1>1, <2>6 DEF HandlerOn
    <3>2. x \in Ahead((handler.ops)')
      <4>1. CASE call.kind = "delete"
        BY <1>1, <2>6, <3>1, <4>1, DeletionSteps DEF HandlerOn
      <4>2. CASE call.kind # "delete"
        BY <1>1, <2>6, <3>1, <4>2, BeforeSteps DEF HandlerOn
      <4> QED
        BY <4>1, <4>2
    <3>3. Told(x)'
      BY <1>3, <2>2, <2>4, <3>1, <3>2
    <3>4. HandlerAt(x)'
      <4>1. CASE call.kind = "delete"
        BY <1>1, <3>1, <3>3, <4>1, DeletionSteps DEF HandlerAt
      <4>2. CASE call.kind # "delete"
        BY <1>1, <3>1, <3>3, <4>2 DEF HandlerAt
      <4> QED
        BY <4>1, <4>2
    <3> QED
      BY <2>6, <3>4 DEF NodeInv
  <2> QED
    BY <2>5, <2>6
<1>5. ~ HandlerTells
  BY <1>1 DEF HandlerTells
<1>6. ~ HandlerTells'
  <2>1. SUFFICES ASSUME HandlerTells' PROVE FALSE
    OBVIOUS
  <2>2. Len((handler.ops)') = 2 /\ Head((handler.ops)').kind = "run"
    BY <2>1 DEF HandlerTells, Publish, Op
  <2>3. (handler.ops)' # <<>>
    BY <2>2
  <2>4. CASE call.kind = "delete"
    <3>1. (handler.ops)' = Deletion(call.node)
      BY <1>1, <2>3, <2>4
    <3>2. Head((handler.ops)') = Write("pruned", call.node, None)
      BY <1>1, <3>1, DeletionSteps
    <3> QED
      BY <2>2, <3>2 DEF Write, Op
  <2>5. CASE call.kind # "delete"
    <3>1. (handler.ops)' \in Before(call.node, TargetOf(call.kind))
      BY <1>1, <2>3, <2>5
    <3>2. Head((handler.ops)') = Write("status", call.node, TargetOf(call.kind))
      BY <1>1, <3>1, BeforeSteps
    <3> QED
      BY <2>2, <3>2 DEF Write, Op
  <2> QED
    BY <2>4, <2>5
<1>7. RunTold <=> RunTold'
  BY <1>1 DEF RunTold, Future, BaseRun
<1>8. RunInv'
  BY <1>1, <1>2, <1>5, <1>6, <1>7 DEF FutureInv, RunInv
<1>9. TokensInv'
  BY <1>1, <1>2 DEF FutureInv, TokensInv, Future
<1> QED
  BY <1>4, <1>8, <1>9 DEF FutureInv

\* Taking up a call keeps the invariant.
LEMMA HandleSettles ==
  ASSUME IInv, SettlingInv, Handle
  PROVE  SettlingInv'
BY HandleForm, HandleFuture DEF SettlingInv

\* What the handler of the call does next.
LEMMA HandlerStepDoes ==
  ASSUME IInv, CallInv, HandlerStep
  PROVE  /\ UNCHANGED <<job, next, snap, view, call, done>>
         /\ handler.answer = "working" /\ Busy
         /\ call.kind \in {"retry", "skip", "delete"} /\ call.node \in Nodes
         /\ handler.ops \in Seq(RightOps) /\ raced \subseteq raced'
         /\ \/ /\ handler.ops = <<>> /\ (handler.ops)' = <<>> /\ UNCHANGED <<repo, log, raced>>
               /\ (handler.answer)' \in {"accepted", "refused"}
               /\ call.kind = "delete" => (handler.answer)' = "accepted"
            \/ /\ handler.ops # <<>> /\ Fails(Head(handler.ops)) /\ UNCHANGED <<repo, log>>
               /\ (handler.ops)' = <<>> /\ (handler.answer)' = "refused"
               /\ Head(handler.ops).kind = "run" => call.node \in raced'
            \/ /\ handler.ops # <<>> /\ ~ Fails(Head(handler.ops)) /\ Perform(Head(handler.ops))
               /\ (handler.ops)' = Tail(handler.ops) /\ (handler.answer)' = "working"
               /\ Adrift(repo') \subseteq raced'
<1>1. /\ handler.answer = "working" /\ UNCHANGED <<job, next, snap, view, call, done>>
  BY DEF HandlerStep
<1>2. /\ handler \in Handlers /\ handler.ops \in Seq(RightOps)
  BY DEF IInv, ServerInv, Handlers
<1>3. call.kind \in {"retry", "skip", "delete"} /\ call.node \in Nodes /\ Busy
  BY <1>1 DEF IInv, PageInv, Calls, CallInv, Busy
<1>4. CASE handler.ops = <<>>
  <2>1. /\ UNCHANGED <<repo, log, raced>>
        /\ \E a \in {"accepted"} \cup (IF call.kind = "retry" THEN {"refused"} ELSE {}) :
             handler' = [handler EXCEPT !.answer = a]
    BY <1>4 DEF HandlerStep
  <2>2. PICK a \in {"accepted"} \cup (IF call.kind = "retry" THEN {"refused"} ELSE {}) :
          handler' = [handler EXCEPT !.answer = a]
    BY <2>1
  <2>3. (handler.ops)' = <<>> /\ (handler.answer)' = a
    BY <1>2, <1>4, <2>2 DEF Handlers
  <2>4. a \in {"accepted", "refused"} /\ (call.kind = "delete" => a = "accepted")
    BY <2>2
  <2> QED
    BY <1>1, <1>2, <1>3, <1>4, <2>1, <2>3, <2>4
<1>5. CASE handler.ops # <<>> /\ Fails(Head(handler.ops))
  <2>1. /\ handler' = [NoHandler EXCEPT !.answer = "refused"] /\ UNCHANGED <<repo, log>>
        /\ raced' = raced \cup (IF Head(handler.ops).kind = "run" THEN {call.node} ELSE {})
    BY <1>5 DEF HandlerStep
  <2>2. (handler.ops)' = <<>> /\ (handler.answer)' = "refused"
    BY <2>1 DEF NoHandler
  <2> QED
    BY <1>1, <1>2, <1>3, <1>5, <2>1, <2>2
<1>6. CASE handler.ops # <<>> /\ ~ Fails(Head(handler.ops))
  <2>1. /\ handler' = [handler EXCEPT !.ops = Tail(@)] /\ Perform(Head(handler.ops)) /\ raced' = raced \cup Adrift(repo')
    BY <1>6 DEF HandlerStep
  <2>2. (handler.ops)' = Tail(handler.ops) /\ (handler.answer)' = "working"
    BY <1>1, <1>2, <2>1 DEF Handlers
  <2> QED
    BY <1>1, <1>2, <1>3, <1>6, <2>1, <2>2
<1> QED
  BY <1>4, <1>5, <1>6

\* The operations of a handler, from the first to the last.
LEMMA HandlerHeads ==
  ASSUME HandlerForm, handler.answer = "working", handler.ops # <<>>, call.node \in Nodes
  PROVE  \/ /\ call.kind = "delete" /\ handler.ops = Deletion(call.node)
            /\ Head(handler.ops) = Write("pruned", call.node, None)
            /\ Tail(handler.ops) = Tail(Deletion(call.node))
         \/ /\ call.kind = "delete" /\ handler.ops = Tail(Deletion(call.node))
            /\ Head(handler.ops) = Write("delete", call.node, None) /\ Tail(handler.ops) = <<>>
         \/ /\ call.kind # "delete" /\ handler.ops \in Before(call.node, TargetOf(call.kind))
            /\ Head(handler.ops) = Write("status", call.node, TargetOf(call.kind))
            /\ Tail(handler.ops) \in After(call.node, TargetOf(call.kind)) /\ Len(Tail(handler.ops)) # 2
         \/ /\ call.kind # "delete" /\ handler.ops \in After(call.node, TargetOf(call.kind))
            /\ \/ /\ Head(handler.ops) = Write("run", None, "running")
                  /\ Tail(handler.ops) \in After(call.node, TargetOf(call.kind)) /\ "run" \in Ahead(handler.ops)
                  /\ Len(Tail(handler.ops)) = 2 /\ Head(Tail(handler.ops)) = Publish("run", None, "running")
               \/ /\ Head(handler.ops) = Publish("run", None, "running") /\ "run" \in Ahead(handler.ops)
                  /\ Tail(handler.ops) \in After(call.node, TargetOf(call.kind))
                  /\ Len(handler.ops) = 2 /\ Len(Tail(handler.ops)) = 1
               \/ /\ Head(handler.ops) = Publish("intervention", call.node, TargetOf(call.kind))
                  /\ Tail(handler.ops) = <<>>
<1> DEFINE n == call.node
           t == TargetOf(call.kind)
           p == handler.ops
<1>1. IF call.kind = "delete" THEN p \in {Deletion(n), Tail(Deletion(n))} ELSE p \in Before(n, t) \cup After(n, t)
  BY DEF HandlerForm
<1> HIDE DEF t, p
<1>2. CASE call.kind = "delete"
  <2>1. CASE p = Deletion(n)
    <3>1. Head(p) = Write("pruned", n, None) /\ Tail(p) = Tail(Deletion(n))
      BY <2>1, DeletionSteps
    <3> QED
      BY <1>2, <2>1, <3>1 DEF p
  <2>2. CASE p = Tail(Deletion(n))
    <3>1. Head(p) = Write("delete", n, None) /\ Tail(p) = <<>>
      BY <2>2, DeletionSteps
    <3> QED
      BY <1>2, <2>2, <3>1 DEF p
  <2> QED
    BY <1>1, <1>2, <2>1, <2>2
<1>3. CASE call.kind # "delete"
  <2>1. CASE p \in Before(n, t)
    <3>1. Head(p) = Write("status", n, t) /\ Tail(p) \in After(n, t) /\ Len(Tail(p)) # 2
      BY <2>1, BeforeSteps
    <3> QED
      BY <1>3, <2>1, <3>1 DEF p, t
  <2>2. CASE p \in After(n, t)
    <3>1. \/ /\ Head(p) = Write("run", None, "running") /\ Tail(p) \in After(n, t)
             /\ Len(p) = 3 /\ Head(Tail(p)) = Publish("run", None, "running") /\ Len(Tail(p)) = 2
             /\ "run" \in Ahead(p)
          \/ /\ Head(p) = Publish("run", None, "running") /\ Tail(p) \in After(n, t)
             /\ Len(p) = 2 /\ Len(Tail(p)) = 1 /\ "run" \in Ahead(p)
          \/ Head(p) = Publish("intervention", n, t) /\ Tail(p) = <<>> /\ Len(p) = 1
      BY <2>2, AfterSteps
    <3> QED
      BY <1>3, <2>2, <3>1 DEF p, t
  <2> QED
    BY <1>1, <1>3, <2>1, <2>2
<1> QED
  BY <1>2, <1>3

\* The handler's operation is about what it is on, or about the run; it creates nothing.
LEMMA HandlerTouches ==
  ASSUME HandlerForm, handler.answer = "working", handler.ops # <<>>, call.node \in Nodes
  PROVE  /\ Head(handler.ops).kind \in {"pruned", "delete", "status", "run", "intervention"}
         /\ \A x \in Nodes : x \in About(Head(handler.ops)) => HandlerOn(x)
         /\ Head(handler.ops).do = "publish" =>
              \/ Head(handler.ops).kind = "run"
              \/ Head(handler.ops).kind = "intervention" /\ Tail(handler.ops) = <<>>
                 /\ Head(handler.ops).node = call.node /\ Head(handler.ops).status = TargetOf(call.kind)
         /\ Head(handler.ops).kind = "intervention" => Head(handler.ops).do = "publish"
<1> DEFINE n == call.node
           t == TargetOf(call.kind)
           op == Head(handler.ops)
<1>1. \/ call.kind = "delete" /\ op = Write("pruned", n, None)
      \/ call.kind = "delete" /\ op = Write("delete", n, None)
      \/ call.kind # "delete" /\ op = Write("status", n, t)
      \/ call.kind # "delete" /\ op = Write("run", None, "running")
      \/ call.kind # "delete" /\ op = Publish("run", None, "running")
      \/ call.kind # "delete" /\ op = Publish("intervention", n, t) /\ Tail(handler.ops) = <<>>
  BY HandlerHeads
<1> HIDE DEF t, op
<1>2. op.kind \in {"pruned", "delete", "status", "run", "intervention"}
  BY <1>1 DEF Write, Publish, Op
<1>3. /\ op.do = "publish" =>
           \/ op.kind = "run"
           \/ op.kind = "intervention" /\ Tail(handler.ops) = <<>> /\ op.node = n /\ op.status = t
      /\ op.kind = "intervention" => op.do = "publish"
  BY <1>1 DEF Write, Publish, Op
<1>4. ASSUME NEW x \in Nodes, x \in About(op) PROVE HandlerOn(x)
  <2>1. x # "run" /\ Busy
    BY ConstantsAssumption DEF ConstantsAssumption, Busy
  <2>2. CASE call.kind = "delete"
    <3>1. About(op) \subseteq Subtree(n)
      BY <1>1, <2>2, DeletionSteps, NotBelowItself
    <3> QED
      BY <1>4, <2>1, <2>2, <3>1 DEF HandlerOn
  <2>3. CASE call.kind # "delete"
    <3>1. About(op) \subseteq {n, "run"}
      BY <1>1, <2>3 DEF About, Write, Publish, Op
    <3> QED
      BY <1>4, <2>1, <2>3, <3>1 DEF HandlerOn
  <2> QED
    BY <2>2, <2>3
<1> QED
  BY <1>2, <1>3, <1>4 DEF op, t

\* The handler's step leaves an expected rest, and a deleted node stays deleted.
LEMMA HandlerStepForm ==
  ASSUME IInv, CallInv, FormInv, HandlerStep
  PROVE  FormInv'
<1> DEFINE op == Head(handler.ops)
           n == call.node
           t == TargetOf(call.kind)
<1>1. /\ UNCHANGED <<job, next, snap, view, call, done>>
      /\ handler.answer = "working" /\ Busy
      /\ call.kind \in {"retry", "skip", "delete"} /\ call.node \in Nodes
      /\ handler.ops \in Seq(RightOps) /\ raced \subseteq raced'
      /\ \/ /\ handler.ops = <<>> /\ (handler.ops)' = <<>> /\ UNCHANGED <<repo, log, raced>>
            /\ (handler.answer)' \in {"accepted", "refused"}
         \/ /\ handler.ops # <<>> /\ UNCHANGED <<repo, log>>
            /\ (handler.ops)' = <<>> /\ (handler.answer)' = "refused"
         \/ /\ handler.ops # <<>> /\ ~ Fails(op) /\ Perform(op)
            /\ (handler.ops)' = Tail(handler.ops) /\ (handler.answer)' = "working"
  BY HandlerStepDoes
<1>2. JobForm /\ HandlerForm /\ Apart /\ DeletionInv
  BY DEF FormInv
<1>3. JobForm'
  BY <1>1, <1>2 DEF JobForm, StatusJob
<1>4. handler.ops # <<>> =>
        /\ call.kind = "delete" => Tail(handler.ops) \in {Tail(Deletion(n)), <<>>}
        /\ call.kind # "delete" => Tail(handler.ops) \in After(n, t) \cup {<<>>}
  <2>1. ASSUME handler.ops # <<>>
        PROVE  /\ call.kind = "delete" => Tail(handler.ops) \in {Tail(Deletion(n)), <<>>}
               /\ call.kind # "delete" => Tail(handler.ops) \in After(n, t) \cup {<<>>}
    BY <1>1, <1>2, <2>1, HandlerHeads
  <2> QED
    BY <2>1
<1> HIDE DEF op, t
<1>5. HandlerForm'
  <2>1. call.kind # None => snap.at = "shown"
    BY <1>2 DEF HandlerForm
  <2>2. (handler.answer)' # "working" => (handler.ops)' = <<>>
    BY <1>1
  <2>3. (handler.answer)' = "working" =>
          IF call.kind = "delete" THEN (handler.ops)' \in {Deletion(n), Tail(Deletion(n)), <<>>}
          ELSE (handler.ops)' \in Before(n, t) \cup After(n, t) \cup {<<>>}
    BY <1>1, <1>4
  <2> QED
    BY <1>1, <2>1, <2>2, <2>3 DEF HandlerForm, t
<1>6. Ahead((handler.ops)') \subseteq Ahead(handler.ops)
  <2>1. CASE (handler.ops)' = <<>>
    BY <2>1, AheadIs
  <2>2. CASE handler.ops # <<>> /\ (handler.ops)' = Tail(handler.ops)
    BY <1>1, <2>2, AheadTail
  <2> QED
    BY <1>1, <2>1, <2>2
<1>7. Apart'
  BY <1>1, <1>2, <1>6 DEF Apart
<1>8. ASSUME call.kind = "delete", Busy', (handler.ops)' # <<>>, (repo.node)'[n] = Absent
      PROVE  Subtree(n) \subseteq raced'
  <2>1. /\ handler.ops # <<>> /\ ~ Fails(op) /\ Perform(op) /\ (handler.ops)' = Tail(handler.ops)
    BY <1>1, <1>8
  <2>2. handler.ops = Deletion(n) /\ op = Write("pruned", n, None)
    BY <1>1, <1>2, <1>8, <2>1, HandlerHeads DEF op
  <2>3. op \in RightOps /\ op.do = "write" /\ op.kind = "pruned" /\ About(op) = Below(n)
    BY <1>1, <2>1, <2>2, AheadTail, RightWrites, DeletionSteps DEF Write, Op
  <2>4. repo' = Written(op) /\ repo \in Repos
    BY <2>1, <2>3, PerformDoes DEF IInv, ServerInv
  <2>5. (repo.node)'[n] = repo.node[n]
    BY <1>1, <2>3, <2>4, NotBelowItself, WrittenIs
  <2> QED
    BY <1>1, <1>2, <1>8, <2>1, <2>5 DEF DeletionInv
<1>9. ASSUME call.kind = "delete", Busy', (handler.ops)' = <<>>
      PROVE  (repo.node)'[n] = Absent
  <2>1. CASE handler.ops = <<>>
    BY <1>1, <1>2, <1>9, <2>1 DEF DeletionInv
  <2>2. CASE handler.ops # <<>>
    <3>1. /\ ~ Fails(op) /\ Perform(op) /\ (handler.ops)' = Tail(handler.ops)
      BY <1>1, <1>9, <2>2 DEF Busy
    <3>2. op = Write("delete", n, None)
      BY <1>1, <1>2, <1>9, <2>2, <3>1, HandlerHeads, DeletionSteps DEF op
    <3>3. op \in RightOps /\ op.do = "write" /\ op.kind = "delete" /\ op.node = n
      BY <1>1, <3>2, RightWrites, DeletionSteps, NotBelowItself DEF Write, Op
    <3>4. repo' = Written(op) /\ repo \in Repos
      BY <3>1, <3>3, PerformDoes DEF IInv, ServerInv
    <3> QED
      BY <1>1, <3>3, <3>4, WrittenIs
  <2> QED
    BY <2>1, <2>2
<1>10. DeletionInv'
  BY <1>1, <1>8, <1>9 DEF DeletionInv
<1> QED
  BY <1>3, <1>5, <1>7, <1>10 DEF FormInv

\* The last event of an intervention is the handler's own.
LEMMA HandlerStepHistory ==
  ASSUME IInv, CallInv, HandlerForm, HistoryInv, HandlerStep
  PROVE  HistoryInv'
<1> DEFINE op == Head(handler.ops)
<1>1. /\ UNCHANGED <<job, next, snap, view, call, done>>
      /\ handler.answer = "working" /\ Busy
      /\ call.kind \in {"retry", "skip", "delete"} /\ call.node \in Nodes
      /\ handler.ops \in Seq(RightOps) /\ raced \subseteq raced'
      /\ \/ /\ handler.ops = <<>> /\ (handler.ops)' = <<>> /\ UNCHANGED <<repo, log, raced>>
         \/ /\ handler.ops # <<>> /\ UNCHANGED <<repo, log>> /\ ~ Busy'
         \/ /\ handler.ops # <<>> /\ ~ Fails(op) /\ Perform(op)
            /\ (handler.ops)' = Tail(handler.ops)
  BY HandlerStepDoes DEF Busy
<1>2. MadeInv /\ ShownInv /\ OwnInv
  BY DEF HistoryInv
<1>3. handler.ops # <<>> =>
        /\ op \in RightOps /\ op.kind \in {"pruned", "delete", "status", "run", "intervention"}
        /\ op.do = "publish" => op.kind = "run" \/ (op.kind = "intervention" /\ Tail(handler.ops) = <<>>
                                                     /\ op.node = call.node /\ op.status = TargetOf(call.kind))
        /\ op.kind = "intervention" => op.do = "publish"
  <2>1. ASSUME handler.ops # <<>>
        PROVE  /\ op \in RightOps /\ op.kind \in {"pruned", "delete", "status", "run", "intervention"}
               /\ op.do = "publish" => op.kind = "run" \/ (op.kind = "intervention" /\ Tail(handler.ops) = <<>>
                                                            /\ op.node = call.node /\ op.status = TargetOf(call.kind))
               /\ op.kind = "intervention" => op.do = "publish"
    <3>1. op \in RightOps
      BY <1>1, <2>1
    <3> QED
      BY <1>1, <2>1, <3>1, HandlerTouches
  <2> QED
    BY <2>1
<1>4. log \in Seq(RightOps) /\ Len(log) \in Nat /\ next \in Nat /\ next <= Len(log) + 1 /\ repo \in Repos
  BY EventsAre DEF IInv, ServerInv
<1> HIDE DEF op
<1>5. /\ log' = log \/ (handler.ops # <<>> /\ (handler.ops)' = Tail(handler.ops)
                        /\ op.do = "publish" /\ op \in RightOps /\ log' = Append(log, op))
      /\ \A x \in Nodes : repo.node[x] = Absent => (repo.node)'[x] = Absent
  <2>1. CASE UNCHANGED <<repo, log>>
    BY <2>1
  <2>2. CASE handler.ops # <<>> /\ ~ Fails(op) /\ Perform(op) /\ (handler.ops)' = Tail(handler.ops)
    <3>1. CASE op.do = "publish"
      BY <1>3, <2>2, <3>1, PerformDoes
    <3>2. CASE op.do = "write"
      <4>1. repo' = Written(op) /\ log' = log
        BY <1>3, <2>2, <3>2, PerformDoes
      <4>2. ASSUME NEW x \in Nodes, repo.node[x] = Absent PROVE (repo.node)'[x] = Absent
        <5>1. /\ (repo.node)'[x] \in {repo.node[x], IF op.kind \in {"pruned", "delete"} THEN Absent ELSE op.status}
              /\ x \notin About(op) => (repo.node)'[x] = repo.node[x]
          BY <1>3, <1>4, <2>2, <3>2, <4>1, WrittenIs
        <5>2. x \in About(op) => op.kind \in {"pruned", "delete"} \/ (op.kind = "status" /\ op.node = x)
          BY <1>3, <2>2, <3>2, AboutNode
        <5>3. ~ (op.kind = "status" /\ op.node = x)
          BY <2>2, <4>2 DEF Fails
        <5> QED
          BY <4>2, <5>1, <5>2, <5>3
      <4> QED
        BY <4>1, <4>2
    <3> QED
      BY <1>3, <2>2, <3>1, <3>2, PerformDoes
  <2> QED
    BY <1>1, <2>1, <2>2
<1>6. ASSUME NEW x \in Nodes PROVE Made(x) <=> Made(x)'
  <2>1. CASE log' = log
    BY <1>1, <2>1 DEF Made
  <2>2. CASE handler.ops # <<>> /\ op.do = "publish" /\ op \in RightOps /\ log' = Append(log, op)
    <3>1. /\ DOMAIN log' = 1..(Len(log) + 1) /\ DOMAIN log = 1..Len(log)
          /\ log'[Len(log) + 1] = op /\ \A i \in 1..Len(log) : log'[i] = log[i]
      BY <1>4, <2>2
    <3>2. op.kind # "created"
      BY <1>3, <2>2
    <3>3. \A i \in DOMAIN log' : i \in DOMAIN log \/ i = Len(log) + 1
      BY <1>4, <3>1
    <3>4. \A i \in DOMAIN log : i \in DOMAIN log' /\ log'[i] = log[i]
      BY <1>4, <3>1
    <3> QED
      BY <1>1, <3>1, <3>2, <3>3, <3>4 DEF Made
  <2> QED
    BY <1>5, <2>1, <2>2
<1>7. MadeInv'
  BY <1>1, <1>2, <1>5, <1>6 DEF MadeInv
<1>8. ShownInv'
  BY <1>1, <1>2 DEF ShownInv
<1>9. CASE op.kind = "intervention" /\ log' = Append(log, op) /\ handler.ops # <<>>
  <2>1. PICK k \in Nat : k = Len(log) + 1
    BY <1>4
  <2>2. k \in DOMAIN log' /\ log'[k] = op /\ \A i \in DOMAIN log' : ~ (i > k)
    <3>1. DOMAIN log' = 1..(Len(log) + 1) /\ log'[Len(log) + 1] = op
      BY <1>3, <1>4, <1>9
    <3> QED
      BY <1>4, <2>1, <3>1
  <2>3. op.node = call.node /\ op.status = TargetOf(call.kind)
    BY <1>3, <1>9
  <2>4. Own(k)'
    BY <1>1, <1>9, <2>2, <2>3 DEF Own
  <2>5. ~ (k < next)
    BY <1>4, <2>1
  <2>6. OwnInv'
    BY <1>1, <1>2, <2>2, <2>4, <2>5 DEF OwnInv
  <2> QED
    BY <1>7, <1>8, <2>6 DEF HistoryInv
<1>10. CASE ~ (op.kind = "intervention" /\ log' = Append(log, op) /\ handler.ops # <<>>)
  <2>1. log' = log \/ (log' = Append(log, op) /\ op.kind # "intervention")
    BY <1>5, <1>10
  <2>2. ASSUME call.kind \in {"retry", "skip"}, Busy', (handler.ops)' = <<>>
        PROVE  Busy /\ handler.ops = <<>> /\ log' = log
    <3>1. CASE handler.ops = <<>>
      BY <1>1, <1>5, <3>1
    <3>2. CASE handler.ops # <<>>
      <4>1. ~ Fails(op) /\ Perform(op) /\ Tail(handler.ops) = <<>>
        BY <1>1, <2>2, <3>2
      <4>2. op = Publish("intervention", call.node, TargetOf(call.kind))
        <5>1. \A m \in Nodes : \A s : \A p \in After(m, s) : p # <<>>
          BY AfterSteps
        <5> QED
          BY <1>1, <2>2, <3>2, <4>1, <5>1, HandlerHeads DEF op
      <4>3. op.kind = "intervention" /\ op.do = "publish"
        BY <4>2 DEF Publish, Op
      <4>4. log' = Append(log, op)
        BY <1>3, <3>2, <4>1, <4>3, PerformDoes
      <4> QED
        BY <1>10, <3>2, <4>3, <4>4
    <3> QED
      BY <3>1, <3>2
  <2>3. OwnInv'
    <3>1. call.kind \in {"retry", "skip"} /\ call.heard = {} => view.node[call.node] = "running"
      BY <1>2 DEF OwnInv
    <3>2. ASSUME call.kind \in {"retry", "skip"}, Busy', (handler.ops)' = <<>>
          PROVE  \E k \in DOMAIN log' : Own(k)' /\ (k < next =>
                   \/ "other" \in call.heard
                   \/ call.heard # {} /\ view.node[call.node] \in {TargetOf(call.kind), Absent})
      BY <1>1, <1>2, <2>2, <3>2 DEF OwnInv, Own
    <3> QED
      BY <1>1, <3>1, <3>2 DEF OwnInv
  <2> QED
    BY <1>7, <1>8, <2>3 DEF HistoryInv
<1> QED
  BY <1>9, <1>10

\* What the handler is on, it leaves in a state it may go on from, or told.
LEMMA HandlerWorks ==
  ASSUME IInv, CallInv, FormInv, HandlerStep, NEW x \in Nodes, x \notin raced', HandlerOn(x), HandlerAt(x)
  PROVE  IF HandlerOn(x)' THEN HandlerAt(x)' ELSE x \notin Ahead(job) /\ Told(x)'
<1> DEFINE op == Head(handler.ops)
           n == call.node
           t == TargetOf(call.kind)
<1>1. /\ UNCHANGED <<job, next, snap, view, call, done>>
      /\ handler.answer = "working" /\ Busy
      /\ call.kind \in {"retry", "skip", "delete"} /\ call.node \in Nodes
      /\ handler.ops \in Seq(RightOps) /\ raced \subseteq raced'
      /\ \/ /\ handler.ops = <<>> /\ (handler.ops)' = <<>> /\ UNCHANGED <<repo, log, raced>>
            /\ call.kind = "delete" => (handler.answer)' = "accepted"
         \/ /\ handler.ops # <<>> /\ Fails(op) /\ UNCHANGED <<repo, log>>
            /\ (handler.ops)' = <<>> /\ (handler.answer)' = "refused"
            /\ op.kind = "run" => n \in raced'
         \/ /\ handler.ops # <<>> /\ ~ Fails(op) /\ Perform(op)
            /\ (handler.ops)' = Tail(handler.ops) /\ (handler.answer)' = "working"
            /\ Adrift(repo') \subseteq raced'
  BY HandlerStepDoes
<1>2. HandlerForm /\ Apart /\ DeletionInv
  BY DEF FormInv
<1>3. repo \in Repos /\ repo.node[x] \in NodeStatus \cup {Absent} /\ x \notin raced
  BY <1>1 DEF IInv, ServerInv, Repos, NodeTables
<1>4. ASSUME handler.ops # <<>> PROVE x \notin Ahead(job) /\ op \in RightOps
  <2>1. x \in Ahead(handler.ops)
    BY <1>2, <1>4, HandlerIsAhead
  <2> QED
    BY <1>1, <1>2, <1>3, <1>4, <2>1 DEF Apart
<1>5. t \in {"running", "completed"} /\ t # Absent /\ Normalized(t) = t
  BY DEF TargetOf, Absent, Normalized, EventStatus
<1>6. CASE call.kind = "delete"
  <2>1. x \in Subtree(n)
    BY <1>6 DEF HandlerOn
  <2>2. CASE handler.ops = <<>>
    <3>1. (repo.node)'[x] = repo.node[x] /\ job' = job /\ (handler.ops)' = <<>> /\ call' = call
      BY <1>1, <2>2
    <3>2. HandlerOn(x)'
      BY <1>1, <1>6, <2>1, <2>2 DEF HandlerOn, Busy
    <3>3. HandlerAt(x)'
      BY <1>1, <1>6, <2>2, <3>1, DeletionSteps DEF HandlerAt
    <3> QED
      BY <3>2, <3>3
  <2>3. CASE handler.ops = Deletion(n)
    <3>1. handler.ops # <<>> /\ op = Write("pruned", n, None)
      BY <1>1, <2>3, DeletionSteps
    <3>2. op.do = "write" /\ op.kind = "pruned" /\ About(op) = Below(n) /\ ~ Fails(op)
      <4>1. op.do = "write" /\ op.kind = "pruned"
        BY <3>1 DEF Write, Op
      <4>2. About(op) = Below(n)
        BY <1>1, <3>1, DeletionSteps
      <4>3. ~ Fails(op)
        BY <4>1 DEF Fails
      <4> QED
        BY <4>1, <4>2, <4>3
    <3>3. /\ Perform(op) /\ (handler.ops)' = Tail(Deletion(n)) /\ (handler.answer)' = "working"
          /\ x \notin Adrift(repo')
      BY <1>1, <2>3, <3>1, <3>2
    <3>4. repo' = Written(op)
      BY <1>4, <3>1, <3>2, <3>3, PerformDoes
    <3>5. IF x = n THEN Told(x)' ELSE (repo.node)'[x] = Absent
      <4>1. CASE x = n
        <5>1. Told(x)
          BY <1>6, <2>3 DEF HandlerAt
        <5>2. x \notin About(op)
          BY <1>1, <3>2, <4>1, NotBelowItself
        <5> QED
          BY <1>1, <1>4, <3>1, <3>3, <4>1, <5>1, <5>2, Untouched
      <4>2. CASE x # n
        <5>1. x \in About(op)
          BY <2>1, <3>2, <4>2 DEF Subtree
        <5> QED
          BY <1>3, <1>4, <3>1, <3>2, <3>3, <3>4, <4>2, <5>1, WrittenIs
      <4> QED
        BY <4>1, <4>2
    <3>6. HandlerOn(x)'
      BY <1>1, <1>6, <2>1, <3>3 DEF HandlerOn, Busy
    <3>7. HandlerAt(x)'
      BY <1>1, <1>6, <3>3, <3>5, DeletionSteps DEF HandlerAt
    <3> QED
      BY <3>6, <3>7
  <2>4. CASE handler.ops = Tail(Deletion(n))
    <3>1. handler.ops # <<>> /\ op = Write("delete", n, None) /\ Tail(handler.ops) = <<>>
      BY <1>1, <2>4, DeletionSteps
    <3>2. op.do = "write" /\ op.kind = "delete" /\ About(op) = Subtree(n)
      <4>1. op.do = "write" /\ op.kind = "delete"
        BY <3>1 DEF Write, Op
      <4>2. About(op) = Subtree(n)
        BY <1>1, <3>1, DeletionSteps
      <4> QED
        BY <4>1, <4>2
    <3>3. ~ Fails(op)
      <4>1. SUFFICES ASSUME repo.node[n] = Absent PROVE FALSE
        BY <3>1 DEF Fails, Write, Op
      <4>2. Subtree(n) \subseteq raced
        BY <1>1, <1>2, <1>6, <3>1, <4>1 DEF DeletionInv
      <4> QED
        BY <1>3, <2>1, <4>2
    <3>4. Perform(op) /\ (handler.ops)' = <<>> /\ (handler.answer)' = "working" /\ x \notin Adrift(repo')
      BY <1>1, <3>1, <3>3
    <3>5. repo' = Written(op)
      BY <1>4, <3>1, <3>2, <3>4, PerformDoes
    <3>6. (repo.node)'[x] = Absent
      BY <1>3, <1>4, <2>1, <3>1, <3>2, <3>4, <3>5, WrittenIs
    <3>7. x \notin Ahead(job')
      BY <1>1, <1>4, <3>1
    <3>8. HandlerOn(x)'
      BY <1>1, <1>6, <2>1, <3>4 DEF HandlerOn, Busy
    <3>9. HandlerAt(x)'
      BY <1>1, <1>6, <3>4, <3>7, DeletionSteps DEF HandlerAt
    <3> QED
      BY <3>8, <3>9
  <2> QED
    BY <1>1, <1>2, <1>6, <2>2, <2>3, <2>4 DEF HandlerForm
<1>7. CASE call.kind # "delete"
  <2>1. x = n /\ handler.ops # <<>> /\ x \notin Ahead(job) /\ op \in RightOps
    BY <1>4, <1>7 DEF HandlerOn
  <2>2. CASE handler.ops \in Before(n, t)
    <3>1. Told(x)
      BY <1>7, <2>2 DEF HandlerAt
    <3>2. op = Write("status", n, t) /\ Tail(handler.ops) \in After(n, t)
      BY <1>1, <2>2, BeforeSteps
    <3>3. op.do = "write" /\ op.kind = "status" /\ op.node = n /\ op.status = t /\ About(op) = {n}
      BY <3>2 DEF Write, Op, About
    <3>4. CASE Fails(op)
      <4>1. (handler.ops)' = <<>> /\ UNCHANGED <<repo, log>>
        BY <1>1, <2>1, <3>4
      <4>2. ~ HandlerOn(x)'
        BY <1>1, <1>7, <4>1 DEF HandlerOn
      <4>3. Told(x)'
        BY <1>1, <1>3, <3>1, <4>1, WriteKeeps
      <4> QED
        BY <2>1, <4>2, <4>3
    <3>5. CASE ~ Fails(op)
      <4>1. Perform(op) /\ (handler.ops)' \in After(n, t) /\ (handler.answer)' = "working"
        BY <1>1, <2>1, <3>2, <3>5
      <4>2. repo.node[x] # Absent
        BY <2>1, <3>3, <3>5 DEF Fails
      <4>3. repo' = Written(op) /\ log' = log
        BY <2>1, <3>3, <4>1, PerformDoes
      <4>4. (repo.node)'[x] = t
        BY <1>3, <2>1, <3>3, <4>3, WrittenIs
      <4>5. t \in NodeStatus
        BY <1>5 DEF NodeStatus
      <4>6. Present(x)
        BY <3>1, <4>2 DEF Told
      <4>7. Present(x)'
        BY <1>1, <1>5, <4>3, <4>4, <4>5, <4>6, WriteKeeps
      <4>8. (handler.ops)' # <<>> /\ (handler.ops)' \notin Before(n, t)
        BY <1>1, <4>1, AfterSteps
      <4>9. HandlerOn(x)'
        BY <1>1, <1>7, <2>1, <4>1, <4>8 DEF HandlerOn, Busy
      <4>10. HandlerAt(x)'
        BY <1>1, <1>7, <4>4, <4>7, <4>8 DEF HandlerAt
      <4> QED
        BY <4>9, <4>10
    <3> QED
      BY <3>4, <3>5
  <2>3. CASE handler.ops \in After(n, t)
    <3>1. repo.node[x] = t /\ Present(x)
      BY <1>1, <1>7, <2>3, AfterSteps DEF HandlerAt
    <3>2. \/ op = Write("run", None, "running") /\ Tail(handler.ops) \in After(n, t)
          \/ op = Publish("run", None, "running") /\ Tail(handler.ops) \in After(n, t)
          \/ op = Publish("intervention", n, t) /\ Tail(handler.ops) = <<>>
      BY <1>1, <2>3, AfterSteps
    <3>3. ~ Fails(op)
      <4>1. op.kind = "run" \/ op.kind = "intervention"
        BY <3>2 DEF Write, Publish, Op
      <4>2. CASE op.kind = "run"
        BY <1>1, <2>1, <4>2
      <4>3. CASE op.kind = "intervention"
        BY <4>3 DEF Fails
      <4> QED
        BY <4>1, <4>2, <4>3
    <3>4. Perform(op) /\ (handler.ops)' = Tail(handler.ops) /\ (handler.answer)' = "working"
      BY <1>1, <2>1, <3>3
    <3>5. CASE op \in {Write("run", None, "running"), Publish("run", None, "running")}
               /\ Tail(handler.ops) \in After(n, t)
      <4>1. op.kind = "run"
        BY <3>5 DEF Write, Publish, Op
      <4>2. x \notin About(op)
        BY <2>1, <4>1, AboutNode
      <4>3. (repo.node)'[x] = repo.node[x] /\ Present(x)'
        BY <1>1, <2>1, <3>1, <3>4, <4>2, Untouched
      <4>4. (handler.ops)' # <<>> /\ (handler.ops)' \notin Before(n, t)
        BY <1>1, <3>4, <3>5, AfterSteps
      <4>5. HandlerOn(x)'
        BY <1>1, <1>7, <2>1, <3>4, <4>4 DEF HandlerOn, Busy
      <4>6. HandlerAt(x)'
        BY <1>1, <1>7, <3>1, <4>3, <4>4 DEF HandlerAt
      <4> QED
        BY <4>5, <4>6
    <3>6. CASE op = Publish("intervention", n, t) /\ Tail(handler.ops) = <<>>
      <4>1. op.do = "publish" /\ op.kind = "intervention" /\ op.status = t /\ About(op) = {n}
        BY <3>6 DEF Publish, Op, About
      <4>2. op \in Published /\ log' = Append(log, op) /\ repo' = repo
        BY <2>1, <3>4, <4>1, PerformDoes
      <4>3. Told(x)'
        <5>1. x \in About(op) /\ op.kind # "pruned" /\ repo.node[x] # Absent
              /\ op.status = Normalized(repo.node[x])
          BY <1>5, <2>1, <3>1, <4>1
        <5> QED
          BY <1>1, <3>1, <4>2, <5>1, PublishKeeps
      <4>4. ~ HandlerOn(x)'
        BY <1>1, <1>7, <3>4, <3>6 DEF HandlerOn
      <4> QED
        BY <2>1, <4>3, <4>4
    <3> QED
      BY <3>2, <3>5, <3>6
  <2> QED
    BY <1>1, <1>2, <1>7, <2>1, <2>2, <2>3 DEF HandlerForm
<1> QED
  BY <1>6, <1>7

\* No other node is touched, but one whose write of the run has failed.
LEMMA HandlerStepNodes ==
  ASSUME IInv, CallInv, FormInv, NodesInv, HandlerStep
  PROVE  NodesInv'
<1> DEFINE op == Head(handler.ops)
<1>1. /\ UNCHANGED <<job, next, snap, view, call, done>>
      /\ handler.answer = "working" /\ Busy /\ call.node \in Nodes
      /\ handler.ops \in Seq(RightOps) /\ raced \subseteq raced'
      /\ \/ UNCHANGED <<repo, log>> /\ (handler.ops)' = <<>>
         \/ /\ handler.ops # <<>> /\ ~ Fails(op) /\ Perform(op)
            /\ (handler.ops)' = Tail(handler.ops)
  BY HandlerStepDoes
<1>2. SUFFICES ASSUME NEW x \in Nodes, x \notin Off' PROVE NodeInv(x)'
  BY DEF NodesInv
<1>3. x \in Nodes \ Off /\ x \notin raced' /\ NodeInv(x)
  BY <1>1, <1>2 DEF NodesInv, Off
<1>4. CASE HandlerOn(x)
  <2>1. HandlerAt(x)
    BY <1>3, <1>4 DEF NodeInv
  <2>2. IF HandlerOn(x)' THEN HandlerAt(x)' ELSE x \notin Ahead(job) /\ Told(x)'
    BY <1>3, <1>4, <2>1, HandlerWorks
  <2> QED
    BY <1>1, <2>2 DEF NodeInv
<1>5. CASE ~ HandlerOn(x)
  <2>1. IF x \in Ahead(job) THEN JobAt(x) ELSE Told(x)
    BY <1>3, <1>5 DEF NodeInv
  <2>2. ~ HandlerOn(x)'
    <3>1. (handler.ops)' # <<>> => handler.ops # <<>>
      BY <1>1
    <3> QED
      BY <1>1, <1>5, <3>1 DEF HandlerOn, Busy
  <2>3. (repo.node)'[x] = repo.node[x] /\ (Present(x) <=> Present(x)') /\ (Told(x) <=> Told(x)')
    <3>1. CASE UNCHANGED <<repo, log>>
      <4>1. repo.node[x] \in NodeStatus \cup {Absent}
        BY DEF IInv, ServerInv, Repos, NodeTables
      <4> QED
        BY <1>1, <3>1, <4>1, WriteKeeps
    <3>2. CASE handler.ops # <<>> /\ Perform(op)
      <4>1. op \in RightOps /\ x \notin About(op)
        BY <1>1, <1>5, <3>2, HandlerTouches DEF FormInv
      <4> QED
        BY <1>1, <3>2, <4>1, Untouched
    <3> QED
      BY <1>1, <3>1, <3>2
  <2>4. JobAt(x) => JobAt(x)'
    BY <1>1, <2>3 DEF JobAt
  <2> QED
    BY <1>1, <2>1, <2>2, <2>3, <2>4 DEF NodeInv
<1> QED
  BY <1>4, <1>5

\* The handler sets the run running, and tells it with the next step.
LEMMA HandlerStepRun ==
  ASSUME IInv, CallInv, FormInv, RunInv, TokensInv, HandlerStep
  PROVE  RunInv' /\ TokensInv'
<1> DEFINE op == Head(handler.ops)
           p == handler.ops
<1>1. /\ UNCHANGED <<job, next, snap, view, call, done>>
      /\ handler.answer = "working" /\ Busy /\ call.node \in Nodes
      /\ handler.ops \in Seq(RightOps) /\ raced \subseteq raced'
      /\ \/ /\ p = <<>> /\ (handler.ops)' = <<>> /\ UNCHANGED <<repo, log, raced>>
         \/ p # <<>> /\ Fails(op) /\ UNCHANGED <<repo, log>> /\ (handler.ops)' = <<>>
         \/ /\ p # <<>> /\ ~ Fails(op) /\ Perform(op) /\ (handler.ops)' = Tail(p)
  BY HandlerStepDoes
<1>2. HandlerForm /\ Apart
  BY DEF FormInv
<1>3. ASSUME p # <<>>
      PROVE  /\ op \in RightOps /\ "tokens" \notin About(op)
             /\ \/ op.kind # "run" /\ ~ HandlerTells /\ Len(Tail(p)) # 2
                \/ op.kind # "run" /\ ~ HandlerTells /\ Head(Tail(p)).kind # "run"
                \/ /\ op = Write("run", None, "running") /\ "run" \in Ahead(p) /\ ~ HandlerTells
                   /\ Len(Tail(p)) = 2 /\ Head(Tail(p)) = Publish("run", None, "running")
                \/ /\ op = Publish("run", None, "running") /\ "run" \in Ahead(p)
                   /\ Len(p) = 2 /\ Len(Tail(p)) = 1
  <2>1. op \in RightOps
    BY <1>1, <1>3
  <2>2. "tokens" \notin About(op)
    <3>1. op.kind \in {"pruned", "delete", "status", "run", "intervention"}
      BY <1>1, <1>2, <1>3, HandlerTouches
    <3> QED
      BY <2>1, <3>1, AboutRun
  <2>3. HandlerTells => op = Publish("run", None, "running")
    BY DEF HandlerTells
  <2>4. CASE op = Write("pruned", call.node, None) /\ Tail(p) = Tail(Deletion(call.node))
    <3>1. Head(Tail(p)) = Write("delete", call.node, None)
      BY <1>1, <2>4, DeletionSteps
    <3>2. op.kind # "run" /\ Head(Tail(p)).kind # "run" /\ op.do # "publish"
      <4>1. op.kind # "run" /\ op.do # "publish"
        BY <2>4 DEF Write, Op
      <4>2. Write("delete", call.node, None).kind # "run"
        BY DEF Write, Op
      <4> QED
        BY <3>1, <4>1, <4>2
    <3>3. ~ HandlerTells
      BY <2>3, <3>2 DEF Publish, Op
    <3> QED
      BY <2>1, <2>2, <3>2, <3>3
  <2>5. CASE op = Write("delete", call.node, None) /\ Tail(p) = <<>>
    <3>1. op.kind # "run" /\ op.do # "publish"
      BY <2>5 DEF Write, Op
    <3>2. ~ HandlerTells
      BY <2>3, <3>1 DEF Publish, Op
    <3>3. Len(Tail(p)) # 2
      <4>1. Len(<<>>) # 2
        OBVIOUS
      <4> HIDE DEF p
      <4> QED
        BY <2>5, <4>1
    <3> QED
      BY <2>1, <2>2, <3>1, <3>2, <3>3
  <2>6. CASE op = Write("status", call.node, TargetOf(call.kind)) /\ Len(Tail(p)) # 2
    <3>1. op.kind # "run" /\ op.do # "publish"
      BY <2>6 DEF Write, Op
    <3>2. ~ HandlerTells
      BY <2>3, <3>1 DEF Publish, Op
    <3> QED
      BY <2>1, <2>2, <2>6, <3>1, <3>2
  <2>7. CASE /\ op = Write("run", None, "running") /\ "run" \in Ahead(p)
             /\ Len(Tail(p)) = 2 /\ Head(Tail(p)) = Publish("run", None, "running")
    <3>1. op.do # "publish"
      BY <2>7 DEF Write, Op
    <3>2. ~ HandlerTells
      BY <2>3, <3>1 DEF Publish, Op
    <3> QED
      BY <2>1, <2>2, <2>7, <3>2
  <2>8. CASE /\ op = Publish("run", None, "running") /\ "run" \in Ahead(p)
             /\ Len(p) = 2 /\ Len(Tail(p)) = 1
    BY <2>1, <2>2, <2>8
  <2>9. CASE op = Publish("intervention", call.node, TargetOf(call.kind)) /\ Tail(p) = <<>>
    <3>1. op.kind # "run"
      BY <2>9 DEF Publish, Op
    <3>2. ~ HandlerTells
      BY <2>3, <3>1 DEF Publish, Op
    <3>3. Len(Tail(p)) # 2
      BY <2>9
    <3> QED
      BY <2>1, <2>2, <3>1, <3>2, <3>3
  <2> QED
    BY <1>1, <1>2, <1>3, <2>4, <2>5, <2>6, <2>7, <2>8, <2>9, HandlerHeads
<1>4. RunInv'
  <2>1. SUFFICES ASSUME "run" \notin Off' PROVE RunInv'
    BY DEF RunInv
  <2>2. "run" \notin Off /\ "run" \notin raced
    BY <1>1, <2>1 DEF Off
  <2>3. CASE p = <<>> \/ Fails(op)
    <3>1. UNCHANGED <<repo, log>> /\ ~ HandlerTells'
      <4>1. UNCHANGED <<repo, log>> /\ (handler.ops)' = <<>>
        BY <1>1, <2>3
      <4> QED
        BY <4>1 DEF HandlerTells
    <3>2. ~ HandlerTells
      <4>1. SUFFICES ASSUME HandlerTells PROVE FALSE
        OBVIOUS
      <4>2. p # <<>> /\ op.kind = "run" /\ op.do = "publish"
        BY <4>1 DEF HandlerTells, Publish, Op
      <4> QED
        BY <2>3, <4>2 DEF Fails
    <3>3. RunTold <=> RunTold'
      BY <1>1, <3>1, RunSame
    <3> QED
      BY <1>1, <2>2, <3>1, <3>2, <3>3 DEF RunInv
  <2>4. CASE p # <<>> /\ ~ Fails(op)
    <3>1. Perform(op) /\ (handler.ops)' = Tail(p) /\ op \in RightOps
      BY <1>1, <1>3, <2>4
    <3>2. ASSUME "run" \notin About(op) PROVE (repo.run)' = repo.run /\ (RunTold <=> RunTold')
      <4>1. op.kind # "run"
        BY <3>1, <3>2, AboutRun
      <4>2. CASE op.do = "write"
        <5>1. repo' = Written(op) /\ log' = log /\ repo \in Repos
          BY <3>1, <4>2, PerformDoes DEF IInv, ServerInv
        <5>2. (repo.run)' = repo.run
          BY <3>1, <4>1, <4>2, <5>1, WrittenIs
        <5> QED
          BY <1>1, <5>1, <5>2, RunSame
      <4>3. CASE op.do = "publish"
        <5>1. op \in Published /\ log' = Append(log, op) /\ repo' = repo
          BY <3>1, <4>3, PerformDoes
        <5> QED
          BY <1>1, <3>2, <5>1, RunSame
      <4> QED
        BY <3>1, <4>2, <4>3, PerformDoes
    <3>3. CASE "run" \in Ahead(job)
      <4>1. "run" \notin Ahead(p) /\ "run" \notin About(op)
        BY <1>1, <1>2, <2>2, <2>4, <3>3, AheadTail DEF Apart
      <4>2. (repo.run)' = repo.run /\ (RunTold <=> RunTold')
        BY <3>2, <4>1
      <4> QED
        BY <1>1, <2>2, <3>3, <4>2 DEF RunInv
    <3>4. CASE "run" \notin Ahead(job) /\ op.kind # "run"
      <4>1. ~ HandlerTells /\ ~ HandlerTells'
        <5>1. HandlerTells' => Len(Tail(p)) = 2 /\ Head(Tail(p)).kind = "run"
          BY <3>1 DEF HandlerTells, Publish, Op
        <5>2. op # Write("run", None, "running") /\ op # Publish("run", None, "running")
          BY <3>4 DEF Write, Publish, Op
        <5> QED
          BY <1>3, <2>4, <5>1, <5>2
      <4>2. "run" \notin About(op)
        BY <3>1, <3>4, AboutRun
      <4>3. RunTold
        BY <2>2, <3>4, <4>1 DEF RunInv
      <4> QED
        BY <1>1, <3>2, <3>4, <4>1, <4>2, <4>3 DEF RunInv
    <3>5. CASE "run" \notin Ahead(job) /\ op = Write("run", None, "running")
      <4>1. op.do = "write" /\ op.kind = "run" /\ op.status = "running"
        BY <3>5 DEF Write, Op
      <4>2. Len(Tail(p)) = 2 /\ Head(Tail(p)) = Publish("run", None, "running")
        <5>1. op # Publish("run", None, "running")
          BY <4>1 DEF Publish, Op
        <5> QED
          BY <1>3, <2>4, <3>5, <4>1, <5>1
      <4>3. HandlerTells'
        BY <3>1, <4>2 DEF HandlerTells
      <4>4. repo' = Written(op) /\ repo \in Repos
        BY <3>1, <4>1, PerformDoes DEF IInv, ServerInv
      <4>5. (repo.run)' = "running"
        BY <3>1, <4>1, <4>4, WrittenIs
      <4> QED
        BY <1>1, <3>5, <4>3, <4>5 DEF RunInv
    <3>6. CASE "run" \notin Ahead(job) /\ op = Publish("run", None, "running")
      <4>1. op.do = "publish" /\ op.kind = "run" /\ op.status = "running"
        BY <3>6 DEF Publish, Op
      <4>2. Len(p) = 2 /\ Len(Tail(p)) = 1
        <5>1. op # Write("run", None, "running")
          BY <4>1 DEF Write, Op
        <5> QED
          BY <1>3, <2>4, <3>6, <4>1, <5>1
      <4>3. HandlerTells /\ ~ HandlerTells'
        <5>1. HandlerTells
          BY <3>6, <4>2 DEF HandlerTells
        <5>2. Len((handler.ops)') = 1
          BY <3>1, <4>2
        <5>3. HandlerTells' => Len((handler.ops)') = 2
          BY DEF HandlerTells
        <5> QED
          BY <5>1, <5>2, <5>3
      <4>4. repo.run = "running"
        BY <2>2, <3>6, <4>3 DEF RunInv
      <4>5. op \in Published /\ log' = Append(log, op) /\ repo' = repo
        BY <3>1, <4>1, PerformDoes
      <4>6. RunTold'
        <5>1. "run" \in About(op)
          BY <3>1, <4>1, AboutRun
        <5> QED
          BY <1>1, <4>1, <4>4, <4>5, <5>1, RunPublished
      <4> QED
        BY <1>1, <3>6, <4>3, <4>6 DEF RunInv
    <3>7. op.kind # "run" \/ op = Write("run", None, "running") \/ op = Publish("run", None, "running")
      BY <1>3, <2>4
    <3> QED
      BY <3>3, <3>4, <3>5, <3>6, <3>7
  <2> QED
    BY <2>3, <2>4
<1>5. TokensInv'
  <2>1. Off \subseteq Off'
    BY <1>1 DEF Off
  <2>2. (repo.tokens)' = repo.tokens /\ Cardinality(Future("tokens")') = Cardinality(Future("tokens"))
    <3>1. CASE UNCHANGED <<repo, log>>
      BY <1>1, <3>1, TokensToCome
    <3>2. CASE p # <<>> /\ Perform(op)
      <4>1. op \in RightOps /\ op.kind # "tokens"
        BY <1>3, <3>2, AboutRun
      <4>2. CASE op.do = "write"
        <5>1. repo' = Written(op) /\ log' = log /\ repo \in Repos
          BY <3>2, <4>1, <4>2, PerformDoes DEF IInv, ServerInv
        <5>2. (repo.tokens)' = repo.tokens
          BY <4>1, <4>2, <5>1, WrittenIs
        <5> QED
          BY <1>1, <5>1, <5>2, TokensToCome
      <4>3. CASE op.do = "publish"
        <5>1. op \in Published /\ log' = Append(log, op) /\ repo' = repo
          BY <3>2, <4>1, <4>3, PerformDoes
        <5>2. Cardinality(Future("tokens")') = Cardinality(Future("tokens")) + 0
          BY <1>1, <4>1, <5>1, TokensToCome
        <5>3. Cardinality(Future("tokens")) \in Nat
          BY FutureIsFinite
        <5> QED
          BY <5>1, <5>2, <5>3
      <4> QED
        BY <3>2, <4>1, <4>2, <4>3, PerformDoes
    <3> QED
      BY <1>1, <3>1, <3>2
  <2> QED
    BY <1>1, <2>1, <2>2 DEF TokensInv
<1> QED
  BY <1>4, <1>5

\* A step of the handler keeps the invariant.
LEMMA HandlerStepSettles ==
  ASSUME IInv, CallInv, SettlingInv, HandlerStep
  PROVE  SettlingInv'
BY HandlerStepForm, HandlerStepHistory, HandlerStepNodes, HandlerStepRun
DEF SettlingInv, FormInv, HistoryInv, FutureInv
-----------------------------------------------------------------------------
(* The snapshot.                                                           *)

\* A step of the page that keeps what is to come of a node keeps what is said of it.
LEMMA PageKeepsNode ==
  ASSUME UNCHANGED <<repo, job, handler>>, (call.kind)' = call.kind, (call.node)' = call.node,
         NEW x \in Nodes, NodeInv(x), Told(x) => Told(x)',
         repo.node[x] # Absent /\ Present(x) => Present(x)'
  PROVE  NodeInv(x)'
<1>1. HandlerOn(x) <=> HandlerOn(x)'
  BY DEF HandlerOn, Busy
<1>2. ASSUME HandlerAt(x) PROVE HandlerAt(x)'
  <2>1. TargetOf(call.kind) # Absent
    BY DEF TargetOf, Absent
  <2> QED
    BY <1>2, <2>1 DEF HandlerAt
<1>3. ASSUME JobAt(x) PROVE JobAt(x)'
  <2>1. job \in Rest(x, repo.node[x]) => repo.node[x] # Absent
    BY RestStep, NormalizedIs
  <2> QED
    BY <1>3, <2>1 DEF JobAt
<1> QED
  BY <1>1, <1>2, <1>3 DEF NodeInv

\* Nothing has arrived, and the events to come are applied to the same.
LEMMA SameBase ==
  ASSUME UNCHANGED <<repo, log, next>>, NEW x \in Nodes, Base(x)' = Base(x)
  PROVE  (Told(x) <=> Told(x)') /\ (Present(x) <=> Present(x)')
<1>1. Future(x)' = Future(x)
  BY DEF Future
<1> QED
  BY <1>1 DEF Told, Gone, Present, Current

\* The snapshot is read, or replaces what is shown.
LEMMA SnapshotDoes ==
  ASSUME IInv, FormInv, HistoryInv, ReadRun \/ ReadNodes \/ Hydrate
  PROVE  /\ UNCHANGED <<repo, log, job, handler, next, call, done>> /\ call.kind = None
         /\ Off' = Off /\ raced \subseteq raced'
         /\ \A x \in Nodes : Base(x)' = Base(x)
         /\ BaseRun' = BaseRun
         /\ (IF snap.at = "shown" THEN view.tokens ELSE 0)' = IF snap.at = "shown" THEN view.tokens ELSE 0
         /\ MadeInv' /\ ShownInv'
<1>1. /\ HandlerForm /\ MadeInv /\ ShownInv /\ snap \in Snaps /\ repo \in Repos
  BY DEF FormInv, HistoryInv, IInv, ServerInv, PageInv
<1>2. CASE ReadRun
  <2>1. /\ snap.at = "asked" /\ snap' = [snap EXCEPT !.at = "run read", !.run = repo.run]
        /\ UNCHANGED <<repo, log, job, handler, next, view, call, done, raced>>
    BY <1>2 DEF ReadRun
  <2>2. /\ (snap.at)' = "run read" /\ (snap.run)' = repo.run /\ (snap.node)' = snap.node
        /\ (snap.since)' = snap.since
    BY <1>1, <2>1 DEF Snaps
  <2>3. call.kind = None
    BY <1>1, <2>1 DEF HandlerForm
  <2>4. Off' = Off
    BY <2>1, <2>2 DEF Off
  <2>5. \A x \in Nodes : Base(x)' = Base(x)
    BY <2>1, <2>2 DEF Base
  <2>6. BaseRun' = BaseRun
    BY <2>1, <2>2 DEF BaseRun
  <2>7. MadeInv'
    BY <1>1, <2>1, <2>2 DEF MadeInv, Made
  <2>8. ShownInv'
    BY <2>2 DEF ShownInv
  <2> QED
    BY <2>1, <2>2, <2>3, <2>4, <2>5, <2>6, <2>7, <2>8
<1>3. CASE ReadNodes
  <2>1. /\ snap.at = "run read" /\ snap' = [snap EXCEPT !.at = "answered", !.node = repo.node]
        /\ UNCHANGED <<repo, log, job, handler, next, view, call, done, raced>>
    BY <1>3 DEF ReadNodes
  <2>2. /\ (snap.at)' = "answered" /\ (snap.run)' = snap.run /\ (snap.node)' = repo.node
        /\ (snap.since)' = snap.since
    BY <1>1, <2>1 DEF Snaps
  <2>3. call.kind = None
    BY <1>1, <2>1 DEF HandlerForm
  <2>4. Off' = Off
    BY <2>1, <2>2 DEF Off
  <2>5. \A x \in Nodes : Base(x)' = Base(x)
    <3>1. \A x : Base(x) = Normalized(repo.node[x])
      BY <2>1 DEF Base
    <3>2. \A x : Base(x)' = Normalized(snap.node[x])'
      BY <2>2 DEF Base
    <3>3. \A x : Normalized(snap.node[x])' = Normalized(repo.node[x])
      BY <2>2 DEF Normalized, EventStatus
    <3> QED
      BY <3>1, <3>2, <3>3
  <2>6. BaseRun' = BaseRun
    BY <2>1, <2>2 DEF BaseRun
  <2>7. MadeInv'
    BY <1>1, <2>1, <2>2 DEF MadeInv, Made
  <2>8. ShownInv'
    BY <2>2 DEF ShownInv
  <2> QED
    BY <2>1, <2>2, <2>3, <2>4, <2>5, <2>6, <2>7, <2>8
<1>4. CASE Hydrate
  <2>1. /\ snap.at = "answered" /\ view' = Mapped(snap) /\ snap' = [NoAnswer EXCEPT !.at = "shown"]
        /\ raced' = raced \cup snap.since
        /\ UNCHANGED <<repo, log, job, handler, next, call, done>>
    BY <1>4 DEF Hydrate
  <2>2. (snap.at)' = "shown" /\ (snap.since)' = {}
    BY <2>1 DEF NoAnswer
  <2>3. call.kind = None
    BY <1>1, <2>1 DEF HandlerForm
  <2>4. Off' = Off /\ raced \subseteq raced'
    BY <2>1, <2>2 DEF Off
  <2>5. /\ \A x \in Nodes : (view.node)'[x] = Normalized(snap.node[x])
        /\ (view.run)' = snap.run /\ (view.tokens)' = 0 /\ (view.lastSeq)' = 0
    BY <2>1 DEF Mapped
  <2>6. \A x \in Nodes : Base(x)' = Base(x)
    <3>1. \A x \in Nodes : Base(x)' = (view.node)'[x]
      <4>1. ASSUME NEW x \in Nodes PROVE ~ Optimistic(x)'
        <5>1. (call.kind)' = None /\ None \notin {"retry", "skip"}
          BY <2>1, <2>3, ConstantsAssumption DEF ConstantsAssumption
        <5> QED
          BY <5>1 DEF Optimistic
      <4> QED
        BY <2>2, <4>1 DEF Base
    <3>2. \A x \in Nodes : Base(x) = Normalized(snap.node[x])
      BY <2>1 DEF Base
    <3> QED
      BY <2>5, <3>1, <3>2
  <2>7. BaseRun' = BaseRun
    BY <2>1, <2>2, <2>5 DEF BaseRun
  <2>8. \A x \in Nodes : (view.node)'[x] # Absent <=> snap.node[x] # Absent
    <3>1. \A x \in Nodes : snap.node[x] \in NodeStatus \cup {Absent}
      BY <2>1 DEF IInv, PageInv, NodeTables
    <3> QED
      BY <2>5, <3>1, NormalizedIs
  <2>9. MadeInv'
    BY <1>1, <2>1, <2>2, <2>8 DEF MadeInv, Made
  <2>10. ShownInv'
    <3>1. (view.run)' # None
      BY <2>1, <2>5, ConstantsAssumption DEF ConstantsAssumption, IInv, PageInv
    <3>2. (view.lastSeq)' < next'
      BY <2>1, <2>5, EventsAre
    <3>3. ASSUME NEW x \in Nodes \ raced', (view.node)'[x] # Absent, NEW m \in Ancestors[x]
          PROVE  (view.node)'[m] # Absent
      <4>1. snap.node[x] # Absent /\ x \notin Adrift(snap)
        BY <2>1, <2>8, <3>3 DEF IInv, DriftInv
      <4>2. snap.node[m] # Absent /\ m \in Nodes
        BY <3>3, <4>1, AncestorsGoOn DEF Adrift
      <4> QED
        BY <2>8, <4>2
    <3> QED
      BY <2>2, <3>1, <3>2, <3>3 DEF ShownInv
  <2> QED
    BY <2>1, <2>2, <2>3, <2>4, <2>5, <2>6, <2>7, <2>9, <2>10
<1> QED
  BY <1>2, <1>3, <1>4

\* Reading and showing the snapshot keep the invariant.
LEMMA SnapshotSettles ==
  ASSUME IInv, SettlingInv, ReadRun \/ ReadNodes \/ Hydrate
  PROVE  SettlingInv'
<1>1. FormInv /\ HistoryInv /\ FutureInv
  BY DEF SettlingInv
<1>2. /\ UNCHANGED <<repo, log, job, handler, next, call, done>> /\ call.kind = None
      /\ Off' = Off /\ raced \subseteq raced'
      /\ \A x \in Nodes : Base(x)' = Base(x)
      /\ BaseRun' = BaseRun
      /\ (IF snap.at = "shown" THEN view.tokens ELSE 0)' = IF snap.at = "shown" THEN view.tokens ELSE 0
      /\ MadeInv' /\ ShownInv'
  BY <1>1, SnapshotDoes
<1>3. FormInv'
  <2>1. JobForm'
    BY <1>1, <1>2 DEF FormInv, JobForm, StatusJob
  <2>2. HandlerForm'
    BY <1>1, <1>2 DEF FormInv, HandlerForm
  <2>3. Apart'
    BY <1>1, <1>2 DEF FormInv, Apart
  <2>4. DeletionInv'
    BY <1>1, <1>2 DEF FormInv, DeletionInv, Busy
  <2> QED
    BY <2>1, <2>2, <2>3, <2>4 DEF FormInv
<1>4. HistoryInv'
  <2>1. None \notin {"retry", "skip"}
    BY ConstantsAssumption DEF ConstantsAssumption
  <2>2. OwnInv'
    BY <1>2, <2>1 DEF OwnInv
  <2> QED
    BY <1>2, <2>2 DEF HistoryInv
<1>5. NodesInv'
  <2>1. SUFFICES ASSUME NEW x \in Nodes \ Off PROVE NodeInv(x)'
    BY <1>2 DEF NodesInv
  <2>2. NodeInv(x)
    BY <1>1 DEF FutureInv, NodesInv
  <2>3. (Told(x) <=> Told(x)') /\ (Present(x) <=> Present(x)')
    BY <1>2, SameBase
  <2> QED
    BY <1>2, <2>2, <2>3, PageKeepsNode
<1>6. RunInv'
  <2>1. RunTold <=> RunTold'
    BY <1>2 DEF RunTold, Future
  <2> QED
    BY <1>1, <1>2, <2>1 DEF FutureInv, RunInv, HandlerTells
<1>7. TokensInv'
  BY <1>1, <1>2 DEF FutureInv, TokensInv, Future
<1> QED
  BY <1>3, <1>4, <1>5, <1>6, <1>7 DEF SettlingInv, FutureInv
-----------------------------------------------------------------------------
(* An event arrives.                                                       *)

\* What an event makes of what is shown.
LEMMA AppliedNodes ==
  ASSUME NEW v \in Views, NEW e \in Published, NEW x \in Nodes
  PROVE  Applied(v, e).node[x] =
           IF x \notin About(e) THEN v.node[x]
           ELSE IF e.kind = "created" THEN e.status
           ELSE IF e.kind = "pruned" THEN (IF x \in Descendants(v, e.node) THEN Absent ELSE v.node[x])
           ELSE IF v.node[x] = Absent THEN Absent ELSE e.status
<1>1. RightOp(e) /\ e.do = "publish" /\ e \in RightOps
  BY DEF Published, RightOps
<1>2. e.kind \in {"run", "tokens", "created", "status", "merged", "pruned", "intervention"}
  BY <1>1 DEF RightOp
<1>3. x \in About(e) <=> \/ e.kind \in {"created", "status", "merged", "intervention"} /\ e.node = x
                         \/ e.kind = "pruned" /\ x \in Below(e.node)
                         \/ e.kind = "delete" /\ x \in Subtree(e.node)
  BY <1>1, AboutNode
<1>4. v.node \in [Nodes -> ViewStatus \cup {Absent}]
  BY DEF Views
<1>5. CASE e.kind \in {"run", "tokens"}
  <2>1. Applied(v, e).node = v.node
    <3>1. Applied(v, e) \in {v, [v EXCEPT !.tokens = @ + 1], [v EXCEPT !.run = e.status]}
      BY <1>5 DEF Applied
    <3>2. /\ [v EXCEPT !.tokens = @ + 1].node = v.node
          /\ [v EXCEPT !.run = e.status].node = v.node
      BY DEF Views
    <3> QED
      BY <3>1, <3>2
  <2> QED
    BY <1>3, <1>5, <2>1
<1>6. CASE e.kind = "created"
  <2>1. Applied(v, e).node = [v.node EXCEPT ![e.node] = e.status]
    <3> DEFINE edges == v.edges \cup (IF e.node = Root THEN {} ELSE {<<ParentOf[e.node], e.node>>})
    <3>1. Applied(v, e) = [v EXCEPT !.node[e.node] = e.status, !.edges = edges]
      BY <1>6 DEF Applied
    <3> HIDE DEF edges
    <3>2. [v EXCEPT !.node[e.node] = e.status, !.edges = edges].node = [v.node EXCEPT ![e.node] = e.status]
      BY DEF Views
    <3> QED
      BY <3>1, <3>2
  <2>2. e.node \in Nodes
    BY <1>1, <1>6 DEF RightOp
  <2> QED
    BY <1>3, <1>4, <1>6, <2>1, <2>2
<1>7. CASE e.kind \in {"status", "merged", "intervention"}
  <2>1. e.node \in Nodes
    BY <1>1, <1>7 DEF RightOp
  <2>2. CASE v.node[e.node] = Absent
    <3>1. Applied(v, e) = v
      BY <1>7, <2>2 DEF Applied
    <3> QED
      BY <1>3, <1>7, <2>2, <3>1
  <2>3. CASE v.node[e.node] # Absent
    <3>1. Applied(v, e) = [v EXCEPT !.node[e.node] = e.status]
      BY <1>7, <2>3 DEF Applied
    <3>2. [v EXCEPT !.node[e.node] = e.status].node = [v.node EXCEPT ![e.node] = e.status]
      BY DEF Views
    <3> QED
      BY <1>3, <1>4, <1>7, <2>1, <2>3, <3>1, <3>2
  <2> QED
    BY <2>2, <2>3
<1>8. CASE e.kind = "pruned"
  <2> DEFINE ns == Descendants(v, e.node)
  <2>1. Applied(v, e) = Without(v, ns)
    BY <1>8 DEF Applied
  <2>2. ns \subseteq Below(e.node)
    BY DEF Descendants
  <2> HIDE DEF ns
  <2>3. Without(v, ns).node[x] = IF x \in ns THEN Absent ELSE v.node[x]
    BY DEF Without, Views
  <2> QED
    BY <1>3, <1>8, <2>1, <2>2, <2>3 DEF ns
<1> QED
  BY <1>2, <1>5, <1>6, <1>7, <1>8

\* ... of the run and of its tokens.
LEMMA AppliedRun ==
  ASSUME NEW v \in Views, NEW e \in Published, v.run # None
  PROVE  /\ Applied(v, e).run = IF e.kind = "run" /\ e.status # None THEN e.status ELSE v.run
         /\ Applied(v, e).tokens = IF e.kind = "tokens" THEN v.tokens + 1 ELSE v.tokens
<1>1. RightOp(e) /\ e.do = "publish" /\ e \in RightOps
  BY DEF Published, RightOps
<1>2. e.kind \in {"run", "tokens", "created", "status", "merged", "pruned", "intervention"}
  BY <1>1 DEF RightOp
<1>3. CASE e.kind = "tokens"
  <2>1. Applied(v, e) = [v EXCEPT !.tokens = @ + 1]
    BY <1>3 DEF Applied
  <2> QED
    BY <1>3, <2>1 DEF Views
<1>4. CASE e.kind = "run"
  <2>1. Applied(v, e) = IF e.status = None THEN v ELSE [v EXCEPT !.run = e.status]
    BY <1>4 DEF Applied
  <2> QED
    BY <1>4, <2>1 DEF Views
<1>5. CASE e.kind \notin {"tokens", "run"}
  <2> DEFINE edges == v.edges \cup (IF e.node = Root THEN {} ELSE {<<ParentOf[e.node], e.node>>})
             ns == Descendants(v, e.node)
  <2>1. Applied(v, e) \in {v, [v EXCEPT !.node[e.node] = e.status, !.edges = edges],
                           [v EXCEPT !.node[e.node] = e.status], Without(v, ns)}
    BY <1>2, <1>5 DEF Applied
  <2> HIDE DEF edges, ns
  <2>2. /\ [v EXCEPT !.node[e.node] = e.status, !.edges = edges].run = v.run
        /\ [v EXCEPT !.node[e.node] = e.status, !.edges = edges].tokens = v.tokens
        /\ [v EXCEPT !.node[e.node] = e.status].run = v.run
        /\ [v EXCEPT !.node[e.node] = e.status].tokens = v.tokens
    BY DEF Views
  <2>3. Without(v, ns).run = v.run /\ Without(v, ns).tokens = v.tokens
    BY DEF Without, Views
  <2> QED
    BY <1>5, <2>1, <2>2, <2>3
<1> QED
  BY <1>2, <1>3, <1>4, <1>5

\* An event arrives on the page.
LEMMA ApplyDoes ==
  ASSUME IInv, ApplyEvent, NEW e, e = log[next]
  PROVE  /\ e \in Published /\ next \in 1..Len(log) /\ next' = next + 1
         /\ UNCHANGED <<repo, log, job, handler, done>>
         /\ \A x : Future(x)' = Future(x) \ {next} /\ (next \in Future(x) <=> x \in About(e))
         /\ \A x : \A j \in Future(x) : next <= j
         /\ (snap.at)' = snap.at /\ (snap.run)' = snap.run /\ (snap.node)' = snap.node
         /\ (snap.since)' = snap.since \cup (About(e) \cap Missed)
         /\ (call.kind)' = call.kind /\ (call.node)' = call.node /\ (call.previous)' = call.previous
         /\ call.heard \subseteq (call.heard)'
         /\ IF call.kind # None /\ call.node \in About(e)
            THEN (IF e.kind = "intervention" THEN "own" ELSE "other") \in (call.heard)'
            ELSE (call.heard)' = call.heard
         /\ raced' = raced \cup Orphans(e)
         /\ view' = view \/ view' = [Applied(view, e) EXCEPT !.lastSeq = next]
         /\ next > view.lastSeq => view' = [Applied(view, e) EXCEPT !.lastSeq = next]
<1> DEFINE since == snap.since \cup (About(e) \cap Missed)
           heard == call.heard \cup {IF e.kind = "intervention" THEN "own" ELSE "other"}
<1>1. /\ next <= Len(log) /\ next' = next + 1
      /\ view' = IF next <= view.lastSeq THEN view ELSE [Applied(view, e) EXCEPT !.lastSeq = next]
      /\ snap' = [snap EXCEPT !.since = since]
      /\ call' = IF call.kind # None /\ call.node \in About(e)
                 THEN [call EXCEPT !.heard = heard] ELSE call
      /\ raced' = raced \cup Orphans(e)
      /\ UNCHANGED <<repo, log, job, handler, done>>
  BY DEF ApplyEvent
<1>2. /\ log \in Seq(RightOps) /\ Len(log) \in Nat /\ next \in Nat /\ 1 <= next
      /\ \A i \in 1..Len(log) : log[i] \in Published
      /\ \A x : /\ Future(x) \in SUBSET Nat
                /\ \A i \in Future(x) : i \in 1..Len(log) /\ next <= i /\ x \in About(log[i])
      /\ view \in Views /\ snap \in Snaps /\ call \in Calls
  BY EventsAre DEF IInv, PageInv
<1>3. next \in 1..Len(log) /\ e \in Published
  BY <1>1, <1>2
<1>4. /\ (snap.at)' = snap.at /\ (snap.run)' = snap.run /\ (snap.node)' = snap.node /\ (snap.since)' = since
  <2> HIDE DEF since
  <2> QED
    BY <1>1, <1>2 DEF Snaps
<1>5. /\ (call.kind)' = call.kind /\ (call.node)' = call.node /\ (call.previous)' = call.previous
      /\ (call.heard)' = IF call.kind # None /\ call.node \in About(e) THEN heard ELSE call.heard
  <2> HIDE DEF heard
  <2> QED
    BY <1>1, <1>2 DEF Calls
<1>6. view.lastSeq \in Nat
  BY <1>2 DEF Views
<1>7. next > view.lastSeq => ~ (next <= view.lastSeq)
  BY <1>2, <1>6
<1>8. \A x : next \in Future(x) <=> x \in About(e)
  BY <1>1, <1>2, <1>3 DEF Future
<1>9. \A x : Future(x)' = Future(x) \ {next}
  <2>1. next..Len(log) = {next} \cup ((next + 1)..Len(log)) /\ next \notin (next + 1)..Len(log)
    BY <1>1, <1>2
  <2>2. \A x : Future(x)' = {i \in (next + 1)..Len(log) : x \in About(log[i])}
    BY <1>1 DEF Future
  <2> QED
    BY <2>1, <2>2 DEF Future
<1> HIDE DEF since, heard
<1>10. since = snap.since \cup (About(e) \cap Missed) /\ call.heard \subseteq heard
       /\ (IF e.kind = "intervention" THEN "own" ELSE "other") \in heard
  BY DEF since, heard
<1>11. view' = view \/ view' = [Applied(view, e) EXCEPT !.lastSeq = next]
  BY <1>1
<1>12. next > view.lastSeq => view' = [Applied(view, e) EXCEPT !.lastSeq = next]
  BY <1>1, <1>7
<1>13. \A x : \A j \in Future(x) : next <= j
  BY <1>2
<1> QED
  BY <1>1, <1>3, <1>4, <1>5, <1>8, <1>9, <1>10, <1>11, <1>12, <1>13

\* What the view shows then.
LEMMA ApplyShows ==
  ASSUME IInv, ApplyEvent, NEW e, e = log[next]
  PROVE  /\ \A x \in Nodes : (view.node)'[x] \in {view.node[x], Applied(view, e).node[x]}
         /\ snap.at = "shown" /\ ShownInv =>
              /\ \A x \in Nodes : (view.node)'[x] = Applied(view, e).node[x]
              /\ (view.run)' = Applied(view, e).run /\ (view.tokens)' = Applied(view, e).tokens
              /\ (view.lastSeq)' = next
<1>1. /\ e \in Published /\ next \in 1..Len(log)
      /\ view' = view \/ view' = [Applied(view, e) EXCEPT !.lastSeq = next]
      /\ next > view.lastSeq => view' = [Applied(view, e) EXCEPT !.lastSeq = next]
  BY ApplyDoes
<1>2. view \in Views
  BY DEF IInv, PageInv
<1> DEFINE w == Applied(view, e)
<1>3. w \in Views
  BY <1>1, <1>2, AppliedType
<1> HIDE DEF w
<1>4. /\ [w EXCEPT !.lastSeq = next].node = w.node /\ [w EXCEPT !.lastSeq = next].run = w.run
      /\ [w EXCEPT !.lastSeq = next].tokens = w.tokens /\ [w EXCEPT !.lastSeq = next].lastSeq = next
  BY <1>3 DEF Views
<1>5. snap.at = "shown" /\ ShownInv => next > view.lastSeq
  <2>1. snap.at = "shown" /\ ShownInv => view.lastSeq < next
    BY DEF ShownInv
  <2>2. view.lastSeq \in Nat /\ next \in Nat
    BY <1>1, <1>2 DEF Views
  <2> QED
    BY <2>1, <2>2
<1>6. view' = view \/ view' = [w EXCEPT !.lastSeq = next]
  BY <1>1 DEF w
<1>7. next > view.lastSeq => view' = [w EXCEPT !.lastSeq = next]
  BY <1>1 DEF w
<1> QED
  BY <1>4, <1>5, <1>6, <1>7 DEF w

\* The last event tells, whatever comes before.
LEMMA FirstTold ==
  ASSUME NEW l, NEW F \in SUBSET Nat, NEW b, NEW s, NEW i \in F, \A j \in F : i <= j, Tells(l, F, b, s)
  PROVE  /\ F \ {i} = {} => l[i].status = s
         /\ \A c : (F \ {i} = {} => c = s) => Tells(l, F \ {i}, c, s)
<1>1. ASSUME F \ {i} = {} PROVE l[i].status = s
  <2>1. \A j \in F : j <= i
    BY <1>1
  <2> QED
    BY <2>1 DEF Tells
<1>2. ASSUME NEW c, F \ {i} = {} => c = s PROVE Tells(l, F \ {i}, c, s)
  <2>1. ASSUME NEW k \in F \ {i}, \A j \in F \ {i} : j <= k PROVE l[k].status = s
    <3>1. \A j \in F : j <= k
      BY <2>1
    <3> QED
      BY <3>1 DEF Tells
  <2> QED
    BY <1>2, <2>1 DEF Tells
<1> QED
  BY <1>1, <1>2

\* What is shown hangs from the root after an event, but for orphans.
LEMMA ApplyShown ==
  ASSUME IInv, ShownInv, ApplyEvent
  PROVE  ShownInv'
<1>1. PICK e : e = log[next]
  OBVIOUS
<1>2. /\ e \in Published /\ next \in 1..Len(log) /\ next' = next + 1
      /\ (snap.at)' = snap.at /\ (snap.since)' = snap.since \cup (About(e) \cap Missed)
      /\ raced' = raced \cup Orphans(e)
  BY <1>1, ApplyDoes
<1>3. SUFFICES ASSUME snap.at = "shown" PROVE ShownInv'
  BY <1>2 DEF ShownInv
<1>4. /\ \A x \in Nodes : (view.node)'[x] = Applied(view, e).node[x]
      /\ (view.run)' = Applied(view, e).run /\ (view.lastSeq)' = next
  BY <1>1, <1>3, ApplyShows
<1>5. /\ view.run # None /\ snap.since = {} /\ view \in Views /\ next \in Nat
      /\ \A x \in Nodes \ raced : view.node[x] # Absent => \A m \in Ancestors[x] : view.node[m] # Absent
  BY <1>2, <1>3 DEF ShownInv, IInv, PageInv
<1>6. (view.run)' # None /\ (view.lastSeq)' < next'
  BY <1>2, <1>4, <1>5, AppliedRun
<1>7. (snap.since)' = {}
  BY <1>2, <1>3, <1>5 DEF Missed
<1>8. e \in RightOps /\ RightOp(e) /\ e.do = "publish"
  BY <1>2 DEF Published, RightOps
<1>9. \A x \in Nodes : (view.node)'[x] = IF x \notin About(e) THEN view.node[x]
        ELSE IF e.kind = "created" THEN e.status
        ELSE IF e.kind = "pruned" THEN (IF x \in Descendants(view, e.node) THEN Absent ELSE view.node[x])
        ELSE IF view.node[x] = Absent THEN Absent ELSE e.status
  BY <1>2, <1>4, <1>5, AppliedNodes
<1>10. ASSUME NEW x \in Nodes, x \in About(e) PROVE NodeEvent(e)
  BY <1>8, <1>10, AboutNode
<1>11. ASSUME NEW x \in Nodes, x \notin raced', (view.node)'[x] # Absent, NEW m \in Ancestors[x]
       PROVE  (view.node)'[m] # Absent
  <2>1. m \in Nodes /\ Ancestors[m] \subseteq Ancestors[x] /\ x \notin raced
    BY <1>2, <1>11, AncestorsGoOn
  <2>2. CASE view.node[x] = Absent
    <3>1. x \in About(e) /\ e.kind = "created"
      BY <1>9, <1>11, <2>2
    <3>2. x = e.node
      BY <1>8, <3>1, AboutNode
    <3>3. CASE x = Root
      BY <1>11, <3>3, AncestorsStep
    <3>4. CASE x # Root
      <4>1. x \notin Orphans(e)
        BY <1>2, <1>11
      <4>2. view.node[m] # Absent
        BY <1>3, <1>11, <3>1, <3>2, <3>4, <4>1 DEF Orphans
      <4>3. m \in About(e) => e.status # Absent
        BY <1>10, <2>1, <3>1 DEF NodeEvent
      <4> QED
        BY <1>9, <2>1, <3>1, <4>2, <4>3
    <3> QED
      BY <3>3, <3>4
  <2>3. CASE view.node[x] # Absent
    <3>1. \A k \in Ancestors[x] : view.node[k] # Absent
      BY <1>5, <2>1, <2>3
    <3>2. SUFFICES ASSUME (view.node)'[m] = Absent PROVE FALSE
      OBVIOUS
    <3>3. m \in About(e) /\ view.node[m] # Absent
      BY <1>9, <1>11, <2>1, <3>1, <3>2
    <3>4. NodeEvent(e)
      BY <1>10, <2>1, <3>3
    <3>5. e.kind = "pruned" /\ m \in Descendants(view, e.node)
      BY <1>9, <2>1, <3>2, <3>3, <3>4 DEF NodeEvent
    <3>6. m \in Below(e.node) /\ e.node \in Nodes
      BY <1>8, <3>5 DEF Descendants, RightOp
    <3>7. e.node \in Ancestors[x] /\ x \in Below(e.node)
      BY <2>1, <3>6 DEF Below
    <3>8. x \in Descendants(view, e.node)
      BY <2>3, <3>1, <3>7 DEF Descendants
    <3>9. x \in About(e)
      BY <1>8, <3>5, <3>7, AboutNode
    <3> QED
      BY <1>9, <1>11, <3>5, <3>8, <3>9
  <2> QED
    BY <2>2, <2>3
<1> QED
  BY <1>2, <1>3, <1>6, <1>7, <1>11 DEF ShownInv

\* What is shown has been created; the intervention's own event comes last.
LEMMA ApplyHistory ==
  ASSUME IInv, HandlerForm, HistoryInv, ApplyEvent
  PROVE  HistoryInv'
<1>1. PICK e : e = log[next]
  OBVIOUS
<1>2. /\ e \in Published /\ next \in 1..Len(log) /\ next' = next + 1
      /\ UNCHANGED <<repo, log, job, handler, done>>
      /\ (snap.at)' = snap.at /\ (snap.run)' = snap.run /\ (snap.node)' = snap.node
      /\ (call.kind)' = call.kind /\ (call.node)' = call.node /\ (call.previous)' = call.previous
      /\ call.heard \subseteq (call.heard)'
      /\ IF call.kind # None /\ call.node \in About(e)
         THEN (IF e.kind = "intervention" THEN "own" ELSE "other") \in (call.heard)'
         ELSE (call.heard)' = call.heard
      /\ \A x \in Nodes : (view.node)'[x] \in {view.node[x], Applied(view, e).node[x]}
  BY <1>1, ApplyDoes, ApplyShows
<1>3. MadeInv /\ ShownInv /\ OwnInv
  BY DEF HistoryInv
<1>4. view \in Views /\ e \in RightOps /\ RightOp(e) /\ e.do = "publish" /\ log \in Seq(RightOps)
  BY <1>2 DEF IInv, ServerInv, PageInv, Published, RightOps
<1>5. ASSUME NEW x \in Nodes, (view.node)'[x] # Absent PROVE Made(x)'
  <2>1. CASE view.node[x] # Absent
    BY <1>2, <1>3, <2>1 DEF MadeInv, Made
  <2>2. CASE view.node[x] = Absent
    <3>1. Applied(view, e).node[x] # Absent
      BY <1>2, <1>5, <2>2
    <3>2. x \in About(e) /\ e.kind = "created"
      BY <1>2, <1>4, <2>2, <3>1, AppliedNodes
    <3>3. e.node = x
      BY <1>4, <3>2, AboutNode
    <3>4. next \in DOMAIN log
      BY <1>2, <1>4
    <3> QED
      BY <1>1, <1>2, <3>2, <3>3, <3>4 DEF Made
  <2> QED
    BY <2>1, <2>2
<1>6. MadeInv'
  BY <1>2, <1>3, <1>5 DEF MadeInv, Made
<1>7. ShownInv'
  BY <1>3, ApplyShown
<1>8. OwnInv'
  <2>1. SUFFICES ASSUME call.kind \in {"retry", "skip"}
                 PROVE  /\ (call.heard)' = {} => (view.node)'[call.node] = "running"
                        /\ Busy /\ handler.ops = <<>> =>
                             \E k \in DOMAIN log : Own(k) /\ (k < next' =>
                               \/ "other" \in (call.heard)'
                               \/ (call.heard)' # {} /\ (view.node)'[call.node] \in {TargetOf(call.kind), Absent})
    BY <1>2 DEF OwnInv, Own, Busy
  <2>2. call.kind # None /\ call.node \in Nodes /\ snap.at = "shown"
    BY <2>1, ConstantsAssumption DEF ConstantsAssumption, HandlerForm, IInv, PageInv
  <2>3. (view.node)'[call.node] = Applied(view, e).node[call.node]
    BY <1>1, <1>3, <2>2, ApplyShows
  <2> DEFINE n == call.node
             t == TargetOf(call.kind)
  <2>4. CASE n \notin About(e)
    <3>1. (call.heard)' = call.heard /\ (view.node)'[n] = view.node[n]
      BY <1>2, <1>4, <2>2, <2>3, <2>4, AppliedNodes
    <3>2. call.heard = {} => view.node[n] = "running"
      BY <1>3, <2>1 DEF OwnInv
    <3>3. ASSUME Busy, handler.ops = <<>>
          PROVE  \E k \in DOMAIN log : Own(k) /\ (k < next' =>
                   \/ "other" \in (call.heard)'
                   \/ (call.heard)' # {} /\ (view.node)'[n] \in {t, Absent})
      <4>1. PICK k \in DOMAIN log : Own(k) /\ (k < next =>
              \/ "other" \in call.heard
              \/ call.heard # {} /\ view.node[n] \in {t, Absent})
        BY <1>3, <2>1, <3>3 DEF OwnInv
      <4>2. k # next
        <5>1. SUFFICES ASSUME k = next PROVE FALSE
          OBVIOUS
        <5>2. e.kind = "intervention" /\ e.node = n
          BY <1>1, <4>1, <5>1 DEF Own
        <5> QED
          BY <1>4, <2>2, <2>4, <5>2, AboutNode
      <4>3. k < next' => k < next
        BY <1>2, <1>4, <4>2
      <4> QED
        BY <3>1, <4>1, <4>3
    <3> QED
      BY <3>1, <3>2, <3>3
  <2>5. CASE n \in About(e)
    <3>1. (call.heard)' # {} /\ (e.kind # "intervention" => "other" \in (call.heard)')
      BY <1>2, <2>2, <2>5
    <3>2. ASSUME Busy, handler.ops = <<>>
          PROVE  \E k \in DOMAIN log : Own(k) /\ (k < next' =>
                   \/ "other" \in (call.heard)'
                   \/ (call.heard)' # {} /\ (view.node)'[n] \in {t, Absent})
      <4>1. PICK k \in DOMAIN log : Own(k) /\ (k < next =>
              \/ "other" \in call.heard
              \/ call.heard # {} /\ view.node[n] \in {t, Absent})
        BY <1>3, <2>1, <3>2 DEF OwnInv
      <4>2. CASE e.kind # "intervention"
        BY <3>1, <4>1, <4>2
      <4>3. CASE e.kind = "intervention"
        <5>1. ~ (next > k)
          BY <1>1, <1>2, <1>4, <4>1, <4>3 DEF Own
        <5>2. CASE k # next
          BY <1>2, <1>4, <4>1, <5>1, <5>2
        <5>3. CASE k = next
          <6>1. e.status = t
            BY <1>1, <4>1, <5>3 DEF Own
          <6>2. (view.node)'[n] \in {t, Absent}
            BY <1>2, <1>4, <2>2, <2>3, <2>5, <4>3, <6>1, AppliedNodes
          <6> QED
            BY <3>1, <4>1, <6>2
        <5> QED
          BY <5>2, <5>3
      <4> QED
        BY <4>2, <4>3
    <3> QED
      BY <3>1, <3>2
  <2> QED
    BY <2>4, <2>5
<1> QED
  BY <1>6, <1>7, <1>8 DEF HistoryInv

\* An event that arrives changes nothing on the server.
LEMMA ApplyForm ==
  ASSUME IInv, FormInv, ApplyEvent
  PROVE  FormInv'
<1>1. PICK e : e = log[next]
  OBVIOUS
<1>2. /\ UNCHANGED <<repo, log, job, handler, done>>
      /\ (snap.at)' = snap.at
      /\ (call.kind)' = call.kind /\ (call.node)' = call.node
      /\ raced \subseteq raced'
  BY <1>1, ApplyDoes
<1>3. JobForm'
  BY <1>2 DEF FormInv, JobForm, StatusJob
<1>4. HandlerForm'
  BY <1>2 DEF FormInv, HandlerForm
<1>5. Apart'
  BY <1>2 DEF FormInv, Apart
<1>6. DeletionInv'
  BY <1>2 DEF FormInv, DeletionInv, Busy
<1> QED
  BY <1>3, <1>4, <1>5, <1>6 DEF FormInv

\* What is to come of a node after an event has arrived.
LEMMA ApplyKeeps ==
  ASSUME IInv, HistoryInv, ApplyEvent, NEW x \in Nodes, x \notin Off'
  PROVE  (Told(x) => Told(x)') /\ (repo.node[x] # Absent /\ Present(x) => Present(x)')
<1>1. PICK e : e = log[next]
  OBVIOUS
<1>2. /\ e \in Published /\ next \in 1..Len(log) /\ next' = next + 1
      /\ UNCHANGED <<repo, log, job, handler, done>>
      /\ Future(x)' = Future(x) \ {next} /\ (next \in Future(x) <=> x \in About(e))
      /\ \A j \in Future(x) : next <= j
      /\ (snap.at)' = snap.at /\ (snap.run)' = snap.run /\ (snap.node)' = snap.node
      /\ (snap.since)' = snap.since \cup (About(e) \cap Missed)
      /\ (call.kind)' = call.kind /\ (call.node)' = call.node /\ (call.previous)' = call.previous
      /\ call.heard \subseteq (call.heard)'
      /\ IF call.kind # None /\ call.node \in About(e)
         THEN (IF e.kind = "intervention" THEN "own" ELSE "other") \in (call.heard)'
         ELSE (call.heard)' = call.heard
      /\ raced \subseteq raced'
  BY <1>1, ApplyDoes
<1>3. x \notin raced /\ x \notin (snap.since)'
  BY <1>2 DEF Off
<1>4. MadeInv /\ ShownInv /\ OwnInv /\ snap \in Snaps /\ view \in Views
  BY DEF HistoryInv, IInv, PageInv
<1>5. /\ Future(x) \in SUBSET Nat
      /\ e \in RightOps /\ e.do = "publish" /\ RightOp(e)
  BY <1>2, EventsAre DEF Published, RightOps
<1>6. None \notin {"retry", "skip"}
  BY ConstantsAssumption DEF ConstantsAssumption
<1> DEFINE F == Future(x)
           b == Base(x)
           c == Base(x)'
           r == repo.node[x]
           s == Normalized(repo.node[x])
<1>7. /\ Present(x) <=> Keeps(log, F, b)
      /\ Told(x) <=> IF r = Absent THEN Drops(log, F, b) ELSE Keeps(log, F, b) /\ Tells(log, F, b, s)
  BY DEF Present, Told, Gone, Current
<1>8. /\ Present(x)' <=> Keeps(log, F \ {next}, c)
      /\ Told(x)' <=> IF r = Absent THEN Drops(log, F \ {next}, c)
                      ELSE Keeps(log, F \ {next}, c) /\ Tells(log, F \ {next}, c, s)
  BY <1>2 DEF Present, Told, Gone, Current
<1>9. CASE x \notin About(e)
  <2>1. c = b
    <3>1. CASE snap.at \in {"asked", "run read"}
      BY <1>2, <3>1 DEF Base
    <3>2. CASE snap.at = "answered"
      <4>1. b = Normalized(snap.node[x])
        BY <3>2 DEF Base
      <4>2. c = Normalized(snap.node[x])'
        BY <1>2, <3>2 DEF Base
      <4>3. Normalized(snap.node[x])' = Normalized(snap.node[x])
        BY <1>2 DEF Normalized, EventStatus
      <4> QED
        BY <4>1, <4>2, <4>3
    <3>3. CASE snap.at = "shown"
      <4>1. (view.node)'[x] = view.node[x]
        BY <1>1, <1>2, <1>4, <1>9, <3>3, ApplyShows, AppliedNodes
      <4>2. Optimistic(x)' <=> Optimistic(x)
        BY <1>2, <1>9 DEF Optimistic
      <4>3. b = IF Optimistic(x) THEN call.previous ELSE view.node[x]
        BY <3>3 DEF Base
      <4>4. c = IF Optimistic(x)' THEN (call.previous)' ELSE (view.node)'[x]
        BY <1>2, <3>3 DEF Base
      <4> QED
        BY <1>2, <4>1, <4>2, <4>3, <4>4
    <3> QED
      BY <1>4, <3>1, <3>2, <3>3 DEF Snaps
  <2>2. F \ {next} = F
    BY <1>2, <1>9
  <2> QED
    BY <1>7, <1>8, <2>1, <2>2, Zenon
<1>10. CASE x \in About(e)
  <2>1. next \in F /\ F \in SUBSET Nat /\ NodeEvent(e) /\ \A j \in F : next <= j
    BY <1>2, <1>5, <1>10, AboutNode
  <2>2. CASE snap.at \in {"asked", "run read"}
    <3>1. b = s /\ c = s
      BY <1>2, <2>2 DEF Base
    <3> HIDE DEF F, b, c, s
    <3>2. /\ s # Absent /\ Keeps(log, F, s) => Keeps(log, F \ {next}, s)
          /\ s = Absent /\ Drops(log, F, s) => Drops(log, F \ {next}, s)
          /\ Tells(log, F, s, s) => Tells(log, F \ {next}, s, s)
      BY <2>1, FirstPassed
    <3>3. r = Absent => s = Absent
      BY NormalizedIs DEF s
    <3>4. r # Absent => s # Absent
      <4>1. r \in NodeStatus \cup {Absent}
        BY DEF IInv, ServerInv, Repos, NodeTables
      <4> QED
        BY <4>1, NormalizedIs DEF s
    <3> QED
      BY <1>7, <1>8, <3>1, <3>2, <3>3, <3>4, Zenon
  <2>3. CASE snap.at = "answered"
    <3>1. x \in Missed
      BY <2>3 DEF Missed, Things
    <3> QED
      BY <1>2, <1>3, <1>10, <3>1
  <2>4. CASE snap.at = "shown"
    <3>1. (view.node)'[x] = Applied(view, e).node[x]
      BY <1>1, <1>4, <2>4, ApplyShows
    <3>2. (view.node)'[x] = Step(e, view.node[x])
      <4>1. e.kind = "pruned" /\ view.node[x] # Absent => x \in Descendants(view, e.node)
        <5>1. ASSUME e.kind = "pruned", view.node[x] # Absent PROVE x \in Descendants(view, e.node)
          <6>1. x \in Below(e.node)
            BY <1>5, <1>10, <5>1, AboutNode
          <6>2. \A m \in Ancestors[x] : view.node[m] # Absent
            BY <1>3, <1>4, <2>4, <5>1 DEF ShownInv
          <6> QED
            BY <5>1, <6>1, <6>2 DEF Descendants
        <5> QED
          BY <5>1
      <4>2. Applied(view, e).node[x] =
              IF x \notin About(e) THEN view.node[x]
              ELSE IF e.kind = "created" THEN e.status
              ELSE IF e.kind = "pruned" THEN (IF x \in Descendants(view, e.node) THEN Absent ELSE view.node[x])
              ELSE IF view.node[x] = Absent THEN Absent ELSE e.status
        BY <1>2, <1>4, AppliedNodes
      <4> QED
        BY <1>10, <3>1, <4>1, <4>2 DEF Step
    <3>3. ~ Optimistic(x)'
      <4>1. call.kind \in {"retry", "skip"} /\ call.node = x => (call.heard)' # {}
        BY <1>2, <1>6, <1>10
      <4> QED
        BY <1>2, <4>1 DEF Optimistic
    <3>4. c = (view.node)'[x]
      BY <1>2, <2>4, <3>3 DEF Base
    <3>5. Step(e, view.node[x]) = Step(e, b)
      <4>1. CASE Optimistic(x)
        <5>1. b = call.previous /\ call.previous # Absent
          BY <2>4, <4>1 DEF Base, Optimistic, IInv, PageInv
        <5>2. view.node[x] = "running"
          BY <1>4, <4>1 DEF OwnInv, Optimistic
        <5>3. view.node[x] # Absent
          BY <5>2 DEF Absent
        <5> QED
          BY <5>1, <5>3 DEF Step
      <4>2. CASE ~ Optimistic(x)
        BY <2>4, <4>2 DEF Base
      <4> QED
        BY <4>1, <4>2
    <3>6. c = Step(e, b)
      BY <3>2, <3>4, <3>5
    <3> HIDE DEF F, b, c, s
    <3>7. e = log[next] /\ NodeEvent(log[next])
      BY <1>1, <2>1
    <3>8. /\ Keeps(log, F, b) => Keeps(log, F \ {next}, Step(log[next], b))
          /\ Drops(log, F, b) => Drops(log, F \ {next}, Step(log[next], b))
          /\ \A u : Keeps(log, F, b) /\ Tells(log, F, b, u) => Tells(log, F \ {next}, Step(log[next], b), u)
      BY <2>1, <3>7, FirstApplied
    <3> QED
      BY <1>7, <1>8, <3>6, <3>7, <3>8, Zenon
  <2> QED
    BY <1>4, <2>2, <2>3, <2>4 DEF Snaps
<1> QED
  BY <1>9, <1>10

\* A node that was to be shown will be, and one that was to go will go.
LEMMA ApplyNodes ==
  ASSUME IInv, HistoryInv, NodesInv, ApplyEvent
  PROVE  NodesInv'
<1>1. PICK e : e = log[next]
  OBVIOUS
<1>2. /\ UNCHANGED <<repo, log, job, handler, done>>
      /\ (call.kind)' = call.kind /\ (call.node)' = call.node
      /\ (snap.since)' = snap.since \cup (About(e) \cap Missed) /\ raced \subseteq raced'
  BY <1>1, ApplyDoes
<1>3. SUFFICES ASSUME NEW x \in Nodes, x \notin Off' PROVE NodeInv(x)'
  BY DEF NodesInv
<1>4. NodeInv(x)
  BY <1>2, <1>3 DEF NodesInv, Off
<1>5. (Told(x) => Told(x)') /\ (repo.node[x] # Absent /\ Present(x) => Present(x)')
  BY <1>3, ApplyKeeps
<1> QED
  BY <1>2, <1>4, <1>5, PageKeepsNode

\* The run's last event will be shown, and nothing after it.
LEMMA ApplyRun ==
  ASSUME IInv, ShownInv, RunInv, ApplyEvent
  PROVE  RunInv'
<1>1. PICK e : e = log[next]
  OBVIOUS
<1>2. /\ e \in Published /\ next \in 1..Len(log) /\ next' = next + 1
      /\ UNCHANGED <<repo, log, job, handler, done>>
      /\ Future("run")' = Future("run") \ {next} /\ (next \in Future("run") <=> "run" \in About(e))
      /\ \A j \in Future("run") : next <= j
      /\ (snap.at)' = snap.at /\ (snap.run)' = snap.run
      /\ (snap.since)' = snap.since \cup (About(e) \cap Missed)
      /\ raced \subseteq raced'
  BY <1>1, ApplyDoes
<1>3. SUFFICES ASSUME "run" \notin Off' PROVE RunInv'
  BY DEF RunInv
<1>4. "run" \notin Off /\ "run" \notin (snap.since)'
  BY <1>2, <1>3 DEF Off
<1>5. snap \in Snaps /\ view \in Views /\ repo.run # None /\ e \in RightOps
  BY <1>2, ConstantsAssumption DEF IInv, ServerInv, PageInv, Repos, ConstantsAssumption, Published
<1> DEFINE F == Future("run")
           b == BaseRun
           c == BaseRun'
           s == repo.run
<1>6. RunTold <=> Tells(log, F, b, s)
  BY DEF RunTold
<1>7. RunTold' <=> Tells(log, F \ {next}, c, s)
  BY <1>2 DEF RunTold
<1>8. snap.at = "shown" => c = (IF e.kind = "run" /\ e.status # None THEN e.status ELSE b)
  <2>1. ASSUME snap.at = "shown" PROVE c = (IF e.kind = "run" /\ e.status # None THEN e.status ELSE b)
    <3>1. (view.run)' = Applied(view, e).run /\ view.run # None
      BY <1>1, <2>1, ApplyShows DEF ShownInv
    <3>2. c = (view.run)' /\ b = view.run
      BY <1>2, <2>1 DEF BaseRun
    <3> QED
      BY <1>2, <1>5, <3>1, <3>2, AppliedRun
  <2> QED
    BY <2>1
<1>9. snap.at # "shown" => c = b
  BY <1>2 DEF BaseRun
<1>10. snap.at = "asked" => b = s
  BY DEF BaseRun
<1>11. ASSUME RunTold PROVE RunTold'
  <2>1. CASE "run" \notin About(e)
    <3>1. e.kind # "run" /\ F \ {next} = F
      BY <1>2, <1>5, <2>1, AboutRun
    <3>2. c = b
      BY <1>8, <1>9, <3>1
    <3> QED
      BY <1>6, <1>7, <1>11, <3>1, <3>2, Zenon
  <2>2. CASE "run" \in About(e)
    <3>1. e.kind = "run" /\ next \in F /\ F \in SUBSET Nat
      BY <1>2, <1>5, <2>2, AboutRun, EventsAre
    <3>2. snap.at \in {"asked", "shown"}
      <4>1. "run" \notin Missed
        BY <1>2, <1>4, <2>2
      <4> QED
        BY <1>5, <4>1 DEF Missed, Snaps, Things
    <3> HIDE DEF F, b, c, s
    <3>3. /\ F \ {next} = {} => log[next].status = s
          /\ \A d : (F \ {next} = {} => d = s) => Tells(log, F \ {next}, d, s)
      BY <1>2, <1>6, <1>11, <3>1, FirstTold DEF F
    <3>4. F \ {next} = {} => c = s
      <4>1. CASE snap.at = "asked"
        BY <1>9, <1>10, <4>1
      <4>2. CASE snap.at = "shown"
        BY <1>1, <1>5, <1>8, <3>1, <3>3, <4>2 DEF s
      <4> QED
        BY <3>2, <4>1, <4>2
    <3> QED
      BY <1>7, <3>3, <3>4
  <2> QED
    BY <2>1, <2>2
<1> QED
  BY <1>2, <1>4, <1>11 DEF RunInv, HandlerTells

\* A token event that arrives is counted on the page, and no longer to come.
LEMMA ApplyTokens ==
  ASSUME IInv, ShownInv, TokensInv, ApplyEvent
  PROVE  TokensInv'
<1>1. PICK e : e = log[next]
  OBVIOUS
<1>2. /\ e \in Published /\ next \in 1..Len(log) /\ next' = next + 1
      /\ UNCHANGED <<repo, log, job, handler, done>>
      /\ Future("tokens")' = Future("tokens") \ {next} /\ (next \in Future("tokens") <=> "tokens" \in About(e))
      /\ (snap.at)' = snap.at
      /\ (snap.since)' = snap.since \cup (About(e) \cap Missed)
      /\ raced \subseteq raced'
  BY <1>1, ApplyDoes
<1>3. SUFFICES ASSUME "tokens" \notin Off' PROVE TokensInv'
  BY DEF TokensInv
<1>4. "tokens" \notin Off /\ "tokens" \notin (snap.since)'
  BY <1>2, <1>3 DEF Off
<1>5. snap \in Snaps /\ view \in Views /\ e \in RightOps
  BY <1>2 DEF IInv, PageInv, Published
<1> DEFINE F == Future("tokens")
           G == Future("tokens")'
           v == IF snap.at = "shown" THEN view.tokens ELSE 0
           w == (IF snap.at = "shown" THEN view.tokens ELSE 0)'
           d == IF job = Tail(Charge) THEN 1 ELSE 0
<1>6. repo.tokens = v + Cardinality(F) + d
  BY <1>4 DEF TokensInv
<1>7. IsFiniteSet(F) /\ Cardinality(F) \in Nat
  BY FutureIsFinite
<1>8. v \in Nat /\ d \in Nat
  BY <1>5 DEF Views
<1>9. snap.at = "shown" => w = (IF e.kind = "tokens" THEN v + 1 ELSE v)
  <2>1. ASSUME snap.at = "shown" PROVE w = (IF e.kind = "tokens" THEN v + 1 ELSE v)
    <3>1. (view.tokens)' = Applied(view, e).tokens /\ view.run # None
      BY <1>1, <2>1, ApplyShows DEF ShownInv
    <3>2. w = (view.tokens)' /\ v = view.tokens
      BY <1>2, <2>1
    <3>3. Applied(view, e).tokens = IF e.kind = "tokens" THEN view.tokens + 1 ELSE view.tokens
      BY <1>2, <1>5, <3>1, AppliedRun
    <3> QED
      BY <3>1, <3>2, <3>3
  <2> QED
    BY <2>1
<1>10. snap.at # "shown" => w = v
  BY <1>2
<1>11. w + Cardinality(G) = v + Cardinality(F)
  <2>1. CASE "tokens" \notin About(e)
    <3>1. e.kind # "tokens" /\ G = F
      BY <1>2, <1>5, <2>1, AboutRun
    <3>2. w = v
      BY <1>9, <1>10, <3>1
    <3> QED
      BY <3>1, <3>2
  <2>2. CASE "tokens" \in About(e)
    <3>1. e.kind = "tokens" /\ next \in F
      BY <1>2, <1>5, <2>2, AboutRun
    <3>2. snap.at = "shown"
      <4>1. "tokens" \notin Missed
        BY <1>2, <1>4, <2>2
      <4> QED
        BY <1>5, <4>1 DEF Missed, Snaps, Things
    <3>3. Cardinality(F \ {next}) = Cardinality(F) - 1
      BY <1>7, <3>1, FS_RemoveElement
    <3>4. w = v + 1 /\ G = F \ {next}
      BY <1>2, <1>9, <3>1, <3>2
    <3> HIDE DEF F, G, v, w
    <3>5. Cardinality(G) = Cardinality(F) - 1
      BY <3>3, <3>4
    <3> QED
      BY <1>7, <1>8, <3>4, <3>5
  <2> QED
    BY <2>1, <2>2
<1>12. repo.tokens = w + Cardinality(G) + d
  <2> HIDE DEF F, G, v, w, d
  <2> QED
    BY <1>6, <1>11
<1> QED
  BY <1>2, <1>12 DEF TokensInv

\* An event that arrives keeps the invariant.
LEMMA ApplySettles ==
  ASSUME IInv, SettlingInv, ApplyEvent
  PROVE  SettlingInv'
BY ApplyForm, ApplyHistory, ApplyNodes, ApplyRun, ApplyTokens
DEF SettlingInv, FormInv, HistoryInv, FutureInv
-----------------------------------------------------------------------------
(* The user's call begins and ends.                                        *)

\* A step that begins or ends a call, where the handler is not at work.
LEMMA CallKeepsNode ==
  ASSUME UNCHANGED <<repo, job>>, NEW x \in Nodes, NodeInv(x), ~ HandlerOn(x), ~ HandlerOn(x)',
         Told(x) => Told(x)', repo.node[x] # Absent /\ Present(x) => Present(x)'
  PROVE  NodeInv(x)'
<1>1. IF x \in Ahead(job) THEN JobAt(x) ELSE Told(x)
  BY DEF NodeInv
<1>2. ASSUME JobAt(x) PROVE JobAt(x)'
  <2>1. job \in Rest(x, repo.node[x]) => repo.node[x] # Absent
    BY RestStep, NormalizedIs
  <2> QED
    BY <1>2, <2>1 DEF JobAt
<1> QED
  BY <1>1, <1>2 DEF NodeInv

\* The parts of the invariant that a call does not touch, when it begins and when it ends.
LEMMA CallFuture ==
  ASSUME IInv, RunInv, TokensInv, UNCHANGED <<repo, log, job, next, snap>>, raced \subseteq raced',
         (view.run)' = view.run, (view.tokens)' = view.tokens,
         handler.ops = <<>>, (handler.ops)' = <<>>
  PROVE  RunInv' /\ TokensInv'
<1>1. ~ HandlerTells /\ ~ HandlerTells'
  BY DEF HandlerTells
<1>2. Off \subseteq Off'
  BY DEF Off
<1>3. RunTold <=> RunTold'
  BY DEF RunTold, BaseRun, Future
<1>4. RunInv'
  BY <1>1, <1>2, <1>3 DEF RunInv
<1>5. TokensInv'
  BY <1>2 DEF TokensInv, Future
<1> QED
  BY <1>4, <1>5

\* ... and of the forms.
LEMMA CallForm ==
  ASSUME FormInv, UNCHANGED <<repo, log, job, next>>, raced \subseteq raced', ~ Busy', (handler.ops)' = <<>>,
         (call.kind)' # None => (snap.at)' = "shown"
  PROVE  FormInv'
<1>1. JobForm'
  BY DEF FormInv, JobForm, StatusJob
<1>2. (handler.answer)' # "working"
  BY DEF Busy
<1>3. HandlerForm'
  BY <1>2 DEF FormInv, HandlerForm
<1>4. Apart'
  BY AheadIs DEF Apart
<1>5. DeletionInv'
  BY DEF DeletionInv
<1> QED
  BY <1>1, <1>3, <1>4, <1>5 DEF FormInv

\* The user asks for a retry or a skip, and sees the node running.
LEMMA UserIntervenesSettles ==
  ASSUME IInv, CallInv, SettlingInv, UserIntervenes
  PROVE  SettlingInv'
<1>1. PICK n \in Nodes, kind \in {"retry", "skip"} :
        /\ view.node[n] \in {"blocked_human", "failed"}
        /\ call' = Asked(kind, n)
        /\ view' = [view EXCEPT !.node[n] = "running"]
  BY DEF UserIntervenes
<1>2. /\ snap.at = "shown" /\ call = NoCall /\ UNCHANGED <<repo, log, job, handler, next, snap, raced>>
  BY DEF UserIntervenes, MayCall
<1>3. FormInv /\ HistoryInv /\ FutureInv
  BY DEF SettlingInv
<1>4. view \in Views
  BY DEF IInv, PageInv
<1>5. /\ (call.kind)' = kind /\ (call.node)' = n /\ (call.previous)' = view.node[n] /\ (call.heard)' = {}
  BY <1>1 DEF Asked
<1>6. /\ \A x \in Nodes : (view.node)'[x] = IF x = n THEN "running" ELSE view.node[x]
      /\ (view.run)' = view.run /\ (view.tokens)' = view.tokens /\ (view.lastSeq)' = view.lastSeq
  BY <1>1, <1>4 DEF Views
<1>7. call.kind = None /\ handler.answer = "none" /\ ~ Busy /\ ~ Busy' /\ handler.ops = <<>>
  BY <1>2, <1>3 DEF NoCall, CallInv, Busy, FormInv, HandlerForm, IInv, ServerInv, Handlers
<1>8. FormInv'
  BY <1>2, <1>3, <1>7, CallForm
<1>9. \A x \in Nodes : (view.node)'[x] # Absent <=> view.node[x] # Absent
  BY <1>1, <1>6 DEF Absent
<1>10. HistoryInv'
  <2>1. MadeInv'
    BY <1>2, <1>3, <1>5, <1>9 DEF HistoryInv, MadeInv, Made
  <2>2. ShownInv'
    <3>1. \A x \in Nodes : \A m \in Ancestors[x] : m \in Nodes
      BY AncestorsGoOn
    <3> QED
      BY <1>2, <1>3, <1>6, <1>9, <3>1 DEF HistoryInv, ShownInv
  <2>3. OwnInv'
    BY <1>5, <1>6, <1>7 DEF OwnInv
  <2> QED
    BY <2>1, <2>2, <2>3 DEF HistoryInv
<1>11. NodesInv'
  <2>1. SUFFICES ASSUME NEW x \in Nodes \ Off PROVE NodeInv(x)'
    BY <1>2 DEF NodesInv, Off
  <2>2. NodeInv(x)
    BY <1>3 DEF FutureInv, NodesInv
  <2>3. Base(x)' = Base(x)
    <3>1. ~ Optimistic(x)
      BY <1>7, ConstantsAssumption DEF Optimistic, ConstantsAssumption
    <3>2. Optimistic(x)' <=> x = n
      BY <1>5 DEF Optimistic
    <3>3. Base(x) = view.node[x]
      BY <1>2, <3>1 DEF Base
    <3>4. Base(x)' = IF x = n THEN view.node[n] ELSE (view.node)'[x]
      BY <1>2, <1>5, <3>2 DEF Base
    <3> QED
      BY <1>6, <3>3, <3>4
  <2>4. (Told(x) <=> Told(x)') /\ (Present(x) <=> Present(x)')
    BY <1>2, <2>3, SameBase
  <2>5. ~ HandlerOn(x) /\ ~ HandlerOn(x)'
    BY <1>7 DEF HandlerOn
  <2> QED
    BY <1>2, <2>2, <2>4, <2>5, CallKeepsNode
<1>12. RunInv' /\ TokensInv'
  BY <1>2, <1>3, <1>6, <1>7, CallFuture DEF FutureInv
<1> QED
  BY <1>8, <1>10, <1>11, <1>12 DEF SettlingInv, FutureInv

\* The user asks for a deletion.
LEMMA UserDeletesSettles ==
  ASSUME IInv, CallInv, SettlingInv, UserDeletes
  PROVE  SettlingInv'
<1>1. PICK n \in Nodes \ {Root} : view.node[n] # Absent /\ call' = Asked("delete", n)
  BY DEF UserDeletes
<1>2. /\ snap.at = "shown" /\ call = NoCall /\ UNCHANGED <<repo, log, job, handler, next, snap, view, raced>>
  BY DEF UserDeletes, MayCall
<1>3. FormInv /\ HistoryInv /\ FutureInv
  BY DEF SettlingInv
<1>4. (call.kind)' = "delete" /\ (call.node)' = n
  BY <1>1 DEF Asked
<1>5. call.kind = None /\ handler.answer = "none" /\ ~ Busy /\ ~ Busy' /\ handler.ops = <<>>
  BY <1>2, <1>3 DEF NoCall, CallInv, Busy, FormInv, HandlerForm, IInv, ServerInv, Handlers
<1>6. FormInv'
  BY <1>2, <1>3, <1>5, CallForm
<1>7. HistoryInv'
  <2>1. MadeInv'
    BY <1>1, <1>2, <1>3, <1>4 DEF HistoryInv, MadeInv, Made
  <2>2. ShownInv'
    BY <1>2, <1>3 DEF HistoryInv, ShownInv
  <2>3. OwnInv'
    BY <1>4 DEF OwnInv
  <2> QED
    BY <2>1, <2>2, <2>3 DEF HistoryInv
<1>8. NodesInv'
  <2>1. SUFFICES ASSUME NEW x \in Nodes \ Off PROVE NodeInv(x)'
    BY <1>2 DEF NodesInv, Off
  <2>2. NodeInv(x)
    BY <1>3 DEF FutureInv, NodesInv
  <2>3. Base(x)' = Base(x)
    <3>1. ~ Optimistic(x)
      BY <1>5, ConstantsAssumption DEF Optimistic, ConstantsAssumption
    <3>2. ~ Optimistic(x)'
      BY <1>4 DEF Optimistic
    <3>3. Base(x) = view.node[x]
      BY <1>2, <3>1 DEF Base
    <3>4. Base(x)' = (view.node)'[x]
      BY <1>2, <3>2 DEF Base
    <3> QED
      BY <1>2, <3>3, <3>4
  <2>4. (Told(x) <=> Told(x)') /\ (Present(x) <=> Present(x)')
    BY <1>2, <2>3, SameBase
  <2>5. ~ HandlerOn(x) /\ ~ HandlerOn(x)'
    BY <1>5 DEF HandlerOn
  <2> QED
    BY <1>2, <2>2, <2>4, <2>5, CallKeepsNode
<1>9. RunInv' /\ TokensInv'
  BY <1>2, <1>3, <1>5, CallFuture DEF FutureInv
<1> QED
  BY <1>6, <1>7, <1>8, <1>9 DEF SettlingInv, FutureInv

\* The answer to a call.
LEMMA AnsweredDoes ==
  ASSUME IInv, FormInv, NEW kinds, Answered(kinds), kinds \subseteq {"retry", "skip", "delete"}
  PROVE  /\ call.kind \in kinds /\ call.node \in Nodes /\ snap.at = "shown"
         /\ handler.answer \in {"accepted", "refused"} /\ handler.ops = <<>> /\ (handler.ops)' = <<>> /\ ~ Busy'
         /\ (Busy <=> handler.answer = "accepted")
         /\ (call.kind)' = None /\ UNCHANGED <<repo, log, job, next, snap, done>>
         /\ \A x : ~ Optimistic(x)'
<1>1. /\ call.kind \in kinds /\ handler.answer \in {"accepted", "refused"}
      /\ call' = NoCall /\ handler' = NoHandler
      /\ UNCHANGED <<repo, log, job, next, snap, done>>
  BY DEF Answered
<1>2. (call.kind)' = None /\ (handler.ops)' = <<>> /\ (handler.answer)' = "none"
  BY <1>1 DEF NoCall, NoHandler
<1>3. None \notin {"retry", "skip", "delete"}
  BY ConstantsAssumption DEF ConstantsAssumption
<1>4. call.kind # None
  BY <1>1, <1>3
<1>5. call.node \in Nodes /\ snap.at = "shown" /\ handler.ops = <<>>
  BY <1>1, <1>4 DEF IInv, PageInv, FormInv, HandlerForm
<1>6. ~ Busy' /\ (Busy <=> handler.answer = "accepted")
  BY <1>1, <1>2 DEF Busy
<1>7. \A x : ~ Optimistic(x)'
  BY <1>2, <1>3 DEF Optimistic
<1> QED
  BY <1>1, <1>2, <1>5, <1>6, <1>7

\* With an event to come, two nodes that are shown are as good as each other.
LEMMA BothShown ==
  ASSUME NEW l, NEW F, F # {}, NEW b, b # Absent, NEW c, c # Absent
  PROVE  /\ Keeps(l, F, b) <=> Keeps(l, F, c)
         /\ Drops(l, F, b) <=> Drops(l, F, c)
         /\ \A s : Tells(l, F, b, s) <=> Tells(l, F, c, s)
BY DEF Keeps, Drops, Tells

\* The page takes the answer to an intervention.
LEMMA TakeInterventionNodes ==
  ASSUME IInv, SettlingInv, TakeIntervention, NEW x \in Nodes, x \notin Off'
  PROVE  (Told(x) <=> Told(x)') /\ (Present(x) <=> Present(x)')
<1> DEFINE n == call.node
           t == TargetOf(call.kind)
<1>1. FormInv /\ HistoryInv
  BY DEF SettlingInv
<1>2. /\ Answered({"retry", "skip"})
      /\ view' = IF view.node[n] = Absent THEN view
                 ELSE [view EXCEPT !.node[n] = IF handler.answer = "accepted" THEN t ELSE call.previous]
      /\ raced' = IF "other" \in call.heard \/ (handler.answer = "refused" /\ call.heard # {})
                  THEN raced \cup {n} ELSE raced
  BY DEF TakeIntervention
<1>3. /\ call.kind \in {"retry", "skip"} /\ n \in Nodes /\ snap.at = "shown"
      /\ handler.answer \in {"accepted", "refused"} /\ handler.ops = <<>>
      /\ (Busy <=> handler.answer = "accepted")
      /\ UNCHANGED <<repo, log, job, next, snap, done>>
      /\ \A y : ~ Optimistic(y)'
  BY <1>1, <1>2, AnsweredDoes
<1>4. view \in Views /\ call.previous # Absent
  BY <1>3 DEF IInv, PageInv
<1>5. t \in {"running", "completed"} /\ t # Absent
  BY DEF TargetOf, Absent
<1> HIDE DEF t
<1>6. (view.node)'[x] = IF x # n \/ view.node[n] = Absent THEN view.node[x]
                        ELSE IF handler.answer = "accepted" THEN t ELSE call.previous
  <2>1. CASE view.node[n] = Absent
    BY <1>2, <2>1
  <2>2. CASE view.node[n] # Absent
    <3>1. view' = [view EXCEPT !.node[n] = IF handler.answer = "accepted" THEN t ELSE call.previous]
      BY <1>2, <2>2
    <3> QED
      BY <1>3, <1>4, <2>2, <3>1 DEF Views
  <2> QED
    BY <2>1, <2>2
<1>7. Base(x)' = (view.node)'[x]
  BY <1>3 DEF Base
<1>8. CASE x # n
  <2>1. Base(x) = view.node[x]
    BY <1>3, <1>8 DEF Base, Optimistic
  <2> QED
    BY <1>3, <1>6, <1>7, <1>8, <2>1, SameBase
<1>9. CASE x = n
  <2>1. "other" \notin call.heard /\ ~ (handler.answer = "refused" /\ call.heard # {})
    BY <1>2, <1>9 DEF Off
  <2>2. /\ call.heard = {} => view.node[n] = "running"
        /\ Busy /\ handler.ops = <<>> =>
             \E k \in DOMAIN log : Own(k) /\ (k < next =>
               \/ "other" \in call.heard
               \/ call.heard # {} /\ view.node[n] \in {t, Absent})
    BY <1>1, <1>3 DEF HistoryInv, OwnInv, t
  <2>3. Base(x) = IF call.heard = {} THEN call.previous ELSE view.node[n]
    BY <1>3, <1>9 DEF Base, Optimistic
  <2>4. call.heard = {} => view.node[n] # Absent
    BY <2>2 DEF Absent
  <2>5. CASE handler.answer = "refused"
    <3>1. Base(x)' = Base(x)
      BY <1>3, <1>6, <1>7, <1>9, <2>1, <2>3, <2>4, <2>5
    <3> QED
      BY <1>3, <3>1, SameBase
  <2>6. CASE handler.answer = "accepted"
    <3>1. PICK k \in DOMAIN log : Own(k) /\ (k < next => call.heard # {} /\ view.node[n] \in {t, Absent})
      BY <1>3, <2>1, <2>2, <2>6
    <3>2. CASE k < next
      <4>1. Base(x)' = Base(x)
        BY <1>6, <1>7, <1>9, <2>3, <2>6, <3>1, <3>2
      <4> QED
        BY <1>3, <4>1, SameBase
    <3>3. CASE ~ (k < next) /\ view.node[n] = Absent
      <4>1. Base(x)' = Base(x)
        BY <1>6, <1>7, <1>9, <2>3, <2>4, <3>3
      <4> QED
        BY <1>3, <4>1, SameBase
    <3>4. CASE ~ (k < next) /\ view.node[n] # Absent
      <4>1. Base(x) # Absent /\ Base(x)' # Absent
        BY <1>4, <1>5, <1>6, <1>7, <1>9, <2>3, <2>6, <3>4
      <4>2. log \in Seq(RightOps) /\ Len(log) \in Nat /\ next \in Nat
        BY EventsAre
      <4>3. k \in next..Len(log)
        BY <3>4, <4>2
      <4>4. log[k].kind = "intervention" /\ log[k].node = n
        BY <3>1 DEF Own
      <4>5. x \in About(log[k])
        BY <1>9, <4>4 DEF About
      <4>6. Future(x) # {} /\ Future(x)' = Future(x)
        BY <1>3, <4>3, <4>5 DEF Future
      <4> DEFINE F == Future(x)
                 b == Base(x)
                 s == Normalized(repo.node[x])
      <4>7. PICK c : c = Base(x)'
        OBVIOUS
      <4>8. /\ Present(x) <=> Keeps(log, F, b)
            /\ Told(x) <=> IF repo.node[x] = Absent THEN Drops(log, F, b)
                           ELSE Keeps(log, F, b) /\ Tells(log, F, b, s)
        BY DEF Present, Told, Gone, Current
      <4>9. /\ Present(x)' <=> Keeps(log, F, c)
            /\ Told(x)' <=> IF repo.node[x] = Absent THEN Drops(log, F, c)
                            ELSE Keeps(log, F, c) /\ Tells(log, F, c, s)
        BY <1>3, <4>6, <4>7 DEF Present, Told, Gone, Current
      <4> HIDE DEF F, b, s
      <4>10. F # {} /\ b # Absent /\ c # Absent
        BY <4>1, <4>6, <4>7 DEF F, b
      <4>11. /\ Keeps(log, F, b) <=> Keeps(log, F, c)
             /\ Drops(log, F, b) <=> Drops(log, F, c)
             /\ Tells(log, F, b, s) <=> Tells(log, F, c, s)
        BY <4>10, BothShown
      <4> QED
        BY <4>8, <4>9, <4>11, Zenon
    <3> QED
      BY <3>2, <3>3, <3>4
  <2> QED
    BY <1>3, <2>5, <2>6
<1> QED
  BY <1>8, <1>9

\* The answer keeps the invariant: what it shows is told, or was raced.
LEMMA TakeInterventionSettles ==
  ASSUME IInv, SettlingInv, TakeIntervention
  PROVE  SettlingInv'
<1> DEFINE n == call.node
           w == IF handler.answer = "accepted" THEN TargetOf(call.kind) ELSE call.previous
<1>1. FormInv /\ HistoryInv /\ FutureInv
  BY DEF SettlingInv
<1>2. /\ Answered({"retry", "skip"})
      /\ view' = IF view.node[n] = Absent THEN view ELSE [view EXCEPT !.node[n] = w]
      /\ raced \subseteq raced'
  BY DEF TakeIntervention
<1>3. /\ call.kind \in {"retry", "skip"} /\ n \in Nodes /\ snap.at = "shown"
      /\ handler.ops = <<>> /\ (handler.ops)' = <<>> /\ ~ Busy'
      /\ (call.kind)' = None /\ UNCHANGED <<repo, log, job, next, snap, done>>
  BY <1>1, <1>2, AnsweredDoes
<1>4. view \in Views /\ w # Absent
  BY <1>3 DEF IInv, PageInv, TargetOf, Absent
<1> HIDE DEF w
<1>5. /\ \A x \in Nodes : (view.node)'[x] # Absent <=> view.node[x] # Absent
      /\ (view.run)' = view.run /\ (view.tokens)' = view.tokens /\ (view.lastSeq)' = view.lastSeq
  <2>1. CASE view.node[n] = Absent
    BY <1>2, <2>1
  <2>2. CASE view.node[n] # Absent
    <3>1. view' = [view EXCEPT !.node[n] = w]
      BY <1>2, <2>2
    <3>2. \A x \in Nodes : (view.node)'[x] = IF x = n THEN w ELSE view.node[x]
      BY <1>3, <1>4, <3>1 DEF Views
    <3>3. (view.run)' = view.run /\ (view.tokens)' = view.tokens /\ (view.lastSeq)' = view.lastSeq
      BY <1>4, <3>1 DEF Views
    <3> QED
      BY <1>4, <2>2, <3>2, <3>3
  <2> QED
    BY <2>1, <2>2
<1>6. FormInv'
  BY <1>1, <1>2, <1>3, CallForm
<1>7. None \notin {"retry", "skip", "delete"}
  BY ConstantsAssumption DEF ConstantsAssumption
<1>8. HistoryInv'
  <2>1. MadeInv'
    BY <1>1, <1>3, <1>5, <1>7 DEF HistoryInv, MadeInv, Made
  <2>2. ShownInv'
    <3>1. \A x \in Nodes : \A m \in Ancestors[x] : m \in Nodes
      BY AncestorsGoOn
    <3> QED
      BY <1>1, <1>2, <1>3, <1>5, <3>1 DEF HistoryInv, ShownInv
  <2>3. OwnInv'
    BY <1>3, <1>7 DEF OwnInv
  <2> QED
    BY <2>1, <2>2, <2>3 DEF HistoryInv
<1>9. NodesInv'
  <2>1. SUFFICES ASSUME NEW x \in Nodes, x \notin Off' PROVE NodeInv(x)'
    BY DEF NodesInv
  <2>2. NodeInv(x)
    BY <1>1, <1>2, <1>3, <2>1 DEF FutureInv, NodesInv, Off
  <2>3. (Told(x) <=> Told(x)') /\ (Present(x) <=> Present(x)')
    BY <2>1, TakeInterventionNodes
  <2>4. ~ HandlerOn(x) /\ ~ HandlerOn(x)'
    BY <1>3 DEF HandlerOn
  <2> QED
    BY <1>3, <2>2, <2>3, <2>4, CallKeepsNode
<1>10. RunInv' /\ TokensInv'
  BY <1>1, <1>2, <1>3, <1>5, CallFuture DEF FutureInv
<1> QED
  BY <1>6, <1>8, <1>9, <1>10 DEF SettlingInv, FutureInv

\* The page takes the answer to a deletion.
LEMMA TakeDeletionSettles ==
  ASSUME IInv, SettlingInv, TakeDeletion
  PROVE  SettlingInv'
<1> DEFINE n == call.node
           ns == {n} \cup Descendants(view, n)
<1>1. FormInv /\ HistoryInv /\ FutureInv
  BY DEF SettlingInv
<1>2. /\ Answered({"delete"})
      /\ \/ handler.answer = "accepted" /\ view' = Without(view, ns) /\ raced' = raced \cup Ghosts(Subtree(n))
         \/ handler.answer # "accepted" /\ UNCHANGED <<view, raced>>
  BY DEF TakeDeletion
<1>3. /\ call.kind = "delete" /\ n \in Nodes /\ snap.at = "shown"
      /\ handler.ops = <<>> /\ (handler.ops)' = <<>> /\ ~ Busy' /\ (Busy <=> handler.answer = "accepted")
      /\ (call.kind)' = None /\ UNCHANGED <<repo, log, job, next, snap, done>>
      /\ \A y : ~ Optimistic(y)'
  BY <1>1, <1>2, AnsweredDoes
<1>4. view \in Views /\ raced \subseteq raced'
  BY <1>2 DEF IInv, PageInv
<1>5. ns \subseteq Subtree(n) /\ \A x \in Nodes : \A m \in Ancestors[x] : m \in Nodes /\ Ancestors[m] \subseteq Ancestors[x]
  BY AncestorsGoOn DEF Descendants, Subtree
<1>6. /\ \A x \in Nodes : (view.node)'[x] = IF handler.answer = "accepted" /\ x \in ns THEN Absent ELSE view.node[x]
      /\ (view.run)' = view.run /\ (view.tokens)' = view.tokens /\ (view.lastSeq)' = view.lastSeq
  <2>1. CASE view' = Without(view, ns) /\ handler.answer = "accepted"
    <3> HIDE DEF ns
    <3>1. \A x \in Nodes : (view.node)'[x] = IF x \in ns THEN Absent ELSE view.node[x]
      BY <1>4, <2>1 DEF Without, Views
    <3>2. (view.run)' = view.run /\ (view.tokens)' = view.tokens /\ (view.lastSeq)' = view.lastSeq
      BY <1>4, <2>1 DEF Without, Views
    <3> QED
      BY <2>1, <3>1, <3>2
  <2>2. CASE view' = view /\ handler.answer # "accepted"
    BY <2>2
  <2> QED
    BY <1>2, <2>1, <2>2
<1>7. None \notin {"retry", "skip", "delete"}
  BY ConstantsAssumption DEF ConstantsAssumption
<1>8. FormInv'
  BY <1>1, <1>3, <1>4, CallForm
<1>9. ASSUME NEW x \in Nodes, x \notin raced, x \in Subtree(n), view.node[x] # Absent PROVE x \in ns
  <2>1. \A m \in Ancestors[x] : view.node[m] # Absent
    BY <1>1, <1>3, <1>9 DEF HistoryInv, ShownInv
  <2> QED
    BY <1>9, <2>1 DEF Subtree, Descendants
<1>10. HistoryInv'
  <2>1. MadeInv'
    BY <1>1, <1>3, <1>6, <1>7 DEF HistoryInv, MadeInv, Made
  <2>2. ShownInv'
    <3>1. /\ view.run # None /\ view.lastSeq < next /\ snap.since = {}
          /\ \A x \in Nodes \ raced : view.node[x] # Absent => \A m \in Ancestors[x] : view.node[m] # Absent
      BY <1>1, <1>3 DEF HistoryInv, ShownInv
    <3>2. ASSUME NEW x \in Nodes, x \notin raced', (view.node)'[x] # Absent, NEW m \in Ancestors[x]
          PROVE  (view.node)'[m] # Absent
      <4>1. view.node[x] # Absent /\ x \notin raced /\ m \in Nodes /\ view.node[m] # Absent
        BY <1>4, <1>5, <1>6, <3>1, <3>2
      <4>2. SUFFICES ASSUME handler.answer = "accepted", m \in ns PROVE FALSE
        BY <1>6, <4>1
      <4>3. n \in Ancestors[x]
        BY <1>5, <3>2, <4>2 DEF Subtree, Below
      <4>4. x \in Subtree(n)
        BY <4>3 DEF Subtree, Below
      <4> QED
        BY <1>6, <1>9, <3>2, <4>1, <4>2, <4>4
    <3> QED
      BY <1>3, <1>6, <3>1, <3>2 DEF ShownInv
  <2>3. OwnInv'
    BY <1>3, <1>7 DEF OwnInv
  <2> QED
    BY <2>1, <2>2, <2>3 DEF HistoryInv
<1>11. NodesInv'
  <2>1. SUFFICES ASSUME NEW x \in Nodes, x \notin Off' PROVE NodeInv(x)'
    BY DEF NodesInv
  <2>2. NodeInv(x) /\ x \notin raced
    BY <1>1, <1>3, <1>4, <2>1 DEF FutureInv, NodesInv, Off
  <2>3. ~ HandlerOn(x)'
    BY <1>3 DEF HandlerOn
  <2>4. Base(x)' = (view.node)'[x] /\ Base(x) = view.node[x]
    BY <1>3 DEF Base, Optimistic
  <2>5. CASE ~ HandlerOn(x)
    <3>1. ~ (handler.answer = "accepted" /\ x \in ns)
      BY <1>3, <1>5, <2>5 DEF HandlerOn
    <3>2. Base(x)' = Base(x)
      BY <1>6, <2>4, <3>1
    <3>3. (Told(x) <=> Told(x)') /\ (Present(x) <=> Present(x)')
      BY <1>3, <3>2, SameBase
    <3> QED
      BY <1>3, <2>2, <2>3, <2>5, <3>3, CallKeepsNode
  <2>6. CASE HandlerOn(x)
    <3>1. Busy /\ handler.answer = "accepted" /\ x \in Subtree(n)
      BY <1>3, <2>6 DEF HandlerOn
    <3>2. repo.node[x] = Absent
      BY <1>1, <1>3, <2>2, <3>1, DeletedIsGone DEF FormInv
    <3>3. (view.node)'[x] = Absent
      BY <1>6, <1>9, <2>2, <3>1
    <3>4. \A i \in Future(x) : log[i].kind # "created"
      <4>1. SUFFICES ASSUME NEW i \in Future(x), log[i].kind = "created" PROVE FALSE
        OBVIOUS
      <4>2. i \in 1..Len(log) /\ log[i] \in RightOps /\ x \in About(log[i]) /\ i \in next..Len(log)
        BY <4>1, EventsAre DEF Published, Future
      <4>3. log[i].node = x
        BY <4>1, <4>2, AboutNode
      <4>4. x \in Ghosts(Subtree(n))
        BY <3>1, <4>1, <4>2, <4>3 DEF Ghosts
      <4>5. x \in raced'
        BY <1>2, <3>1, <4>4
      <4> QED
        BY <2>1, <4>5 DEF Off
    <3>5. Told(x)'
      <4>1. Future(x)' = Future(x)
        BY <1>3 DEF Future
      <4>2. Gone(x)' <=> Drops(log, Future(x), Absent)
        BY <1>3, <2>4, <3>3, <4>1 DEF Gone
      <4>3. Drops(log, Future(x), Absent)
        BY <3>4 DEF Drops
      <4> QED
        BY <1>3, <3>2, <4>2, <4>3 DEF Told
    <3>6. x \in Ahead(job) => \E p \in Nodes : x \in Below(p) /\ job \in {Pruning(p), Tail(Pruning(p))}
      <4>1. job # Creation(x)
        <5>1. SUFFICES ASSUME job = Creation(x) PROVE FALSE
          OBVIOUS
        <5>2. Created(x) \in ToSet(job) /\ Created(x).kind = "created" /\ Created(x).node = x
          <6>1. Created(x).kind = "created" /\ Created(x).node = x
            BY DEF Created, Publish, Op
          <6>2. job = <<Write("created", x, "queued"), Created(x)>>
            BY <5>1 DEF Creation
          <6>3. job[2] = Created(x) /\ 2 \in DOMAIN job
            BY <6>2
          <6> QED
            BY <6>1, <6>3 DEF ToSet
        <5>3. x \in Ghosts(Subtree(n))
          BY <3>1, <5>2 DEF Ghosts
        <5> QED
          BY <1>2, <2>1, <3>1, <5>3 DEF Off
      <4> QED
        BY <1>3, <2>2, <2>6, <4>1 DEF NodeInv, HandlerAt
    <3>7. x \in Ahead(job) => JobAt(x)'
      BY <1>3, <3>2, <3>5, <3>6 DEF JobAt
    <3> QED
      BY <1>3, <2>3, <3>5, <3>7 DEF NodeInv
  <2> QED
    BY <2>5, <2>6
<1>12. RunInv' /\ TokensInv'
  BY <1>1, <1>3, <1>4, <1>6, CallFuture DEF FutureInv
<1> QED
  BY <1>8, <1>10, <1>11, <1>12 DEF SettlingInv, FutureInv
-----------------------------------------------------------------------------
(* The beginning.                                                          *)

\* A list is joined from the beginnings of it.
LEMMA FlattenSeqSteps ==
  ASSUME NEW ss, NEW m \in Nat, m = Len(ss), m # 0
  PROVE  \E f : /\ FlattenSeq(ss) = f[m] /\ f[1] = ss[1]
                /\ \A i \in 1..m : i < m => f[i + 1] = f[i] \o ss[i + 1]
<1> DEFINE f == CHOOSE f : Joins(f, ss, m)
<1>1. m > 0
  OBVIOUS
<1>2. Joins(f, ss, m)
  BY JoinsExists
<1>3. FlattenSeq(ss) = f[m]
  BY Zenon DEF FlattenSeq, Joins, Joined
<1> HIDE DEF f
<1>4. \A i \in 1..m : f[i] = Joined(f, ss, i)
  BY <1>2, JoinsSteps, Zenon
<1>5. f[1] = ss[1]
  <2>1. 1 \in 1..m
    BY <1>1
  <2> QED
    BY <1>4, <2>1, Zenon DEF Joined
<1>6. ASSUME NEW i \in 1..m, i < m PROVE f[i + 1] = f[i] \o ss[i + 1]
  <2>1. i + 1 \in 1..m /\ i + 1 # 1 /\ (i + 1) - 1 = i
    BY <1>6
  <2> QED
    BY <1>4, <2>1, Zenon DEF Joined
<1> QED
  BY <1>3, <1>5, <1>6

\* A kind of lists that joining two of them stays in has the list joined from any.
LEMMA FlattenSeqStays ==
  ASSUME NEW S, <<>> \in S, \A a \in S, b \in S : a \o b \in S, NEW ss \in Seq(S)
  PROVE  FlattenSeq(ss) \in S
<1> DEFINE m == Len(ss)
<1>1. CASE m = 0
  BY <1>1 DEF FlattenSeq
<1>2. CASE m # 0
  <2>1. m \in Nat /\ m > 0 /\ \A i \in 1..m : ss[i] \in S
    BY <1>2
  <2>2. PICK f : /\ FlattenSeq(ss) = f[m] /\ f[1] = ss[1]
                 /\ \A i \in 1..m : i < m => f[i + 1] = f[i] \o ss[i + 1]
    BY <1>2, <2>1, FlattenSeqSteps
  <2> DEFINE T == {i \in 1..m : f[i] \in S}
  <2>3. 1 \in T
    BY <2>1, <2>2
  <2>4. ASSUME NEW n \in 1..m, n \in T, n < m PROVE n + 1 \in T
    <3>1. n + 1 \in 1..m /\ f[n] \in S
      BY <2>4
    <3>2. f[n + 1] = f[n] \o ss[n + 1]
      BY <2>2, <2>4
    <3> QED
      BY <2>1, <3>1, <3>2
  <2>5. 1..m \subseteq T
    <3> HIDE DEF T, m
    <3> QED
      BY <2>1, <2>3, <2>4, CountingUp
  <2> QED
    BY <2>1, <2>2, <2>5
<1> QED
  BY <1>1, <1>2

\* Every list joined is in what they are joined to.
LEMMA FlattenSeqHas ==
  ASSUME NEW S, NEW ss \in Seq(Seq(S)), NEW i \in 1..Len(ss), NEW k \in 1..Len(ss[i])
  PROVE  \E j \in 1..Len(FlattenSeq(ss)) : FlattenSeq(ss)[j] = ss[i][k]
<1> DEFINE m == Len(ss)
<1>1. m \in Nat /\ m # 0 /\ m > 0 /\ \A n \in 1..m : ss[n] \in Seq(S)
  OBVIOUS
<1>2. PICK f : /\ FlattenSeq(ss) = f[m] /\ f[1] = ss[1]
               /\ \A n \in 1..m : n < m => f[n + 1] = f[n] \o ss[n + 1]
  BY <1>1, FlattenSeqSteps
<1> DEFINE e == ss[i][k]
           T == {n \in 1..m : f[n] \in Seq(S) /\ (i <= n => \E j \in 1..Len(f[n]) : f[n][j] = e)}
<1>3. 1 \in T
  <2>1. 1 \in 1..m /\ f[1] = ss[1] /\ ss[1] \in Seq(S)
    BY <1>1, <1>2
  <2>2. i <= 1 => ss[i] = f[1]
    BY <1>2
  <2>3. i <= 1 => \E j \in 1..Len(f[1]) : f[1][j] = e
    BY <2>2, Zenon
  <2> QED
    BY <2>1, <2>3
<1>4. ASSUME NEW n \in 1..m, n \in T, n < m PROVE n + 1 \in T
  <2>1. n + 1 \in 1..m /\ f[n] \in Seq(S) /\ ss[n + 1] \in Seq(S)
    BY <1>1, <1>4
  <2>2. f[n + 1] = f[n] \o ss[n + 1]
    BY <1>2, <1>4
  <2> DEFINE a == f[n]
             b == ss[n + 1]
  <2>3. a \in Seq(S) /\ b \in Seq(S)
    BY <2>1
  <2>4. i <= n => \E j \in 1..Len(a) : a[j] = e
    BY <1>4
  <2>5. i = n + 1 => k \in 1..Len(b) /\ b[k] = e
    OBVIOUS
  <2> HIDE DEF a, b, e, m
  <2>7. /\ a \o b \in Seq(S)
        /\ \A j \in 1..Len(a) : j \in 1..Len(a \o b) /\ (a \o b)[j] = a[j]
        /\ \A j \in 1..Len(b) : Len(a) + j \in 1..Len(a \o b) /\ (a \o b)[Len(a) + j] = b[j]
    <3>1. a \o b \in Seq(S)
      BY <2>3
    <3>2. \A j \in 1..Len(a) : j \in 1..Len(a \o b) /\ (a \o b)[j] = a[j]
      BY <2>3
    <3>3. \A j \in 1..Len(b) : Len(a) + j \in 1..Len(a \o b) /\ (a \o b)[Len(a) + j] = b[j]
      BY <2>3
    <3> QED
      BY <3>1, <3>2, <3>3, Zenon
  <2>8. ASSUME i <= n + 1 PROVE \E j \in 1..Len(a \o b) : (a \o b)[j] = e
    <3>1. CASE i <= n
      BY <2>4, <2>7, <3>1, Zenon
    <3>2. CASE i = n + 1
      BY <2>5, <2>7, <3>2, Zenon
    <3>3. i <= n \/ i = n + 1
      <4>1. i \in Int /\ n \in Int
        BY <1>1 DEF m
      <4> QED
        BY <2>8, <4>1
    <3> QED
      BY <3>1, <3>2, <3>3
  <2>9. f[n + 1] = a \o b
    BY <2>2, Zenon DEF a, b
  <2> QED
    BY <2>1, <2>7, <2>8, <2>9, Zenon
<1>5. 1..m \subseteq T
  <2> HIDE DEF T, m
  <2> QED
    BY <1>1, <1>3, <1>4, CountingUp
<1>6. m \in 1..m /\ i <= m
  BY <1>1
<1>7. \E j \in 1..Len(f[m]) : f[m][j] = e
  BY <1>5, <1>6, Zenon
<1> QED
  BY <1>2, <1>7, Zenon

\* The head start publishes nodes that are running.
Started(n) == Publish("status", n, "running")

\* All that it publishes of the nodes T.
HeadEvents(T) == {Created(n) : n \in T} \cup {Started(n) : n \in T}

\* Each node created is running after that.
HeadList(T) ==
  {s \in Seq(HeadEvents(T)) :
     \A k \in 1..Len(s), n \in T :
       s[k] = Created(n) => \E j \in 1..Len(s) : k < j /\ s[j] = Started(n)}

\* Two of them joined are one.
LEMMA HeadListsJoin ==
  ASSUME NEW T, NEW a \in HeadList(T), NEW b \in HeadList(T)
  PROVE  a \o b \in HeadList(T)
<1> DEFINE S == HeadEvents(T)
           c == a \o b
<1>1. a \in Seq(S) /\ b \in Seq(S)
  BY DEF HeadList
<1> HIDE DEF S
<1>2. /\ c \in Seq(S) /\ Len(a) \in Nat /\ Len(b) \in Nat
      /\ \A k \in 1..Len(a) : k \in 1..Len(c) /\ c[k] = a[k]
      /\ \A k \in 1..Len(b) : Len(a) + k \in 1..Len(c) /\ c[Len(a) + k] = b[k]
      /\ \A k \in 1..Len(c) : k \in 1..Len(a) \/ \E j \in 1..Len(b) : k = Len(a) + j
  <2>1. c \in Seq(S) /\ Len(a) \in Nat /\ Len(b) \in Nat /\ Len(c) = Len(a) + Len(b)
    BY <1>1
  <2>2. \A k \in 1..Len(a) : k \in 1..Len(c) /\ c[k] = a[k]
    BY <1>1
  <2>3. \A k \in 1..Len(b) : Len(a) + k \in 1..Len(c) /\ c[Len(a) + k] = b[k]
    BY <1>1
  <2>4. ASSUME NEW k \in 1..Len(c), k \notin 1..Len(a)
        PROVE  \E j \in 1..Len(b) : k = Len(a) + j
    <3>1. k - Len(a) \in 1..Len(b) /\ k = Len(a) + (k - Len(a))
      BY <2>1, <2>4
    <3> QED
      BY <3>1
  <2> HIDE DEF c
  <2> QED
    BY <2>1, <2>2, <2>3, <2>4, Zenon
<1> HIDE DEF c
<1>3. ASSUME NEW k \in 1..Len(c), NEW n \in T, c[k] = Created(n)
      PROVE  \E j \in 1..Len(c) : k < j /\ c[j] = Started(n)
  <2>1. CASE k \in 1..Len(a)
    <3>1. a[k] = Created(n)
      BY <1>2, <1>3, <2>1
    <3>2. PICK j \in 1..Len(a) : k < j /\ a[j] = Started(n)
      BY <2>1, <3>1, Zenon DEF HeadList
    <3> QED
      BY <1>2, <3>2
  <2>2. ASSUME NEW i \in 1..Len(b), k = Len(a) + i
        PROVE  \E j \in 1..Len(c) : k < j /\ c[j] = Started(n)
    <3>1. b[i] = Created(n)
      BY <1>2, <1>3, <2>2
    <3>2. PICK j \in 1..Len(b) : i < j /\ b[j] = Started(n)
      BY <3>1, Zenon DEF HeadList
    <3>3. Len(a) + j \in 1..Len(c) /\ c[Len(a) + j] = Started(n)
      BY <1>2, <3>2
    <3>4. k < Len(a) + j
      BY <1>2, <2>2, <3>2
    <3> QED
      BY <3>3, <3>4
  <2> QED
    BY <1>2, <2>1, <2>2
<1> QED
  BY <1>2, <1>3, Zenon DEF HeadList, S, c

\* A list put before one event.
LEMMA JoiningOne ==
  /\ \A y : <<>> \o <<y>> = <<y>>
  /\ \A x, y : <<x>> \o <<y>> = <<x, y>>
<1>1. ASSUME NEW y PROVE <<>> \o <<y>> = <<y>>
  <2>1. <<y>> \in Seq({y})
    OBVIOUS
  <2> DEFINE v == <<y>>
  <2> HIDE DEF v
  <2>2. v \in Seq({y}) => <<>> \o v = v
    OBVIOUS
  <2> QED
    BY <2>1, <2>2 DEF v
<1>2. ASSUME NEW x, NEW y PROVE <<x>> \o <<y>> = <<x, y>>
  <2> DEFINE c == <<x>> \o <<y>>
             d == <<x, y>>
             S == {x, y}
  <2>1. c \in Seq(S) /\ Len(c) = 2 /\ c[1] = x /\ c[2] = y
    OBVIOUS
  <2>2. d \in Seq(S) /\ Len(d) = 2 /\ d[1] = x /\ d[2] = y
    OBVIOUS
  <2> HIDE DEF c, d, S
  <2>3. \A i \in 1..2 : c[i] = d[i]
    BY <2>1, <2>2
  <2>4. c = d
    BY <2>1, <2>2, <2>3, SameSequence
  <2> QED
    BY <2>4 DEF c, d
<1> QED
  BY <1>1, <1>2

\* What is published of one node.
LEMMA HeadOf ==
  ASSUME NEW T, NEW n \in T
  PROVE  <<>> \o <<Started(n)>> \in HeadList(T) /\ <<Created(n)>> \o <<Started(n)>> \in HeadList(T)
<1> DEFINE x == Created(n)
           y == Started(n)
           S == HeadEvents(T)
<1>1. x \in S /\ y \in S
  BY DEF HeadEvents
<1>2. ~ (\E m \in T : y = Created(m))
  BY DEF Created, Started, Publish, Op
<1>3. \A m \in T : x = Created(m) => y = Started(m)
  BY DEF Created, Started, Publish, Op
<1> HIDE DEF x, y, S
<1>4. <<>> \o <<y>> = <<y>> /\ <<x>> \o <<y>> = <<x, y>>
  BY JoiningOne, Zenon
<1>5. <<y>> \in HeadList(T)
  <2>1. <<y>> \in Seq(S) /\ \A k \in 1..Len(<<y>>) : <<y>>[k] = y
    BY <1>1
  <2> QED
    BY <1>2, <2>1, Zenon DEF HeadList, S
<1>6. <<x, y>> \in HeadList(T)
  <2> DEFINE u == <<x, y>>
  <2>1. u \in Seq(S) /\ Len(u) = 2 /\ u[1] = x /\ u[2] = y
    BY <1>1
  <2> HIDE DEF u
  <2>2. ASSUME NEW k \in 1..Len(u), NEW m \in T, u[k] = Created(m)
        PROVE  \E j \in 1..Len(u) : k < j /\ u[j] = Started(m)
    <3>1. k = 1 \/ k = 2
      BY <2>1
    <3>2. k # 2
      BY <1>2, <2>1, <2>2
    <3>3. u[2] = Started(m) /\ k < 2 /\ 2 \in 1..Len(u)
      BY <1>3, <2>1, <2>2, <3>1, <3>2
    <3> QED
      BY <3>3
  <2>3. u \in HeadList(T)
    BY <2>1, <2>2, Zenon DEF HeadList, S
  <2> QED
    BY <2>3 DEF u
<1> QED
  BY <1>4, <1>5, <1>6, Zenon DEF x, y

\* What is published of a list of nodes.
LEMMA HeadStartIs ==
  ASSUME NEW started \in Seq(Nodes), NEW h,
         h = FlattenSeq([i \in DOMAIN started |->
               (IF i = 1 THEN <<>> ELSE <<Created(started[i])>>)
               \o <<Publish("status", started[i], "running")>>])
  PROVE  /\ h \in HeadList(ToSet(started))
         /\ started = <<>> => h = <<>>
         /\ started # <<>> => \E j \in 1..Len(h) : h[j] = Started(started[1])
         /\ \A n \in ToSet(started) : n # started[1] => \E j \in 1..Len(h) : h[j] = Created(n)
<1> DEFINE E(i) == (IF i = 1 THEN <<>> ELSE <<Created(started[i])>>)
                   \o <<Publish("status", started[i], "running")>>
           ss == [i \in DOMAIN started |-> E(i)]
           T == ToSet(started)
           S == HeadEvents(T)
<1>1. DOMAIN started = 1..Len(started) /\ Len(started) \in Nat
  OBVIOUS
<1>2. \A i \in 1..Len(started) : started[i] \in T
  BY <1>1 DEF ToSet
<1>3. ASSUME NEW i \in 1..Len(started)
      PROVE  E(i) = (IF i = 1 THEN <<>> \o <<Started(started[i])>>
                     ELSE <<Created(started[i])>> \o <<Started(started[i])>>)
  BY Zenon DEF Started
<1>4. h = FlattenSeq(ss)
  BY Zenon
<1> HIDE DEF E, T, S
<1>5. \A i \in 1..Len(started) : E(i) \in HeadList(T)
  BY <1>2, <1>3, HeadOf
<1>6. DOMAIN ss = 1..Len(started) /\ \A i \in 1..Len(started) : ss[i] = E(i)
  BY <1>1
<1>7. ss = [i \in 1..Len(started) |-> E(i)]
  BY <1>1
<1> HIDE DEF ss
<1>8. ss \in Seq(HeadList(T)) /\ Len(ss) = Len(started)
  BY <1>1, <1>5, <1>7
<1>9. <<>> \in HeadList(T)
  <2>1. <<>> \in Seq(S) /\ 1..Len(<<>>) = {}
    OBVIOUS
  <2> QED
    BY <2>1 DEF HeadList, S
<1>10. h \in HeadList(T)
  <2>1. \A a \in HeadList(T), b \in HeadList(T) : a \o b \in HeadList(T)
    BY HeadListsJoin
  <2> QED
    BY <1>4, <1>8, <1>9, <2>1, FlattenSeqStays
<1>11. ss \in Seq(Seq(S))
  <2>1. HeadList(T) \subseteq Seq(S)
    BY DEF HeadList, S
  <2> QED
    BY <1>8, <2>1
<1>12. ASSUME started = <<>> PROVE h = <<>>
  <2>1. Len(ss) = 0
    BY <1>8, <1>12
  <2>2. ss = <<>>
    BY <1>8, <2>1
  <2>3. FlattenSeq(ss) = ss
    BY <2>1, Zenon DEF FlattenSeq
  <2> QED
    BY <1>4, <2>2, <2>3, Zenon
<1>13. ASSUME started # <<>> PROVE \E j \in 1..Len(h) : h[j] = Started(started[1])
  <2>1. 1 \in 1..Len(started)
    BY <1>1, <1>13
  <2>2. ss[1] = <<>> \o <<Started(started[1])>>
    BY <1>3, <1>6, <2>1
  <2>3. 1 \in 1..Len(ss[1]) /\ ss[1][1] = Started(started[1])
    <3>1. <<>> \o <<Started(started[1])>> = <<Started(started[1])>>
      BY JoiningOne, Zenon
    <3> QED
      BY <2>2, <3>1
  <2>5. 1 \in 1..Len(ss)
    BY <1>8, <2>1
  <2>6. \E j \in 1..Len(FlattenSeq(ss)) : FlattenSeq(ss)[j] = ss[1][1]
    <3>1. 1 \in 1..Len(ss[1])
      BY <2>3, Zenon
    <3> QED
      BY <1>11, <2>5, <3>1, FlattenSeqHas, Zenon
  <2> QED
    BY <1>4, <2>1, <2>3, <2>6, Zenon
<1>14. ASSUME NEW n \in T, n # started[1] PROVE \E j \in 1..Len(h) : h[j] = Created(n)
  <2>1. PICK i \in 1..Len(started) : started[i] = n
    BY <1>1 DEF T, ToSet
  <2>2. i # 1
    BY <1>14, <2>1
  <2>3. ss[i] = <<Created(n)>> \o <<Started(n)>>
    BY <1>3, <1>6, <2>1, <2>2
  <2>4. 1 \in 1..Len(ss[i]) /\ ss[i][1] = Created(n)
    <3>1. <<Created(n)>> \o <<Started(n)>> = <<Created(n), Started(n)>>
      BY JoiningOne, Zenon
    <3> QED
      BY <2>3, <3>1
  <2>5. i \in 1..Len(ss)
    BY <1>8, <2>1
  <2>6. \E j \in 1..Len(FlattenSeq(ss)) : FlattenSeq(ss)[j] = ss[i][1]
    <3>1. 1 \in 1..Len(ss[i])
      BY <2>4
    <3> HIDE <2>1, <2>4
    <3> QED
      BY <1>11, <2>5, <3>1, FlattenSeqHas, Zenon
  <2> QED
    BY <1>4, <2>1, <2>4, <2>6, Zenon
<1> QED
  BY <1>10, <1>12, <1>13, <1>14 DEF T

\* Where the events of the beginning are.
AfterThree(l, a, b, c, h) ==
  /\ Len(h) \in Nat /\ Len(l) = 3 + Len(h) /\ l[1] = a /\ l[2] = b /\ l[3] = c
  /\ \A j \in 1..Len(h) : 3 + j \in 1..Len(l) /\ l[3 + j] = h[j]
  /\ \A k \in 1..Len(l) : k \in {1, 2, 3} \/ \E j \in 1..Len(h) : k = 3 + j

\* The events of the run come first, then those of the head start.
LEMMA FirstPlaces ==
  ASSUME NEW S, NEW a \in S, NEW b \in S, NEW c \in S, NEW h \in Seq(S), NEW l,
         l = <<a, b>> \o <<c>> \o h
  PROVE  AfterThree(l, a, b, c, h)
<1> DEFINE f == <<a, b>> \o <<c>>
<1>1. f \in Seq(S) /\ Len(f) = 3 /\ f[1] = a /\ f[2] = b /\ f[3] = c
  OBVIOUS
<1>2. l = f \o h
  OBVIOUS
<1> HIDE DEF f
<1>3. Len(h) \in Nat /\ Len(l) = 3 + Len(h)
  BY <1>1, <1>2
<1>4. l[1] = a /\ l[2] = b /\ l[3] = c
  BY <1>1, <1>2
<1>5. \A j \in 1..Len(h) : 3 + j \in 1..Len(l) /\ l[3 + j] = h[j]
  BY <1>1, <1>2
<1>6. ASSUME NEW k \in 1..Len(l), k \notin {1, 2, 3} PROVE \E j \in 1..Len(h) : k = 3 + j
  <2>1. k - 3 \in 1..Len(h) /\ k = 3 + (k - 3)
    BY <1>3, <1>6
  <2> QED
    BY <2>1
<1> QED
  BY <1>3, <1>4, <1>5, <1>6, Zenon DEF AfterThree

\* The fields of the events of the beginning.
LEMMA FirstFields ==
  /\ \A n : /\ Created(n).kind = "created" /\ Created(n).node = n /\ Created(n).status = "queued"
            /\ Started(n).kind = "status" /\ Started(n).node = n /\ Started(n).status = "running"
  /\ \A n, s : Publish("run", n, s).kind = "run" /\ Publish("run", n, s).status = s
  /\ \A m, n : Created(m) = Created(n) => m = n
  /\ \A m, n : Started(m) = Started(n) => m = n
<1>1. \A n : /\ Created(n).kind = "created" /\ Created(n).node = n /\ Created(n).status = "queued"
             /\ Started(n).kind = "status" /\ Started(n).node = n /\ Started(n).status = "running"
  BY DEF Created, Started, Publish, Op
<1>2. \A n, s : Publish("run", n, s).kind = "run" /\ Publish("run", n, s).status = s
  BY DEF Publish, Op
<1>3. ASSUME NEW m, NEW n, Created(m) = Created(n) PROVE m = n
  <2>1. Created(m).node = m /\ Created(n).node = n
    BY DEF Created, Publish, Op
  <2> QED
    BY <1>3, <2>1, Zenon
<1>4. ASSUME NEW m, NEW n, Started(m) = Started(n) PROVE m = n
  <2>1. Started(m).node = m /\ Started(n).node = n
    BY DEF Started, Publish, Op
  <2> QED
    BY <1>4, <2>1, Zenon
<1> QED
  BY <1>1, <1>2, <1>3, <1>4

\* What the events of the beginning tell of the nodes T that are running.
FirstOf(l, T) ==
  /\ \A k \in 1..Len(l) : \/ l[k] = Publish("run", Root, "queued") /\ k = 1
                          \/ l[k] = Publish("run", None, "running") /\ T # {}
                          \/ \E n \in T \cup {Root} : l[k] = Created(n)
                          \/ \E n \in T : l[k] = Started(n)
  /\ T # {} => \E k \in 1..Len(l) : 1 < k /\ l[k] = Publish("run", None, "running")
  /\ \A n \in T \cup {Root} : \E k \in 1..Len(l) : l[k] = Created(n)
  /\ \A k \in 1..Len(l), n \in T :
       l[k] = Created(n) => \E j \in 1..Len(l) : k < j /\ l[j] = Started(n)

\* That is what createRun and the head start have published.
LEMMA FirstLog ==
  ASSUME NEW started \in Seq(Nodes), started = <<>> \/ started[1] = Root, NEW l,
         l = <<Publish("run", Root, "queued"), Created(Root)>>
             \o (IF started = <<>> THEN <<>> ELSE <<Publish("run", None, "running")>>)
             \o FlattenSeq([i \in DOMAIN started |->
                  (IF i = 1 THEN <<>> ELSE <<Created(started[i])>>)
                  \o <<Publish("status", started[i], "running")>>])
  PROVE  FirstOf(l, ToSet(started))
<1> DEFINE T == ToSet(started)
           h == FlattenSeq([i \in DOMAIN started |->
                  (IF i = 1 THEN <<>> ELSE <<Created(started[i])>>)
                  \o <<Publish("status", started[i], "running")>>])
           a == Publish("run", Root, "queued")
           b == Created(Root)
           c == Publish("run", None, "running")
<1>1. /\ h \in HeadList(ToSet(started))
      /\ started = <<>> => h = <<>>
      /\ started # <<>> => \E j \in 1..Len(h) : h[j] = Started(started[1])
      /\ \A n \in ToSet(started) : n # started[1] => \E j \in 1..Len(h) : h[j] = Created(n)
  BY HeadStartIs
<1>2. l = <<a, b>> \o (IF started = <<>> THEN <<>> ELSE <<c>>) \o h
  BY Zenon
<1> HIDE DEF h
<1>3. CASE started = <<>>
  <2>1. T = {}
    BY <1>3 DEF ToSet
  <2>2. l = <<a, b>> \o <<>> \o <<>>
    BY <1>1, <1>2, <1>3, Zenon
  <2> HIDE DEF T, a, b, c
  <2>3. Len(l) = 2 /\ l[1] = a /\ l[2] = b
    <3> DEFINE s == <<a, b>>
    <3>1. s \in Seq({a, b}) /\ Len(s) = 2 /\ s[1] = a /\ s[2] = b
      OBVIOUS
    <3>2. l = s \o <<>> \o <<>>
      BY <2>2
    <3> HIDE DEF s
    <3>3. s \o <<>> \o <<>> = s
      BY <3>1
    <3> QED
      BY <3>1, <3>2, <3>3, Zenon
  <2>4. 1..Len(l) = {1, 2}
    BY <2>3
  <2> QED
    BY <2>1, <2>3, <2>4 DEF FirstOf, T, a, b
<1>4. CASE started # <<>>
  <2> DEFINE S == HeadEvents(T) \cup {a, b, c}
  <2>1. Root \in T /\ T # {} /\ started[1] = Root
    <3>1. 1 \in DOMAIN started
      BY <1>4
    <3> QED
      BY <1>4, <3>1 DEF ToSet
  <2>2. l = <<a, b>> \o <<c>> \o h
    BY <1>2, <1>4, Zenon
  <2> HIDE DEF T, a, b, c
  <2>3. h \in Seq(HeadEvents(T))
        /\ \A k \in 1..Len(h), n \in T :
             h[k] = Created(n) => \E j \in 1..Len(h) : k < j /\ h[j] = Started(n)
    BY <1>1 DEF HeadList, T
  <2>4. h \in Seq(S) /\ a \in S /\ b \in S /\ c \in S
    BY <2>3
  <2> HIDE DEF S
  <2>5. /\ Len(h) \in Nat /\ Len(l) = 3 + Len(h) /\ l[1] = a /\ l[2] = b /\ l[3] = c
        /\ \A j \in 1..Len(h) : 3 + j \in 1..Len(l) /\ l[3 + j] = h[j]
        /\ \A k \in 1..Len(l) : k \in {1, 2, 3} \/ \E j \in 1..Len(h) : k = 3 + j
    <3>1. AfterThree(l, a, b, c, h)
      BY <2>2, <2>4, FirstPlaces, Zenon
    <3> QED
      BY <3>1, Zenon DEF AfterThree
  <2>6. 1 \in 1..Len(l) /\ 2 \in 1..Len(l) /\ 3 \in 1..Len(l) /\ 1 < 3
    BY <2>5
  <2>7. ASSUME NEW k \in 1..Len(l)
        PROVE  \/ l[k] = a /\ k = 1
               \/ l[k] = c
               \/ \E n \in T \cup {Root} : l[k] = Created(n)
               \/ \E n \in T : l[k] = Started(n)
    <3>1. CASE k \in {1, 2, 3}
      BY <2>5, <3>1 DEF b
    <3>2. ASSUME NEW j \in 1..Len(h), k = 3 + j
          PROVE  \E n \in T : l[k] = Created(n) \/ l[k] = Started(n)
      <4>1. l[k] \in HeadEvents(T)
        <5>1. h[j] \in HeadEvents(T)
          BY <2>3
        <5> QED
          BY <2>5, <3>2, <5>1, Zenon
      <4> QED
        BY <4>1, Zenon DEF HeadEvents
    <3> QED
      BY <2>5, <3>1, <3>2
  <2>8. ASSUME NEW n \in T \cup {Root} PROVE \E k \in 1..Len(l) : l[k] = Created(n)
    <3>1. CASE n = Root
      BY <2>5, <2>6, <3>1 DEF b
    <3>2. CASE n # Root
      <4>1. PICK j \in 1..Len(h) : h[j] = Created(n)
        BY <1>1, <2>1, <3>2, Zenon DEF T
      <4> QED
        BY <2>5, <4>1
    <3> QED
      BY <3>1, <3>2
  <2>9. ASSUME NEW k \in 1..Len(l), NEW n \in T, l[k] = Created(n)
        PROVE  \E j \in 1..Len(l) : k < j /\ l[j] = Started(n)
    <3>1. CASE k \in {1, 2, 3}
      <4>1. a.kind = "run" /\ c.kind = "run" /\ Created(n).kind = "created"
        BY FirstFields DEF a, c
      <4>2. k = 2 /\ n = Root
        <5>1. k # 1 /\ k # 3
          BY <2>5, <2>9, <4>1
        <5>2. k = 2
          BY <3>1, <5>1
        <5>3. Created(Root) = Created(n)
          BY <2>5, <2>9, <5>2 DEF b
        <5> QED
          BY <5>2, <5>3, FirstFields, Zenon
      <4>3. PICK j \in 1..Len(h) : h[j] = Started(Root)
        BY <1>1, <1>4, <2>1, Zenon
      <4>4. 3 + j \in 1..Len(l) /\ l[3 + j] = Started(Root) /\ 2 < 3 + j
        BY <2>5, <4>3
      <4> QED
        BY <4>2, <4>4
    <3>2. ASSUME NEW i \in 1..Len(h), k = 3 + i
          PROVE  \E j \in 1..Len(l) : k < j /\ l[j] = Started(n)
      <4>1. h[i] = Created(n)
        BY <2>5, <2>9, <3>2
      <4>2. PICK j \in 1..Len(h) : i < j /\ h[j] = Started(n)
        BY <2>3, <4>1, Zenon
      <4>3. 3 + j \in 1..Len(l) /\ l[3 + j] = Started(n) /\ k < 3 + j
        <5>1. k < 3 + j
          BY <2>5, <3>2, <4>2
        <5> QED
          BY <2>5, <4>2, <5>1, Zenon
      <4> QED
        BY <4>3
    <3> QED
      BY <2>5, <3>1, <3>2
  <2>10. FirstOf(l, T)
    <3>1. \E k \in 1..Len(l) : 1 < k /\ l[k] = c
      BY <2>5, <2>6
    <3> QED
      BY <2>1, <2>7, <2>8, <2>9, <3>1, Zenon DEF FirstOf, a, c
  <2> QED
    BY <2>10 DEF T
<1> QED
  BY <1>3, <1>4

\* At the beginning the events tell of each node what the repository holds.
LEMMA InitTold ==
  ASSUME Init, IInv, NEW T \in SUBSET Nodes, FirstOf(log, T),
         repo.node = [n \in Nodes |-> IF n \in T THEN "running" ELSE IF n = Root THEN "queued" ELSE Absent],
         NEW x \in Nodes
  PROVE  Told(x) /\ (repo.node[x] # Absent => Made(x))
<1>1. next = 1 /\ snap.at = "asked" /\ Len(log) \in Nat /\ DOMAIN log = 1..Len(log)
  BY DEF Init, NoAnswer, IInv, ServerInv
<1>2. repo.node[x] = IF x \in T THEN "running" ELSE IF x = Root THEN "queued" ELSE Absent
  OBVIOUS
<1>3. Base(x) = Normalized(repo.node[x])
  BY <1>1 DEF Base
<1>4. Normalized("running") = "running" /\ Normalized("queued") = "queued" /\ Normalized(Absent) = Absent
  BY DEF Normalized, EventStatus, Absent
<1>5. \A i \in Future(x) : i \in 1..Len(log) /\ x \in About(log[i])
  BY <1>1 DEF Future
<1>6. ASSUME NEW i \in 1..Len(log), x \in About(log[i])
      PROVE  log[i] = Created(x) \/ (log[i] = Started(x) /\ x \in T)
  <2>1. x # "run"
    BY ConstantsAssumption DEF ConstantsAssumption
  <2>2. ASSUME NEW n, NEW s, log[i] = Publish("run", n, s) PROVE FALSE
    <3>1. About(log[i]) = {"run"}
      BY <2>2, FirstFields DEF About
    <3> QED
      BY <1>6, <2>1, <3>1
  <2>3. ASSUME NEW n, log[i] = Created(n) PROVE n = x
    <3>1. About(log[i]) = {n}
      BY <2>3, FirstFields DEF About
    <3> QED
      BY <1>6, <3>1
  <2>4. ASSUME NEW n \in T, log[i] = Started(n) PROVE n = x
    <3>1. About(log[i]) = {n}
      BY <2>4, FirstFields DEF About
    <3> QED
      BY <1>6, <3>1
  <2>5. \/ log[i] = Publish("run", Root, "queued")
        \/ log[i] = Publish("run", None, "running")
        \/ \E n \in T \cup {Root} : log[i] = Created(n)
        \/ \E n \in T : log[i] = Started(n)
    BY Zenon DEF FirstOf
  <2> QED
    BY <2>2, <2>3, <2>4, <2>5, Zenon
<1>7. ASSUME NEW i \in 1..Len(log), log[i] = Created(x) PROVE x \in T \cup {Root}
  <2>1. Created(x).kind = "created"
    BY FirstFields, Zenon
  <2>2. \A n, s : Publish("run", n, s) # Created(x)
    BY <2>1, FirstFields
  <2>3. \A n : Started(n) # Created(x)
    BY <2>1, FirstFields
  <2>4. \E n \in T \cup {Root} : log[i] = Created(n)
    <3>1. \/ log[i] = Publish("run", Root, "queued")
          \/ log[i] = Publish("run", None, "running")
          \/ \E n \in T \cup {Root} : log[i] = Created(n)
          \/ \E n \in T : log[i] = Started(n)
      BY Zenon DEF FirstOf
    <3> QED
      BY <1>7, <2>2, <2>3, <3>1, Zenon
  <2> QED
    BY <1>7, <2>4, FirstFields, Zenon
<1>8. ASSUME NEW i \in 1..Len(log), x \in T, log[i] = Created(x)
      PROVE  \E j \in Future(x) : i < j
  <2>1. PICK j \in 1..Len(log) : i < j /\ log[j] = Started(x)
    BY <1>8, Zenon DEF FirstOf
  <2>2. About(log[j]) = {x}
    BY <2>1, FirstFields DEF About
  <2>3. j \in Future(x)
    BY <1>1, <2>2 DEF Future
  <2> QED
    BY <2>1, <2>3
<1>9. \A i \in Future(x) : log[i].kind \in {"created", "status"}
  BY <1>5, <1>6, FirstFields
<1>10. CASE repo.node[x] = Absent
  <2>1. x \notin T \cup {Root}
    BY <1>2, <1>10 DEF Absent
  <2>2. \A i \in Future(x) : FALSE
    BY <1>5, <1>6, <1>7, <2>1
  <2> QED
    BY <1>3, <1>4, <1>10, <2>2 DEF Told, Gone, Drops
<1>11. CASE repo.node[x] # Absent
  <2>1. x \in T \cup {Root}
    BY <1>2, <1>11
  <2>2. Present(x)
    <3>1. Base(x) # Absent
      BY <1>2, <1>3, <1>4, <1>11 DEF Absent
    <3> QED
      BY <1>9, <3>1 DEF Present, Keeps
  <2>3. ASSUME NEW i \in Future(x), \A j \in Future(x) : j <= i
        PROVE  log[i].status = Normalized(repo.node[x])
    <3>1. i \in 1..Len(log) /\ x \in About(log[i])
      BY <1>5
    <3>2. CASE log[i] = Created(x)
      <4>1. ASSUME x \in T PROVE FALSE
        <5>1. PICK j \in Future(x) : i < j
          BY <1>8, <3>1, <3>2, <4>1
        <5>2. j <= i /\ i \in Int /\ j \in Int
          BY <1>5, <2>3
        <5> QED
          BY <5>1, <5>2
      <4>2. repo.node[x] = "queued"
        BY <1>2, <2>1, <4>1
      <4> QED
        BY <1>4, <3>2, <4>2, FirstFields
    <3>3. CASE log[i] = Started(x) /\ x \in T
      BY <1>2, <1>4, <3>3, FirstFields
    <3> QED
      BY <1>6, <3>1, <3>2, <3>3
  <2>4. Current(x)
    BY <1>3, <2>3 DEF Current, Tells
  <2>5. Made(x)
    <3>1. PICK k \in 1..Len(log) : log[k] = Created(x)
      BY <2>1, Zenon DEF FirstOf
    <3>2. log[k].kind = "created" /\ log[k].node = x
      BY <3>1, FirstFields
    <3> QED
      BY <1>1, <3>2 DEF Made
  <2> QED
    BY <1>11, <2>2, <2>4, <2>5 DEF Told
<1> QED
  BY <1>10, <1>11

\* ... and of the run.
LEMMA InitRunTold ==
  ASSUME Init, IInv, NEW T \in SUBSET Nodes, FirstOf(log, T),
         repo.run = (IF T = {} THEN "queued" ELSE "running"), repo.tokens = 0
  PROVE  RunInv /\ TokensInv
<1>1. next = 1 /\ snap.at = "asked" /\ Len(log) \in Nat /\ snap.since = {} /\ job = <<>> /\ handler.ops = <<>>
  BY DEF Init, NoAnswer, NoHandler, IInv, ServerInv
<1>2. ASSUME NEW k \in 1..Len(log)
      PROVE  /\ log[k].kind # "tokens"
             /\ log[k].kind = "run" =>
                  \/ log[k].status = "queued" /\ k = 1
                  \/ log[k].status = "running" /\ T # {}
  <2>1. \/ log[k] = Publish("run", Root, "queued") /\ k = 1
        \/ log[k] = Publish("run", None, "running") /\ T # {}
        \/ \E n : log[k] = Created(n)
        \/ \E n : log[k] = Started(n)
    BY Zenon DEF FirstOf
  <2> QED
    BY <2>1, FirstFields
<1>3. \A k \in 1..Len(log) : /\ "run" \in About(log[k]) <=> log[k].kind = "run"
                             /\ "tokens" \notin About(log[k])
  <2>1. \A k \in 1..Len(log) : log[k] \in RightOps
    BY DEF IInv, ServerInv
  <2> QED
    BY <1>2, <2>1, AboutRun
<1>4. RunTold
  <2>1. ASSUME NEW i \in Future("run"), \A j \in Future("run") : j <= i
        PROVE  log[i].status = repo.run
    <3>1. i \in 1..Len(log) /\ log[i].kind = "run"
      BY <1>1, <1>3 DEF Future
    <3>2. CASE T = {}
      BY <1>2, <3>1, <3>2
    <3>3. CASE T # {}
      <4>1. PICK k \in 1..Len(log) : 1 < k /\ log[k] = Publish("run", None, "running")
        BY <3>3, Zenon DEF FirstOf
      <4>2. log[k].kind = "run"
        BY <4>1, FirstFields
      <4>3. k \in Future("run")
        BY <1>1, <1>3, <4>2 DEF Future
      <4>4. i # 1
        BY <2>1, <4>1, <4>3
      <4> QED
        BY <1>2, <3>1, <3>3, <4>4
    <3> QED
      BY <3>2, <3>3
  <2>2. BaseRun = repo.run
    BY <1>1 DEF BaseRun
  <2> QED
    BY <2>1, <2>2 DEF RunTold, Tells
<1>5. Ahead(job) = {}
  BY <1>1, AheadIs, Zenon
<1>6. ~ HandlerTells
  <2>1. Len(<<>>) # 2
    OBVIOUS
  <2> QED
    BY <1>1, <2>1, Zenon DEF HandlerTells
<1>7. RunInv
  BY <1>4, <1>5, <1>6 DEF RunInv
<1>8. TokensInv
  <2>1. Future("tokens") = {}
    BY <1>1, <1>3 DEF Future
  <2>2. Cardinality(Future("tokens")) = 0
    BY <2>1, FS_EmptySet
  <2>3. job # Tail(Charge)
    BY <1>1, ChargeSteps, Zenon
  <2> QED
    BY <1>1, <2>2, <2>3 DEF TokensInv
<1> QED
  BY <1>7, <1>8

\* The invariant holds at the beginning.
LEMMA InitSettles ==
  ASSUME Init
  PROVE  SettlingInv
<1>1. IInv
  BY InitHolds
<1>2. PICK started \in {<<>>} \cup {<<Root>> \o ns : ns \in HeadStarts} :
        /\ repo = [run |-> IF started = <<>> THEN "queued" ELSE "running", tokens |-> 0,
                   node |-> [n \in Nodes |-> IF n \in ToSet(started) THEN "running"
                                             ELSE IF n = Root THEN "queued" ELSE Absent]]
        /\ log = <<Publish("run", Root, "queued"), Created(Root)>>
                 \o (IF started = <<>> THEN <<>> ELSE <<Publish("run", None, "running")>>)
                 \o FlattenSeq([i \in DOMAIN started |->
                      (IF i = 1 THEN <<>> ELSE <<Created(started[i])>>)
                      \o <<Publish("status", started[i], "running")>>])
  BY DEF Init
<1> DEFINE T == ToSet(started)
<1>3. started \in Seq(Nodes) /\ (started = <<>> \/ started[1] = Root)
  <2>1. started \in Seq(Nodes)
    BY <1>2, FirstTree
  <2>2. ASSUME NEW ns \in HeadStarts, started = <<Root>> \o ns PROVE started[1] = Root
    <3>1. ns \in Seq(Nodes)
      BY TreeAssumption DEF TreeAssumption
    <3> QED
      BY <2>2, <3>1, ConstantsAssumption DEF ConstantsAssumption
  <2> QED
    BY <2>1, <2>2
<1>4. FirstOf(log, T)
  BY <1>2, <1>3, FirstLog, Zenon
<1>5. T \in SUBSET Nodes /\ (T = {} <=> started = <<>>)
  BY <1>3 DEF ToSet
<1>6. /\ repo.run = (IF T = {} THEN "queued" ELSE "running") /\ repo.tokens = 0
      /\ repo.node = [n \in Nodes |-> IF n \in T THEN "running" ELSE IF n = Root THEN "queued" ELSE Absent]
  BY <1>2, <1>5
<1> HIDE DEF T
<1>7. RunInv /\ TokensInv
  BY <1>1, <1>4, <1>5, <1>6, InitRunTold, Zenon
<1>8. \A x \in Nodes : Told(x) /\ (repo.node[x] # Absent => Made(x))
  BY <1>1, <1>4, <1>5, <1>6, InitTold, Zenon
<1>9. /\ job = <<>> /\ handler.ops = <<>> /\ handler.answer = "none" /\ call.kind = None
      /\ snap.at = "asked" /\ \A x \in Nodes : view.node[x] = Absent
  BY DEF Init, NoHandler, NoCall, NoAnswer
<1>10. Ahead(job) = {} /\ ~ Busy
  BY <1>9, AheadIs DEF Busy
<1>11. None \notin {"retry", "skip", "delete"}
  BY ConstantsAssumption DEF ConstantsAssumption
<1>12. FormInv
  <2>1. JobForm
    <3>1. StatusJob(Root) /\ Root \in Nodes
      BY <1>9, ConstantsAssumption DEF StatusJob, ToSet, ConstantsAssumption
    <3> QED
      BY <3>1 DEF JobForm
  <2>2. HandlerForm
    BY <1>9 DEF HandlerForm
  <2> QED
    BY <1>9, <1>10, <1>11, <2>1, <2>2 DEF FormInv, Apart, DeletionInv
<1>13. HistoryInv
  <2>1. \A x \in Nodes : job # Creation(x)
    BY <1>9, CreationSteps, Zenon
  <2>2. MadeInv
    BY <1>8, <1>9, <1>11, <2>1 DEF MadeInv
  <2> QED
    BY <1>9, <1>11, <2>2 DEF HistoryInv, ShownInv, OwnInv
<1>14. NodesInv
  BY <1>8, <1>10 DEF NodesInv, NodeInv, HandlerOn
<1> QED
  BY <1>7, <1>12, <1>13, <1>14 DEF SettlingInv, FutureInv

\* ... and when nothing changes.
LEMMA StutterSettles ==
  ASSUME SettlingInv, UNCHANGED vars
  PROVE  SettlingInv'
<1>1. /\ repo' = repo /\ log' = log /\ job' = job /\ handler' = handler /\ next' = next /\ snap' = snap
      /\ view' = view /\ call' = call /\ raced' = raced
  BY DEF vars
<1>2. FormInv /\ HistoryInv /\ FutureInv
  BY DEF SettlingInv
<1>3. FormInv'
  BY <1>1, <1>2 DEF FormInv, JobForm, StatusJob, HandlerForm, Apart, DeletionInv, Busy
<1>4. HistoryInv'
  <2>1. \A x : Made(x)' <=> Made(x)
    BY <1>1 DEF Made
  <2>2. MadeInv'
    BY <1>1, <1>2, <2>1 DEF HistoryInv, MadeInv
  <2>3. ShownInv'
    BY <1>1, <1>2 DEF HistoryInv, ShownInv
  <2>4. OwnInv'
    BY <1>1, <1>2 DEF HistoryInv, OwnInv, Own, Busy
  <2> QED
    BY <2>2, <2>3, <2>4 DEF HistoryInv
<1>5. \A x : Future(x)' = Future(x) /\ Base(x)' = Base(x)
  BY <1>1 DEF Future, Base, Optimistic
<1>6. \A x : (Present(x)' <=> Present(x)) /\ (Told(x)' <=> Told(x))
  BY <1>1, <1>5 DEF Told, Gone, Present, Current
<1>7. NodesInv'
  <2>1. Off' = Off /\ Ahead(job') = Ahead(job)
    BY <1>1 DEF Off
  <2>2. \A x : (HandlerOn(x)' <=> HandlerOn(x)) /\ (HandlerAt(x)' <=> HandlerAt(x)) /\ (JobAt(x)' <=> JobAt(x))
    BY <1>1, <1>6 DEF HandlerOn, Busy, HandlerAt, JobAt
  <2>3. \A x : NodeInv(x)' <=> NodeInv(x)
    BY <1>6, <2>1, <2>2 DEF NodeInv
  <2> QED
    BY <1>2, <2>1, <2>3 DEF FutureInv, NodesInv
<1>8. RunInv' /\ TokensInv'
  <2>1. Off' = Off /\ Ahead(job') = Ahead(job) /\ (HandlerTells' <=> HandlerTells) /\ (RunTold' <=> RunTold)
    BY <1>1, <1>5 DEF Off, HandlerTells, RunTold, BaseRun
  <2>2. RunInv'
    BY <1>1, <1>2, <2>1 DEF FutureInv, RunInv
  <2>3. TokensInv'
    BY <1>1, <1>2, <1>5, <2>1 DEF FutureInv, TokensInv
  <2> QED
    BY <2>2, <2>3
<1> QED
  BY <1>3, <1>4, <1>7, <1>8 DEF SettlingInv, FutureInv
-----------------------------------------------------------------------------
(* The theorems.                                                           *)

\* Once the events to come have been applied to what is shown, or to the snapshot that
\* will be, the page shows what the repository holds, but for the parts that a race has
\* left out of date and those whose event is still to be published by the job or by a
\* handler (executor.py and runs.py write first and publish later, runStore.ts applies).
THEOREM SettlingInvariant == Spec => []SettlingInv
<1>1. IInv /\ CallInv /\ SettlingInv /\ [Next]_vars => SettlingInv'
  BY JobBeginsSettles, JobStepSettles, HandleSettles, HandlerStepSettles, SnapshotSettles, ApplySettles,
     UserIntervenesSettles, UserDeletesSettles, TakeInterventionSettles, TakeDeletionSettles, StutterSettles
  DEF Next, Server, Page
<1>2. Init => SettlingInv
  BY InitSettles
<1> QED
  BY StoreInvariant, <1>1, <1>2, PTL DEF Spec

\* When every event has arrived and nobody is at work, every part of the page shows what
\* the repository holds but for those that a race has left out of date: whatever the
\* order of writes, events, snapshot and the user's calls (runStore.ts, page.tsx).
THEOREM SettledIsTrue == Spec => []SettledViewIsTrue
<1>1. IInv /\ CallInv /\ SettlingInv => SettledViewIsTrue
  <2> SUFFICES ASSUME IInv, SettlingInv, Settled, NEW x \in Things \ raced PROVE Shows(x)
    BY DEF SettledViewIsTrue
  <2>1. /\ snap.at = "shown" /\ job = <<>> /\ handler.ops = <<>> /\ ~ Busy /\ call.kind = None
    BY DEF Settled, NoHandler, NoCall, Busy
  <2>2. \A y : Future(y) = {}
    <3>1. Len(log) \in Nat /\ next \in Nat /\ next > Len(log)
      BY DEF Settled, IInv, ServerInv
    <3> QED
      BY <3>1 DEF Future
  <2>3. x \notin Off
    BY <2>1 DEF SettlingInv, HistoryInv, ShownInv, Off
  <2>4. Ahead(job) = {}
    BY <2>1, AheadIs, Zenon
  <2>5. CASE x = "run"
    <3>1. ~ HandlerTells
      <4>1. Len(<<>>) # 2
        OBVIOUS
      <4> QED
        BY <2>1, <4>1, Zenon DEF HandlerTells
    <3>2. RunTold
      BY <2>3, <2>4, <2>5, <3>1 DEF SettlingInv, FutureInv, RunInv
    <3> QED
      BY <2>1, <2>2, <2>5, <3>2 DEF RunTold, Tells, BaseRun, Shows
  <2>6. CASE x = "tokens"
    <3>1. Cardinality(Future("tokens")) = 0
      BY <2>2, FS_EmptySet
    <3>2. job # Tail(Charge)
      BY <2>1, ChargeSteps, Zenon
    <3>3. view.tokens \in Nat
      BY DEF IInv, PageInv, Views
    <3>4. repo.tokens = view.tokens + 0 + 0
      BY <2>1, <2>3, <2>6, <3>1, <3>2 DEF SettlingInv, FutureInv, TokensInv
    <3> QED
      BY <2>6, <3>3, <3>4 DEF Shows
  <2>7. CASE x \in Nodes
    <3>1. Told(x)
      BY <2>1, <2>3, <2>4, <2>7 DEF SettlingInv, FutureInv, NodesInv, NodeInv, HandlerOn
    <3>2. Base(x) = view.node[x]
      <4>1. None \notin {"retry", "skip"}
        BY ConstantsAssumption DEF ConstantsAssumption
      <4> QED
        BY <2>1, <4>1 DEF Base, Optimistic
    <3>3. Normalized(Absent) = Absent
      BY DEF Normalized, EventStatus, Absent
    <3>4. view.node[x] = Normalized(repo.node[x])
      BY <2>2, <3>1, <3>2, <3>3 DEF Told, Gone, Current, Drops, Tells
    <3>5. x # "run" /\ x # "tokens"
      BY <2>7, ConstantsAssumption DEF ConstantsAssumption
    <3> QED
      BY <3>4, <3>5 DEF Shows
  <2> QED
    BY <2>5, <2>6, <2>7 DEF Things
<1> QED
  BY StoreInvariant, SettlingInvariant, <1>1, PTL
=============================================================================
