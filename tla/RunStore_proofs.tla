--------------------------- MODULE RunStore_proofs ---------------------------
(***************************************************************************)
(* The page's graph is a tree, for any tree of nodes, any number of things *)
(* the job does and any number of calls by the user.                       *)
(***************************************************************************)
EXTENDS RunStore, TLAPS, WellFoundedInduction, FiniteSetTheorems

(* Counting up: what can be said of a list is said of its beginnings first. *)

\* A set of numbers has a least one.
LEMMA Least ==
  ASSUME NEW T \in SUBSET Nat, T # {}
  PROVE  \E n \in T : \A m \in T : n <= m
<1> DEFINE Less == {x \in Nat \X Nat : x[1] < x[2]}
<1>1. IsWellFoundedOn(Less, Nat)
  <2>1. OpToRel(<, Nat) = Less
    BY DEF OpToRel
  <2> QED
    BY <2>1, NatLessThanWellFounded
<1>2. PICK n \in T : \A m \in T : <<m, n>> \notin Less
  BY <1>1, WFMin, Zenon
<1> QED
  <2>1. ASSUME NEW m \in T PROVE n <= m
    <3>1. <<m, n>> \in Nat \X Nat /\ ~ (<<m, n>>[1] < <<m, n>>[2])
      BY <1>2
    <3> QED
      BY <3>1
  <2> QED
    BY <2>1

\* A set that has 1 and the successor of each of its members up to m has all of 1..m.
LEMMA CountingUp ==
  ASSUME NEW m \in Nat, NEW T, m > 0 => 1 \in T,
         \A n \in 1..m : n \in T /\ n < m => n + 1 \in T
  PROVE  1..m \subseteq T
<1> DEFINE Rest == (1..m) \ T
<1>1. SUFFICES ASSUME Rest # {} PROVE FALSE
  OBVIOUS
<1>2. PICK n \in Rest : \A k \in Rest : n <= k
  <2>1. Rest \in SUBSET Nat
    OBVIOUS
  <2> QED
    BY <1>1, <2>1, Least
<1>3. n # 1 /\ n - 1 \in 1..m /\ n - 1 \in T /\ n - 1 < m
  BY <1>2
<1> QED
  BY <1>2, <1>3
-----------------------------------------------------------------------------
(* The nodes above a node.                                                 *)

\* What the recursion of Ancestors defines.
AncestorsOf(f) ==
  f = [n \in Nodes |-> IF n = Root THEN {} ELSE {ParentOf[n]} \cup f[ParentOf[n]]]

\* A set that has the parents of its members.
Closed(S) == \A n \in S \ {Root} : ParentOf[n] \in S

\* The nodes in every closed set that has n's parent.
AllAbove(n) ==
  {m \in Nodes : n # Root /\ \A S \in SUBSET Nodes : Closed(S) /\ ParentOf[n] \in S => m \in S}

LEMMA AllAboveStep ==
  ASSUME NEW n \in Nodes \ {Root}
  PROVE  AllAbove(n) = {ParentOf[n]} \cup AllAbove(ParentOf[n])
<1> DEFINE p == ParentOf[n]
<1>1. p \in Nodes /\ \A x \in Nodes \ {Root} : ParentOf[x] \in Nodes
  BY TreeAssumption DEF TreeAssumption
<1>2. {p} \cup AllAbove(p) \subseteq AllAbove(n)
  BY <1>1 DEF AllAbove, Closed
<1>3. Closed({p} \cup AllAbove(p)) /\ {p} \cup AllAbove(p) \in SUBSET Nodes
  BY <1>1 DEF AllAbove, Closed
<1>4. AllAbove(n) \subseteq {p} \cup AllAbove(p)
  BY <1>3 DEF AllAbove
<1> QED
  BY <1>2, <1>4

LEMMA AncestorsAre == AncestorsOf(Ancestors)
<1> DEFINE f == [n \in Nodes |-> AllAbove(n)]
<1>1. ASSUME NEW n \in Nodes
      PROVE  f[n] = IF n = Root THEN {} ELSE {ParentOf[n]} \cup f[ParentOf[n]]
  <2>1. CASE n = Root
    BY <2>1 DEF AllAbove
  <2>2. CASE n # Root
    <3>1. ParentOf[n] \in Nodes
      BY <2>2, TreeAssumption DEF TreeAssumption
    <3> QED
      BY <2>2, <3>1, AllAboveStep
  <2> QED
    BY <2>1, <2>2
<1>2. AncestorsOf(f)
  BY <1>1 DEF AncestorsOf
<1>3. Ancestors = CHOOSE g : AncestorsOf(g)
  BY DEF Ancestors, AncestorsOf
<1> QED
  BY <1>2, <1>3

\* A node is above n if it is n's parent, or above that.
LEMMA AncestorsStep ==
  /\ Ancestors[Root] = {}
  /\ \A n \in Nodes \ {Root} : Ancestors[n] = {ParentOf[n]} \cup Ancestors[ParentOf[n]]
<1>1. Root \in Nodes
  BY ConstantsAssumption DEF ConstantsAssumption
<1> QED
  BY <1>1, AncestorsAre DEF AncestorsOf

\* No node is above itself, nor above one above it.
LEMMA NoCycle ==
  ASSUME NEW n \in Nodes
  PROVE  /\ Ancestors[n] \subseteq Nodes /\ n \notin Ancestors[n]
         /\ \A m \in Ancestors[n] : n \notin Ancestors[m]
<1>1. PICK depth \in [Nodes -> 0..Cardinality(Nodes)] :
        \A m \in Nodes \ {Root} : depth[ParentOf[m]] < depth[m]
  BY TreeAssumption DEF TreeAssumption
<1>2. Cardinality(Nodes) \in Nat
  BY TreeAssumption, FS_CardinalityType DEF TreeAssumption
<1>3. \A m \in Nodes : depth[m] \in Nat
  BY <1>1, <1>2
<1> DEFINE Deeper(m) == \A x \in Ancestors[m] : x \in Nodes /\ depth[x] < depth[m]
           Bad == {m \in Nodes : ~ Deeper(m)}
<1>4. Bad = {}
  <2>1. SUFFICES ASSUME Bad # {} PROVE FALSE
    OBVIOUS
  <2>2. PICK m \in Bad : \A k \in Bad : depth[m] <= depth[k]
    <3>1. {depth[k] : k \in Bad} \in SUBSET Nat /\ {depth[k] : k \in Bad} # {}
      BY <1>3, <2>1
    <3>2. PICK d \in {depth[k] : k \in Bad} : \A e \in {depth[k] : k \in Bad} : d <= e
      BY <3>1, Least
    <3> QED
      BY <3>2
  <2>3. m \in Nodes \ {Root}
    BY <2>2, AncestorsStep
  <2>4. ParentOf[m] \in Nodes /\ depth[ParentOf[m]] < depth[m]
    BY <1>1, <2>3, TreeAssumption DEF TreeAssumption
  <2>5. Deeper(ParentOf[m])
    BY <1>3, <2>2, <2>3, <2>4
  <2>6. Deeper(m)
    BY <1>3, <2>3, <2>4, <2>5, AncestorsStep
  <2> QED
    BY <2>2, <2>6
<1>5. \A m \in Nodes : Deeper(m)
  BY <1>4
<1> QED
  BY <1>3, <1>5
\* What holds of the root, and of a node if of its parent, holds of all nodes.
LEMMA DownTheTree ==
  ASSUME NEW T, Root \in T, \A n \in Nodes \ {Root} : ParentOf[n] \in T => n \in T
  PROVE  Nodes \subseteq T
<1>1. PICK depth \in [Nodes -> 0..Cardinality(Nodes)] :
        \A m \in Nodes \ {Root} : depth[ParentOf[m]] < depth[m]
  BY TreeAssumption DEF TreeAssumption
<1>2. Cardinality(Nodes) \in Nat
  BY TreeAssumption, FS_CardinalityType DEF TreeAssumption
<1>3. \A m \in Nodes : depth[m] \in Nat
  BY <1>1, <1>2
<1> DEFINE Bad == Nodes \ T
<1>4. SUFFICES ASSUME Bad # {} PROVE FALSE
  OBVIOUS
<1>5. PICK m \in Bad : \A k \in Bad : depth[m] <= depth[k]
  <2>1. {depth[k] : k \in Bad} \in SUBSET Nat /\ {depth[k] : k \in Bad} # {}
    BY <1>3, <1>4
  <2>2. PICK d \in {depth[k] : k \in Bad} : \A e \in {depth[k] : k \in Bad} : d <= e
    BY <2>1, Least
  <2> QED
    BY <2>2
<1>6. m \in Nodes \ {Root}
  BY <1>5
<1>7. ParentOf[m] \in Nodes /\ depth[ParentOf[m]] < depth[m]
  BY <1>1, <1>6, TreeAssumption DEF TreeAssumption
<1>8. ParentOf[m] \notin Bad
  BY <1>3, <1>5, <1>6, <1>7
<1> QED
  BY <1>5, <1>6, <1>7, <1>8
-----------------------------------------------------------------------------
(* The graph on the page.                                                  *)

Shown(node) == {n \in Nodes : node[n] # Absent}

\* Nodes hang from their parents, which are there too.
IsTree(node) == \A n \in Shown(node) \ {Root} : ParentOf[n] \in Shown(node)

\* ViewIsTree of a view: edges lead to all nodes, and from nodes shown but for some nodes.
ShowsTree(v, out) ==
  /\ v.edges = {<<ParentOf[n], n>> : n \in Shown(v.node) \ {Root}}
  /\ \A n \in Shown(v.node) \ (out \cup {Root}) : ParentOf[n] \in Shown(v.node)

\* Removing nodes with all that hangs from them leaves a tree.
LEMMA WithoutIsTree ==
  ASSUME NEW v, NEW out, NEW ns \in SUBSET Nodes, ShowsTree(v, out),
         NEW S, NEW T, v \in [run : S, tokens : Nat, lastSeq : Nat, edges : SUBSET (Nodes \X Nodes),
                              node : [Nodes -> T]],
         \A n \in Shown(v.node) \ {Root} : ParentOf[n] \in ns => n \in ns
  PROVE  ShowsTree(Without(v, ns), out)
<1> DEFINE w == Without(v, ns)
<1>1. /\ w.node = [n \in Nodes |-> IF n \in ns THEN Absent ELSE v.node[n]]
      /\ w.edges = {e \in v.edges : e[1] \notin ns /\ e[2] \notin ns}
  BY DEF Without
<1>2. Shown(w.node) = Shown(v.node) \ ns
  BY <1>1 DEF Shown
<1>3. w.edges = {<<ParentOf[n], n>> : n \in Shown(w.node) \ {Root}}
  <2>1. ASSUME NEW n \in Shown(v.node) \ {Root}
        PROVE  n \notin ns <=> ParentOf[n] \notin ns /\ n \notin ns
    OBVIOUS
  <2>2. w.edges = {e \in {<<ParentOf[n], n>> : n \in Shown(v.node) \ {Root}} :
                     e[1] \notin ns /\ e[2] \notin ns}
    BY <1>1 DEF ShowsTree
  <2> HIDE DEF w
  <2> QED
    BY <1>2, <2>1, <2>2
<1>4. \A n \in Shown(w.node) \ (out \cup {Root}) : ParentOf[n] \in Shown(w.node)
  <2> HIDE DEF w
  <2> QED
    BY <1>2 DEF ShowsTree
<1> QED
  BY <1>3, <1>4 DEF ShowsTree

\* What removeDescendants takes away has with a node all that hangs from it.
LEMMA DescendantsGo ==
  ASSUME NEW v, NEW p \in Nodes
  PROVE  /\ Descendants(v, p) \in SUBSET Nodes
         /\ \A n \in Shown(v.node) \ {Root} :
              /\ ParentOf[n] \in Descendants(v, p) => n \in Descendants(v, p)
              /\ ParentOf[n] = p => n \in Descendants(v, p)
<1>1. ASSUME NEW n \in Shown(v.node) \ {Root}, ParentOf[n] \in Descendants(v, p)
      PROVE  n \in Descendants(v, p)
  <2>1. n \in Nodes \ {Root} /\ v.node[n] # Absent
    BY DEF Shown
  <2>2. Ancestors[n] = {ParentOf[n]} \cup Ancestors[ParentOf[n]]
    BY <2>1, AncestorsStep
  <2>3. n \in Below(p)
    BY <1>1, <2>1, <2>2 DEF Descendants, Below
  <2> QED
    BY <1>1, <2>1, <2>2, <2>3 DEF Descendants
<1>2. ASSUME NEW n \in Shown(v.node) \ {Root}, ParentOf[n] = p
      PROVE  n \in Descendants(v, p)
  <2>1. n \in Nodes \ {Root} /\ v.node[n] # Absent
    BY DEF Shown
  <2>2. Ancestors[n] = {p} \cup Ancestors[p]
    BY <1>2, <2>1, AncestorsStep
  <2>3. n \in Below(p) /\ Ancestors[n] \cap Below(p) = {}
    BY <2>1, <2>2, NoCycle DEF Below
  <2> QED
    BY <2>1, <2>3 DEF Descendants
<1>3. Descendants(v, p) \in SUBSET Nodes
  BY DEF Descendants, Below
<1> QED
  BY <1>1, <1>2, <1>3

\* In a tree nothing is left below a node that is gone.
LEMMA TreeHangs ==
  ASSUME NEW node, IsTree(node), NEW x \in Nodes, node[x] # Absent
  PROVE  \A m \in Ancestors[x] : node[m] # Absent
<1> DEFINE T == {n \in Nodes : node[n] # Absent => \A m \in Ancestors[n] : node[m] # Absent}
<1>1. Root \in T
  BY AncestorsStep, ConstantsAssumption DEF ConstantsAssumption
<1>2. ASSUME NEW n \in Nodes \ {Root}, ParentOf[n] \in T PROVE n \in T
  <2>1. SUFFICES ASSUME node[n] # Absent, NEW m \in Ancestors[n] PROVE node[m] # Absent
    OBVIOUS
  <2>2. ParentOf[n] \in Nodes /\ node[ParentOf[n]] # Absent
    BY <2>1 DEF IsTree, Shown
  <2> QED
    BY <1>2, <2>1, <2>2, AncestorsStep
<1>3. Nodes \subseteq T
  <2> HIDE DEF T
  <2> QED
    BY <1>1, <1>2, DownTheTree
<1> QED
  BY <1>3
-----------------------------------------------------------------------------
(* The types.                                                              *)

ViewStatus == {"queued", "running", "blocked_human", "completed", "failed", "merged", "failed_check"}

NodeTables == [Nodes -> NodeStatus \cup {Absent}]

\* The writes and the publish calls that the server makes.
RightOp(op) ==
  IF op.do = "write"
  THEN /\ op.kind \in {"run", "tokens", "created", "status", "pruned", "delete"}
       /\ op.kind = "run" => op.status \in RunStatus
       /\ op.kind = "created" => op.node \in Nodes \ {Root} /\ op.status = "queued"
       /\ op.kind = "status" => op.node \in Nodes /\ op.status \in NodeStatus
       /\ op.kind \in {"pruned", "delete"} => op.node \in Nodes
  ELSE /\ op.kind \in {"run", "tokens", "created", "status", "merged", "pruned", "intervention"}
       /\ op.kind = "run" => op.status \in RunStatus \cup {None}
       /\ op.kind \in {"created", "status", "merged", "intervention"} =>
            op.node \in Nodes /\ op.status \in ViewStatus
       /\ op.kind = "pruned" => op.node \in Nodes

RightOps == {op \in Ops : RightOp(op)}

Views == [run : RunStatus \cup {None}, tokens : Nat, lastSeq : Nat, edges : SUBSET (Nodes \X Nodes),
          node : [Nodes -> ViewStatus \cup {Absent}]]

Snaps == [at : {"asked", "run read", "answered", "shown"}, run : RunStatus \cup {None},
          node : NodeTables \cup {<<>>}, since : SUBSET Things]

Calls == [kind : {None, "retry", "skip", "delete"}, node : Nodes \cup {None},
          previous : ViewStatus \cup {Absent}, heard : SUBSET {"own", "other"}]

Handlers == [ops : Seq(RightOps), answer : {"none", "working", "accepted", "refused"}]

Repos == [run : RunStatus, tokens : Nat, node : NodeTables]

ServerInv ==
  /\ repo \in Repos
  /\ log \in Seq(RightOps) /\ job \in Seq(RightOps) /\ handler \in Handlers
  /\ next \in 1..(Len(log) + 1)
  /\ \A i \in DOMAIN log : log[i].do = "publish"

\* A call in flight has what the page showed before.
PageInv ==
  /\ snap \in Snaps
  /\ snap.at \in {"run read", "answered"} => snap.run \in RunStatus
  /\ snap.at = "answered" => snap.node \in NodeTables
  /\ view \in Views
  /\ call \in Calls
  /\ call.kind # None => call.node \in Nodes
  /\ call.kind \in {"retry", "skip"} => call.previous # Absent
  /\ raced \subseteq Things

CountInv == done \in [programs : 0..MaxPrograms, dividing : Nodes \cup {None}, calls : 0..MaxCalls]

\* What is left below a node that is gone, in the repository or in an answer on its
\* way to the page, is known to be out of date.
DriftInv == Adrift(repo) \subseteq raced /\ (snap.at = "answered" => Adrift(snap) \subseteq raced)

IInv == ServerInv /\ PageInv /\ CountInv /\ DriftInv /\ ViewIsTree

\* The handler works for a call.
CallInv == handler.answer # "none" => call.kind # None
-----------------------------------------------------------------------------
(* Joining a list of lists (FlattenSeq).                                   *)

Joined(f, ss, i) == IF i = 1 THEN ss[i] ELSE f[i - 1] \o ss[i]

\* f has the lists up to each place joined.
Joins(f, ss, m) == f = [i \in 1..m |-> Joined(f, ss, i)]

\* f at each place follows from f at the one before.
LEMMA JoinsSteps ==
  ASSUME NEW f, NEW ss, NEW m \in Nat, Joins(f, ss, m)
  PROVE  \A i \in 1..m : f[i] = Joined(f, ss, i)
<1> DEFINE F(i) == Joined(f, ss, i)
<1>1. f = [i \in 1..m |-> F(i)]
  BY Zenon DEF Joins
<1> HIDE DEF F
<1>2. \A i \in 1..m : f[i] = F(i)
  BY <1>1, Zenon
<1> QED
  BY <1>2, Zenon DEF F

\* The recursion of FlattenSeq defines a function on the places of a list.
LEMMA JoinsExists ==
  ASSUME NEW ss, NEW m \in Nat
  PROVE  \E f : Joins(f, ss, m)
<1> DEFINE T == {n \in 1..m : \E f : Joins(f, ss, n)}
<1>1. ASSUME m > 0 PROVE 1 \in T
  <2>1. Joins([i \in 1..1 |-> ss[1]], ss, 1)
    BY DEF Joins, Joined
  <2> QED
    BY <1>1, <2>1
<1>2. ASSUME NEW n \in 1..m, n \in T, n < m PROVE n + 1 \in T
  <2>1. PICK f : Joins(f, ss, n)
    BY <1>2
  <2> DEFINE g == [i \in 1..n + 1 |-> IF i <= n THEN f[i] ELSE f[n] \o ss[n + 1]]
  <2>2. \A i \in 1..n : g[i] = f[i]
    OBVIOUS
  <2>3. n \in Nat /\ n + 1 # 1 /\ (n + 1) - 1 = n
    OBVIOUS
  <2>4. \A i \in 1..n : f[i] = Joined(f, ss, i)
    BY <2>1, <2>3, JoinsSteps, Zenon
  <2>5. g[n + 1] = g[n] \o ss[n + 1]
    <3>1. g[n + 1] = f[n] \o ss[n + 1]
      <4>1. n + 1 \in 1..n + 1 /\ ~ (n + 1 <= n)
        OBVIOUS
      <4> QED
        BY <4>1, Zenon
    <3>2. g[n] = f[n]
      OBVIOUS
    <3> QED
      BY <3>1, <3>2, Zenon
  <2>6. \A i \in 1..n + 1 : i \notin 1..n => i = n + 1
    OBVIOUS
  <2>7. g = [i \in 1..n + 1 |-> g[i]]
    OBVIOUS
  <2>8. \A i \in 1..n : i # 1 => i - 1 \in 1..n
    OBVIOUS
  <2> HIDE DEF g
  <2>9. \A i \in 1..n + 1 : g[i] = Joined(g, ss, i)
    <3>1. ASSUME NEW i \in 1..n PROVE g[i] = Joined(g, ss, i)
      <4>1. CASE i = 1
        BY <2>2, <2>4, <4>1 DEF Joined
      <4>2. CASE i # 1
        <5>1. g[i] = f[i] /\ g[i - 1] = f[i - 1] /\ f[i] = Joined(f, ss, i)
          BY <2>2, <2>4, <2>8, <4>2, Zenon
        <5> QED
          BY <4>2, <5>1, Zenon DEF Joined
      <4> QED
        BY <4>1, <4>2
    <3>2. g[n + 1] = Joined(g, ss, n + 1)
      BY <2>3, <2>5, Zenon DEF Joined
    <3> QED
      BY <2>6, <3>1, <3>2, Zenon
  <2>10. Joins(g, ss, n + 1)
    <3> DEFINE G(i) == Joined(g, ss, i)
    <3>1. \A i \in 1..n + 1 : g[i] = G(i)
      BY <2>9, Zenon
    <3> HIDE DEF G
    <3>2. g = [i \in 1..n + 1 |-> G(i)]
      BY <2>7, <3>1, Zenon
    <3> QED
      BY <3>2, Zenon DEF Joins, G
  <2>11. n + 1 \in 1..m
    BY <1>2
  <2> QED
    BY <2>10, <2>11
<1>3. 1..m \subseteq T
  <2> HIDE DEF T
  <2> QED
    BY <1>1, <1>2, CountingUp
<1>4. CASE m = 0
  <2>1. Joins([i \in 1..0 |-> 0], ss, 0)
    BY DEF Joins, Joined
  <2> QED
    BY <1>4, <2>1
<1>5. CASE m > 0
  BY <1>3, <1>5
<1> QED
  BY <1>4, <1>5

\* Lists over S joined are a list over S.
LEMMA FlattenSeqType ==
  ASSUME NEW S, NEW ss \in Seq(Seq(S))
  PROVE  FlattenSeq(ss) \in Seq(S)
<1> DEFINE m == Len(ss)
<1>1. CASE m = 0
  BY <1>1 DEF FlattenSeq
<1>2. CASE m # 0
  <2> DEFINE f == CHOOSE f : Joins(f, ss, m)
  <2>1. m \in Nat /\ m > 0
    BY <1>2
  <2>2. Joins(f, ss, m)
    BY <2>1, JoinsExists
  <2>3. FlattenSeq(ss) = f[m]
    BY <1>2 DEF FlattenSeq, Joins, Joined
  <2>4. \A i \in 1..m : f[i] = Joined(f, ss, i)
    <3> HIDE DEF f, m
    <3> QED
      BY <2>1, <2>2, JoinsSteps, Zenon
  <2>5. \A i \in 1..m : ss[i] \in Seq(S)
    OBVIOUS
  <2> HIDE DEF f
  <2> DEFINE T == {i \in 1..m : f[i] \in Seq(S)}
  <2>6. 1 \in T
    BY <2>1, <2>4, <2>5 DEF Joined
  <2>7. ASSUME NEW n \in 1..m, n \in T, n < m PROVE n + 1 \in T
    <3>1. n + 1 \in 1..m /\ n + 1 # 1 /\ (n + 1) - 1 = n
      BY <2>7
    <3>2. f[n + 1] = f[n] \o ss[n + 1]
      BY <2>4, <3>1, Zenon DEF Joined
    <3>3. f[n] \in Seq(S) /\ ss[n + 1] \in Seq(S)
      BY <2>5, <2>7, <3>1
    <3>4. f[n + 1] \in Seq(S)
      BY <3>2, <3>3
    <3> QED
      BY <3>1, <3>4
  <2>8. 1..m \subseteq T
    <3> HIDE DEF T, m
    <3> QED
      BY <2>1, <2>6, <2>7, CountingUp
  <2>9. m \in T
    BY <2>1, <2>8
  <2> QED
    BY <2>3, <2>9
<1> QED
  BY <1>1, <1>2
-----------------------------------------------------------------------------
(* The programs of the job and of the handlers are made of right operations. *)

Published == {op \in RightOps : op.do = "publish"}

LEMMA EventStatusType ==
  /\ \A s \in NodeStatus : EventStatus(s) \in ViewStatus
  /\ \A s \in NodeStatus \cup {Absent} :
       EventStatus(s) \in ViewStatus \cup {Absent} /\ (EventStatus(s) = Absent <=> s = Absent)
  BY DEF EventStatus, NodeStatus, ViewStatus, Absent

\* The writes.
LEMMA RightWrites ==
  /\ \A n \in Nodes, s \in NodeStatus : Write("status", n, s) \in RightOps
  /\ \A n \in Nodes \ {Root} : Write("created", n, "queued") \in RightOps
  /\ \A n \in Nodes : Write("pruned", n, None) \in RightOps /\ Write("delete", n, None) \in RightOps
  /\ \A s \in RunStatus : Write("run", None, s) \in RightOps
  /\ Write("tokens", None, None) \in RightOps
  BY ConstantsAssumption
  DEF Write, Op, RightOps, RightOp, Ops, Statuses, NodeStatus, RunStatus, Absent, ConstantsAssumption

\* The publish calls.
LEMMA RightPublishes ==
  /\ \A n \in Nodes, s \in ViewStatus, kind \in {"created", "status", "merged", "intervention"} :
       Publish(kind, n, s) \in Published
  /\ \A n \in Nodes : Publish("pruned", n, None) \in Published
  /\ \A n \in Nodes \cup {None}, s \in RunStatus \cup {None} : Publish("run", n, s) \in Published
  /\ Publish("tokens", None, None) \in Published
  BY ConstantsAssumption
  DEF Publish, Op, RightOps, RightOp, Ops, Statuses, NodeStatus, RunStatus, ViewStatus, Absent, Published,
      ConstantsAssumption

LEMMA PublishedAreRight == Published \subseteq RightOps /\ Seq(Published) \subseteq Seq(RightOps)
  BY DEF Published

LEMMA EndsAre ==
  ASSUME NEW n \in Nodes, NEW s \in NodeStatus
  PROVE  Ends(n, s) \in Seq(RightOps) \ {<<>>}
<1>1. Write("status", n, s) \in RightOps
  BY RightWrites, Zenon
<1>2. EventStatus(s) \in ViewStatus
  BY EventStatusType, Zenon
<1>3. Publish("status", n, EventStatus(s)) \in RightOps
  BY <1>2, RightPublishes, PublishedAreRight
<1> QED
  BY <1>1, <1>3 DEF Ends

LEMMA BlocksAre ==
  ASSUME NEW n \in Nodes
  PROVE  Blocks(n) \in Seq(RightOps) \ {<<>>}
<1>1. "waiting_check" \in NodeStatus /\ "failed_check" \in NodeStatus /\ "blocked_human" \in NodeStatus
      /\ "blocked_human" \in ViewStatus
  BY DEF NodeStatus, ViewStatus
<1>2. Write("status", n, "waiting_check") \in RightOps /\ Write("status", n, "failed_check") \in RightOps
  BY <1>1, RightWrites, Zenon
<1>3. Publish("status", n, "blocked_human") \in RightOps
  BY <1>1, RightPublishes, PublishedAreRight
<1>4. Ends(n, "blocked_human") \in Seq(RightOps)
  BY <1>1, EndsAre
<1> QED
  BY <1>2, <1>3, <1>4 DEF Blocks

\* Storing one more child, of a node or of none.
LEMMA CreatesChildAre ==
  ASSUME NEW n \in Nodes \cup {None}, NEW program \in CreatesChild(n)
  PROVE  program \in Seq(RightOps) \ {<<>>}
<1>1. PICK m \in ChildrenOf(n) : program = <<Write("created", m, "queued"), Created(m)>>
  BY DEF CreatesChild
<1>2. m \in Nodes \ {Root} /\ "queued" \in ViewStatus
  BY DEF ChildrenOf, ViewStatus
<1>3. Write("created", m, "queued") \in RightOps /\ Created(m) \in RightOps
  BY <1>2, RightWrites, RightPublishes, PublishedAreRight DEF Created
<1> QED
  BY <1>1, <1>3

\* Each program of a node.
LEMMA ProgramsAre ==
  ASSUME NEW n \in Nodes, NEW program \in ProgramsOf(n)
  PROVE  program \in Seq(RightOps) \ {<<>>}
<1> DEFINE ending == {Ends(n, "completed"), Ends(n, "error"), Blocks(n)}
<1>1. "running" \in NodeStatus /\ "completed" \in NodeStatus /\ "error" \in NodeStatus
  BY DEF NodeStatus
<1>2. "failed_check" \in ViewStatus /\ "merged" \in ViewStatus /\ "queued" \in ViewStatus
  BY DEF ViewStatus
<1>3. Publish("status", n, "failed_check") \in RightOps /\ Publish("merged", n, "merged") \in RightOps
  BY <1>2, RightPublishes, PublishedAreRight
<1>4. Write("pruned", n, None) \in RightOps /\ Publish("pruned", n, None) \in RightOps
  BY RightWrites, RightPublishes, PublishedAreRight
<1>6. \A e \in ending : e \in Seq(RightOps) \ {<<>>}
  BY <1>1, EndsAre, BlocksAre
<1>7. Ends(n, "running") \in Seq(RightOps) \ {<<>>}
  BY <1>1, EndsAre
<1>8. \/ program \in {Ends(n, "running"), <<Publish("status", n, "failed_check")>>}
      \/ program \in ending
      \/ \E e \in ending : program = <<Publish("merged", n, "merged")>> \o e
      \/ program \in CreatesChild(n)
      \/ program = <<Write("pruned", n, None), Publish("pruned", n, None)>>
  <2> HIDE DEF ending
  <2>1. ProgramsOf(n) \subseteq
          {Ends(n, "running"), <<Publish("status", n, "failed_check")>>} \cup ending
          \cup {<<Publish("merged", n, "merged")>> \o e : e \in ending}
          \cup CreatesChild(n)
          \cup {<<Write("pruned", n, None), Publish("pruned", n, None)>>}
    BY DEF ProgramsOf, ending
  <2> QED
    BY <2>1
<1> HIDE DEF ending
<1>9. <<Publish("status", n, "failed_check")>> \in Seq(RightOps) \ {<<>>}
      /\ <<Write("pruned", n, None), Publish("pruned", n, None)>> \in Seq(RightOps) \ {<<>>}
  BY <1>3, <1>4
<1>10. ASSUME program \in CreatesChild(n) PROVE program \in Seq(RightOps) \ {<<>>}
  BY <1>10, CreatesChildAre
<1>11. ASSUME NEW e \in ending
       PROVE  <<Publish("merged", n, "merged")>> \o e \in Seq(RightOps) \ {<<>>}
  BY <1>3, <1>6
<1> QED
  BY <1>6, <1>7, <1>8, <1>9, <1>10, <1>11, Zenon

\* Each program about the run.
LEMMA RunProgramsAre ==
  ASSUME NEW program \in RunPrograms
  PROVE  program \in Seq(RightOps) \ {<<>>}
<1>1. \/ program = <<Write("tokens", None, None), Publish("tokens", None, None)>>
      \/ \E s \in {"running", "blocked_human", "completed"} :
           program = <<Write("run", None, s), Publish("run", None, s)>>
      \/ program = <<Write("run", None, "failed"), Publish("run", None, None)>>
  BY DEF RunPrograms
<1>2. /\ Write("tokens", None, None) \in RightOps /\ Publish("tokens", None, None) \in RightOps
      /\ \A s \in RunStatus : Write("run", None, s) \in RightOps /\ Publish("run", None, s) \in RightOps
      /\ Publish("run", None, None) \in RightOps
  BY RightWrites, RightPublishes, PublishedAreRight
<1>3. {"running", "blocked_human", "completed", "failed"} \subseteq RunStatus
  BY DEF RunStatus
<1>4. /\ <<Write("tokens", None, None), Publish("tokens", None, None)>> \in Seq(RightOps) \ {<<>>}
      /\ <<Write("run", None, "failed"), Publish("run", None, None)>> \in Seq(RightOps) \ {<<>>}
  BY <1>2, <1>3
<1>5. ASSUME NEW s \in RunStatus
      PROVE  <<Write("run", None, s), Publish("run", None, s)>> \in Seq(RightOps) \ {<<>>}
  BY <1>2
<1>6. \A s \in {"running", "blocked_human", "completed"} : s \in RunStatus
  BY <1>3
<1> QED
  BY <1>1, <1>4, <1>5, <1>6, Zenon

\* What the handler of a call does.
LEMMA HandlerOpsAre ==
  ASSUME NEW kind \in {"retry", "skip", "delete"}, NEW n \in Nodes
  PROVE  HandlerOps(kind, n) \in Seq(RightOps)
<1>1. TargetOf(kind) \in NodeStatus /\ TargetOf(kind) \in ViewStatus
  BY DEF TargetOf, NodeStatus, ViewStatus
<1>2. "running" \in RunStatus
  BY DEF RunStatus
<1>3. /\ Write("status", n, TargetOf(kind)) \in RightOps
      /\ Publish("intervention", n, TargetOf(kind)) \in RightOps
      /\ Write("pruned", n, None) \in RightOps /\ Write("delete", n, None) \in RightOps
      /\ Write("run", None, "running") \in RightOps /\ Publish("run", None, "running") \in RightOps
  BY <1>1, <1>2, RightWrites, RightPublishes, PublishedAreRight
<1>4. (IF repo.run = "blocked_human"
       THEN <<Write("run", None, "running"), Publish("run", None, "running")>> ELSE <<>>)
      \in Seq(RightOps)
  BY <1>3
<1> QED
  BY <1>3, <1>4 DEF HandlerOps
-----------------------------------------------------------------------------
(* The parts of the view.                                                  *)

LEMMA BelowType == \A n \in Nodes : Below(n) \in SUBSET Nodes /\ Subtree(n) \in SUBSET Nodes
  BY DEF Below, Subtree

LEMMA AboutType ==
  ASSUME NEW op \in RightOps
  PROVE  About(op) \in SUBSET Things
<1>1. RightOp(op) /\ op.do \in {"write", "publish"}
  BY DEF RightOps, Ops
<1>2. CASE op.kind \in {"tokens", "run"}
  BY <1>2 DEF About, Things
<1>3. CASE op.kind \in {"pruned", "delete"}
  <2>1. op.node \in Nodes
    BY <1>1, <1>3 DEF RightOp
  <2> QED
    BY <1>3, <2>1, BelowType DEF About, Things
<1>4. CASE op.kind \notin {"tokens", "run", "pruned", "delete"}
  <2>1. op.node \in Nodes
    BY <1>1, <1>4 DEF RightOp
  <2> QED
    BY <1>4, <2>1 DEF About, Things
<1> QED
  BY <1>2, <1>3, <1>4

LEMMA AheadType ==
  ASSUME NEW ops \in Seq(RightOps)
  PROVE  Ahead(ops) \in SUBSET Things
<1>1. \A o \in ToSet(ops) : o \in RightOps
  BY DEF ToSet
<1> QED
  BY <1>1, AboutType DEF Ahead
-----------------------------------------------------------------------------
(* The beginning.                                                          *)

\* What createRun and the head start have published.
LEMMA FirstEvents ==
  ASSUME NEW started \in Seq(Nodes), NEW more \in Seq(Published),
         more = <<>> \/ more = <<Publish("run", None, "running")>>
  PROVE  <<Publish("run", Root, "queued"), Created(Root)>> \o more
         \o FlattenSeq([i \in DOMAIN started |->
              (IF i = 1 THEN <<>> ELSE <<Created(started[i])>>)
              \o <<Publish("status", started[i], "running")>>]) \in Seq(Published)
<1> DEFINE E(i) == (IF i = 1 THEN <<>> ELSE <<Created(started[i])>>)
                   \o <<Publish("status", started[i], "running")>>
           ss == [i \in DOMAIN started |-> E(i)]
<1>1. Root \in Nodes /\ "queued" \in RunStatus /\ "queued" \in ViewStatus /\ "running" \in ViewStatus
  BY ConstantsAssumption DEF ConstantsAssumption, RunStatus, ViewStatus
<1>2. Publish("run", Root, "queued") \in Published /\ Created(Root) \in Published
  BY <1>1, RightPublishes DEF Created
<1>3. ASSUME NEW i \in DOMAIN started PROVE E(i) \in Seq(Published)
  <2>1. started[i] \in Nodes
    OBVIOUS
  <2>2. Created(started[i]) \in Published /\ Publish("status", started[i], "running") \in Published
    BY <1>1, <2>1, RightPublishes DEF Created
  <2> QED
    BY <2>2
<1>4. ss \in Seq(Seq(Published))
  <2> HIDE DEF E
  <2>1. DOMAIN started = 1..Len(started) /\ Len(started) \in Nat
    OBVIOUS
  <2> QED
    BY <1>3, <2>1
<1>5. FlattenSeq(ss) \in Seq(Published)
  <2> HIDE DEF ss
  <2> QED
    BY <1>4, FlattenSeqType
<1>6. <<Publish("run", Root, "queued"), Created(Root)>> \in Seq(Published)
  BY <1>2
<1> QED
  <2> HIDE DEF ss
  <2>1. <<Publish("run", Root, "queued"), Created(Root)>> \o more \o FlattenSeq(ss) \in Seq(Published)
    BY <1>5, <1>6
  <2> QED
    BY <2>1 DEF ss

\* The nodes of the head start hang from one another.
LEMMA FirstTree ==
  ASSUME NEW started \in {<<>>} \cup {<<Root>> \o ns : ns \in HeadStarts}, NEW node,
         node = [n \in Nodes |-> IF n \in ToSet(started) THEN "running"
                                 ELSE IF n = Root THEN "queued" ELSE Absent]
  PROVE  /\ started \in Seq(Nodes) /\ Len(started) \in 0..MaxPrograms
         /\ IsTree(node)
<1>1. Root \in Nodes /\ MaxPrograms \in Nat
  BY ConstantsAssumption DEF ConstantsAssumption
<1>2. Shown(node) = (ToSet(started) \cap Nodes) \cup {Root}
  BY <1>1 DEF Shown, Absent
<1>3. CASE started = <<>>
  <2>1. ToSet(started) = {}
    BY <1>3 DEF ToSet
  <2> QED
    BY <1>1, <1>2, <1>3, <2>1 DEF IsTree
<1>4. ASSUME NEW ns \in HeadStarts, started = <<Root>> \o ns
      PROVE  started \in Seq(Nodes) /\ Len(started) \in 0..MaxPrograms /\ IsTree(node)
  <2>1. /\ ns \in Seq(Nodes) /\ Len(ns) \in Nat /\ Len(ns) < MaxPrograms
        /\ \A i \in 1..Len(ns) : ParentOf[ns[i]] \in {Root} \cup {ns[j] : j \in 1..(i - 1)}
    <3>1. ns \in Seq(Nodes \ {Root}) /\ Len(ns) < MaxPrograms
          /\ \A i \in DOMAIN ns : ParentOf[ns[i]] \in {Root} \cup {ns[j] : j \in 1..(i - 1)}
      BY TreeAssumption DEF TreeAssumption
    <3> QED
      BY <3>1
  <2>2. started \in Seq(Nodes) /\ Len(started) = Len(ns) + 1 /\ started[1] = Root
        /\ \A i \in 1..Len(ns) : started[i + 1] = ns[i]
    BY <1>1, <1>4, <2>1
  <2>3. ToSet(started) = {Root} \cup {ns[i] : i \in 1..Len(ns)}
    <3>1. ToSet(started) = {started[i] : i \in 1..(Len(ns) + 1)}
      <4>1. DOMAIN started = 1..(Len(ns) + 1)
        BY <2>2
      <4> QED
        BY <4>1, Zenon DEF ToSet
    <3>2. \A i \in 1..(Len(ns) + 1) : i # 1 => i - 1 \in 1..Len(ns) /\ (i - 1) + 1 = i
      BY <2>1
    <3>3. \A i \in 1..Len(ns) : i + 1 \in 1..(Len(ns) + 1)
      BY <2>1
    <3>4. 1 \in 1..(Len(ns) + 1)
      BY <2>1
    <3>5. ToSet(started) \subseteq {Root} \cup {ns[i] : i \in 1..Len(ns)}
      <4>1. ASSUME NEW i \in 1..(Len(ns) + 1)
            PROVE  started[i] \in {Root} \cup {ns[k] : k \in 1..Len(ns)}
        <5>1. CASE i = 1
          BY <2>2, <5>1
        <5>2. CASE i # 1
          <6>1. i - 1 \in 1..Len(ns) /\ started[i] = ns[i - 1]
            BY <2>2, <3>2, <5>2
          <6> QED
            BY <6>1
        <5> QED
          BY <5>1, <5>2
      <4> QED
        BY <3>1, <4>1
    <3>6. {Root} \cup {ns[i] : i \in 1..Len(ns)} \subseteq ToSet(started)
      BY <2>2, <3>1, <3>3, <3>4, Zenon
    <3> QED
      BY <3>5, <3>6
  <2>4. IsTree(node)
    <3>1. Shown(node) = {Root} \cup {ns[i] : i \in 1..Len(ns)}
      BY <1>1, <1>2, <2>1, <2>3
    <3>2. ASSUME NEW i \in 1..Len(ns) PROVE ParentOf[ns[i]] \in Shown(node)
      <4>1. 1..(i - 1) \subseteq 1..Len(ns)
        BY <2>1
      <4> QED
        BY <2>1, <3>1, <4>1
    <3> QED
      BY <3>1, <3>2 DEF IsTree
  <2> QED
    BY <1>1, <2>1, <2>2, <2>4
<1> QED
  BY <1>3, <1>4

LEMMA InitHolds == Init => IInv
<1> SUFFICES ASSUME Init PROVE IInv
  OBVIOUS
<1>1. PICK started \in {<<>>} \cup {<<Root>> \o ns : ns \in HeadStarts} :
        /\ repo = [run |-> IF started = <<>> THEN "queued" ELSE "running", tokens |-> 0,
                   node |-> [n \in Nodes |-> IF n \in ToSet(started) THEN "running"
                                             ELSE IF n = Root THEN "queued" ELSE Absent]]
        /\ log = <<Publish("run", Root, "queued"), Created(Root)>>
                 \o (IF started = <<>> THEN <<>> ELSE <<Publish("run", None, "running")>>)
                 \o FlattenSeq([i \in DOMAIN started |->
                      (IF i = 1 THEN <<>> ELSE <<Created(started[i])>>)
                      \o <<Publish("status", started[i], "running")>>])
        /\ done = [programs |-> Len(started), dividing |-> None, calls |-> 0]
  BY DEF Init
<1>2. started \in Seq(Nodes) /\ Len(started) \in 0..MaxPrograms /\ IsTree(repo.node)
  BY <1>1, FirstTree
<1>3. repo \in Repos
  BY <1>1 DEF Repos, NodeTables, NodeStatus, RunStatus
<1>4. log \in Seq(Published)
  <2> DEFINE more == IF started = <<>> THEN <<>> ELSE <<Publish("run", None, "running")>>
  <2>1. Publish("run", None, "running") \in Published
    <3>1. "running" \in RunStatus
      BY DEF RunStatus
    <3> QED
      BY <3>1, RightPublishes
  <2>2. more \in Seq(Published) /\ (more = <<>> \/ more = <<Publish("run", None, "running")>>)
    BY <2>1
  <2> QED
    BY <1>1, <1>2, <2>2, FirstEvents
<1>5. log \in Seq(RightOps) /\ \A i \in DOMAIN log : log[i].do = "publish"
  <2>1. \A i \in DOMAIN log : log[i] \in Published
    BY <1>4
  <2> QED
    BY <1>4, <2>1, PublishedAreRight DEF Published
<1>6. ServerInv
  <2>1. job \in Seq(RightOps) /\ handler \in Handlers
    BY DEF Init, NoHandler, Handlers
  <2>2. next \in 1..(Len(log) + 1)
    <3>1. Len(log) \in Nat
      BY <1>5
    <3> QED
      BY <3>1 DEF Init
  <2> QED
    BY <1>2, <1>3, <1>5, <2>1, <2>2 DEF ServerInv
<1>7. PageInv
  <2>1. snap = NoAnswer /\ call = NoCall /\ raced = {}
    BY DEF Init
  <2>2. snap \in Snaps /\ snap.at = "asked"
    BY <2>1 DEF Snaps, NoAnswer
  <2>3. call \in Calls /\ call.kind = None
    BY <2>1 DEF Calls, NoCall
  <2>4. view \in Views
    BY ConstantsAssumption DEF ConstantsAssumption, Init, Views
  <2>5. None \notin {"retry", "skip"}
    BY ConstantsAssumption DEF ConstantsAssumption
  <2> QED
    BY <2>1, <2>2, <2>3, <2>4, <2>5 DEF PageInv
<1>8. CountInv
  <2>1. 0 \in 0..MaxCalls
    BY ConstantsAssumption DEF ConstantsAssumption
  <2> QED
    BY <1>1, <1>2, <2>1 DEF CountInv
<1>9. ViewIsTree
  BY DEF Init, NoAnswer, ViewIsTree
<1>10. DriftInv
  <2>1. Adrift(repo) = {}
    BY <1>2, TreeHangs DEF Adrift
  <2> QED
    BY <2>1 DEF Init, NoAnswer, DriftInv
<1> QED
  BY <1>6, <1>7, <1>8, <1>9, <1>10 DEF IInv
-----------------------------------------------------------------------------
(* The server's steps.                                                     *)

\* What a write leaves in the repository.
LEMMA WrittenType ==
  ASSUME repo \in Repos, NEW op \in RightOps, op.do = "write"
  PROVE  Written(op) \in Repos
<1>1. RightOp(op)
  BY DEF RightOps
<1>2. op.kind \in {"run", "tokens", "created", "status", "pruned", "delete"}
  BY <1>1 DEF RightOp
<1>3. CASE op.kind = "tokens"
  <2>1. Written(op) = [repo EXCEPT !.tokens = @ + 1]
    BY <1>3 DEF Written
  <2> QED
    BY <2>1 DEF Repos
<1>4. CASE op.kind = "run"
  <2>1. Written(op) = [repo EXCEPT !.run = op.status] /\ op.status \in RunStatus
    BY <1>1, <1>4 DEF Written, RightOp
  <2> QED
    BY <2>1 DEF Repos
<1>5. CASE op.kind \in {"pruned", "delete"}
  <2> DEFINE gone == IF op.kind = "delete" THEN {op.node} ELSE Descendants(repo, op.node)
             left == [n \in Nodes |-> IF n \in gone THEN Absent ELSE repo.node[n]]
  <2>1. Written(op) = [repo EXCEPT !.node = left]
    BY <1>5 DEF Written
  <2>2. left \in NodeTables
    BY DEF Repos, NodeTables
  <2> HIDE DEF left
  <2> QED
    BY <2>1, <2>2 DEF Repos
<1>6. CASE op.kind \in {"created", "status"}
  <2>1. Written(op) = [repo EXCEPT !.node[op.node] = op.status]
    BY <1>6 DEF Written
  <2>2. op.node \in Nodes /\ op.status \in NodeStatus
    BY <1>1, <1>6 DEF RightOp, NodeStatus
  <2> QED
    BY <2>1, <2>2 DEF Repos, NodeTables
<1> QED
  BY <1>2, <1>3, <1>4, <1>5, <1>6

\* One write or publish call.
LEMMA PerformHolds ==
  ASSUME ServerInv, NEW op \in RightOps, ~ Fails(op), Perform(op)
  PROVE  /\ repo' \in Repos
         /\ log' \in Seq(RightOps) /\ next \in 1..(Len(log') + 1)
         /\ \A i \in DOMAIN log' : log'[i].do = "publish"
<1>1. CASE op.do = "write"
  <2>1. repo' = Written(op) /\ log' = log
    BY <1>1 DEF Perform
  <2>2. Written(op) \in Repos
    BY <1>1, WrittenType DEF ServerInv
  <2> QED
    BY <2>1, <2>2 DEF ServerInv
<1>2. CASE op.do # "write"
  <2>1. repo' = repo /\ log' = Append(log, op)
    BY <1>2 DEF Perform
  <2>2. op.do = "publish"
    BY <1>2 DEF RightOps, Ops
  <2>3. repo' \in Repos
    BY <2>1 DEF ServerInv
  <2>4. log \in Seq(RightOps) /\ next \in 1..(Len(log) + 1) /\ \A i \in DOMAIN log : log[i].do = "publish"
    BY DEF ServerInv
  <2>5. /\ log' \in Seq(RightOps) /\ Len(log') = Len(log) + 1 /\ Len(log) \in Nat
        /\ log'[Len(log) + 1] = op /\ \A i \in 1..Len(log) : log'[i] = log[i]
    BY <2>1, <2>4
  <2>6. \A i \in DOMAIN log' : i \in 1..Len(log) \/ i = Len(log) + 1
    BY <2>5
  <2>7. \A i \in 1..Len(log) : log[i].do = "publish"
    BY <2>4
  <2>8. \A i \in DOMAIN log' : log'[i].do = "publish"
    BY <2>2, <2>5, <2>6, <2>7, Zenon
  <2>9. next \in 1..(Len(log') + 1)
    BY <2>4, <2>5
  <2> QED
    BY <2>3, <2>5, <2>8, <2>9
<1> QED
  BY <1>1, <1>2

\* Only a write of the repository and the reading of it can leave more adrift.
LEMMA DriftKept ==
  ASSUME DriftInv, raced \subseteq raced', repo'.node = repo.node \/ Adrift(repo') \subseteq raced',
         snap'.at = "answered" =>
           snap'.node = repo.node \/ (snap.at = "answered" /\ snap'.node = snap.node)
  PROVE  DriftInv'
<1>1. repo'.node = repo.node => Adrift(repo') = Adrift(repo)
  BY DEF Adrift
<1>2. snap'.node = repo.node => Adrift(snap') = Adrift(repo)
  BY DEF Adrift
<1>3. snap'.node = snap.node => Adrift(snap') = Adrift(snap)
  BY DEF Adrift
<1> QED
  BY <1>1, <1>2, <1>3 DEF DriftInv

\* More parts out of date ask less of the view.
LEMMA MoreRaced ==
  ASSUME PageInv, ViewIsTree, UNCHANGED <<snap, view, call>>,
         NEW more \in SUBSET Things, raced' = raced \cup more
  PROVE  PageInv' /\ ViewIsTree'
<1>1. PageInv'
  BY DEF PageInv
<1>2. ViewIsTree'
  BY DEF ViewIsTree
<1> QED
  BY <1>1, <1>2

LEMMA JobBeginsHolds == IInv /\ JobBegins => IInv'
<1> SUFFICES ASSUME IInv, JobBegins PROVE IInv'
  OBVIOUS
<1> DEFINE programs == RunPrograms \cup CreatesChild(done.dividing)
                       \cup UNION {ProgramsOf(n) : n \in Nodes \ Ahead(handler.ops)}
           dividing(program) == IF Head(program).kind = "created"
                                THEN ParentOf[Head(program).node] ELSE None
           Stale(program) == (Ahead(program) \cap Ahead(handler.ops))
                             \cup (IF Len(program) = 1 \/ Last(program) = Publish("run", None, None)
                                   THEN Ahead(program) ELSE {})
<1>1. PICK program \in programs :
        /\ job' = program /\ raced' = raced \cup Stale(program)
        /\ done' = [done EXCEPT !.programs = @ + 1, !.dividing = dividing(program)]
  <2>1. \E program \in programs :
          /\ job' = program
          /\ done' = [done EXCEPT !.programs = @ + 1,
                                  !.dividing = IF Head(program).kind = "created"
                                               THEN ParentOf[Head(program).node] ELSE None]
          /\ raced' = raced \cup (Ahead(program) \cap Ahead(handler.ops))
                            \cup (IF Len(program) = 1 \/ Last(program) = Publish("run", None, None)
                                  THEN Ahead(program) ELSE {})
    BY Zenon DEF JobBegins
  <2> HIDE DEF programs
  <2> QED
    BY <2>1
<1>2. program \in Seq(RightOps) /\ program # <<>>
  <2>1. done.dividing \in Nodes \cup {None}
    BY DEF IInv, CountInv
  <2> QED
    BY <1>1, <2>1, RunProgramsAre, ProgramsAre, CreatesChildAre
<1>3. Stale(program) \in SUBSET Things
  BY <1>2, AheadType
<1>4. /\ done.programs < MaxPrograms
      /\ UNCHANGED <<repo, log, handler, next, snap, view, call>>
  BY DEF JobBegins
<1>5. ServerInv'
  BY <1>1, <1>2, <1>4 DEF IInv, ServerInv
<1>6. PageInv' /\ ViewIsTree' /\ DriftInv'
  <2> HIDE DEF Stale
  <2> QED
    BY <1>1, <1>3, <1>4, MoreRaced, DriftKept DEF IInv
<1>7. CountInv'
  <2>1. /\ MaxPrograms \in Nat
        /\ done \in [programs : 0..MaxPrograms, dividing : Nodes \cup {None}, calls : 0..MaxCalls]
    BY ConstantsAssumption DEF ConstantsAssumption, IInv, CountInv
  <2>2. done.programs + 1 \in 0..MaxPrograms
    BY <1>4, <2>1
  <2>3. dividing(program) \in Nodes \cup {None}
    <3>1. RightOp(Head(program))
      BY <1>2 DEF RightOps
    <3>2. Head(program).kind = "created" => Head(program).node \in Nodes
      BY <3>1 DEF RightOp
    <3> QED
      BY <3>2, TreeAssumption DEF TreeAssumption
  <2> HIDE DEF dividing
  <2> QED
    BY <1>1, <2>1, <2>2, <2>3 DEF CountInv
<1> QED
  BY <1>5, <1>6, <1>7 DEF IInv

LEMMA JobStepHolds == IInv /\ JobStep => IInv'
<1> SUFFICES ASSUME IInv, JobStep PROVE IInv'
  OBVIOUS
<1>1. job # <<>> /\ job \in Seq(RightOps)
  BY DEF JobStep, IInv, ServerInv
<1>2. Head(job) \in RightOps /\ Tail(job) \in Seq(RightOps)
  BY <1>1
<1>3. UNCHANGED <<handler, next, snap, view, call, done>> /\ raced' = raced \cup Adrift(repo')
  BY DEF JobStep
<1>4. ServerInv'
  <2>1. CASE Fails(Head(job))
    <3>1. job' = <<>> /\ UNCHANGED <<repo, log>>
      BY <2>1 DEF JobStep
    <3>2. job' \in Seq(RightOps)
      BY <3>1
    <3> QED
      BY <1>3, <3>1, <3>2 DEF IInv, ServerInv
  <2>2. CASE ~ Fails(Head(job))
    <3>1. job' = Tail(job) /\ Perform(Head(job))
      BY <2>2 DEF JobStep
    <3>2. ServerInv
      BY DEF IInv
    <3>3. /\ repo' \in Repos
          /\ log' \in Seq(RightOps) /\ next \in 1..(Len(log') + 1)
          /\ \A i \in DOMAIN log' : log'[i].do = "publish"
      BY <1>2, <2>2, <3>1, <3>2, PerformHolds
    <3> QED
      BY <1>2, <1>3, <3>1, <3>2, <3>3 DEF ServerInv
  <2> QED
    BY <2>1, <2>2
<1>5. PageInv' /\ ViewIsTree' /\ DriftInv'
  <2>1. Adrift(repo') \in SUBSET Things
    BY DEF Adrift, Things
  <2> QED
    BY <1>3, <2>1, MoreRaced, DriftKept DEF IInv
<1> QED
  BY <1>3, <1>4, <1>5 DEF IInv, CountInv

LEMMA RefusedIsRight == NoHandler \in Handlers /\ [NoHandler EXCEPT !.answer = "refused"] \in Handlers
<1>1. <<>> \in Seq(RightOps)
  OBVIOUS
<1>2. /\ NoHandler = [ops |-> <<>>, answer |-> "none"]
      /\ [NoHandler EXCEPT !.answer = "refused"] = [ops |-> <<>>, answer |-> "refused"]
  BY DEF NoHandler
<1> QED
  BY <1>1, <1>2 DEF Handlers

LEMMA HandleHolds == IInv /\ Handle => IInv'
<1> SUFFICES ASSUME IInv, Handle PROVE IInv'
  OBVIOUS
<1>1. UNCHANGED <<repo, log, job, next, snap, view, call, done>>
  BY DEF Handle
<1>2. call.kind \in {"retry", "skip", "delete"} /\ call.node \in Nodes
  BY DEF Handle, IInv, PageInv, Calls
<1> DEFINE ops == HandlerOps(call.kind, call.node)
<1>3. \/ handler' = [NoHandler EXCEPT !.answer = "refused"] /\ raced' = raced
      \/ /\ handler' = [ops |-> ops, answer |-> "working"]
         /\ raced' = raced \cup (Ahead(ops) \cap Ahead(job))
  BY DEF Handle
<1>4. ops \in Seq(RightOps)
  BY <1>2, HandlerOpsAre
<1>5. Ahead(ops) \in SUBSET Things
  BY <1>4, AheadType
<1> HIDE DEF ops
<1>6. handler' \in Handlers
  <2>1. CASE handler' = [NoHandler EXCEPT !.answer = "refused"]
    BY <2>1, RefusedIsRight
  <2>2. CASE handler' = [ops |-> ops, answer |-> "working"]
    BY <1>4, <2>2 DEF Handlers
  <2> QED
    BY <1>3, <2>1, <2>2
<1>7. PICK more \in SUBSET Things : raced' = raced \cup more
  <2>1. CASE raced' = raced
    <3>1. {} \in SUBSET Things /\ raced' = raced \cup {}
      BY <2>1
    <3> QED
      BY <3>1
  <2>2. CASE raced' = raced \cup (Ahead(ops) \cap Ahead(job))
    <3>1. Ahead(ops) \cap Ahead(job) \in SUBSET Things
      BY <1>5
    <3> QED
      BY <2>2, <3>1
  <2> QED
    BY <1>3, <2>1, <2>2
<1>8. ServerInv'
  BY <1>1, <1>6 DEF IInv, ServerInv
<1>9. PageInv' /\ ViewIsTree' /\ DriftInv'
  BY <1>1, <1>7, MoreRaced, DriftKept DEF IInv
<1> QED
  BY <1>1, <1>8, <1>9 DEF IInv, CountInv

LEMMA HandlerStepHolds == IInv /\ CallInv /\ HandlerStep => IInv'
<1> SUFFICES ASSUME IInv, CallInv, HandlerStep PROVE IInv'
  OBVIOUS
<1>1. UNCHANGED <<job, next, snap, view, call, done>>
  BY DEF HandlerStep
<1>2. ServerInv /\ handler \in Handlers
  BY DEF IInv, ServerInv
<1>3. handler.ops \in Seq(RightOps)
  BY <1>2 DEF Handlers
<1>4. ServerInv'
  <2>1. CASE handler.ops = <<>>
    <3>1. PICK a \in {"accepted", "refused"} : handler' = [handler EXCEPT !.answer = a]
      BY <2>1 DEF HandlerStep
    <3>2. UNCHANGED <<repo, log>>
      BY <2>1 DEF HandlerStep
    <3>3. handler' \in Handlers
      BY <1>2, <3>1 DEF Handlers
    <3> QED
      BY <1>1, <1>2, <3>2, <3>3 DEF ServerInv
  <2>2. CASE handler.ops # <<>> /\ Fails(Head(handler.ops))
    <3>1. handler' = [NoHandler EXCEPT !.answer = "refused"] /\ UNCHANGED <<repo, log>>
      BY <2>2 DEF HandlerStep
    <3>2. handler' \in Handlers
      BY <3>1, RefusedIsRight
    <3> QED
      BY <1>1, <1>2, <3>1, <3>2 DEF ServerInv
  <2>3. CASE handler.ops # <<>> /\ ~ Fails(Head(handler.ops))
    <3>1. handler' = [handler EXCEPT !.ops = Tail(@)] /\ Perform(Head(handler.ops))
      BY <2>3 DEF HandlerStep
    <3>2. Head(handler.ops) \in RightOps /\ Tail(handler.ops) \in Seq(RightOps)
      BY <1>3, <2>3
    <3>3. handler' \in Handlers
      BY <1>2, <3>1, <3>2 DEF Handlers
    <3>4. /\ repo' \in Repos
          /\ log' \in Seq(RightOps) /\ next \in 1..(Len(log') + 1)
          /\ \A i \in DOMAIN log' : log'[i].do = "publish"
      BY <1>2, <2>3, <3>1, <3>2, PerformHolds
    <3> QED
      BY <1>1, <1>2, <3>3, <3>4 DEF ServerInv
  <2> QED
    BY <2>1, <2>2, <2>3
<1>5. PageInv' /\ ViewIsTree' /\ DriftInv'
  <2>1. CASE handler.ops = <<>>
    <3>1. UNCHANGED <<repo, raced>>
      BY <2>1 DEF HandlerStep
    <3>2. raced' = raced \cup {} /\ {} \in SUBSET Things
      BY <3>1
    <3> QED
      BY <1>1, <3>1, <3>2, MoreRaced, DriftKept DEF IInv
  <2>2. CASE handler.ops # <<>> /\ Fails(Head(handler.ops))
    <3>1. PICK more \in SUBSET {call.node} : raced' = raced \cup more
      <4>1. raced' = raced \cup (IF Head(handler.ops).kind = "run" THEN {call.node} ELSE {})
        BY <2>2 DEF HandlerStep
      <4> QED
        BY <4>1
    <3>2. call.node \in Nodes
      BY DEF IInv, PageInv, CallInv, HandlerStep
    <3>3. more \in SUBSET Things
      BY <3>2 DEF Things
    <3>4. UNCHANGED repo
      BY <2>2 DEF HandlerStep
    <3> QED
      BY <1>1, <3>1, <3>3, <3>4, MoreRaced, DriftKept DEF IInv
  <2>3. CASE handler.ops # <<>> /\ ~ Fails(Head(handler.ops))
    <3>1. raced' = raced \cup Adrift(repo')
      BY <2>3 DEF HandlerStep
    <3>2. Adrift(repo') \in SUBSET Things
      BY DEF Adrift, Things
    <3> QED
      BY <1>1, <3>1, <3>2, MoreRaced, DriftKept DEF IInv
  <2> QED
    BY <2>1, <2>2, <2>3
<1> QED
  BY <1>1, <1>4, <1>5 DEF IInv, CountInv
-----------------------------------------------------------------------------
(* The page's steps.                                                       *)

LEMMA WithoutType ==
  ASSUME NEW v \in Views, NEW ns
  PROVE  Without(v, ns) \in Views
<1> DEFINE node  == [n \in Nodes |-> IF n \in ns THEN Absent ELSE v.node[n]]
           edges == {e \in v.edges : e[1] \notin ns /\ e[2] \notin ns}
<1>1. Without(v, ns) = [v EXCEPT !.node = node, !.edges = edges]
  BY DEF Without
<1>2. node \in [Nodes -> ViewStatus \cup {Absent}] /\ edges \in SUBSET (Nodes \X Nodes)
  BY DEF Views
<1> HIDE DEF node, edges
<1> QED
  BY <1>1, <1>2 DEF Views

\* An event that is applied leaves the view of the right type.
LEMMA AppliedType ==
  ASSUME NEW v \in Views, NEW e \in Published
  PROVE  Applied(v, e) \in Views
<1>1. RightOp(e) /\ e.do = "publish"
  BY DEF Published, RightOps
<1>2. e.kind \in {"run", "tokens", "created", "status", "merged", "pruned", "intervention"}
  BY <1>1 DEF RightOp
<1>3. CASE Applied(v, e) = v
  BY <1>3
<1>4. CASE e.kind = "created"
  <2>1. e.node \in Nodes /\ e.status \in ViewStatus
    BY <1>1, <1>4 DEF RightOp
  <2> DEFINE node == [v.node EXCEPT ![e.node] = e.status]
             edges == v.edges \cup (IF e.node = Root THEN {} ELSE {<<ParentOf[e.node], e.node>>})
  <2>2. Applied(v, e) = [v EXCEPT !.node = node, !.edges = edges]
    BY <1>4 DEF Applied
  <2>3. node \in [Nodes -> ViewStatus \cup {Absent}]
    BY <2>1 DEF Views
  <2>4. edges \in SUBSET (Nodes \X Nodes)
    <3>1. e.node # Root => ParentOf[e.node] \in Nodes
      BY <2>1, TreeAssumption DEF TreeAssumption
    <3> QED
      BY <2>1, <3>1 DEF Views
  <2> HIDE DEF node, edges
  <2> QED
    BY <2>2, <2>3, <2>4 DEF Views
<1>5. CASE e.kind \in {"status", "merged", "intervention"} /\ Applied(v, e) # v
  <2>1. e.node \in Nodes /\ e.status \in ViewStatus
    BY <1>1, <1>5 DEF RightOp
  <2>2. Applied(v, e) = [v EXCEPT !.node[e.node] = e.status]
    BY <1>5 DEF Applied
  <2> QED
    BY <2>1, <2>2 DEF Views
<1>6. CASE e.kind = "pruned"
  <2>1. Applied(v, e) = Without(v, Descendants(v, e.node))
    BY <1>6 DEF Applied
  <2> QED
    BY <2>1, WithoutType
<1>7. CASE e.kind \in {"tokens", "run"} /\ Applied(v, e) # v
  <2>1. CASE e.kind = "tokens"
    <3>1. Applied(v, e) = [v EXCEPT !.tokens = @ + 1]
      BY <1>7, <2>1 DEF Applied
    <3> QED
      BY <3>1 DEF Views
  <2>2. CASE e.kind = "run"
    <3>1. Applied(v, e) = [v EXCEPT !.run = e.status]
      BY <1>7, <2>2 DEF Applied
    <3>2. e.status \in RunStatus \cup {None}
      BY <1>1, <2>2 DEF RightOp
    <3> QED
      BY <3>1, <3>2 DEF Views
  <2> QED
    BY <1>7, <2>1, <2>2
<1> QED
  BY <1>2, <1>3, <1>4, <1>5, <1>6, <1>7

\* The view with a node's status set to one that it is shown with is as good a tree.
LEMMA SameShown ==
  ASSUME NEW v \in Views, NEW n \in Nodes, v.node[n] # Absent, NEW s \in ViewStatus,
         NEW w, w = [v EXCEPT !.node[n] = s], NEW out, ShowsTree(v, out)
  PROVE  w \in Views /\ ShowsTree(w, out)
<1>1. s # Absent
  BY DEF ViewStatus, Absent
<1>2. w \in Views /\ w.edges = v.edges
  BY DEF Views
<1>3. Shown(w.node) = Shown(v.node)
  BY <1>1 DEF Shown, Views
<1> QED
  BY <1>2, <1>3 DEF ShowsTree

\* An event that is applied leaves a tree, but for a node whose parent is not shown.
LEMMA AppliedIsTree ==
  ASSUME NEW v \in Views, NEW e \in Published, NEW out, NEW orphans, ShowsTree(v, out),
         e.kind = "created" /\ e.node # Root /\ v.node[ParentOf[e.node]] = Absent
           => e.node \in orphans
  PROVE  ShowsTree(Applied(v, e), out \cup orphans)
<1> DEFINE w == Applied(v, e)
<1>1. RightOp(e) /\ e.do = "publish"
  BY DEF Published, RightOps
<1>2. e.kind \in {"run", "tokens", "created", "status", "merged", "pruned", "intervention"}
  BY <1>1 DEF RightOp
<1>3. SUFFICES ShowsTree(w, out) \/ ShowsTree(w, out \cup orphans)
  BY DEF ShowsTree
<1>4. CASE w = v
  BY <1>4
<1>5. CASE e.kind = "created"
  <2>1. e.node \in Nodes /\ e.status # Absent
    BY <1>1, <1>5 DEF RightOp, ViewStatus, Absent
  <2>2. /\ w.node = [v.node EXCEPT ![e.node] = e.status]
        /\ w.edges = v.edges \cup (IF e.node = Root THEN {} ELSE {<<ParentOf[e.node], e.node>>})
    BY <1>5 DEF Applied, Views
  <2>3. Shown(w.node) = Shown(v.node) \cup {e.node}
    BY <2>1, <2>2 DEF Shown, Views
  <2>4. v.edges = {<<ParentOf[n], n>> : n \in Shown(v.node) \ {Root}}
    BY DEF ShowsTree
  <2> HIDE DEF w
  <2>5. w.edges = {<<ParentOf[n], n>> : n \in Shown(w.node) \ {Root}}
    BY <2>2, <2>3, <2>4
  <2>6. ASSUME NEW n \in Shown(w.node) \ ((out \cup orphans) \cup {Root})
        PROVE  ParentOf[n] \in Shown(w.node)
    <3>1. CASE n = e.node
      <4>1. ParentOf[n] \in Nodes
        BY <2>1, <2>6, <3>1, TreeAssumption DEF TreeAssumption
      <4> QED
        BY <1>5, <2>3, <2>6, <3>1, <4>1 DEF Shown
    <3>2. CASE n # e.node
      BY <2>3, <2>6, <3>2 DEF ShowsTree
    <3> QED
      BY <3>1, <3>2
  <2> QED
    BY <2>5, <2>6 DEF ShowsTree
<1>6. CASE e.kind \in {"status", "merged", "intervention"} /\ w # v
  <2>1. e.node \in Nodes /\ e.status \in ViewStatus
    BY <1>1, <1>6 DEF RightOp
  <2>2. w = [v EXCEPT !.node[e.node] = e.status] /\ v.node[e.node] # Absent
    BY <1>6 DEF Applied
  <2> HIDE DEF w
  <2> QED
    BY <2>1, <2>2, SameShown
<1>7. CASE e.kind = "pruned"
  <2> DEFINE ns == Descendants(v, e.node)
  <2>1. e.node \in Nodes
    BY <1>1, <1>7 DEF RightOp
  <2>2. w = Without(v, ns)
    BY <1>7 DEF Applied
  <2>3. ns \in SUBSET Nodes /\ \A n \in Shown(v.node) \ {Root} : ParentOf[n] \in ns => n \in ns
    BY <2>1, DescendantsGo
  <2> HIDE DEF w, ns
  <2>4. ShowsTree(Without(v, ns), out)
    BY <2>3, WithoutIsTree DEF Views
  <2> QED
    BY <2>2, <2>4
<1>8. CASE e.kind \in {"tokens", "run"} /\ w # v
  <2>1. w.node = v.node /\ w.edges = v.edges
    BY <1>8 DEF Applied, Views
  <2> QED
    BY <2>1 DEF ShowsTree, Shown
<1> QED
  BY <1>2, <1>4, <1>5, <1>6, <1>7, <1>8

\* ViewIsTree is about the view once it is shown.
LEMMA TreeShown == ViewIsTree <=> (snap.at = "shown" => ShowsTree(view, raced))
  BY DEF ViewIsTree, ShowsTree, Shown

LEMMA TreeShownNext == ViewIsTree' <=> ((snap.at)' = "shown" => ShowsTree(view', raced'))
  BY DEF ViewIsTree, ShowsTree, Shown

LEMMA ApplyEventHolds == IInv /\ ApplyEvent => IInv'
<1> SUFFICES ASSUME IInv, ApplyEvent PROVE IInv'
  OBVIOUS
<1> DEFINE e == log[next]
           since == snap.since \cup (About(e) \cap Missed)
           heard == call.heard \cup {IF e.kind = "intervention" THEN "own" ELSE "other"}
<1>1. /\ next <= Len(log) /\ next' = next + 1
      /\ view' = IF next <= view.lastSeq THEN view ELSE [Applied(view, e) EXCEPT !.lastSeq = next]
      /\ snap' = [snap EXCEPT !.since = since]
      /\ call' = IF call.kind # None /\ call.node \in About(e)
                 THEN [call EXCEPT !.heard = heard] ELSE call
      /\ raced' = raced \cup Orphans(e)
      /\ UNCHANGED <<repo, log, job, handler, done>>
  BY DEF ApplyEvent
<1>2. /\ log \in Seq(RightOps) /\ next \in 1..(Len(log) + 1)
      /\ \A i \in DOMAIN log : log[i].do = "publish"
      /\ view \in Views /\ snap \in Snaps /\ call \in Calls /\ raced \subseteq Things
  BY DEF IInv, ServerInv, PageInv
<1>3. next \in DOMAIN log /\ next \in Nat /\ next + 1 \in 1..(Len(log) + 1)
  BY <1>1, <1>2
<1>4. e \in Published
  BY <1>2, <1>3 DEF Published
<1> HIDE DEF e
<1>5. ServerInv'
  BY <1>1, <1>2, <1>3 DEF IInv, ServerInv
<1>6. Applied(view, e) \in Views
  BY <1>2, <1>4, AppliedType
<1>7. view' \in Views
  <2> DEFINE w == Applied(view, e)
  <2> HIDE DEF w
  <2>1. w \in Views
    BY <1>6 DEF w
  <2>2. [w EXCEPT !.lastSeq = next] \in Views
    BY <1>3, <2>1 DEF Views
  <2>3. [Applied(view, e) EXCEPT !.lastSeq = next] \in Views
    BY <2>2 DEF w
  <2> QED
    BY <1>1, <1>2, <2>3
<1>8. Orphans(e) \in SUBSET Things
  <2>1. e.kind = "created" => e.node \in Nodes
    BY <1>4 DEF Published, RightOps, RightOp
  <2> QED
    BY <2>1 DEF Orphans, Things
<1>9. snap' \in Snaps /\ snap'.at = snap.at /\ snap'.run = snap.run /\ snap'.node = snap.node
  <2>1. About(e) \in SUBSET Things
    BY <1>4, AboutType DEF Published
  <2>2. since \in SUBSET Things
    BY <1>2, <2>1 DEF Snaps
  <2> HIDE DEF since
  <2> QED
    BY <1>1, <1>2, <2>2 DEF Snaps
<1>10. call' \in Calls /\ call'.kind = call.kind /\ call'.node = call.node
       /\ call'.previous = call.previous
  <2>1. heard \in SUBSET {"own", "other"}
    BY <1>2 DEF Calls
  <2> HIDE DEF heard
  <2> QED
    BY <1>1, <1>2, <2>1 DEF Calls
<1>11. PageInv'
  <2>1. raced' \subseteq Things
    BY <1>1, <1>2, <1>8
  <2>2. PageInv
    BY DEF IInv
  <2> QED
    BY <1>7, <1>9, <1>10, <2>1, <2>2 DEF PageInv
<1>12. ViewIsTree'
  <2>1. SUFFICES ASSUME snap.at = "shown" PROVE ShowsTree(view', raced')
    BY <1>9, TreeShownNext
  <2>2. ShowsTree(view, raced)
    BY <2>1, TreeShown DEF IInv
  <2>3. CASE next <= view.lastSeq
    <3>1. view' = view
      BY <1>1, <2>3
    <3> QED
      BY <1>1, <2>2, <3>1 DEF ShowsTree
  <2>4. CASE ~ (next <= view.lastSeq)
    <3> DEFINE w == Applied(view, e)
    <3>1. view' = [w EXCEPT !.lastSeq = next]
      BY <1>1, <2>4
    <3>2. ShowsTree(w, raced \cup Orphans(e))
      <4>1. e.kind = "created" /\ e.node # Root /\ view.node[ParentOf[e.node]] = Absent
              => e.node \in Orphans(e)
        <5>1. e.kind = "created" /\ e.node # Root => ParentOf[e.node] \in Ancestors[e.node]
          BY <1>4, AncestorsStep DEF Published, RightOps, RightOp
        <5> QED
          BY <2>1, <5>1 DEF Orphans
      <4> QED
        BY <1>2, <1>4, <2>2, <4>1, AppliedIsTree
    <3>3. w \in Views
      BY <1>6
    <3> HIDE DEF w
    <3>4. view'.node = w.node /\ view'.edges = w.edges
      BY <3>1, <3>3 DEF Views
    <3> QED
      BY <1>1, <3>2, <3>4 DEF ShowsTree
  <2> QED
    BY <2>3, <2>4
<1>13. DriftInv'
  BY <1>1, <1>9, DriftKept DEF IInv
<1> QED
  BY <1>1, <1>5, <1>11, <1>12, <1>13 DEF IInv, CountInv

LEMMA ReadRunHolds == IInv /\ ReadRun => IInv'
<1> SUFFICES ASSUME IInv, ReadRun PROVE IInv'
  OBVIOUS
<1>1. /\ snap.at = "asked" /\ snap' = [snap EXCEPT !.at = "run read", !.run = repo.run]
      /\ UNCHANGED <<repo, log, job, handler, next, view, call, done, raced>>
  BY DEF ReadRun
<1>2. snap \in Snaps /\ repo.run \in RunStatus
  BY DEF IInv, PageInv, ServerInv, Repos
<1>3. snap' \in Snaps /\ snap'.at = "run read" /\ snap'.run \in RunStatus
  BY <1>1, <1>2 DEF Snaps
<1>4. ServerInv'
  BY <1>1 DEF IInv, ServerInv
<1>5. PageInv'
  BY <1>1, <1>3 DEF IInv, PageInv
<1>6. ViewIsTree' /\ DriftInv'
  BY <1>1, <1>3, TreeShownNext, DriftKept DEF IInv
<1> QED
  BY <1>1, <1>4, <1>5, <1>6 DEF IInv, CountInv

LEMMA ReadNodesHolds == IInv /\ ReadNodes => IInv'
<1> SUFFICES ASSUME IInv, ReadNodes PROVE IInv'
  OBVIOUS
<1>1. /\ snap.at = "run read" /\ snap' = [snap EXCEPT !.at = "answered", !.node = repo.node]
      /\ UNCHANGED <<repo, log, job, handler, next, view, call, done, raced>>
  BY DEF ReadNodes
<1>2. snap \in Snaps /\ snap.run \in RunStatus /\ repo.node \in NodeTables
  BY <1>1 DEF IInv, PageInv, ServerInv, Repos
<1>3. snap' \in Snaps /\ snap'.at = "answered" /\ snap'.run \in RunStatus /\ snap'.node = repo.node
  BY <1>1, <1>2 DEF Snaps
<1>4. ServerInv'
  BY <1>1 DEF IInv, ServerInv
<1>5. PageInv'
  BY <1>1, <1>2, <1>3 DEF IInv, PageInv
<1>6. ViewIsTree' /\ DriftInv'
  BY <1>1, <1>3, TreeShownNext, DriftKept DEF IInv
<1> QED
  BY <1>1, <1>4, <1>5, <1>6 DEF IInv, CountInv

\* The answer of the server is mapped to a tree, but for what is adrift in it.
LEMMA MappedIsTree ==
  ASSUME NEW answer, answer.run \in RunStatus, answer.node \in NodeTables,
         NEW out, Adrift(answer) \subseteq out
  PROVE  Mapped(answer) \in Views /\ ShowsTree(Mapped(answer), out)
<1> DEFINE w == Mapped(answer)
<1>1. /\ w = [run |-> w.run, tokens |-> w.tokens, node |-> w.node, edges |-> w.edges,
              lastSeq |-> w.lastSeq]
      /\ w.run = answer.run /\ w.tokens = 0 /\ w.lastSeq = 0
      /\ w.node = [n \in Nodes |-> Normalized(answer.node[n])]
      /\ w.edges = {<<ParentOf[n], n>> : n \in {m \in Nodes \ {Root} : answer.node[m] # Absent}}
  BY DEF Mapped
<1> HIDE DEF w
<1>2. \A n \in Nodes : w.node[n] \in ViewStatus \cup {Absent}
                       /\ (w.node[n] = Absent <=> answer.node[n] = Absent)
  <2>1. \A n \in Nodes : answer.node[n] \in NodeStatus \cup {Absent}
    BY DEF NodeTables
  <2> QED
    BY <1>1, <2>1, EventStatusType DEF Normalized
<1>3. w.node \in [Nodes -> ViewStatus \cup {Absent}]
  BY <1>1, <1>2
<1>4. Shown(w.node) = Shown(answer.node)
  BY <1>2 DEF Shown
<1>5. w.edges = {<<ParentOf[n], n>> : n \in Shown(w.node) \ {Root}}
  BY <1>1, <1>4 DEF Shown
<1>6. w.edges \in SUBSET (Nodes \X Nodes)
  BY <1>5, TreeAssumption DEF Shown, TreeAssumption
<1>7. w \in Views
  BY <1>1, <1>3, <1>6 DEF Views
<1>8. ShowsTree(w, out)
  <2>1. ASSUME NEW n \in Shown(w.node) \ (out \cup {Root}) PROVE ParentOf[n] \in Shown(w.node)
    <3>1. n \in Nodes \ {Root} /\ n \notin Adrift(answer) /\ answer.node[n] # Absent
      BY <1>4, <2>1 DEF Shown
    <3>2. ParentOf[n] \in Ancestors[n] /\ ParentOf[n] \in Nodes
      BY <3>1, AncestorsStep, TreeAssumption DEF TreeAssumption
    <3>3. answer.node[ParentOf[n]] # Absent
      BY <3>1, <3>2 DEF Adrift
    <3> QED
      BY <1>4, <3>2, <3>3 DEF Shown
  <2> QED
    BY <1>5, <2>1 DEF ShowsTree
<1> QED
  BY <1>7, <1>8 DEF w

LEMMA HydrateHolds == IInv /\ Hydrate => IInv'
<1> SUFFICES ASSUME IInv, Hydrate PROVE IInv'
  OBVIOUS
<1>1. /\ snap.at = "answered" /\ view' = Mapped(snap) /\ snap' = [NoAnswer EXCEPT !.at = "shown"]
      /\ raced' = raced \cup snap.since
      /\ UNCHANGED <<repo, log, job, handler, next, call, done>>
  BY DEF Hydrate
<1>2. /\ snap.run \in RunStatus /\ snap.node \in NodeTables /\ Adrift(snap) \subseteq raced'
      /\ snap.since \subseteq Things /\ raced \subseteq Things
  BY <1>1 DEF IInv, PageInv, Snaps, DriftInv
<1>3. view' \in Views /\ ShowsTree(view', raced')
  BY <1>1, <1>2, MappedIsTree
<1>4. snap' \in Snaps /\ snap'.at = "shown"
  BY <1>1 DEF Snaps, NoAnswer
<1>5. ServerInv'
  BY <1>1 DEF IInv, ServerInv
<1>6. PageInv'
  BY <1>1, <1>2, <1>3, <1>4 DEF IInv, PageInv
<1>7. ViewIsTree' /\ DriftInv'
  BY <1>1, <1>3, <1>4, TreeShownNext, DriftKept DEF IInv
<1> QED
  BY <1>1, <1>5, <1>6, <1>7 DEF IInv, CountInv

\* A call the user makes.
LEMMA AskedType ==
  ASSUME view \in Views, NEW kind \in {"retry", "skip", "delete"}, NEW n \in Nodes
  PROVE  /\ Asked(kind, n) \in Calls
         /\ Asked(kind, n).kind = kind /\ Asked(kind, n).node = n
         /\ Asked(kind, n).previous = view.node[n]
<1>1. view.node[n] \in ViewStatus \cup {Absent}
  BY DEF Views
<1> QED
  BY <1>1 DEF Asked, Calls

LEMMA CallsCounted ==
  ASSUME CountInv, MayCall, done' = [done EXCEPT !.calls = @ + 1]
  PROVE  CountInv'
<1>1. /\ done \in [programs : 0..MaxPrograms, dividing : Nodes \cup {None}, calls : 0..MaxCalls]
      /\ done.calls < MaxCalls /\ MaxCalls \in Nat
  BY ConstantsAssumption DEF ConstantsAssumption, CountInv, MayCall
<1>2. done.calls + 1 \in 0..MaxCalls
  BY <1>1
<1> QED
  BY <1>1, <1>2 DEF CountInv

LEMMA UserIntervenesHolds == IInv /\ UserIntervenes => IInv'
<1> SUFFICES ASSUME IInv, UserIntervenes PROVE IInv'
  OBVIOUS
<1>1. /\ MayCall /\ done' = [done EXCEPT !.calls = @ + 1]
      /\ UNCHANGED <<repo, log, job, handler, next, snap, raced>>
  BY DEF UserIntervenes
<1>2. PICK n \in Nodes, kind \in {"retry", "skip"} :
        /\ view.node[n] \in {"blocked_human", "failed"}
        /\ call' = Asked(kind, n)
        /\ view' = [view EXCEPT !.node[n] = "running"]
  BY DEF UserIntervenes
<1>3. view \in Views /\ snap.at = "shown" /\ ShowsTree(view, raced) /\ view.node[n] # Absent
  BY <1>1, <1>2, TreeShown DEF IInv, PageInv, MayCall, Absent
<1>4. view' \in Views /\ ShowsTree(view', raced)
  <2>1. "running" \in ViewStatus
    BY DEF ViewStatus
  <2> QED
    BY <1>2, <1>3, <2>1, SameShown
<1>5. call' \in Calls /\ call'.node \in Nodes /\ call'.previous # Absent
  BY <1>2, <1>3, AskedType
<1>6. ServerInv'
  BY <1>1 DEF IInv, ServerInv
<1>7. PageInv'
  BY <1>1, <1>4, <1>5 DEF IInv, PageInv
<1>8. ViewIsTree' /\ DriftInv'
  BY <1>1, <1>4, TreeShownNext, DriftKept DEF IInv
<1>9. CountInv'
  BY <1>1, CallsCounted DEF IInv
<1> QED
  BY <1>6, <1>7, <1>8, <1>9 DEF IInv

LEMMA UserDeletesHolds == IInv /\ UserDeletes => IInv'
<1> SUFFICES ASSUME IInv, UserDeletes PROVE IInv'
  OBVIOUS
<1>1. /\ MayCall /\ done' = [done EXCEPT !.calls = @ + 1]
      /\ UNCHANGED <<repo, log, job, handler, next, snap, view, raced>>
  BY DEF UserDeletes
<1>2. PICK n \in Nodes \ {Root} : call' = Asked("delete", n)
  BY DEF UserDeletes
<1>3. call' \in Calls /\ call'.node \in Nodes /\ call'.kind = "delete"
  <2>1. view \in Views /\ "delete" \in {"retry", "skip", "delete"} /\ n \in Nodes
    BY DEF IInv, PageInv
  <2>2. Asked("delete", n) \in Calls /\ Asked("delete", n).node = n /\ Asked("delete", n).kind = "delete"
    BY <2>1, AskedType
  <2> QED
    BY <1>2, <2>1, <2>2
<1>4. ServerInv'
  BY <1>1 DEF IInv, ServerInv
<1>5. PageInv'
  BY <1>1, <1>3 DEF IInv, PageInv
<1>6. ViewIsTree' /\ DriftInv'
  BY <1>1, DriftKept DEF IInv, ViewIsTree
<1>7. CountInv'
  BY <1>1, CallsCounted DEF IInv
<1> QED
  BY <1>4, <1>5, <1>6, <1>7 DEF IInv

\* A call that has been answered is over.
LEMMA AnsweredHolds ==
  ASSUME IInv, NEW kinds, Answered(kinds)
  PROVE  /\ ServerInv' /\ CountInv'
         /\ call.kind \in kinds /\ call' \in Calls /\ call'.kind = None
         /\ UNCHANGED <<repo, snap>>
<1>1. /\ call.kind \in kinds /\ call' = NoCall /\ handler' = NoHandler
      /\ UNCHANGED <<repo, log, job, next, snap, done>>
  BY DEF Answered
<1>2. call' \in Calls /\ call'.kind = None
  BY <1>1 DEF NoCall, Calls
<1>3. handler' \in Handlers
  BY <1>1, RefusedIsRight
<1>4. ServerInv'
  BY <1>1, <1>3 DEF IInv, ServerInv
<1> QED
  BY <1>1, <1>2, <1>4 DEF IInv, CountInv

\* The page after a call, if the view is a tree.
LEMMA PageAfterCall ==
  ASSUME PageInv, UNCHANGED snap, call' \in Calls, call'.kind = None,
         view' \in Views, raced' \subseteq Things
  PROVE  PageInv'
<1>1. None \notin {"retry", "skip"}
  BY ConstantsAssumption DEF ConstantsAssumption
<1> QED
  BY <1>1 DEF PageInv

LEMMA TakeInterventionHolds == IInv /\ TakeIntervention => IInv'
<1> SUFFICES ASSUME IInv, TakeIntervention PROVE IInv'
  OBVIOUS
<1> DEFINE n == call.node
           s == IF handler.answer = "accepted" THEN TargetOf(call.kind) ELSE call.previous
<1>1. /\ Answered({"retry", "skip"})
      /\ view' = IF view.node[n] = Absent THEN view ELSE [view EXCEPT !.node[n] = s]
      /\ raced' \in {raced, raced \cup {n}}
  BY DEF TakeIntervention
<1>2. /\ ServerInv' /\ CountInv' /\ call.kind \in {"retry", "skip"}
      /\ call' \in Calls /\ call'.kind = None /\ UNCHANGED <<repo, snap>>
  BY <1>1, AnsweredHolds
<1>3. /\ view \in Views /\ call \in Calls /\ raced \subseteq Things /\ call.previous # Absent
      /\ call.kind # None
  <2>1. None \notin {"retry", "skip"}
    BY ConstantsAssumption DEF ConstantsAssumption
  <2> QED
    BY <1>2, <2>1 DEF IInv, PageInv
<1>4. n \in Nodes
  BY <1>3 DEF IInv, PageInv
<1>5. s \in ViewStatus
  <2>1. call.previous \in ViewStatus
    BY <1>3 DEF Calls
  <2>2. TargetOf(call.kind) \in ViewStatus
    BY DEF TargetOf, ViewStatus
  <2> QED
    BY <2>1, <2>2
<1> HIDE DEF s, n
<1>6. raced' \subseteq Things /\ raced \subseteq raced'
  BY <1>1, <1>3, <1>4 DEF Things
<1>7. view' \in Views /\ \A out : ShowsTree(view, out) => ShowsTree(view', out)
  <2>1. CASE view.node[n] = Absent
    BY <1>1, <1>3, <2>1
  <2>2. CASE view.node[n] # Absent
    <3>1. view' = [view EXCEPT !.node[n] = s]
      BY <1>1, <2>2
    <3>2. view' \in Views
      BY <1>3, <1>4, <1>5, <3>1 DEF Views
    <3>3. ASSUME NEW out, ShowsTree(view, out) PROVE ShowsTree(view', out)
      BY <1>3, <1>4, <1>5, <2>2, <3>1, <3>3, SameShown
    <3> QED
      BY <3>2, <3>3
  <2> QED
    BY <2>1, <2>2
<1>8. PageInv'
  BY <1>2, <1>6, <1>7, PageAfterCall DEF IInv
<1>9. ViewIsTree'
  <2>1. SUFFICES ASSUME snap.at = "shown" PROVE ShowsTree(view', raced')
    BY <1>2, TreeShownNext
  <2>2. ShowsTree(view', raced)
    BY <1>7, <2>1, TreeShown DEF IInv
  <2> QED
    BY <1>6, <2>2 DEF ShowsTree
<1>10. DriftInv'
  BY <1>2, <1>6, DriftKept DEF IInv
<1> QED
  BY <1>2, <1>8, <1>9, <1>10 DEF IInv

LEMMA TakeDeletionHolds == IInv /\ TakeDeletion => IInv'
<1> SUFFICES ASSUME IInv, TakeDeletion PROVE IInv'
  OBVIOUS
<1> DEFINE n == call.node
           gone == {n} \cup Descendants(view, n)
<1>1. /\ Answered({"delete"})
      /\ \/ view' = Without(view, gone) /\ raced' = raced \cup Ghosts(Subtree(n))
         \/ view' = view /\ raced' = raced
  BY DEF TakeDeletion
<1>2. /\ ServerInv' /\ CountInv' /\ call.kind = "delete"
      /\ call' \in Calls /\ call'.kind = None /\ UNCHANGED <<repo, snap>>
  BY <1>1, AnsweredHolds
<1>3. view \in Views /\ raced \subseteq Things
  BY DEF IInv, PageInv
<1>4. n \in Nodes
  BY <1>2, ConstantsAssumption DEF ConstantsAssumption, IInv, PageInv
<1> HIDE DEF n
<1>5. Ghosts(Subtree(n)) \subseteq Things
  <2>1. Subtree(n) \subseteq Nodes
    BY <1>4, BelowType
  <2>2. Ghosts(Subtree(n)) \subseteq Subtree(n)
    BY DEF Ghosts
  <2> QED
    BY <2>1, <2>2 DEF Things
<1>6. gone \in SUBSET Nodes /\ \A m \in Shown(view.node) \ {Root} : ParentOf[m] \in gone => m \in gone
  BY <1>4, DescendantsGo
<1> HIDE DEF gone
<1>7. view' \in Views /\ raced' \subseteq Things /\ raced \subseteq raced'
  BY <1>1, <1>3, <1>5, WithoutType
<1>8. ASSUME ShowsTree(view, raced) PROVE ShowsTree(view', raced)
  <2>1. ShowsTree(Without(view, gone), raced)
    BY <1>3, <1>6, <1>8, WithoutIsTree DEF Views
  <2> QED
    BY <1>1, <1>8, <2>1
<1>9. PageInv'
  BY <1>2, <1>7, PageAfterCall DEF IInv
<1>10. ViewIsTree'
  <2>1. SUFFICES ASSUME snap.at = "shown" PROVE ShowsTree(view', raced')
    BY <1>2, TreeShownNext
  <2>2. ShowsTree(view', raced)
    BY <1>8, <2>1, TreeShown DEF IInv
  <2> QED
    BY <1>7, <2>2 DEF ShowsTree
<1>11. DriftInv'
  BY <1>2, <1>7, DriftKept DEF IInv
<1> QED
  BY <1>2, <1>9, <1>10, <1>11 DEF IInv
-----------------------------------------------------------------------------
(* The theorems.                                                           *)

LEMMA CallHolds == IInv /\ CallInv /\ [Next]_vars => CallInv'
<1> SUFFICES ASSUME IInv, CallInv, [Next]_vars PROVE CallInv'
  OBVIOUS
<1>1. call \in Calls /\ None \notin {"retry", "skip", "delete"}
  BY ConstantsAssumption DEF ConstantsAssumption, IInv, PageInv
<1>2. CASE JobBegins \/ JobStep \/ ReadRun \/ ReadNodes \/ Hydrate \/ UNCHANGED vars
  BY <1>2 DEF JobBegins, JobStep, ReadRun, ReadNodes, Hydrate, vars, CallInv
<1>3. CASE Handle \/ HandlerStep
  BY <1>3 DEF Handle, HandlerStep, CallInv
<1>4. CASE ApplyEvent
  <2>1. handler' = handler /\ call'.kind = call.kind
    BY <1>1, <1>4 DEF ApplyEvent, Calls
  <2> QED
    BY <2>1 DEF CallInv
<1>5. CASE UserIntervenes \/ UserDeletes
  BY <1>1, <1>5 DEF UserIntervenes, UserDeletes, Asked, CallInv
<1>6. CASE TakeIntervention \/ TakeDeletion
  BY <1>6 DEF TakeIntervention, TakeDeletion, Answered, NoHandler, CallInv
<1> QED
  BY <1>2, <1>3, <1>4, <1>5, <1>6 DEF Next, Server, Page

LEMMA StutterHolds == IInv /\ UNCHANGED vars => IInv'
  BY DEF IInv, ServerInv, PageInv, CountInv, DriftInv, ViewIsTree, Adrift, vars

\* In every state what the repository (InMemoryRunStateRepository), or an answer on its
\* way to the page (get_run_graph), holds below a node that is gone is known to be out
\* of date; all else hangs from the root, and so it does on the page (runStore.ts).
THEOREM StoreInvariant == Spec => [](IInv /\ CallInv)
<1>1. IInv /\ CallInv /\ [Next]_vars => IInv'
  BY JobBeginsHolds, JobStepHolds, HandleHolds, HandlerStepHolds, ApplyEventHolds, ReadRunHolds,
     ReadNodesHolds, HydrateHolds, UserIntervenesHolds, UserDeletesHolds, TakeInterventionHolds,
     TakeDeletionHolds, StutterHolds
  DEF Next, Server, Page
<1>2. Init => CallInv
  BY DEF Init, NoHandler, CallInv
<1> QED
  BY InitHolds, CallHolds, <1>1, <1>2, PTL DEF Spec

\* The repository, the events, the requests and the store of the page keep their types.
THEOREM TypeCorrect == Spec => []TypeOK
<1>1. IInv => TypeOK
  <2> SUFFICES ASSUME IInv PROVE TypeOK
    OBVIOUS
  <2>1. Seq(RightOps) \subseteq Seq(Ops)
    BY DEF RightOps
  <2>2. ServerInv /\ PageInv /\ CountInv
    BY DEF IInv
  <2>3. /\ repo \in [run : RunStatus, tokens : Nat, node : [Nodes -> NodeStatus \cup {Absent}]]
        /\ log \in Seq(Ops) /\ job \in Seq(Ops) /\ handler.ops \in Seq(Ops)
        /\ handler.answer \in {"none", "working", "accepted", "refused"}
        /\ next \in 1..(Len(log) + 1)
    BY <2>1, <2>2 DEF ServerInv, Repos, NodeTables, Handlers
  <2>4. snap.at \in {"asked", "run read", "answered", "shown"} /\ snap.since \subseteq Things
    BY <2>2 DEF PageInv, Snaps
  <2>5. view \in [run : RunStatus \cup {None}, tokens : Nat, lastSeq : Nat,
                  edges : SUBSET (Nodes \X Nodes),
                  node : [Nodes -> {"queued", "running", "blocked_human", "completed", "failed",
                                    "merged", "failed_check", Absent}]]
    <3>1. ViewStatus \cup {Absent} = {"queued", "running", "blocked_human", "completed", "failed",
                                      "merged", "failed_check", Absent}
      BY DEF ViewStatus
    <3> QED
      BY <2>2, <3>1 DEF PageInv, Views
  <2>6. call.kind \in {None, "retry", "skip", "delete"} /\ call.node \in Nodes \cup {None}
    BY <2>2 DEF PageInv, Calls
  <2> QED
    BY <2>2, <2>3, <2>4, <2>5, <2>6 DEF TypeOK, PageInv, CountInv
<1> QED
  BY StoreInvariant, <1>1, PTL

\* The graph on the page is a tree: every node shown hangs from its parent, which is
\* shown, and every edge leads to a node shown, whatever the order of snapshot,
\* events, interventions and deletions; but for a node whose creation came after its
\* parent was pruned or deleted, on the page or in the repository (runStore.ts,
\* removeDescendants; _create_child_nodes, which stores children all the same).
THEOREM GraphIsTree == Spec => []ViewIsTree
<1>1. IInv => ViewIsTree
  BY DEF IInv
<1> QED
  BY StoreInvariant, <1>1, PTL
=============================================================================
