------------------------- MODULE UsageCharging_proofs -------------------------
(***************************************************************************)
(* No run goes on over its budget, whatever the threads do to the tracker  *)
(* they share: the checks of execute_node are enough because a run has one *)
(* thread, which alone charges it.  And without a race no token is lost,   *)
(* and none is charged twice but those of a flush whose event raised.      *)
(***************************************************************************)
EXTENDS UsageCharging, TLAPS, WellFoundedInduction, FiniteSetTheorems

Places == {"idle", "work", "flush", "charge", "emit", "reset", "budget"}

\* The types of what the checks depend on.
Types ==
  /\ total \in Nat /\ again \in Nat
  /\ charged \in [Runs -> Nat] /\ used \in [Runs -> Nat]
  /\ pc \in [Workers -> [run : Runs \cup {None}, depth : Nat, at : Places, held : Nat]]
  /\ \A t \in Workers : pc[t].at # "idle" => pc[t].run \in Runs /\ pc[t].depth # 0

\* A run is executed by one thread.
OneThread ==
  \A t, u \in Workers : t # u /\ pc[t].run = pc[u].run => pc[t].run = None

\* Nothing works for a run whose budget is used up.
WorksInBudget ==
  \A t \in Workers : pc[t].at = "work" => ~Exhausted(pc[t].run)

IInv == Types /\ OneThread /\ WorksInBudget

\* Nothing has begun.
LEMMA InitIInv == Init => IInv
<1>1. SUFFICES ASSUME Init PROVE IInv
  OBVIOUS
<1>2. Types
  BY <1>1 DEF Init, Types, Idle, Places
<1>3. OneThread /\ WorksInBudget
  BY <1>1 DEF Init, OneThread, WorksInBudget, Idle
<1> QED
  BY <1>2, <1>3 DEF IInv

\* A step that changes one thread and no charge keeps the invariant if the thread
\* keeps to its run, or takes one that no other thread has, and works within budget.
LEMMA OneThreadSteps ==
  ASSUME IInv, NEW t \in Workers, total' \in Nat, again' \in Nat,
         used' \in [Runs -> Nat], UNCHANGED charged,
         NEW p \in [run : Runs \cup {None}, depth : Nat, at : Places, held : Nat],
         pc' = [pc EXCEPT ![t] = p],
         p.at # "idle" => p.run \in Runs /\ p.depth # 0,
         p.run \in {None, pc[t].run} \/ \A u \in Workers : pc[u].run # p.run,
         p.at = "work" => ~Exhausted(p.run)
  PROVE  IInv'
<1>1. Types'
  BY DEF IInv, Types
<1>2. OneThread'
  BY DEF IInv, Types, OneThread
<1>3. WorksInBudget'
  BY DEF IInv, Types, WorksInBudget, Exhausted
<1> QED
  BY <1>1, <1>2, <1>3 DEF IInv

\* The steps of the tree, up to the end of a node.
LEMMA ThreadStep ==
  ASSUME IInv, NEW t \in Workers,
         StartJob(t) \/ CallModel(t) \/ Descend(t) \/ Finish(t) \/ Raise(t)
  PROVE  IInv'
<1> USE DEF Goto, Idle, Places
<1>1. CASE StartJob(t)
  <2>1. PICK r \in Runs \ {pc[u].run : u \in Workers} :
          /\ ~Exhausted(r)
          /\ pc' = [pc EXCEPT ![t] = [run |-> r, depth |-> 1, at |-> "work", held |-> 0]]
    BY <1>1 DEF StartJob
  <2>2. total' \in Nat /\ again' \in Nat /\ used' \in [Runs -> Nat] /\ UNCHANGED charged
    BY <1>1 DEF StartJob, IInv, Types
  <2> DEFINE p == [run |-> r, depth |-> 1, at |-> "work", held |-> 0]
  <2>3. pc' = [pc EXCEPT ![t] = p]
    BY <2>1
  <2>4. /\ p \in [run : Runs \cup {None}, depth : Nat, at : Places, held : Nat]
        /\ p.run = r /\ p.depth # 0 /\ r \in Runs
        /\ p.at = "work" /\ \A u \in Workers : pc[u].run # r
    OBVIOUS
  <2> HIDE DEF p
  <2> QED
    BY <2>1, <2>2, <2>3, <2>4, OneThreadSteps
<1>2. CASE CallModel(t)
  <2>1. IInv /\ total' \in Nat /\ used' \in [Runs -> Nat] /\ UNCHANGED <<charged, pc, again>>
    BY <1>2 DEF CallModel, IInv, Types
  <2> QED
    BY <2>1 DEF IInv, Types, OneThread, WorksInBudget, Exhausted
<1>3. CASE Descend(t)
  <2> DEFINE p == IF Exhausted(pc[t].run) THEN [pc[t] EXCEPT !.at = "flush"]
                  ELSE [pc[t] EXCEPT !.depth = @ + 1]
  <2>1. pc' = [pc EXCEPT ![t] = p] /\ UNCHANGED <<total, charged, used, again>>
    BY <1>3 DEF Descend, IInv, Types
  <2>2. /\ p \in [run : Runs \cup {None}, depth : Nat, at : Places, held : Nat]
        /\ p.run = pc[t].run /\ p.at # "idle" /\ p.run \in Runs /\ p.depth # 0
        /\ p.at = "work" => ~Exhausted(p.run)
    BY <1>3 DEF Descend, IInv, Types
  <2> QED
    BY <2>1, <2>2, OneThreadSteps DEF IInv, Types
<1>4. CASE Finish(t)
  <2> DEFINE p == [pc[t] EXCEPT !.at = "flush"]
  <2>1. pc' = [pc EXCEPT ![t] = p] /\ UNCHANGED <<total, charged, used, again>>
    BY <1>4 DEF Finish, IInv, Types
  <2>2. /\ p \in [run : Runs \cup {None}, depth : Nat, at : Places, held : Nat]
        /\ p.run = pc[t].run /\ p.run \in Runs /\ p.depth # 0 /\ p.at = "flush"
    BY <1>4 DEF Finish, IInv, Types
  <2> QED
    BY <2>1, <2>2, OneThreadSteps DEF IInv, Types
<1>5. CASE Raise(t)
  <2>1. pc' = [pc EXCEPT ![t] = Idle] /\ UNCHANGED <<total, charged, used, again>>
    BY <1>5 DEF Raise
  <2>2. total \in Nat /\ again \in Nat /\ used \in [Runs -> Nat]
    BY DEF IInv, Types
  <2>3. /\ Idle \in [run : Runs \cup {None}, depth : Nat, at : Places, held : Nat]
        /\ Idle.at = "idle" /\ Idle.run = None
    OBVIOUS
  <2> HIDE DEF Idle
  <2> QED
    BY <2>1, <2>2, <2>3, OneThreadSteps
<1> QED
  BY <1>1, <1>2, <1>3, <1>4, <1>5

\* The steps of _persist_usage that charge nothing.
LEMMA FlushStep ==
  ASSUME IInv, NEW t \in Workers,
         ReadTracker(t) \/ Emit(t) \/ EmitRaises(t) \/ ResetTracker(t) \/ Return(t)
  PROVE  IInv'
<1>1. CASE ReadTracker(t)
  <2> DEFINE p == [pc[t] EXCEPT !.held = total, !.at = IF total > 0 THEN "charge" ELSE "budget"]
  <2>1. pc' = [pc EXCEPT ![t] = p] /\ UNCHANGED <<total, charged, used, again>>
    BY <1>1 DEF ReadTracker, IInv, Types
  <2>2. /\ p \in [run : Runs \cup {None}, depth : Nat, at : Places, held : Nat]
        /\ p.run = pc[t].run /\ p.run \in Runs /\ p.depth # 0 /\ p.at \in {"charge", "budget"}
    BY <1>1 DEF ReadTracker, IInv, Types, Places
  <2> QED
    BY <2>1, <2>2, OneThreadSteps DEF IInv, Types
<1>2. CASE ResetTracker(t)
  <2> DEFINE p == [pc[t] EXCEPT !.held = 0, !.at = "budget"]
  <2>1. pc' = [pc EXCEPT ![t] = p] /\ total' = 0 /\ UNCHANGED <<charged, used, again>>
    BY <1>2 DEF ResetTracker, IInv, Types
  <2>2. /\ p \in [run : Runs \cup {None}, depth : Nat, at : Places, held : Nat]
        /\ p.run = pc[t].run /\ p.run \in Runs /\ p.depth # 0 /\ p.at = "budget"
    BY <1>2 DEF ResetTracker, IInv, Types, Places
  <2> QED
    BY <2>1, <2>2, OneThreadSteps DEF IInv, Types
<1>3. CASE Return(t)
  <2> DEFINE at == IF Exhausted(pc[t].run) THEN "flush" ELSE "work"
             p == [pc[t] EXCEPT !.depth = @ - 1, !.at = at]
  <2>1. /\ pc' = [pc EXCEPT ![t] = Returned(pc[t], at)]
        /\ UNCHANGED <<total, charged, used, again>>
        /\ total \in Nat /\ again \in Nat /\ used \in [Runs -> Nat]
    BY <1>3 DEF Return, IInv, Types
  <2>2. /\ pc[t].run \in Runs /\ pc[t].depth \in Nat \ {0}
        /\ pc[t] \in [run : Runs \cup {None}, depth : Nat, at : Places, held : Nat]
    BY <1>3 DEF Return, IInv, Types
  <2>3. CASE pc[t].depth = 1
    BY <2>1, <2>3, OneThreadSteps DEF Returned, Idle, Places
  <2>4. CASE pc[t].depth # 1
    <3>1. at \in Places /\ at # "idle" /\ (at = "work" => ~Exhausted(pc[t].run))
      BY DEF Places
    <3>2. Returned(pc[t], at) = p
      BY <2>4 DEF Returned
    <3> HIDE DEF at
    <3>3. pc[t].depth - 1 \in Nat \ {0}
      BY <2>2, <2>4
    <3>4. /\ p \in [run : Runs \cup {None}, depth : Nat, at : Places, held : Nat]
          /\ p.run = pc[t].run /\ p.depth # 0 /\ p.at = at
      BY <2>2, <3>1, <3>3
    <3> HIDE DEF p
    <3> QED
      BY <2>1, <2>2, <3>1, <3>2, <3>4, OneThreadSteps
  <2> QED
    BY <2>3, <2>4
<1>4. CASE Emit(t)
  <2> DEFINE p == [pc[t] EXCEPT !.at = "reset"]
  <2>1. pc' = [pc EXCEPT ![t] = p] /\ UNCHANGED <<total, charged, used, again>>
    BY <1>4 DEF Emit, Goto, IInv, Types
  <2>2. /\ p \in [run : Runs \cup {None}, depth : Nat, at : Places, held : Nat]
        /\ p.run = pc[t].run /\ p.run \in Runs /\ p.depth # 0 /\ p.at = "reset"
    BY <1>4 DEF Emit, IInv, Types, Places
  <2> QED
    BY <2>1, <2>2, OneThreadSteps DEF IInv, Types
<1>5. CASE EmitRaises(t)
  <2>1. /\ pc' = [pc EXCEPT ![t] = Idle] /\ UNCHANGED <<total, charged, used>>
        /\ again' \in Nat
    BY <1>5 DEF EmitRaises, IInv, Types
  <2>2. total \in Nat /\ used \in [Runs -> Nat]
    BY DEF IInv, Types
  <2>3. /\ Idle \in [run : Runs \cup {None}, depth : Nat, at : Places, held : Nat]
        /\ Idle.at = "idle" /\ Idle.run = None
    BY DEF Idle, Places
  <2> QED
    BY <2>1, <2>2, <2>3, OneThreadSteps
<1> QED
  BY <1>1, <1>2, <1>3, <1>4, <1>5

\* Only the thread of a run charges it, and it works no more before the next check.
LEMMA ChargeStep ==
  ASSUME IInv, NEW t \in Workers, Charge(t)
  PROVE  IInv'
<1>1. /\ pc[t].run \in Runs /\ pc[t].depth # 0 /\ pc[t].held \in Nat
      /\ charged' = [charged EXCEPT ![pc[t].run] = @ + pc[t].held]
      /\ pc' = [pc EXCEPT ![t].at = "emit"] /\ UNCHANGED <<total, used, again>>
  BY DEF Charge, Goto, IInv, Types
<1>2. Types'
  BY <1>1 DEF IInv, Types, Places
<1>3. OneThread'
  BY <1>1 DEF IInv, Types, OneThread
<1>4. ASSUME NEW u \in Workers, pc'[u].at = "work" PROVE ~Exhausted(pc[u].run)'
  <2>1. u # t /\ pc'[u] = pc[u] /\ pc[u].run \in Runs /\ pc[u].run # pc[t].run
    BY <1>1, <1>4, ConstantsAssumption DEF IInv, Types, OneThread
  <2>2. charged'[pc[u].run] = charged[pc[u].run]
    BY <1>1, <2>1 DEF IInv, Types
  <2> QED
    BY <1>4, <2>1, <2>2 DEF IInv, WorksInBudget, Exhausted
<1> QED
  BY <1>2, <1>3, <1>4 DEF IInv, WorksInBudget

\* The checks of execute_node, made before a node begins and when one ends, keep
\* every thread within the budget of its run.
THEOREM UsageInvariant == Spec => []IInv
<1>1. IInv /\ [Next]_vars => IInv'
  <2> SUFFICES ASSUME IInv, [Next]_vars PROVE IInv'
    OBVIOUS
  <2>1. CASE Next
    BY <2>1, ThreadStep, FlushStep, ChargeStep DEF Next
  <2>2. CASE UNCHANGED vars
    BY <2>2 DEF vars, IInv, Types, OneThread, WorksInBudget, Exhausted
  <2> QED
    BY <2>1, <2>2
<1> QED
  BY <1>1, InitIInv, PTL DEF Spec

\* Once a run has been charged its budget no model is called for it any more, for
\* any number of runs, threads and calls, and however the threads race for the
\* tracker they share.
THEOREM BudgetIsKept == Spec => BudgetStops
<1> DEFINE Stops == \A r \in Runs : Exhausted(r) => used'[r] = used[r]
<1>1. IInv /\ [Next]_vars => [Stops]_vars
  <2> SUFFICES ASSUME IInv, Next, NEW r \in Runs, Exhausted(r) PROVE used'[r] = used[r]
    OBVIOUS
  <2>1. PICK t \in Workers :
          \/ StartJob(t) \/ CallModel(t) \/ Descend(t) \/ Finish(t) \/ Raise(t)
          \/ ReadTracker(t) \/ Charge(t) \/ Emit(t) \/ EmitRaises(t) \/ ResetTracker(t)
          \/ Return(t)
    BY DEF Next
  <2>2. CASE CallModel(t)
    <3>1. pc[t].run # r
      BY <2>2 DEF CallModel, IInv, WorksInBudget
    <3> QED
      BY <2>2, <3>1 DEF CallModel, IInv, Types
  <2>3. CASE ~CallModel(t)
    BY <2>1, <2>3 DEF StartJob, Descend, Finish, Raise, ReadTracker, Charge, Emit, EmitRaises,
                        ResetTracker, Return
  <2> QED
    BY <2>2, <2>3
<1> QED
  BY <1>1, UsageInvariant, PTL DEF Spec, BudgetStops
-----------------------------------------------------------------------------
(* Sums of tokens.  FoldFunction takes one element of the set after the    *)
(* other away; what holds of the rest and then of the set holds of all.    *)

\* A set of numbers has a least one.
LEMMA Least ==
  ASSUME NEW T \in SUBSET Nat, T # {}
  PROVE  \E n \in T : \A m \in T : n <= m
<1> DEFINE Less == {x \in Nat \X Nat : x[1] < x[2]}
<1>1. IsWellFoundedOn(Less, Nat)
  <2>1. OpToRel(<, Nat) = Less
    BY DEF OpToRel
  <2> QED
    BY <2>1, NatLessThanWellFounded
<1>2. PICK n \in T : \A m \in T : <<m, n>> \notin Less
  BY <1>1, WFMin, Zenon
<1> QED
  <2>1. ASSUME NEW m \in T PROVE n <= m
    <3>1. <<m, n>> \in Nat \X Nat /\ ~ (<<m, n>>[1] < <<m, n>>[2])
      BY <1>2
    <3> QED
      BY <3>1
  <2> QED
    BY <2>1

\* The element that is taken first, and the others.
One(s)    == CHOOSE x \in s : TRUE
Others(s) == s \ {One(s)}

LEMMA OthersAreFewer ==
  ASSUME NEW S, IsFiniteSet(S), NEW s \in SUBSET S
  PROVE  /\ IsFiniteSet(s) /\ Cardinality(s) \in Nat /\ Cardinality(s) <= Cardinality(S)
         /\ s # {} => /\ One(s) \in s /\ Others(s) \in SUBSET S
                      /\ Cardinality(Others(s)) = Cardinality(s) - 1
<1>1. IsFiniteSet(s) /\ Cardinality(s) \in Nat /\ Cardinality(s) <= Cardinality(S)
  BY FS_Subset, FS_CardinalityType
<1>2. ASSUME s # {} PROVE One(s) \in s /\ Others(s) \in SUBSET S
  BY <1>2 DEF One, Others
<1>3. ASSUME s # {} PROVE Cardinality(Others(s)) = Cardinality(s) - 1
  BY <1>1, <1>2, <1>3, FS_RemoveElement DEF Others
<1> QED
  BY <1>1, <1>2, <1>3

\* What passes from the others to the set, and holds of the empty set, holds of all subsets.
LEMMA TakingAway ==
  ASSUME NEW S, IsFiniteSet(S), NEW T, {} \in T,
         \A s \in SUBSET S : s # {} /\ Others(s) \in T => s \in T
  PROVE  \A s \in SUBSET S : s \in T
<1> DEFINE Bad == {s \in SUBSET S : s \notin T}
<1>1. SUFFICES ASSUME Bad # {} PROVE FALSE
  OBVIOUS
<1>2. PICK s \in Bad : \A u \in Bad : Cardinality(s) <= Cardinality(u)
  <2>1. {Cardinality(u) : u \in Bad} \in SUBSET Nat /\ {Cardinality(u) : u \in Bad} # {}
    BY <1>1, OthersAreFewer
  <2>2. PICK n \in {Cardinality(u) : u \in Bad} : \A m \in {Cardinality(u) : u \in Bad} : n <= m
    BY <2>1, Least
  <2> QED
    BY <2>2
<1>3. s # {} /\ Others(s) \in Bad
  BY OthersAreFewer
<1>4. Cardinality(Others(s)) = Cardinality(s) - 1 /\ Cardinality(s) \in Nat
  BY <1>3, OthersAreFewer
<1> QED
  BY <1>2, <1>3, <1>4

\* The sum over s, from that over the others.
SumOf(g, f, s) == IF s = {} THEN 0 ELSE LET x == CHOOSE y \in s : TRUE IN f[x] + g[s \ {x}]

Sums(g, f) == g = [s \in SUBSET DOMAIN f |-> SumOf(g, f, s)]

Small(S, n) == {s \in SUBSET S : Cardinality(s) <= n}

SumsUpTo(g, f, n) == g = [s \in Small(DOMAIN f, n) |-> SumOf(g, f, s)]

\* SumOf looks at g only where the others are.
LEMMA SumOfOthers ==
  ASSUME NEW f, NEW g, NEW h, NEW s, s # {} => g[Others(s)] = h[Others(s)]
  PROVE  SumOf(g, f, s) = SumOf(h, f, s)
  BY DEF SumOf, Others, One

LEMMA SumsUpToSteps ==
  ASSUME NEW f, NEW g, NEW n, SumsUpTo(g, f, n)
  PROVE  \A s \in Small(DOMAIN f, n) : g[s] = SumOf(g, f, s)
<1> DEFINE F(s) == SumOf(g, f, s)
<1>1. g = [s \in Small(DOMAIN f, n) |-> F(s)]
  BY Zenon DEF SumsUpTo
<1> HIDE DEF F
<1>2. \A s \in Small(DOMAIN f, n) : g[s] = F(s)
  BY <1>1, Zenon
<1> QED
  BY <1>2, Zenon DEF F

\* One more element.
LEMMA SumsUpToNext ==
  ASSUME NEW f, IsFiniteSet(DOMAIN f), NEW n \in Nat, NEW g, SumsUpTo(g, f, n)
  PROVE  \E h : SumsUpTo(h, f, n + 1)
<1> DEFINE D == DOMAIN f
           h == [s \in Small(D, n + 1) |-> SumOf(g, f, s)]
<1>1. \A s \in Small(D, n) : g[s] = SumOf(g, f, s)
  BY SumsUpToSteps
<1>2. ASSUME NEW s \in Small(D, n + 1), s # {}
      PROVE  Others(s) \in Small(D, n) /\ Others(s) \in Small(D, n + 1)
  <2>1. s \in SUBSET D /\ Cardinality(s) <= n + 1
    BY DEF Small
  <2>2. Others(s) \in SUBSET D /\ Cardinality(Others(s)) = Cardinality(s) - 1 /\ Cardinality(s) \in Nat
    BY <1>2, <2>1, OthersAreFewer
  <2>3. Cardinality(Others(s)) <= n /\ Cardinality(Others(s)) <= n + 1
    BY <2>1, <2>2
  <2> QED
    BY <2>2, <2>3 DEF Small
<1>3. ASSUME NEW s \in Small(D, n + 1) PROVE SumOf(g, f, s) = SumOf(h, f, s)
  <2>1. ASSUME s # {} PROVE g[Others(s)] = h[Others(s)]
    <3>1. Others(s) \in Small(D, n) /\ Others(s) \in Small(D, n + 1)
      BY <1>2, <2>1
    <3>2. h[Others(s)] = SumOf(g, f, Others(s))
      BY <3>1, Zenon
    <3> QED
      BY <1>1, <3>1, <3>2, Zenon
  <2> HIDE DEF h
  <2> QED
    BY <2>1, SumOfOthers
<1>4. SumsUpTo(h, f, n + 1)
  <2> DEFINE G(s) == SumOf(g, f, s)
             H(s) == SumOf(h, f, s)
  <2>1. h = [s \in Small(D, n + 1) |-> G(s)]
    BY Zenon
  <2>2. \A s \in Small(D, n + 1) : G(s) = H(s)
    BY <1>3, Zenon
  <2> HIDE DEF h, G, H
  <2>3. h = [s \in Small(D, n + 1) |-> H(s)]
    BY <2>1, <2>2, Zenon
  <2> QED
    BY <2>3, Zenon DEF SumsUpTo, H
<1> QED
  BY <1>4

\* The recursion of FoldFunction defines a function on the subsets.
LEMMA SumsExists ==
  ASSUME NEW f, IsFiniteSet(DOMAIN f)
  PROVE  \E g : Sums(g, f)
<1> DEFINE D == DOMAIN f
           m == Cardinality(D)
           Bad == {n \in Nat : ~ \E g : SumsUpTo(g, f, n)}
<1>1. m \in Nat
  BY FS_CardinalityType
<1>2. SumsUpTo([s \in {{}} |-> 0], f, 0)
  <2>1. Small(D, 0) = {{}}
    <3>1. ASSUME NEW s \in SUBSET D PROVE Cardinality(s) <= 0 <=> s = {}
      <4>1. IsFiniteSet(s) /\ Cardinality(s) \in Nat
        BY OthersAreFewer
      <4> QED
        BY <4>1, FS_EmptySet
    <3> QED
      BY <3>1 DEF Small
  <2> QED
    BY <2>1 DEF SumsUpTo, SumOf
<1>3. Bad = {}
  <2>1. SUFFICES ASSUME Bad # {} PROVE FALSE
    OBVIOUS
  <2>2. PICK n \in Bad : \A k \in Bad : n <= k
    BY <2>1, Least
  <2>3. n # 0
    BY <1>2, <2>2
  <2>4. n - 1 \in Nat /\ (n - 1) + 1 = n /\ n - 1 \notin Bad
    BY <2>2, <2>3
  <2>5. PICK g : SumsUpTo(g, f, n - 1)
    BY <2>4
  <2>6. \E h : SumsUpTo(h, f, (n - 1) + 1)
    BY <2>4, <2>5, SumsUpToNext
  <2> QED
    BY <2>2, <2>4, <2>6
<1>4. PICK g : SumsUpTo(g, f, m)
  BY <1>1, <1>3
<1>5. Small(D, m) = SUBSET D
  BY OthersAreFewer DEF Small
<1> QED
  BY <1>4, <1>5, Zenon DEF SumsUpTo, Sums

\* What Tokens is, step by step.
IsSum(g, f) ==
  /\ Tokens(f) = g[DOMAIN f]
  /\ g[{}] = 0
  /\ \A s \in SUBSET DOMAIN f : s # {} => g[s] = f[One(s)] + g[Others(s)]

LEMMA TokensAreSums ==
  ASSUME NEW f, IsFiniteSet(DOMAIN f)
  PROVE  \E g : IsSum(g, f)
<1> DEFINE g == CHOOSE g : Sums(g, f)
<1>1. Tokens(f) = g[DOMAIN f]
  BY Zenon DEF Tokens, FoldFunction, FoldFunctionOnSet, MapThenFoldSet, Sums, SumOf
<1>2. Sums(g, f)
  BY SumsExists, Zenon
<1> HIDE DEF g
<1>3. \A s \in SUBSET DOMAIN f : g[s] = SumOf(g, f, s)
  <2> DEFINE F(s) == SumOf(g, f, s)
  <2>1. g = [s \in SUBSET DOMAIN f |-> F(s)]
    BY <1>2, Zenon DEF Sums
  <2> HIDE DEF F
  <2>2. \A s \in SUBSET DOMAIN f : g[s] = F(s)
    BY <2>1, Zenon
  <2> QED
    BY <2>2, Zenon DEF F
<1>4. {} \in SUBSET DOMAIN f
  OBVIOUS
<1>5. g[{}] = 0
  BY <1>3, <1>4 DEF SumOf
<1>6. ASSUME NEW s \in SUBSET DOMAIN f, s # {} PROVE g[s] = f[One(s)] + g[Others(s)]
  <2>1. g[s] = SumOf(g, f, s)
    BY <1>3
  <2> QED
    BY <1>6, <2>1, Zenon DEF SumOf, One, Others
<1> QED
  BY <1>1, <1>5, <1>6, Zenon DEF IsSum

LEMMA TokensType ==
  ASSUME NEW S, IsFiniteSet(S), NEW f \in [S -> Nat]
  PROVE  /\ Tokens(f) \in Nat
         /\ \A g : IsSum(g, f) => \A s \in SUBSET S : g[s] \in Nat
<1>1. ASSUME NEW g, IsSum(g, f) PROVE \A s \in SUBSET S : g[s] \in Nat
  <2> DEFINE T == {s \in SUBSET S : g[s] \in Nat}
  <2>1. {} \in T
    BY <1>1 DEF IsSum
  <2>2. ASSUME NEW s \in SUBSET S, s # {}, Others(s) \in T PROVE s \in T
    <3>1. f[One(s)] \in Nat
      BY <2>2, OthersAreFewer
    <3>2. g[s] = f[One(s)] + g[Others(s)] /\ g[Others(s)] \in Nat
      BY <1>1, <2>2 DEF IsSum
    <3> QED
      BY <3>1, <3>2
  <2>3. \A s \in SUBSET S : s \in T
    <3> HIDE DEF T
    <3> QED
      BY <2>1, <2>2, TakingAway
  <2> QED
    BY <2>3
<1>2. DOMAIN f = S
  OBVIOUS
<1>3. PICK g : IsSum(g, f)
  BY <1>2, TokensAreSums
<1>4. Tokens(f) = g[S] /\ S \in SUBSET S
  BY <1>2, <1>3 DEF IsSum
<1> QED
  BY <1>1, <1>3, <1>4, Zenon

\* Adding to one value adds to the sum.
LEMMA TokensAdd ==
  ASSUME NEW S, IsFiniteSet(S), NEW f \in [S -> Nat], NEW r \in S, NEW k \in Nat,
         NEW e \in [S -> Nat], e[r] = f[r] + k, \A x \in S \ {r} : e[x] = f[x]
  PROVE  Tokens(e) = Tokens(f) + k
<1>1. DOMAIN f = S /\ DOMAIN e = S /\ e \in [S -> Nat]
  OBVIOUS
<1>2. PICK g : IsSum(g, f)
  BY <1>1, TokensAreSums
<1>3. PICK h : IsSum(h, e)
  BY <1>1, TokensAreSums
<1>4. \A s \in SUBSET S : g[s] \in Nat /\ h[s] \in Nat
  BY <1>1, <1>2, <1>3, TokensType
<1> DEFINE T == {s \in SUBSET S : h[s] = g[s] + (IF r \in s THEN k ELSE 0)}
<1>5. {} \in T
  BY <1>2, <1>3 DEF IsSum
<1>6. ASSUME NEW s \in SUBSET S, s # {}, Others(s) \in T PROVE s \in T
  <2> DEFINE x == One(s)
             o == Others(s)
  <2>1. x \in s /\ x \in S /\ o = s \ {x} /\ o \in SUBSET S
    BY <1>6, OthersAreFewer DEF Others
  <2>2. g[s] = f[x] + g[o] /\ h[s] = e[x] + h[o]
    BY <1>1, <1>2, <1>3, <1>6 DEF IsSum
  <2>3. h[o] = g[o] + (IF r \in o THEN k ELSE 0) /\ g[o] \in Nat /\ h[o] \in Nat
    BY <1>4, <1>6, <2>1
  <2>4. e[x] = f[x] + (IF x = r THEN k ELSE 0) /\ f[x] \in Nat
    BY <2>1
  <2> HIDE DEF x, o
  <2>5. h[s] = g[s] + (IF r \in s THEN k ELSE 0)
    <3>1. CASE x = r
      BY <2>1, <2>2, <2>3, <2>4, <3>1
    <3>2. CASE x # r
      BY <2>1, <2>2, <2>3, <2>4, <3>2
    <3> QED
      BY <3>1, <3>2
  <2> QED
    BY <2>5
<1>7. \A s \in SUBSET S : s \in T
  <2> HIDE DEF T
  <2> QED
    BY <1>5, <1>6, TakingAway
<1>8. h[S] = g[S] + k
  BY <1>7
<1> QED
  BY <1>1, <1>2, <1>3, <1>8 DEF IsSum

\* Nothing has no sum.
LEMMA TokensZero ==
  ASSUME NEW S, IsFiniteSet(S), NEW f, f = [x \in S |-> 0]
  PROVE  Tokens(f) = 0
<1>1. DOMAIN f = S
  OBVIOUS
<1>2. PICK g : IsSum(g, f)
  BY <1>1, TokensAreSums
<1> DEFINE T == {s \in SUBSET S : g[s] = 0}
<1>3. {} \in T
  BY <1>2 DEF IsSum
<1>4. ASSUME NEW s \in SUBSET S, s # {}, Others(s) \in T PROVE s \in T
  <2>1. One(s) \in S
    BY <1>4, OthersAreFewer
  <2>2. g[s] = f[One(s)] + g[Others(s)]
    BY <1>1, <1>2, <1>4 DEF IsSum
  <2> QED
    BY <1>4, <2>1, <2>2
<1>5. \A s \in SUBSET S : s \in T
  <2> HIDE DEF T
  <2> QED
    BY <1>3, <1>4, TakingAway
<1>6. g[S] = 0
  BY <1>5
<1> QED
  BY <1>1, <1>2, <1>6 DEF IsSum
-----------------------------------------------------------------------------
(* No token is lost, and none charged twice unless the event has raised.   *)

Flush == {"charge", "emit", "reset"}

USE DEF Flush

AtReset == [t \in Workers |-> IF pc[t].at \in {"emit", "reset"} THEN pc[t].held ELSE 0]

\* Without a race one thread at a time holds the count, which has not changed
\* since it was read; and the tokens are conserved.
HoldsCount ==
  ~raced =>
    \A t \in Workers : pc[t].at \in Flush => pc[t].held = total /\ ~Flushing(t)

ChargeInv == HoldsCount /\ TokensConserved

\* The sums are numbers.
LEMMA SumsAreNumbers ==
  ASSUME IInv
  PROVE  /\ Tokens(charged) \in Nat /\ Made \in Nat /\ Tokens(AtReset) \in Nat
         /\ AtReset \in [Workers -> Nat] /\ IsFiniteSet(Runs) /\ IsFiniteSet(Workers)
<1>1. IsFiniteSet(Runs) /\ IsFiniteSet(Workers)
  BY ConstantsAssumption DEF ConstantsAssumption
<1>2. charged \in [Runs -> Nat] /\ used \in [Runs -> Nat] /\ AtReset \in [Workers -> Nat]
  BY DEF IInv, Types, AtReset
<1> QED
  BY <1>1, <1>2, TokensType DEF Made

LEMMA InitCharges == Init => ChargeInv
<1> SUFFICES ASSUME Init PROVE ChargeInv
  OBVIOUS
<1>1. HoldsCount
  BY DEF Init, Idle, HoldsCount
<1>2. /\ charged = [r \in Runs |-> 0] /\ used = charged /\ total = 0 /\ again = 0
      /\ [t \in Workers |-> IF pc[t].at \in {"emit", "reset"} THEN pc[t].held ELSE 0] = [t \in Workers |-> 0]
  BY DEF Init, Idle
<1>3. IsFiniteSet(Workers) /\ IsFiniteSet(Runs)
  BY ConstantsAssumption DEF ConstantsAssumption
<1>4. Tokens(charged) = 0 /\ Made = 0
  BY <1>2, <1>3, TokensZero DEF Made
<1>5. Tokens([t \in Workers |-> IF pc[t].at \in {"emit", "reset"} THEN pc[t].held ELSE 0]) = 0
  BY <1>2, <1>3, TokensZero
<1>6. TokensConserved
  BY <1>2, <1>4, <1>5 DEF TokensConserved
<1> QED
  BY <1>1, <1>6 DEF ChargeInv

\* A step of one thread from a place without the count to another such place.
LEMMA OtherSteps ==
  ASSUME IInv, ChargeInv, NEW t \in Workers, NEW p, pc' = [pc EXCEPT ![t] = p],
         pc[t].at \notin Flush, p.at \notin Flush,
         raced' = raced, UNCHANGED <<total, charged, used, again>>
  PROVE  ChargeInv'
<1>1. DOMAIN pc = Workers
  BY DEF IInv, Types
<1>2. /\ pc'[t] = p /\ \A u \in Workers \ {t} : pc'[u] = pc[u]
  BY <1>1
<1>3. AtReset' = AtReset
  BY <1>2 DEF AtReset
<1>4. /\ Tokens(charged)' = Tokens(charged) /\ Made' = Made /\ again' = again
      /\ Tokens(AtReset)' = Tokens(AtReset)
  BY <1>3 DEF Made
<1>5. HoldsCount'
  BY <1>2 DEF ChargeInv, HoldsCount, Flushing
<1>6. TokensConserved'
  BY <1>4 DEF ChargeInv, TokensConserved, AtReset
<1> QED
  BY <1>5, <1>6 DEF ChargeInv

LEMMA TreeStepsConserve ==
  ASSUME IInv, ChargeInv, NEW t \in Workers,
         StartJob(t) \/ Descend(t) \/ Finish(t) \/ Raise(t) \/ Return(t)
  PROVE  ChargeInv'
<1>1. pc[t].at \notin Flush /\ UNCHANGED <<total, charged, used, again, raced>>
  BY DEF StartJob, Descend, Finish, Raise, Return
<1>2. /\ pc \in [Workers -> [run : Runs \cup {None}, depth : Nat, at : Places, held : Nat]]
      /\ pc[t] \in [run : Runs \cup {None}, depth : Nat, at : Places, held : Nat]
  BY DEF IInv, Types
<1>3. PICK p : pc' = [pc EXCEPT ![t] = p] /\ p.at \notin Flush
  <2>1. CASE StartJob(t)
    BY <2>1 DEF StartJob
  <2>2. CASE Descend(t) /\ Exhausted(pc[t].run)
    <3>1. pc' = [pc EXCEPT ![t] = [pc[t] EXCEPT !.at = "flush"]]
      BY <1>2, <2>2 DEF Descend
    <3>2. [pc[t] EXCEPT !.at = "flush"].at = "flush"
      BY <1>2
    <3> QED
      BY <3>1, <3>2
  <2>3. CASE Descend(t) /\ ~Exhausted(pc[t].run)
    <3>1. pc' = [pc EXCEPT ![t] = [pc[t] EXCEPT !.depth = @ + 1]]
      BY <1>2, <2>3 DEF Descend
    <3>2. [pc[t] EXCEPT !.depth = @ + 1].at = pc[t].at
      BY <1>2
    <3> QED
      BY <1>1, <3>1, <3>2
  <2>4. CASE Finish(t)
    <3>1. pc' = [pc EXCEPT ![t] = [pc[t] EXCEPT !.at = "flush"]]
      BY <1>2, <2>4 DEF Finish, Goto
    <3>2. [pc[t] EXCEPT !.at = "flush"].at = "flush"
      BY <1>2
    <3> QED
      BY <3>1, <3>2
  <2>5. CASE Raise(t)
    <3>1. Idle.at = "idle" /\ pc' = [pc EXCEPT ![t] = Idle]
      BY <2>5 DEF Raise, Idle
    <3> QED
      BY <3>1
  <2>6. CASE Return(t)
    <3> DEFINE at == IF Exhausted(pc[t].run) THEN "flush" ELSE "work"
    <3>1. pc' = [pc EXCEPT ![t] = Returned(pc[t], at)] /\ at \in {"flush", "work"}
      BY <2>6 DEF Return
    <3> HIDE DEF at
    <3>2. Returned(pc[t], at).at \in {"idle", at}
      BY <1>2 DEF Returned, Idle
    <3> QED
      BY <3>1, <3>2
  <2> QED
    BY <2>1, <2>2, <2>3, <2>4, <2>5, <2>6
<1> QED
  BY <1>1, <1>3, OtherSteps

\* A model call while another thread has the count is the race.
LEMMA CallConserves ==
  ASSUME IInv, ChargeInv, NEW t \in Workers, CallModel(t)
  PROVE  ChargeInv'
<1> DEFINE r == pc[t].run
<1>1. /\ pc[t].at = "work" /\ total' = total + 1 /\ used' = [used EXCEPT ![r] = @ + 1]
      /\ raced' = (raced \/ Flushing(t)) /\ UNCHANGED <<charged, pc, again>>
  BY DEF CallModel
<1>2. r \in Runs /\ used \in [Runs -> Nat] /\ total \in Nat /\ again \in Nat
  BY <1>1 DEF IInv, Types
<1>3. SUFFICES ASSUME ~raced, ~Flushing(t) PROVE ChargeInv'
  BY <1>1 DEF ChargeInv, HoldsCount, TokensConserved
<1>4. \A u \in Workers : pc[u].at \notin Flush
  BY <1>1, <1>3 DEF Flushing
<1>5. Made' = Made + 1
  <2>1. IsFiniteSet(Runs) /\ 1 \in Nat
    BY SumsAreNumbers
  <2>2. /\ used' \in [Runs -> Nat] /\ used'[r] = used[r] + 1
        /\ \A x \in Runs \ {r} : used'[x] = used[x]
    BY <1>1, <1>2
  <2> HIDE DEF r
  <2>3. Tokens(used') = Tokens(used) + 1
    BY <1>2, <2>1, <2>2, TokensAdd
  <2> QED
    BY <2>3 DEF Made
<1>6. Tokens(charged)' = Tokens(charged) /\ Tokens(AtReset)' = Tokens(AtReset)
  BY <1>1 DEF AtReset
<1>7. Tokens(charged) + total = Made + again + Tokens(AtReset)
  BY <1>3 DEF ChargeInv, TokensConserved, AtReset
<1>8. Tokens(charged) \in Nat /\ Made \in Nat /\ Tokens(AtReset) \in Nat
  BY SumsAreNumbers
<1>9. Tokens(charged)' + total' = Made' + again' + Tokens(AtReset)'
  BY <1>1, <1>2, <1>5, <1>6, <1>7, <1>8
<1>10. TokensConserved'
  BY <1>9 DEF TokensConserved, AtReset
<1>11. HoldsCount'
  BY <1>1, <1>4 DEF HoldsCount
<1> QED
  BY <1>10, <1>11 DEF ChargeInv

LEMMA ReadConserves ==
  ASSUME IInv, ChargeInv, NEW t \in Workers, ReadTracker(t)
  PROVE  ChargeInv'
<1> DEFINE p == [pc[t] EXCEPT !.held = total, !.at = IF total > 0 THEN "charge" ELSE "budget"]
<1>1. /\ pc[t].at = "flush" /\ pc' = [pc EXCEPT ![t] = p]
      /\ raced' = (raced \/ (total > 0 /\ Flushing(t)))
      /\ UNCHANGED <<total, charged, used, again>>
  BY DEF ReadTracker, IInv, Types
<1>2. /\ pc'[t] = p /\ \A u \in Workers \ {t} : pc'[u] = pc[u]
  BY <1>1 DEF IInv, Types
<1>3. p.held = total /\ p.at = IF total > 0 THEN "charge" ELSE "budget"
  BY DEF IInv, Types
<1> HIDE DEF p
<1>4. SUFFICES ASSUME ~raced, ~(total > 0 /\ Flushing(t)) PROVE ChargeInv'
  BY <1>1 DEF ChargeInv, HoldsCount, TokensConserved
<1>5. AtReset' = AtReset
  BY <1>1, <1>2, <1>3 DEF AtReset
<1>6. TokensConserved'
  <2>1. /\ Tokens(charged)' = Tokens(charged) /\ Made' = Made /\ again' = again
        /\ Tokens(AtReset)' = Tokens(AtReset)
    BY <1>1, <1>5 DEF Made
  <2> QED
    BY <1>1, <1>4, <2>1 DEF ChargeInv, TokensConserved, AtReset
<1>7. HoldsCount'
  <2>1. CASE total > 0
    <3>1. \A u \in Workers \ {t} : pc[u].at \notin Flush
      BY <1>4, <2>1 DEF Flushing
    <3> QED
      BY <1>1, <1>2, <1>3, <3>1 DEF HoldsCount, Flushing
  <2>2. CASE ~(total > 0)
    <3>1. pc'[t].at = "budget"
      BY <1>2, <1>3, <2>2
    <3>2. \A u \in Workers : pc'[u].at \in Flush => u # t /\ pc'[u] = pc[u]
      BY <1>2, <3>1
    <3>3. \A u \in Workers : pc[u].at \in Flush => pc[u].held = total /\ ~Flushing(u)
      BY <1>4 DEF ChargeInv, HoldsCount
    <3>4. \A u \in Workers : Flushing(u)' => Flushing(u)
      BY <3>2 DEF Flushing
    <3> QED
      BY <1>1, <3>2, <3>3, <3>4 DEF HoldsCount
  <2> QED
    BY <2>1, <2>2
<1> QED
  BY <1>6, <1>7 DEF ChargeInv

\* What is charged is still in the count until the reset.
LEMMA ChargeConserves ==
  ASSUME IInv, ChargeInv, NEW t \in Workers, Charge(t)
  PROVE  ChargeInv'
<1> DEFINE r == pc[t].run
           k == pc[t].held
<1>1. /\ pc[t].at = "charge" /\ charged' = [charged EXCEPT ![r] = @ + k]
      /\ pc' = [pc EXCEPT ![t].at = "emit"] /\ UNCHANGED <<total, used, again, raced>>
  BY DEF Charge, Goto
<1>2. r \in Runs /\ k \in Nat /\ charged \in [Runs -> Nat] /\ total \in Nat /\ again \in Nat
  BY <1>1 DEF IInv, Types
<1>3. /\ pc'[t].at = "emit" /\ pc'[t].held = k /\ \A u \in Workers \ {t} : pc'[u] = pc[u]
  BY <1>1 DEF IInv, Types
<1>4. SUFFICES ASSUME ~raced PROVE ChargeInv'
  BY <1>1 DEF ChargeInv, HoldsCount, TokensConserved
<1>5. HoldsCount'
  BY <1>1, <1>3, <1>4 DEF ChargeInv, HoldsCount, Flushing
<1>6. PICK after \in [Workers -> Nat] :
        after = AtReset' /\ after[t] = AtReset[t] + k /\ \A u \in Workers \ {t} : after[u] = AtReset[u]
  <2> DEFINE after == AtReset'
  <2>1. /\ AtReset[t] = 0 /\ after[t] = k /\ AtReset \in [Workers -> Nat]
        /\ \A u \in Workers \ {t} : after[u] = AtReset[u]
    BY <1>1, <1>3, SumsAreNumbers DEF AtReset
  <2>2. after = [u \in Workers |-> after[u]]
    BY DEF AtReset
  <2> HIDE DEF k, after
  <2>3. after \in [Workers -> Nat]
    BY <1>2, <2>1, <2>2
  <2>4. after[t] = AtReset[t] + k
    BY <1>2, <2>1
  <2> QED
    BY <2>1, <2>3, <2>4 DEF after
<1>7. Tokens(charged') = Tokens(charged) + k /\ Tokens(AtReset') = Tokens(AtReset) + k
  <2>1. IsFiniteSet(Runs) /\ IsFiniteSet(Workers) /\ AtReset \in [Workers -> Nat]
    BY SumsAreNumbers
  <2>2. /\ charged' \in [Runs -> Nat] /\ charged'[r] = charged[r] + k
        /\ \A x \in Runs \ {r} : charged'[x] = charged[x]
    BY <1>1, <1>2
  <2> HIDE DEF k, r
  <2>3. Tokens(charged') = Tokens(charged) + k
    BY <1>2, <2>1, <2>2, TokensAdd
  <2>4. Tokens(after) = Tokens(AtReset) + k
    BY <1>2, <1>6, <2>1, TokensAdd
  <2> QED
    BY <1>6, <2>3, <2>4
<1>8. Tokens(charged)' = Tokens(charged) + k /\ Tokens(AtReset)' = Tokens(AtReset) + k /\ Made' = Made
  BY <1>1, <1>7 DEF Made
<1>9. Tokens(charged) + total = Made + again + Tokens(AtReset)
  BY <1>4 DEF ChargeInv, TokensConserved, AtReset
<1>10. Tokens(charged) \in Nat /\ Made \in Nat /\ Tokens(AtReset) \in Nat
  BY SumsAreNumbers
<1>11. Tokens(charged)' + total' = Made' + again' + Tokens(AtReset)'
  <2> HIDE DEF k
  <2> QED
    BY <1>1, <1>2, <1>8, <1>9, <1>10
<1> QED
  BY <1>5, <1>11 DEF ChargeInv, TokensConserved, AtReset

\* The event moves nothing.
LEMMA EmitConserves ==
  ASSUME IInv, ChargeInv, NEW t \in Workers, Emit(t)
  PROVE  ChargeInv'
<1>1. /\ pc[t].at = "emit" /\ pc' = [pc EXCEPT ![t].at = "reset"]
      /\ UNCHANGED <<total, charged, used, again, raced>>
  BY DEF Emit, Goto
<1>2. /\ pc'[t].at = "reset" /\ pc'[t].held = pc[t].held
      /\ \A u \in Workers \ {t} : pc'[u] = pc[u]
  BY <1>1 DEF IInv, Types
<1>3. HoldsCount'
  BY <1>1, <1>2 DEF ChargeInv, HoldsCount, Flushing
<1>4. AtReset' = AtReset
  BY <1>1, <1>2 DEF AtReset
<1>5. Tokens(charged)' = Tokens(charged) /\ Made' = Made /\ Tokens(AtReset)' = Tokens(AtReset)
  BY <1>1, <1>4 DEF Made
<1>6. TokensConserved'
  BY <1>1, <1>5 DEF ChargeInv, TokensConserved, AtReset
<1> QED
  BY <1>3, <1>6 DEF ChargeInv

\* What a flush has charged when its event raises is still in the count, and no more
\* in hand: it will be charged again.
LEMMA EmitRaisesConserves ==
  ASSUME IInv, ChargeInv, NEW t \in Workers, EmitRaises(t)
  PROVE  ChargeInv'
<1> DEFINE k == pc[t].held
<1>1. /\ pc[t].at = "emit" /\ again' = again + k
      /\ pc' = [pc EXCEPT ![t] = Idle] /\ UNCHANGED <<total, charged, used, raced>>
  BY DEF EmitRaises
<1>2. k \in Nat /\ total \in Nat /\ again \in Nat
  BY DEF IInv, Types
<1>3. /\ pc'[t].at = "idle" /\ \A u \in Workers \ {t} : pc'[u] = pc[u]
  BY <1>1 DEF IInv, Types, Idle
<1>4. SUFFICES ASSUME ~raced PROVE ChargeInv'
  BY <1>1 DEF ChargeInv, HoldsCount, TokensConserved
<1>5. HoldsCount'
  BY <1>1, <1>3, <1>4 DEF ChargeInv, HoldsCount, Flushing
<1>6. PICK after \in [Workers -> Nat] :
        after = AtReset' /\ AtReset[t] = after[t] + k /\ \A u \in Workers \ {t} : AtReset[u] = after[u]
  <2> DEFINE after == AtReset'
  <2>1. /\ after[t] = 0 /\ AtReset[t] = k /\ AtReset \in [Workers -> Nat]
        /\ \A u \in Workers \ {t} : after[u] = AtReset[u]
    BY <1>1, <1>3, SumsAreNumbers DEF AtReset
  <2>2. after = [u \in Workers |-> after[u]]
    BY DEF AtReset
  <2> HIDE DEF k, after
  <2>3. after \in [Workers -> Nat]
    BY <2>1, <2>2
  <2>4. AtReset[t] = after[t] + k
    BY <1>2, <2>1
  <2> QED
    BY <2>1, <2>3, <2>4 DEF after
<1>7. Tokens(AtReset) = Tokens(AtReset') + k /\ Tokens(AtReset') \in Nat
  <2>1. IsFiniteSet(Workers) /\ AtReset \in [Workers -> Nat]
    BY SumsAreNumbers
  <2> HIDE DEF k
  <2>2. Tokens(AtReset) = Tokens(after) + k
    BY <1>2, <1>6, <2>1, TokensAdd
  <2>3. Tokens(after) \in Nat
    BY <2>1, TokensType
  <2> QED
    BY <1>6, <2>2, <2>3
<1>8. Tokens(charged)' = Tokens(charged) /\ Tokens(AtReset)' = Tokens(AtReset') /\ Made' = Made
  BY <1>1 DEF Made
<1>9. Tokens(charged) + total = Made + again + Tokens(AtReset)
  BY <1>4 DEF ChargeInv, TokensConserved, AtReset
<1>10. Tokens(charged) \in Nat /\ Made \in Nat
  BY SumsAreNumbers
<1>11. Tokens(charged)' + total' = Made' + again' + Tokens(AtReset)'
  <2> HIDE DEF k
  <2> QED
    BY <1>1, <1>2, <1>7, <1>8, <1>9, <1>10
<1> QED
  BY <1>5, <1>11 DEF ChargeInv, TokensConserved, AtReset

\* The count is set back by exactly what has been charged.
LEMMA ResetConserves ==
  ASSUME IInv, ChargeInv, NEW t \in Workers, ResetTracker(t)
  PROVE  ChargeInv'
<1> DEFINE k == pc[t].held
<1>1. /\ pc[t].at = "reset" /\ total' = 0
      /\ pc' = [pc EXCEPT ![t].held = 0, ![t].at = "budget"] /\ UNCHANGED <<charged, used, again, raced>>
  BY DEF ResetTracker
<1>2. k \in Nat /\ total \in Nat /\ again \in Nat
  BY DEF IInv, Types
<1>3. /\ pc'[t].at = "budget" /\ \A u \in Workers \ {t} : pc'[u] = pc[u]
  BY <1>1 DEF IInv, Types
<1>4. SUFFICES ASSUME ~raced PROVE ChargeInv'
  BY <1>1 DEF ChargeInv, HoldsCount, TokensConserved
<1>5. k = total /\ \A u \in Workers \ {t} : pc[u].at \notin Flush
  BY <1>1, <1>4 DEF ChargeInv, HoldsCount, Flushing
<1>6. HoldsCount'
  BY <1>3, <1>5 DEF HoldsCount
<1>7. PICK after \in [Workers -> Nat] :
        after = AtReset' /\ AtReset[t] = after[t] + k /\ \A u \in Workers \ {t} : AtReset[u] = after[u]
  <2> DEFINE after == AtReset'
  <2>1. after[t] = 0 /\ AtReset[t] = k /\ \A u \in Workers \ {t} : after[u] = 0 /\ AtReset[u] = 0
    BY <1>1, <1>3, <1>5 DEF AtReset
  <2>2. after = [u \in Workers |-> after[u]]
    BY DEF AtReset
  <2> HIDE DEF k, after
  <2>3. after \in [Workers -> Nat]
    BY <2>1, <2>2
  <2>4. AtReset[t] = after[t] + k
    BY <1>2, <2>1
  <2> QED
    BY <2>1, <2>3, <2>4 DEF after
<1>8. Tokens(AtReset) = Tokens(AtReset') + k /\ Tokens(AtReset') \in Nat
  <2>1. IsFiniteSet(Workers) /\ AtReset \in [Workers -> Nat]
    BY SumsAreNumbers
  <2> HIDE DEF k
  <2>2. Tokens(AtReset) = Tokens(after) + k
    BY <1>2, <1>7, <2>1, TokensAdd
  <2>3. Tokens(after) \in Nat
    BY <2>1, TokensType
  <2> QED
    BY <1>7, <2>2, <2>3
<1>9. Tokens(charged)' = Tokens(charged) /\ Tokens(AtReset)' = Tokens(AtReset') /\ Made' = Made
  BY <1>1 DEF Made
<1>10. Tokens(charged) + total = Made + again + Tokens(AtReset)
  BY <1>4 DEF ChargeInv, TokensConserved, AtReset
<1>11. Tokens(charged) \in Nat /\ Made \in Nat
  BY SumsAreNumbers
<1>12. Tokens(charged)' + total' = Made' + again' + Tokens(AtReset)'
  <2> HIDE DEF k
  <2> QED
    BY <1>1, <1>2, <1>5, <1>8, <1>9, <1>10, <1>11
<1> QED
  BY <1>6, <1>12 DEF ChargeInv, TokensConserved, AtReset

\* Every token of a model call is charged to one run or still counted, and charged
\* again exactly when the event after the charge raised, for any number of runs,
\* threads and calls, as long as nobody calls a model or flushes between another
\* thread's reading of the count and its reset (_persist_usage).
THEOREM TokensAreConserved == Spec => []TokensConserved
<1>1. IInv /\ ChargeInv /\ [Next]_vars => ChargeInv'
  <2> SUFFICES ASSUME IInv, ChargeInv, [Next]_vars PROVE ChargeInv'
    OBVIOUS
  <2>1. CASE Next
    BY <2>1, TreeStepsConserve, CallConserves, ReadConserves, ChargeConserves, EmitConserves,
       EmitRaisesConserves, ResetConserves DEF Next
  <2>2. CASE UNCHANGED vars
    <3>1. HoldsCount'
      BY <2>2 DEF vars, ChargeInv, HoldsCount, Flushing
    <3>2. TokensConserved'
      BY <2>2 DEF vars, ChargeInv, TokensConserved, Made
    <3> QED
      BY <3>1, <3>2 DEF ChargeInv
  <2> QED
    BY <2>1, <2>2
<1>2. ChargeInv => TokensConserved
  BY DEF ChargeInv
<1> QED
  BY <1>1, <1>2, InitCharges, UsageInvariant, PTL DEF Spec
=============================================================================
