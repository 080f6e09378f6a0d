--------------------------- MODULE ChildScheduling ---------------------------
(***************************************************************************)
(* A recursive case's children (_execute_recursive_case and                *)
(* _create_child_nodes of services/executor.py): the decomposition is cut  *)
(* to max_children_per_node, dependencies that name an objective are       *)
(* turned into the aliases child_1, child_2, ..., and the children are     *)
(* executed in waves, each of those whose dependencies have completed.     *)
(***************************************************************************)
EXTENDS Naturals, Sequences, FiniteSets, FiniteSetsExt, SequencesExt

CONSTANTS
  Plans,        \* decompositions: sequences of [objective, deps]
  MaxChildren   \* values of max_children_per_node

ASSUME PlansAssumption ==
  /\ Plans \subseteq Seq([objective : STRING, deps : SUBSET STRING])
  /\ MaxChildren \subseteq Nat \ {0}

VARIABLE sched  \* divider's plan, children kept, wave, executed in order, completed, result

NoChildren == [plan |-> <<>>, kept |-> <<>>, wave |-> {}, ran |-> <<>>, done |-> {},
               result |-> "none"]

Alias(i) == "child_" \o ToString(i)

\* Different numbers are written differently.
ASSUME AliasAssumption ==
  \A plan \in Plans : \A i, j \in DOMAIN plan : Alias(i) = Alias(j) => i = j

\* An alias stays, the text of an objective becomes the alias of the last child that
\* has it, and any other text stays as it is.
Resolve(specs, dep) ==
  LET Named == {i \in DOMAIN specs : specs[i].objective = dep}
  IN IF dep \in {Alias(i) : i \in DOMAIN specs} \/ Named = {} THEN dep ELSE Alias(Max(Named))

\* _create_child_nodes on the children that the truncation leaves.
CreateChildNodes == \E plan \in Plans, most \in MaxChildren :
  LET specs == SubSeq(plan, 1, Min({most, Len(plan)}))
  IN sched' = [NoChildren EXCEPT
       !.plan = plan,
       !.kept = [i \in DOMAIN specs |-> {Resolve(specs, dep) : dep \in specs[i].deps}]]

Scheduling == sched.kept # <<>> /\ sched.result = "none"

Pending == DOMAIN sched.kept \ Range(sched.ran)

CompletedAliases == {Alias(i) : i \in sched.done}

\* Mutant: one completed dependency is enough.
ReadyEarly == {i \in Pending : sched.kept[i] = {} \/ sched.kept[i] \cap CompletedAliases # {}}

Ready == {i \in Pending : sched.kept[i] \subseteq CompletedAliases}

NextWave ==
  /\ Scheduling /\ sched.wave = {}
  /\ sched' = CASE Pending = {} -> [sched EXCEPT !.result = "all"]
                [] Pending # {} /\ Ready = {} -> [sched EXCEPT !.result = "unresolved"]
                [] OTHER -> [sched EXCEPT !.wave = Ready]

\* execute_node of the next child of the wave: only if it completes the rest follow.
ExecuteChild ==
  /\ Scheduling /\ sched.wave # {}
  /\ LET i == Min(sched.wave)
         s == [sched EXCEPT !.wave = @ \ {i}, !.ran = Append(@, i)]
     IN \/ sched' = [s EXCEPT !.done = @ \cup {i}]
        \/ \E result \in {"blocked", "failed"} : sched' = [s EXCEPT !.result = result]

ScheduleStep == NextWave \/ ExecuteChild

\* The kept siblings that a dependency of the divider's plan may mean.
Meant(dep) == {j \in DOMAIN sched.kept : dep \in {Alias(j), sched.plan[j].objective}}

\* Every dependency means one sibling that has not been cut off, and there is an
\* order in which no child comes before one it depends on.
Sound ==
  LET Kept == DOMAIN sched.kept
  IN /\ \A i \in Kept : \A dep \in sched.plan[i].deps : Cardinality(Meant(dep)) = 1
     /\ \E rank \in [Kept -> Kept] : \A i \in Kept : \A dep \in sched.plan[i].deps :
          \A j \in Meant(dep) : rank[j] < rank[i]

\* No child is executed twice, nor before some sibling that each of its dependencies
\* may mean has completed; and the executor gives up a decomposition as unresolved
\* only if the divider's own plan is unsound, or became so when it was cut.
PlanIsFollowed ==
  /\ \A k \in DOMAIN sched.ran : \A dep \in sched.plan[sched.ran[k]].deps :
       \E j \in Meant(dep) \cap sched.done : \E l \in 1..k - 1 : sched.ran[l] = j
  /\ IsInjective(sched.ran)
  /\ sched.result = "unresolved" => ~Sound
  /\ sched.result = "all" => sched.done = DOMAIN sched.kept
=============================================================================
