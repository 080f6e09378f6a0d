--------------------------- MODULE MCNodeServices ----------------------------
(* Values of NodeServices' constants for TLC.                              *)
EXTENDS NodeServices

TwoChains == {<<"a">>, <<"a", "b">>, <<"a", "b", "a">>}

Deps == {d \in SUBSET {"p", "q", "child_3"} : Cardinality(d) <= 2}

Child(objective, deps) == [objective |-> objective, deps |-> deps]

\* Two children, three with distinct objectives, and three of which two share one.
SmallPlans ==
  {<<Child("p", a), Child("q", b)>> : a, b \in Deps}
  \cup {<<Child("p", a), Child("q", b), Child(o, c)>> : a, b, c \in Deps, o \in {"p", "r"}}
=============================================================================
