------------------------------ MODULE MCRunStore ------------------------------
(* A small instance of RunStore for TLC. *)
EXTENDS RunStore, TLC

CONSTANTS root, kid, first, second

\* A node below the root that has two children.
Fork == root :> None @@ kid :> root @@ first :> kid @@ second :> kid

Started == {<<kid>>}

\* The two children may change places.
Symmetry == Permutations({first, second})
=============================================================================
