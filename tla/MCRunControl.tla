---------------------------- MODULE MCRunControl ----------------------------
(* Small instances of RunControl for TLC. *)
EXTENDS RunControl, TLC

\* Clients are interchangeable: no action tells one from another.
ClientSymmetry == Permutations(Clients)
=============================================================================
