--------------------------- MODULE MCEventStream ----------------------------
(* Small instances of EventStream for TLC. *)
EXTENDS EventStream, TLC

\* No action tells one publishing thread from another.
PublisherSymmetry == Permutations(Publishers)
=============================================================================
