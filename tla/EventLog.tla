------------------------------ MODULE EventLog ------------------------------
(***************************************************************************)
(* What the event stream of one run promises: a growing history of events, *)
(* and every subscriber sees a prefix of it, whatever happens to its       *)
(* connections.  EventStream implements it while one thread at a time      *)
(* publishes.                                                              *)
(***************************************************************************)
EXTENDS Naturals, Sequences

CONSTANT Subscribers

VARIABLES history,  \* the sequence numbers published
          got       \* what each subscriber has seen

Init == /\ history = <<>>
        /\ got = [s \in Subscribers |-> <<>>]

Publish == /\ history' = Append(history, Len(history) + 1)
           /\ UNCHANGED got

Deliver(s) == /\ Len(got[s]) < Len(history)
              /\ got' = [got EXCEPT ![s] = Append(@, history[Len(@) + 1])]
              /\ UNCHANGED history

Next == Publish \/ \E s \in Subscribers : Deliver(s)

Spec == Init /\ [][Next]_<<history, got>>
=============================================================================
