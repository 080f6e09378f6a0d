---------------------------- MODULE SchemaRetries ----------------------------
(***************************************************************************)
(* A call of DividerService.divide (services/divider.py) or of             *)
(* MergerService.merge (services/merger.py).  The model is asked again     *)
(* while its answers do not validate.  The divider asks for one candidate, *)
(* or for several when the objective is complex, and takes the valid one   *)
(* with the best score of score_decomposition; the merger's loop is that   *)
(* of one candidate.                                                       *)
(***************************************************************************)
EXTENDS Naturals, Sequences, Functions

CONSTANTS
  Scores,            \* of the valid answers
  Candidates,        \* values of decomposition_candidates
  MaxSchemaRetries

ASSUME RetriesAssumption ==
  Scores \subseteq Nat /\ Candidates \subseteq Nat \ {0} /\ MaxSchemaRetries \in Nat

VARIABLE call  \* candidates to ask for, candidate, attempt, valid answers, all answers, outcome

\* The provider answers with something valid or invalid, or raises.
Answers == [kind : {"valid"}, score : Scores] \cup [kind : {"invalid", "raises"}, score : {0}]

NoCall == [rounds |-> 0, round |-> 1, attempt |-> 1, valid |-> <<>>, heard |-> <<>>,
           outcome |-> "none", taken |-> 0]

Ask(candidates) == call' = [NoCall EXCEPT !.rounds = candidates]

Asking == call.rounds > 0 /\ call.outcome = "none"

\* Mutant: of the best candidates the last is taken.
LastBest(c) ==
  CHOOSE i \in Range(c.valid) : \A j \in Range(c.valid) :
    \/ c.heard[i].score > c.heard[j].score
    \/ c.heard[i].score = c.heard[j].score /\ i >= j

\* The first after a stable sort by score, best score first.
Best(c) ==
  CHOOSE i \in Range(c.valid) : \A j \in Range(c.valid) :
    \/ c.heard[i].score > c.heard[j].score
    \/ c.heard[i].score = c.heard[j].score /\ i <= j

\* The next candidate is asked for, or the call decides.
EndRound(c) ==
  IF c.round < c.rounds THEN [c EXCEPT !.round = @ + 1, !.attempt = 1]
  ELSE IF c.valid = <<>> THEN [c EXCEPT !.outcome = "schema error"]
  ELSE [c EXCEPT !.outcome = "decided", !.taken = Best(c)]

\* Mutant: one retry too many.
HearOnceMore(answer) ==
  LET c == [call EXCEPT !.heard = Append(@, answer)]
  IN call' = CASE answer.kind = "raises" -> [c EXCEPT !.outcome = "raised"]
               [] answer.kind = "invalid" /\ c.attempt <= MaxSchemaRetries + 1 ->
                    [c EXCEPT !.attempt = @ + 1]
               [] answer.kind = "invalid" /\ c.attempt > MaxSchemaRetries + 1 -> EndRound(c)
               [] OTHER -> EndRound([c EXCEPT !.valid = Append(@, Len(c.heard))])

Hear(answer) ==
  LET c == [call EXCEPT !.heard = Append(@, answer)]
  IN call' = CASE answer.kind = "raises" -> [c EXCEPT !.outcome = "raised"]
               [] answer.kind = "invalid" /\ c.attempt <= MaxSchemaRetries ->
                    [c EXCEPT !.attempt = @ + 1]
               [] answer.kind = "invalid" /\ c.attempt > MaxSchemaRetries -> EndRound(c)
               [] OTHER -> EndRound([c EXCEPT !.valid = Append(@, Len(c.heard))])

AskStep == Asking /\ \E answer \in Answers : Hear(answer)

\* A call decides for the first of the best valid answers it was given, and ends in
\* a schema error only when it was given none in all its attempts.  A provider that
\* raises ends it at once: the valid candidates before are lost (divider.py:201).
BestIsTaken ==
  LET Valid == {i \in DOMAIN call.heard : call.heard[i].kind = "valid"}
  IN /\ call.outcome = "decided" =>
          /\ call.taken \in Valid
          /\ \A i \in Valid : LET a == call.heard[i].score
                                  b == call.heard[call.taken].score
                              IN a < b \/ (a = b /\ call.taken <= i)
     /\ call.outcome = "schema error" =>
          Valid = {} /\ Len(call.heard) = call.rounds * (MaxSchemaRetries + 1)
     /\ call.outcome = "raised" => call.heard[Len(call.heard)].kind = "raises"
=============================================================================
