---------------------------- MODULE PersonaChain -----------------------------
(***************************************************************************)
(* A base case's work: the personas of the run's chain, or the node's own, *)
(* execute the plan one after the other (_execute_base_case of             *)
(* services/executor.py), each step by step, with a second call that is    *)
(* told of the error when the first raises (services/worker.py).  Each     *)
(* persona's output is to be handed to the next.                           *)
(***************************************************************************)
EXTENDS Naturals, Sequences, SequencesExt

CONSTANTS
  Chains,    \* values of persona_chain
  MaxSteps   \* bound: steps of a plan

ASSUME ChainAssumption == Chains \subseteq Seq(STRING) \ {<<>>} /\ MaxSteps \in Nat \ {0}

VARIABLE work  \* chain, steps of the plan, persona, step, call, output handed on, events, result

NoWork == [chain |-> <<>>, steps |-> 0, persona |-> 1, step |-> 1, call |-> "first",
           prior |-> 0, events |-> <<>>, result |-> "none"]

Event(w, kind) == [persona |-> w.persona, step |-> w.step, kind |-> kind]

\* The first call of a step comes after its work.step_started.
Started(w) == [w EXCEPT !.call = "first", !.events = Append(@, Event(w, "started"))]

BeginWork(chains) == \E chain \in chains, n \in 1..MaxSteps :
  work' = Started([NoWork EXCEPT !.chain = chain, !.steps = n])

Working == work.steps > 0 /\ work.result = "none"

\* The output a persona leaves in the context, unless it has the name of the last.
HandedOn(w) == IF w.chain[w.persona] # Last(w.chain) THEN w.persona ELSE w.prior

\* A call has answered: the step is completed, the next one or the next persona starts.
StepCompleted ==
  LET w == [work EXCEPT !.events = Append(@, Event(work, "completed"))]
  IN work' = IF w.step < w.steps THEN Started([w EXCEPT !.step = @ + 1])
             ELSE IF w.persona < Len(w.chain)
             THEN Started([w EXCEPT !.persona = @ + 1, !.step = 1, !.prior = HandedOn(w)])
             ELSE [w EXCEPT !.result = "completed"]

\* Mutant: a step that fails twice leaves no event.
StepRaisesSilently ==
  work' = IF work.call = "first" THEN [work EXCEPT !.call = "heal"]
          ELSE [work EXCEPT !.result = "failed"]

\* A call raises: _self_heal tries once more, then the step, the persona and the
\* work fail.
StepRaises ==
  work' = IF work.call = "first" THEN [work EXCEPT !.call = "heal"]
          ELSE [work EXCEPT !.result = "failed", !.events = Append(@, Event(work, "failed"))]

WorkStep == Working /\ (StepCompleted \/ StepRaises)

\* Every step that the page was told has started is told to have ended before the
\* next starts, and work that is completed has had every step of every persona.
StepsArePaired ==
  LET Ended(i) == work.events[i].kind # "started"
  IN /\ \A i \in DOMAIN work.events : Ended(i) <=> i % 2 = 0
     /\ work.result = "none" \/ Len(work.events) % 2 = 0
     /\ work.result = "completed" =>
          Len(work.events) = 2 * work.steps * Len(work.chain)
=============================================================================
