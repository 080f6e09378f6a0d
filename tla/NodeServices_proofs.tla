------------------------ MODULE NodeServices_proofs -------------------------
(***************************************************************************)
(* What each service of a node promises, for any number of candidates,     *)
(* retries, personas, steps, children and tests.  A service's record is    *)
(* changed by the service's own steps only, so each has an invariant that  *)
(* is about its record alone.                                              *)
(***************************************************************************)
EXTENDS NodeServices, TLAPS, WellFoundedInduction, FiniteSetTheorems

(* Counting up: what can be said of a list is said of its beginnings first. *)

\* A set of numbers has a least one.
LEMMA Least ==
  ASSUME NEW T \in SUBSET Nat, T # {}
  PROVE  \E n \in T : \A m \in T : n <= m
<1> DEFINE Less == {x \in Nat \X Nat : x[1] < x[2]}
<1>1. IsWellFoundedOn(Less, Nat)
  <2>1. OpToRel(<, Nat) = Less
    BY DEF OpToRel
  <2> QED
    BY <2>1, NatLessThanWellFounded
<1>2. PICK n \in T : \A m \in T : <<m, n>> \notin Less
  BY <1>1, WFMin, Zenon
<1> QED
  <2>1. ASSUME NEW m \in T PROVE n <= m
    <3>1. <<m, n>> \in Nat \X Nat /\ ~ (<<m, n>>[1] < <<m, n>>[2])
      BY <1>2
    <3> QED
      BY <3>1
  <2> QED
    BY <2>1

\* The least member of a set of numbers is Min's.
LEMMA MinIsLeast ==
  ASSUME NEW T \in SUBSET Nat, T # {}
  PROVE  Min(T) \in T /\ \A m \in T : Min(T) <= m
BY Least DEF Min

\* The greatest member of a bounded set of numbers is Max's.
LEMMA MaxIsMember ==
  ASSUME NEW n \in Nat, NEW T \in SUBSET (0..n), T # {}
  PROVE  Max(T) \in T
<1> DEFINE Gaps == {n - x : x \in T}
<1>1. \A x \in T : x \in Nat /\ n - x \in Nat
  OBVIOUS
<1>2. Gaps \in SUBSET Nat /\ Gaps # {}
  BY <1>1
<1>3. PICK x \in T : \A h \in Gaps : n - x <= h
  BY <1>2, Least
<1>4. \A y \in T : n - x <= n - y
  BY <1>3
<1>5. \A y \in T : x >= y
  BY <1>1, <1>4
<1> QED
  BY <1>5 DEF Max

\* A set that has 0 and the successor of each of its members up to m has all of 0..m.
LEMMA CountingUp ==
  ASSUME NEW m \in Nat, NEW T, 0 \in T, \A n \in 0..m : n \in T /\ n < m => n + 1 \in T
  PROVE  0..m \subseteq T
<1> DEFINE Rest == (0..m) \ T
<1>1. SUFFICES ASSUME Rest # {} PROVE FALSE
  OBVIOUS
<1>2. PICK n \in Rest : \A k \in Rest : n <= k
  <2>1. Rest \in SUBSET Nat
    OBVIOUS
  <2> QED
    BY <1>1, <2>1, Least
<1>3. n # 0 /\ n - 1 \in 0..m /\ n - 1 \in T /\ n - 1 < m
  BY <1>2
<1> QED
  BY <1>2, <1>3
-----------------------------------------------------------------------------
(* The divider and the merger (SchemaRetries).                             *)

AttemptNumbers == 1..MaxSchemaRetries + 1

Calls == [rounds : Nat, round : Nat \ {0}, attempt : AttemptNumbers, valid : Seq(Nat),
          heard : Seq(Answers), outcome : {"none", "decided", "schema error", "raised"}, taken : Nat]

ValidOf(c) == {i \in DOMAIN c.heard : c.heard[i].kind = "valid"}

\* The i-th answer is taken rather than the j-th.
Preferred(heard, i, j) ==
  \/ heard[i].score > heard[j].score
  \/ heard[i].score = heard[j].score /\ i <= j

\* BestIsTaken, of a call.
Decides(c) ==
  /\ c.outcome = "decided" =>
       c.taken \in ValidOf(c) /\ \A i \in ValidOf(c) : Preferred(c.heard, c.taken, i)
  /\ c.outcome = "schema error" =>
       ValidOf(c) = {} /\ Len(c.heard) = c.rounds * (MaxSchemaRetries + 1)
  /\ c.outcome = "raised" => c.heard[Len(c.heard)].kind = "raises"

\* As long as no answer is valid, every round has used all its attempts.
Attempts(c) ==
  /\ c.round <= c.rounds \/ c = NoCall
  /\ c.outcome = "none" /\ c.valid = <<>> =>
       Len(c.heard) = (c.round - 1) * (MaxSchemaRetries + 1) + c.attempt - 1

CallIsRight(c) == c \in Calls /\ Range(c.valid) = ValidOf(c) /\ Attempts(c) /\ Decides(c)

CallInv == CallIsRight(call)

LEMMA AnswerFields ==
  ASSUME NEW a \in Answers
  PROVE  a.score \in Nat /\ a.kind \in {"valid", "invalid", "raises"}
<1>1. CASE a \in [kind : {"valid"}, score : Scores]
  <2>1. a.score \in Scores /\ a.kind = "valid"
    BY <1>1
  <2> QED
    BY <2>1, RetriesAssumption DEF RetriesAssumption
<1>2. CASE a \in [kind : {"invalid", "raises"}, score : {0}]
  BY <1>2
<1> QED
  BY <1>1, <1>2 DEF Answers

\* Of two answers one is preferred, and preference passes on.
LEMMA Preference ==
  ASSUME NEW heard, NEW i \in Nat, NEW j \in Nat, NEW k \in Nat,
         heard[i].score \in Nat, heard[j].score \in Nat, heard[k].score \in Nat
  PROVE  /\ Preferred(heard, i, j) \/ Preferred(heard, j, i)
         /\ Preferred(heard, i, j) /\ Preferred(heard, j, k) => Preferred(heard, i, k)
BY DEF Preferred

\* Of valid answers there is a best one, and Best is one.
LEMMA BestIsPreferred ==
  ASSUME NEW c \in Calls, Range(c.valid) = ValidOf(c), c.valid # <<>>
  PROVE  Best(c) \in ValidOf(c) /\ \A i \in ValidOf(c) : Preferred(c.heard, Best(c), i)
<1> DEFINE v == c.valid
           h == c.heard
           First(n) == \E k \in 1..n : \A l \in 1..n : Preferred(h, v[k], v[l])
           T == {n \in 0..Len(v) : n = 0 \/ First(n)}
<1>1. /\ v \in Seq(Nat) /\ Len(v) \in Nat \ {0} /\ DOMAIN v = 1..Len(v)
      /\ h \in Seq(Answers)
  <2>1. v \in Seq(Nat) /\ h \in Seq(Answers) /\ v # <<>>
    BY DEF Calls
  <2> QED
    BY <2>1
<1>2. \A i \in ValidOf(c) : i \in Nat /\ h[i].score \in Nat
  <2>1. \A i \in DOMAIN h : i \in Nat /\ h[i] \in Answers
    BY <1>1
  <2>2. \A a \in Answers : a.score \in Nat
    BY AnswerFields
  <2> QED
    BY <2>1, <2>2 DEF ValidOf
<1>3. \A k \in 1..Len(v) : v[k] \in ValidOf(c)
  BY <1>1 DEF Range
<1>4. \A k \in 1..Len(v) : v[k] \in Nat /\ h[v[k]].score \in Nat
  BY <1>2, <1>3
<1> HIDE DEF v, h
<1>5. \A n \in 0..Len(v) : n \in T /\ n < Len(v) => n + 1 \in T
  <2>1. SUFFICES ASSUME NEW n \in 0..Len(v), n \in T, n < Len(v)
                 PROVE  First(n + 1)
    <3>1. \A n \in 0..Len(v) : n < Len(v) => n + 1 \in 0..Len(v)
      BY <1>1
    <3> HIDE DEF First
    <3> QED
      BY <3>1
  <2>2. n + 1 \in 1..Len(v) /\ 1..n + 1 = 1..n \cup {n + 1}
    BY <1>1, <2>1
  <2>3. Preferred(h, v[n + 1], v[n + 1])
    BY <1>4, <2>2, Preference
  <2>4. CASE n = 0
    BY <2>2, <2>3, <2>4
  <2>5. CASE n # 0
    <3>1. PICK k \in 1..n : \A l \in 1..n : Preferred(h, v[k], v[l])
      BY <2>1, <2>5
    <3>2. k \in 1..Len(v) /\ \A l \in 1..n : l \in 1..Len(v)
      BY <1>1, <2>1
    <3>3. CASE Preferred(h, v[k], v[n + 1])
      BY <2>2, <3>1, <3>3
    <3>4. CASE ~ Preferred(h, v[k], v[n + 1])
      <4>1. Preferred(h, v[n + 1], v[k])
        BY <1>4, <2>2, <3>2, <3>4, Preference
      <4>2. \A l \in 1..n : Preferred(h, v[n + 1], v[l])
        BY <1>4, <2>2, <3>1, <3>2, <4>1, Preference
      <4> QED
        BY <2>2, <2>3, <4>2
    <3> QED
      BY <3>3, <3>4
  <2> QED
    BY <2>4, <2>5
<1>6. 0..Len(v) \subseteq T
  <2>1. 0 \in T
    BY <1>1
  <2> HIDE DEF T
  <2> QED
    BY <1>1, <1>5, <2>1, CountingUp
<1>7. PICK k \in 1..Len(v) : \A l \in 1..Len(v) : Preferred(h, v[k], v[l])
  BY <1>1, <1>6
<1>8. v[k] \in Range(v) /\ \A j \in Range(v) : Preferred(h, v[k], j)
  BY <1>1, <1>7 DEF Range
<1>9. Best(c) \in Range(v) /\ \A j \in Range(v) : Preferred(h, Best(c), j)
  BY <1>8 DEF Best, Preferred, v, h
<1> QED
  BY <1>9 DEF v, h

LEMMA CallFields ==
  ASSUME NEW c \in Calls
  PROVE  /\ c.rounds \in Nat /\ c.round \in Nat \ {0} /\ c.attempt \in AttemptNumbers
         /\ c.valid \in Seq(Nat) /\ c.heard \in Seq(Answers) /\ Len(c.heard) \in Nat
         /\ c.outcome \in {"none", "decided", "schema error", "raised"}
<1>1. /\ c.rounds \in Nat /\ c.round \in Nat \ {0} /\ c.attempt \in AttemptNumbers
      /\ c.valid \in Seq(Nat) /\ c.heard \in Seq(Answers)
      /\ c.outcome \in {"none", "decided", "schema error", "raised"}
  BY DEF Calls
<1>2. Len(c.heard) \in Nat
  <2>1. c.heard \in Seq(Answers)
    BY <1>1
  <2> QED
    BY <2>1
<1> QED
  BY <1>1, <1>2

LEMMA RangeOfAppend ==
  ASSUME NEW S, NEW es \in Seq(S), NEW e \in S
  PROVE  /\ Range(Append(es, e)) = Range(es) \cup {e} /\ Append(es, e) # <<>>
         /\ Append(es, e) \in Seq(S)
<1>1. /\ DOMAIN Append(es, e) = DOMAIN es \cup {Len(es) + 1} /\ Append(es, e)[Len(es) + 1] = e
      /\ \A i \in DOMAIN es : Append(es, e)[i] = es[i]
      /\ Append(es, e) \in Seq(S) /\ Append(es, e) # <<>>
  OBVIOUS
<1> QED
  BY <1>1 DEF Range

\* A call that has heard one more answer.
LEMMA HeardOneMore ==
  ASSUME NEW c \in Calls, NEW answer \in Answers
  PROVE  LET d == [c EXCEPT !.heard = Append(@, answer)]
         IN /\ d \in Calls /\ Len(d.heard) = Len(c.heard) + 1 /\ d.heard[Len(d.heard)] = answer
            /\ ValidOf(d) = ValidOf(c) \cup {i \in {Len(d.heard)} : answer.kind = "valid"}
<1> DEFINE h == c.heard
           d == [c EXCEPT !.heard = Append(@, answer)]
<1>0. h \in Seq(Answers) /\ Append(h, answer) \in Seq(Answers)
  <2>1. h \in Seq(Answers)
    BY CallFields
  <2> QED
    BY <2>1
<1>1. h \in Seq(Answers) /\ d \in Calls /\ d.heard = Append(h, answer)
  BY <1>0 DEF Calls
<1>2. /\ Len(d.heard) = Len(h) + 1 /\ DOMAIN d.heard = DOMAIN h \cup {Len(h) + 1}
      /\ d.heard[Len(h) + 1] = answer /\ \A i \in DOMAIN h : d.heard[i] = h[i]
  <2> HIDE DEF h, d
  <2> QED
    BY <1>1
<1> QED
  BY <1>1, <1>2 DEF ValidOf

\* A round that ends leaves the call right.
LEMMA RoundEnds ==
  ASSUME NEW c \in Calls, Range(c.valid) = ValidOf(c), c.outcome = "none", c.round <= c.rounds,
         c.valid = <<>> => Len(c.heard) = c.round * (MaxSchemaRetries + 1)
  PROVE  CallIsRight(EndRound(c))
<1>0. MaxSchemaRetries \in Nat /\ 1 \in AttemptNumbers
  BY RetriesAssumption DEF RetriesAssumption, AttemptNumbers
<1>1. /\ c.rounds \in Nat /\ c.round \in Nat \ {0} /\ c.attempt \in AttemptNumbers
      /\ c.valid \in Seq(Nat) /\ c.heard \in Seq(Answers) /\ Len(c.heard) \in Nat
  BY CallFields
<1>2. CASE c.round < c.rounds
  <2> DEFINE d == [c EXCEPT !.round = @ + 1, !.attempt = 1]
  <2>1. d \in Calls
    <3>1. c.round + 1 \in Nat \ {0}
      BY <1>1
    <3> QED
      BY <1>0, <3>1 DEF Calls
  <2>2. /\ d.round = c.round + 1 /\ d.attempt = 1 /\ d.heard = c.heard /\ d.valid = c.valid
        /\ d.outcome = "none" /\ d.rounds = c.rounds
    BY DEF Calls
  <2>3. EndRound(c) = d
    BY <1>2 DEF EndRound
  <2> HIDE DEF d
  <2>4. c.valid = <<>> => Len(d.heard) = (d.round - 1) * (MaxSchemaRetries + 1) + d.attempt - 1
    BY <1>0, <1>1, <2>2
  <2>5. Attempts(d)
    BY <1>1, <1>2, <2>2, <2>4 DEF Attempts
  <2> QED
    BY <2>1, <2>2, <2>3, <2>5 DEF CallIsRight, ValidOf, Decides
<1>3. CASE ~ (c.round < c.rounds) /\ c.valid = <<>>
  <2> DEFINE d == [c EXCEPT !.outcome = "schema error"]
  <2>1. d \in Calls
    BY DEF Calls
  <2>2. /\ d.round = c.round /\ d.heard = c.heard /\ d.valid = c.valid
        /\ d.outcome = "schema error" /\ d.rounds = c.rounds
    BY DEF Calls
  <2>3. EndRound(c) = d
    BY <1>3 DEF EndRound
  <2> HIDE DEF d
  <2>4. c.round = c.rounds
    BY <1>1, <1>3
  <2>5. ValidOf(c) = {}
    BY <1>3 DEF Range
  <2>6. ValidOf(d) = ValidOf(c)
    BY <2>2 DEF ValidOf
  <2>7. Attempts(d) /\ Decides(d)
    BY <1>1, <1>3, <2>2, <2>4, <2>5, <2>6 DEF Attempts, Decides
  <2> QED
    BY <2>1, <2>2, <2>3, <2>6, <2>7 DEF CallIsRight
<1>4. CASE ~ (c.round < c.rounds) /\ c.valid # <<>>
  <2> DEFINE d == [c EXCEPT !.outcome = "decided", !.taken = Best(c)]
  <2>1. Best(c) \in ValidOf(c) /\ \A i \in ValidOf(c) : Preferred(c.heard, Best(c), i)
    BY <1>4, BestIsPreferred
  <2>2. Best(c) \in Nat
    BY <1>1, <2>1 DEF ValidOf
  <2>3. d \in Calls
    BY <2>2 DEF Calls
  <2>4. /\ d.round = c.round /\ d.heard = c.heard /\ d.valid = c.valid
        /\ d.outcome = "decided" /\ d.rounds = c.rounds /\ d.taken = Best(c)
    BY DEF Calls
  <2>5. EndRound(c) = d
    BY <1>4 DEF EndRound
  <2> HIDE DEF d
  <2>6. ValidOf(d) = ValidOf(c)
    BY <2>4 DEF ValidOf
  <2>7. Decides(d)
    BY <2>1, <2>4, <2>6 DEF Decides
  <2>8. Attempts(d)
    BY <2>4 DEF Attempts
  <2> QED
    BY <2>3, <2>4, <2>5, <2>6, <2>7, <2>8 DEF CallIsRight
<1> QED
  BY <1>2, <1>3, <1>4

\* An answer of the model leaves the call right.
LEMMA CallHears ==
  ASSUME CallInv, AskStep
  PROVE  CallInv'
<1>1. PICK answer \in Answers : Hear(answer)
  BY DEF AskStep
<1> DEFINE M == MaxSchemaRetries + 1
           c == [call EXCEPT !.heard = Append(@, answer)]
<1>2. /\ call \in Calls /\ call.outcome = "none" /\ call.rounds > 0
      /\ Range(call.valid) = ValidOf(call)
      /\ call.rounds \in Nat /\ call.round \in Nat \ {0} /\ call.attempt \in 1..M
      /\ call.valid \in Seq(Nat) /\ call.heard \in Seq(Answers) /\ Len(call.heard) \in Nat
  BY CallFields DEF CallInv, CallIsRight, AskStep, Asking, AttemptNumbers
<1>3. /\ call.round <= call.rounds
      /\ call.valid = <<>> => Len(call.heard) = (call.round - 1) * M + call.attempt - 1
  <2>1. call # NoCall
    BY <1>2 DEF NoCall
  <2> QED
    BY <1>2, <2>1 DEF CallInv, CallIsRight, Attempts
<1>4. /\ c \in Calls /\ Len(c.heard) = Len(call.heard) + 1 /\ c.heard[Len(c.heard)] = answer
      /\ ValidOf(c) = ValidOf(call) \cup {i \in {Len(c.heard)} : answer.kind = "valid"}
  BY <1>2, HeardOneMore
<1>5. /\ c.rounds = call.rounds /\ c.round = call.round /\ c.attempt = call.attempt
      /\ c.valid = call.valid /\ c.outcome = call.outcome
  BY <1>2 DEF Calls
<1>7. MaxSchemaRetries \in Nat
  BY RetriesAssumption DEF RetriesAssumption
<1>6. /\ answer.kind = "raises" => call' = [c EXCEPT !.outcome = "raised"]
      /\ answer.kind = "invalid" /\ c.attempt <= MaxSchemaRetries =>
           call' = [c EXCEPT !.attempt = @ + 1]
      /\ answer.kind = "invalid" /\ c.attempt > MaxSchemaRetries => call' = EndRound(c)
      /\ answer.kind = "valid" => call' = EndRound([c EXCEPT !.valid = Append(@, Len(c.heard))])
  <2>1. call' = CASE answer.kind = "raises" -> [c EXCEPT !.outcome = "raised"]
                  [] answer.kind = "invalid" /\ c.attempt <= MaxSchemaRetries ->
                       [c EXCEPT !.attempt = @ + 1]
                  [] answer.kind = "invalid" /\ c.attempt > MaxSchemaRetries -> EndRound(c)
                  [] OTHER -> EndRound([c EXCEPT !.valid = Append(@, Len(c.heard))])
    BY <1>1 DEF Hear
  <2> HIDE DEF c
  <2> DEFINE raised == [c EXCEPT !.outcome = "raised"]
             again  == [c EXCEPT !.attempt = @ + 1]
             ended  == EndRound(c)
             chosen == EndRound([c EXCEPT !.valid = Append(@, Len(c.heard))])
  <2>2. call' = CASE answer.kind = "raises" -> raised
                  [] answer.kind = "invalid" /\ c.attempt <= MaxSchemaRetries -> again
                  [] answer.kind = "invalid" /\ c.attempt > MaxSchemaRetries -> ended
                  [] OTHER -> chosen
    BY <2>1
  <2> HIDE DEF raised, again, ended, chosen
  <2>3. /\ answer.kind = "raises" => call' = raised
        /\ answer.kind = "invalid" /\ c.attempt <= MaxSchemaRetries => call' = again
        /\ answer.kind = "invalid" /\ c.attempt > MaxSchemaRetries => call' = ended
        /\ answer.kind = "valid" => call' = chosen
    <3>1. c.attempt > MaxSchemaRetries => ~ (c.attempt <= MaxSchemaRetries)
      BY <1>2, <1>5, <1>7
    <3> QED
      BY <2>2, <3>1
  <2> QED
    BY <2>3 DEF raised, again, ended, chosen
<1> HIDE DEF c
<1>8. CASE answer.kind = "raises"
  <2> DEFINE d == [c EXCEPT !.outcome = "raised"]
  <2>1. call' = d
    BY <1>6, <1>8
  <2>2. d \in Calls
    BY <1>4 DEF Calls
  <2>3. /\ d.round = c.round /\ d.rounds = c.rounds /\ d.heard = c.heard /\ d.valid = c.valid
        /\ d.outcome = "raised"
    BY <1>4 DEF Calls
  <2> HIDE DEF d
  <2>4. ValidOf(d) = ValidOf(c) /\ ValidOf(c) = ValidOf(call)
    BY <1>4, <1>8, <2>3 DEF ValidOf
  <2>5. Attempts(d) /\ Decides(d)
    BY <1>3, <1>4, <1>5, <1>8, <2>3 DEF Attempts, Decides
  <2> QED
    BY <1>2, <1>5, <2>1, <2>2, <2>3, <2>4, <2>5 DEF CallInv, CallIsRight
<1>9. CASE answer.kind = "invalid" /\ c.attempt <= MaxSchemaRetries
  <2> DEFINE d == [c EXCEPT !.attempt = @ + 1]
  <2>1. call' = d
    BY <1>6, <1>9, Zenon
  <2>2. d \in Calls
    <3>1. c.attempt + 1 \in AttemptNumbers
      BY <1>2, <1>5, <1>7, <1>9 DEF AttemptNumbers
    <3> QED
      BY <1>4, <3>1 DEF Calls
  <2>3. /\ d.round = c.round /\ d.rounds = c.rounds /\ d.heard = c.heard /\ d.valid = c.valid
        /\ d.outcome = "none" /\ d.attempt = c.attempt + 1
    BY <1>2, <1>4, <1>5 DEF Calls
  <2> HIDE DEF d
  <2>4. ValidOf(d) = ValidOf(c) /\ ValidOf(c) = ValidOf(call)
    BY <1>4, <1>9, <2>3 DEF ValidOf
  <2>5. d.valid = <<>> => Len(d.heard) = (d.round - 1) * M + d.attempt - 1
    <3> DEFINE used == (call.round - 1) * M
    <3>1. used \in Int
      BY <1>2, <1>7
    <3>2. d.valid = <<>> => Len(call.heard) = used + call.attempt - 1
      BY <1>3, <1>5, <2>3
    <3>3. (d.round - 1) * M = used
      BY <1>5, <2>3
    <3>4. call.attempt \in Int /\ Len(call.heard) \in Int
      BY <1>2, <1>7
    <3>5. Len(d.heard) = Len(call.heard) + 1 /\ d.attempt = call.attempt + 1
      BY <1>4, <1>5, <2>3
    <3> HIDE DEF used
    <3>6. d.valid = <<>> => Len(d.heard) = used + d.attempt - 1
      BY <3>1, <3>2, <3>4, <3>5
    <3> QED
      BY <3>3, <3>6, Zenon
  <2>6. Attempts(d) /\ Decides(d)
    BY <1>3, <1>5, <2>3, <2>5 DEF Attempts, Decides
  <2> QED
    BY <1>2, <1>5, <2>1, <2>2, <2>3, <2>4, <2>6 DEF CallInv, CallIsRight
<1>10. CASE answer.kind = "invalid" /\ c.attempt > MaxSchemaRetries
  <2>1. call' = EndRound(c)
    BY <1>6, <1>10
  <2>2. ValidOf(c) = ValidOf(call)
    BY <1>4, <1>10
  <2>3. call.attempt = M
    BY <1>2, <1>5, <1>7, <1>10
  <2>4. c.valid = <<>> => Len(c.heard) = c.round * M
    <3>1. (call.round - 1) * M + M = call.round * M
      BY <1>2, <1>7
    <3>2. (call.round - 1) * M \in Int /\ M \in Int
      BY <1>2, <1>7
    <3> DEFINE used == (call.round - 1) * M
    <3>3. c.valid = <<>> => Len(call.heard) = used + M - 1
      BY <1>3, <1>5, <2>3
    <3>4. used \in Int /\ used + M = c.round * M
      BY <1>5, <3>1, <3>2
    <3> HIDE DEF used, M
    <3> QED
      BY <1>2, <1>4, <3>2, <3>3, <3>4
  <2> QED
    BY <1>2, <1>3, <1>4, <1>5, <2>1, <2>2, <2>4, RoundEnds DEF CallInv
<1>11. CASE answer.kind = "valid"
  <2> DEFINE d == [c EXCEPT !.valid = Append(@, Len(c.heard))]
  <2>1. call' = EndRound(d)
    BY <1>6, <1>11
  <2>2. Len(c.heard) \in Nat
    BY <1>2, <1>4
  <2>3. d \in Calls
    <3>1. Append(c.valid, Len(c.heard)) \in Seq(Nat)
      BY <1>2, <1>5, <2>2
    <3> QED
      BY <1>4, <3>1 DEF Calls
  <2>4. /\ d.round = c.round /\ d.rounds = c.rounds /\ d.heard = c.heard
        /\ d.valid = Append(call.valid, Len(c.heard)) /\ d.outcome = "none"
    BY <1>2, <1>4, <1>5 DEF Calls
  <2> HIDE DEF d
  <2>5. Range(d.valid) = Range(call.valid) \cup {Len(c.heard)} /\ d.valid # <<>>
    <3>1. call.valid \in Seq(Nat)
      BY <1>2
    <3>2. /\ Range(Append(call.valid, Len(c.heard))) = Range(call.valid) \cup {Len(c.heard)}
          /\ Append(call.valid, Len(c.heard)) # <<>>
      BY <2>2, <3>1, RangeOfAppend
    <3> QED
      BY <2>4, <3>2
  <2>6. ValidOf(d) = ValidOf(call) \cup {Len(c.heard)}
    BY <1>4, <1>11, <2>4 DEF ValidOf
  <2> QED
    BY <1>2, <1>3, <1>5, <2>1, <2>3, <2>4, <2>5, <2>6, RoundEnds DEF CallInv
<1>12. c.attempt <= MaxSchemaRetries \/ c.attempt > MaxSchemaRetries
  BY <1>2, <1>5, <1>7
<1> QED
  BY <1>8, <1>9, <1>10, <1>11, <1>12, AnswerFields

\* A call that begins, and none.
LEMMA CallBegins ==
  /\ CallIsRight(NoCall)
  /\ \A n \in Nat \ {0} : CallIsRight([NoCall EXCEPT !.rounds = n])
<1>0. MaxSchemaRetries \in Nat /\ 1 \in AttemptNumbers
  BY RetriesAssumption DEF RetriesAssumption, AttemptNumbers
<1>1. ASSUME NEW n \in Nat PROVE LET c == [NoCall EXCEPT !.rounds = n]
        IN /\ c \in Calls /\ Range(c.valid) = ValidOf(c) /\ Decides(c)
           /\ Attempts(c) \/ ~ (c.round <= n)
  <2> DEFINE c == [NoCall EXCEPT !.rounds = n]
  <2>1. c \in Calls
    <3>1. c = [rounds |-> n, round |-> 1, attempt |-> 1, valid |-> <<>>, heard |-> <<>>,
               outcome |-> "none", taken |-> 0]
      BY DEF NoCall
    <3>2. <<>> \in Seq(Nat) /\ <<>> \in Seq(Answers) /\ 1 \in Nat \ {0}
      OBVIOUS
    <3> HIDE DEF c
    <3> QED
      BY <1>0, <3>1, <3>2 DEF Calls
  <2>2. /\ c.valid = <<>> /\ c.heard = <<>> /\ c.outcome = "none" /\ c.round = 1 /\ c.attempt = 1
        /\ c.rounds = n
    BY DEF NoCall
  <2> HIDE DEF c
  <2>3. Range(c.valid) = {} /\ ValidOf(c) = {}
    BY <2>2 DEF Range, ValidOf
  <2>4. Len(c.heard) = (c.round - 1) * (MaxSchemaRetries + 1) + c.attempt - 1
    BY <1>0, <2>2
  <2> QED
    BY <2>1, <2>2, <2>3, <2>4 DEF c, Decides, Attempts
<1>2. CallIsRight(NoCall)
  <2>1. NoCall = [NoCall EXCEPT !.rounds = 0]
    BY DEF NoCall
  <2>2. NoCall.valid = <<>> /\ NoCall.heard = <<>> /\ NoCall.round = 1 /\ NoCall.attempt = 1
    BY DEF NoCall
  <2>3. Attempts(NoCall)
    BY <1>0, <2>2 DEF Attempts
  <2> QED
    BY <1>1, <2>1, <2>3 DEF CallIsRight
<1>3. ASSUME NEW n \in Nat \ {0} PROVE CallIsRight([NoCall EXCEPT !.rounds = n])
  <2>1. [NoCall EXCEPT !.rounds = n].round = 1 /\ 1 <= n
    BY DEF NoCall
  <2> QED
    BY <1>1, <2>1 DEF CallIsRight
<1> QED
  BY <1>2, <1>3
-----------------------------------------------------------------------------
(* The personas (PersonaChain).                                            *)

EventRecords == [persona : Nat, step : Nat, kind : {"started", "completed", "failed"}]

Works == [chain : Chains \cup Own \cup {<<>>}, steps : Nat, persona : Nat \ {0}, step : Nat \ {0},
          call : {"first", "heal"}, prior : Nat, events : Seq(EventRecords),
          result : {"none", "completed", "failed"}]

\* Events come in pairs, but for the first of the step at work.
Paired(events) == \A i \in DOMAIN events : events[i].kind # "started" <=> i % 2 = 0

\* The work has come to a step of a persona's, and told of all steps before.
Reached(w) ==
  /\ w.steps = 0 => w = NoWork
  /\ w.steps > 0 /\ w.result = "none" =>
       /\ w.chain # <<>> /\ w.persona <= Len(w.chain) /\ w.step <= w.steps
       /\ Len(w.events) = 2 * ((w.persona - 1) * w.steps + w.step) - 1
  /\ w.result # "none" => Len(w.events) % 2 = 0
  /\ w.result = "completed" => Len(w.events) = 2 * w.steps * Len(w.chain)

WorkIsRight(w) == w \in Works /\ Paired(w.events) /\ Reached(w)

WorkInv == WorkIsRight(work)

Personas == STRING \cup {"own"}

LEMMA ChainType == \A chain \in Chains \cup Own : chain \in Seq(Personas) /\ chain # <<>>
<1>1. ASSUME NEW S, NEW name \in S PROVE <<name>> \in Seq(S) /\ <<name>> # <<>>
  OBVIOUS
<1>2. \A chain \in Own : chain \in Seq(Personas) /\ chain # <<>>
  <2>1. "own" \in Personas
    BY DEF Personas
  <2> QED
    BY <1>1, <2>1, Zenon DEF Own
<1>3. \A chain \in Chains : chain \in Seq(Personas) /\ chain # <<>>
  BY ChainAssumption DEF ChainAssumption, Personas
<1> QED
  BY <1>2, <1>3

LEMMA WorkFields ==
  ASSUME NEW w \in Works
  PROVE  /\ w.steps \in Nat /\ w.persona \in Nat \ {0} /\ w.step \in Nat \ {0} /\ w.prior \in Nat
         /\ w.events \in Seq(EventRecords) /\ Len(w.events) \in Nat
         /\ w.chain \in Seq(Personas) /\ Len(w.chain) \in Nat
         /\ w.result \in {"none", "completed", "failed"}
<1>1. /\ w.steps \in Nat /\ w.persona \in Nat \ {0} /\ w.step \in Nat \ {0} /\ w.prior \in Nat
      /\ w.events \in Seq(EventRecords) /\ w.chain \in Chains \cup Own \cup {<<>>}
      /\ w.result \in {"none", "completed", "failed"}
  BY DEF Works
<1>2. w.chain \in Seq(Personas)
  <2>1. <<>> \in Seq(Personas)
    OBVIOUS
  <2> QED
    BY <1>1, <2>1, ChainType
<1>3. Len(w.chain) \in Nat
  BY <1>2
<1>4. Len(w.events) \in Nat
  <2>1. w.events \in Seq(EventRecords)
    BY <1>1
  <2> QED
    BY <2>1
<1> QED
  BY <1>1, <1>2, <1>3, <1>4

\* One more event is told.
LEMMA EventTold ==
  ASSUME NEW w \in Works, NEW kind \in {"started", "completed", "failed"}, Paired(w.events),
         kind # "started" <=> (Len(w.events) + 1) % 2 = 0
  PROVE  LET d == [w EXCEPT !.events = Append(@, Event(w, kind))]
         IN /\ d \in Works /\ Len(d.events) = Len(w.events) + 1 /\ Paired(d.events)
            /\ d.chain = w.chain /\ d.steps = w.steps /\ d.persona = w.persona
            /\ d.step = w.step /\ d.call = w.call /\ d.prior = w.prior /\ d.result = w.result
<1> DEFINE es == w.events
           e  == Event(w, kind)
           d  == [w EXCEPT !.events = Append(@, e)]
<1>1. es \in Seq(EventRecords) /\ e \in EventRecords /\ e.kind = kind
  BY WorkFields DEF Event, EventRecords
<1>2. /\ Append(es, e) \in Seq(EventRecords) /\ Len(Append(es, e)) = Len(es) + 1
      /\ DOMAIN Append(es, e) = DOMAIN es \cup {Len(es) + 1}
      /\ Append(es, e)[Len(es) + 1] = e /\ \A i \in DOMAIN es : Append(es, e)[i] = es[i]
  <2> HIDE DEF es, e
  <2> QED
    BY <1>1
<1>3. /\ d \in Works /\ d.events = Append(es, e)
      /\ d.chain = w.chain /\ d.steps = w.steps /\ d.persona = w.persona
      /\ d.step = w.step /\ d.call = w.call /\ d.prior = w.prior /\ d.result = w.result
  <2> HIDE DEF e
  <2> QED
    BY <1>2 DEF Works
<1>4. Paired(Append(es, e))
  <2> HIDE DEF e, es
  <2>1. \A i \in DOMAIN es : es[i].kind # "started" <=> i % 2 = 0
    BY DEF Paired, es
  <2>2. kind # "started" <=> (Len(es) + 1) % 2 = 0
    BY DEF es
  <2>3. ASSUME NEW i \in DOMAIN Append(es, e)
        PROVE  Append(es, e)[i].kind # "started" <=> i % 2 = 0
    <3>1. CASE i \in DOMAIN es
      BY <1>2, <2>1, <3>1
    <3>2. CASE i = Len(es) + 1
      BY <1>1, <1>2, <2>2, <3>2, Zenon
    <3> QED
      BY <1>2, <2>3, <3>1, <3>2
  <2> QED
    BY <2>3 DEF Paired
<1> QED
  BY <1>2, <1>3, <1>4

\* A step of a persona starts: as many steps as there are before it have been told of.
LEMMA StepStarts ==
  ASSUME NEW w \in Works, Paired(w.events), w.steps > 0, w.result = "none", w.chain # <<>>,
         w.persona <= Len(w.chain), w.step <= w.steps,
         Len(w.events) = 2 * ((w.persona - 1) * w.steps + w.step - 1)
  PROVE  WorkIsRight(Started(w))
<1> DEFINE v == [w EXCEPT !.call = "first"]
           d == [v EXCEPT !.events = Append(@, Event(v, "started"))]
           before == (w.persona - 1) * w.steps
<1>1. /\ v \in Works /\ v.events = w.events /\ v.chain = w.chain /\ v.steps = w.steps
      /\ v.persona = w.persona /\ v.step = w.step /\ v.prior = w.prior /\ v.result = w.result
  BY DEF Works
<1>2. Started(w) = d
  BY <1>1 DEF Started, Event, Works
<1>3. before \in Nat /\ w.step \in Nat /\ Len(w.events) \in Nat
  <2>1. w.persona - 1 \in Nat /\ w.steps \in Nat /\ w.step \in Nat /\ Len(w.events) \in Nat
    BY WorkFields
  <2>2. \A a, b \in Nat : a * b \in Nat
    OBVIOUS
  <2> QED
    BY <2>1, <2>2
<1>4. Len(w.events) = 2 * (before + w.step - 1)
  OBVIOUS
<1> HIDE DEF v, before
<1>5. (Len(w.events) + 1) % 2 # 0
  BY <1>3, <1>4
<1>6. /\ d \in Works /\ Len(d.events) = Len(w.events) + 1 /\ Paired(d.events)
      /\ d.chain = w.chain /\ d.steps = w.steps /\ d.persona = w.persona
      /\ d.step = w.step /\ d.prior = w.prior /\ d.result = w.result
  <2>1. v \in Works /\ Paired(v.events) /\ Len(v.events) = Len(w.events)
    BY <1>1
  <2>2. "started" # "started" <=> (Len(v.events) + 1) % 2 = 0
    BY <1>5, <2>1
  <2>3. /\ d \in Works /\ Len(d.events) = Len(v.events) + 1 /\ Paired(d.events)
        /\ d.chain = v.chain /\ d.steps = v.steps /\ d.persona = v.persona
        /\ d.step = v.step /\ d.prior = v.prior /\ d.result = v.result
    BY <2>1, <2>2, EventTold
  <2> QED
    BY <1>1, <2>1, <2>3
<1> HIDE DEF d
<1>7. Len(d.events) = 2 * (before + w.step) - 1
  BY <1>3, <1>4, <1>6
<1>8. Reached(d)
  <2>1. d.steps > 0 /\ d.result = "none" /\ d.chain # <<>> /\ d.step <= d.steps
    BY <1>6
  <2>2. Len(d.events) = 2 * ((d.persona - 1) * d.steps + d.step) - 1
    BY <1>6, <1>7 DEF before
  <2>3. d.steps # 0
    BY <1>6, WorkFields
  <2> QED
    BY <1>6, <2>1, <2>2, <2>3 DEF Reached
<1> QED
  BY <1>2, <1>6, <1>8 DEF WorkIsRight

\* Work begins with the first step of the first persona.
LEMMA WorkBegins ==
  /\ WorkIsRight(NoWork)
  /\ \A chains : chains \in {Chains, Own} /\ BeginWork(chains) => WorkIsRight(work')
<1>1. NoWork \in Works
  <2>1. <<>> \in Seq(EventRecords) /\ 1 \in Nat \ {0} /\ 0 \in Nat
    OBVIOUS
  <2> QED
    BY <2>1 DEF NoWork, Works
<1>2. WorkIsRight(NoWork)
  BY <1>1 DEF WorkIsRight, NoWork, Paired, Reached
<1>3. ASSUME NEW chains \in {Chains, Own}, BeginWork(chains) PROVE WorkIsRight(work')
  <2>1. PICK chain \in chains, n \in 1..MaxSteps :
          work' = Started([NoWork EXCEPT !.chain = chain, !.steps = n])
    BY <1>3 DEF BeginWork
  <2> DEFINE w == [NoWork EXCEPT !.chain = chain, !.steps = n]
  <2>2. n \in Nat /\ n > 0
    BY ChainAssumption DEF ChainAssumption
  <2>3. chain \in Seq(Personas) /\ chain # <<>>
    BY <1>3, ChainType
  <2>4. w \in Works
    BY <1>1, <1>3, <2>2 DEF Works
  <2>5. /\ w.events = <<>> /\ w.steps = n /\ w.chain = chain /\ w.persona = 1 /\ w.step = 1
        /\ w.result = "none" /\ w.prior = 0
    BY DEF NoWork
  <2> HIDE DEF w
  <2>6. Paired(w.events)
    BY <2>5 DEF Paired
  <2>7. Len(w.events) = 2 * ((w.persona - 1) * w.steps + w.step - 1) /\ w.steps > 0
        /\ w.chain # <<>> /\ w.persona <= Len(w.chain) /\ w.step <= w.steps /\ ~ (w.persona > 1)
    BY <2>2, <2>3, <2>5
  <2>8. WorkIsRight(Started(w))
    BY <2>4, <2>5, <2>6, <2>7, StepStarts
  <2> QED
    BY <2>1, <2>8 DEF w
<1> QED
  BY <1>2, <1>3

\* A call of a persona leaves the work right.
LEMMA WorkGoesOn ==
  ASSUME WorkInv, WorkStep
  PROVE  WorkInv'
<1> DEFINE before == (work.persona - 1) * work.steps
<1>1. /\ work \in Works /\ Paired(work.events) /\ work.steps > 0 /\ work.result = "none"
      /\ work.chain # <<>> /\ work.persona <= Len(work.chain) /\ work.step <= work.steps
      /\ Len(work.events) = 2 * (before + work.step) - 1
  BY DEF WorkInv, WorkIsRight, Reached, WorkStep, Working
<1>2. /\ before \in Nat /\ work.step \in Nat \ {0} /\ work.steps \in Nat
      /\ work.persona \in Nat \ {0} /\ Len(work.events) \in Nat /\ Len(work.chain) \in Nat
      /\ work.prior \in Nat
  <2>1. /\ work.persona - 1 \in Nat /\ work.steps \in Nat /\ work.step \in Nat \ {0}
        /\ work.persona \in Nat \ {0} /\ Len(work.events) \in Nat /\ Len(work.chain) \in Nat
        /\ work.prior \in Nat
    BY <1>1, WorkFields
  <2>2. \A a, b \in Nat : a * b \in Nat
    OBVIOUS
  <2> QED
    BY <2>1, <2>2
<1>3. before + work.steps = work.persona * work.steps
  <2>1. ASSUME NEW a \in Int, NEW b \in Int PROVE (a - 1) * b + b = a * b
    OBVIOUS
  <2>2. work.persona \in Int /\ work.steps \in Int
    BY <1>2
  <2> QED
    BY <2>1, <2>2, Zenon
<1> HIDE DEF before
<1>8. /\ work.persona <= Len(work.chain) /\ work.step <= work.steps /\ work.steps > 0
      /\ Len(work.events) = 2 * (before + work.step) - 1
  BY <1>1
<1>4. (Len(work.events) + 1) % 2 = 0
  BY <1>1, <1>2
<1>5. CASE StepCompleted
  <2> DEFINE w == [work EXCEPT !.events = Append(@, Event(work, "completed"))]
  <2>1. /\ w \in Works /\ Len(w.events) = Len(work.events) + 1 /\ Paired(w.events)
        /\ w.chain = work.chain /\ w.steps = work.steps /\ w.persona = work.persona
        /\ w.step = work.step /\ w.prior = work.prior /\ w.result = work.result
    <3>1. "completed" # "started" <=> (Len(work.events) + 1) % 2 = 0
      BY <1>4
    <3> QED
      BY <1>1, <3>1, EventTold
  <2>2. work' = IF w.step < w.steps THEN Started([w EXCEPT !.step = @ + 1])
                ELSE IF w.persona < Len(w.chain)
                THEN Started([w EXCEPT !.persona = @ + 1, !.step = 1, !.prior = HandedOn(w)])
                ELSE [w EXCEPT !.result = "completed"]
    BY <1>5 DEF StepCompleted
  <2> HIDE DEF w
  <2>6. /\ Len(w.events) = 2 * (before + w.step) /\ w.step <= w.steps /\ w.steps > 0
        /\ w.persona <= Len(w.chain) /\ w.step \in Nat /\ w.steps \in Nat
        /\ w.persona \in Nat /\ Len(w.chain) \in Nat
    <3>1. /\ Len(w.events) = Len(work.events) + 1 /\ w.chain = work.chain
          /\ w.steps = work.steps /\ w.persona = work.persona /\ w.step = work.step
      BY <2>1
    <3> QED
      BY <1>2, <1>8, <3>1
  <2>3. CASE w.step < w.steps
    <3> DEFINE v == [w EXCEPT !.step = @ + 1]
    <3>1. work' = Started(v)
      BY <2>2, <2>3
    <3>2. w.step + 1 \in Nat \ {0}
      BY <1>2, <2>1
    <3>3. /\ v \in Works /\ v.events = w.events /\ v.chain = w.chain /\ v.steps = w.steps
          /\ v.persona = w.persona /\ v.step = w.step + 1 /\ v.prior = w.prior
          /\ v.result = w.result
      BY <2>1, <3>2 DEF Works
    <3> HIDE DEF v
    <3>4. v.step <= v.steps /\ Len(v.events) = 2 * (before + v.step - 1)
      <4>1. v.step = w.step + 1 /\ v.steps = w.steps /\ Len(v.events) = Len(w.events)
        BY <3>3
      <4>2. before \in Nat
        BY <1>2
      <4>3. v.step <= v.steps
        BY <2>3, <2>6, <4>1
      <4>4. before + v.step - 1 = before + w.step
        BY <2>6, <4>1, <4>2
      <4> QED
        BY <2>6, <4>1, <4>3, <4>4
    <3>5. Len(v.events) = 2 * ((v.persona - 1) * v.steps + v.step - 1)
      BY <2>1, <3>3, <3>4 DEF before
    <3>6. WorkIsRight(Started(v))
      BY <1>1, <2>1, <3>3, <3>4, <3>5, StepStarts
    <3> QED
      BY <3>1, <3>6 DEF WorkInv
  <2>4. CASE ~ (w.step < w.steps) /\ w.persona < Len(w.chain)
    <3> DEFINE v == [w EXCEPT !.persona = @ + 1, !.step = 1, !.prior = HandedOn(w)]
    <3>1. work' = Started(v)
      BY <2>2, <2>4
    <3>2. w.persona + 1 \in Nat \ {0} /\ 1 \in Nat \ {0} /\ HandedOn(w) \in Nat
      BY <1>2, <2>1 DEF HandedOn
    <3>3. /\ v \in Works /\ v.events = w.events /\ v.chain = w.chain /\ v.steps = w.steps
          /\ v.persona = w.persona + 1 /\ v.step = 1 /\ v.prior = HandedOn(w)
          /\ v.result = w.result
      <4> HIDE DEF HandedOn
      <4> QED
        BY <2>1, <3>2 DEF Works
    <3> HIDE DEF v
    <3>4. w.step = w.steps
      BY <2>4, <2>6
    <3>5. Len(v.events) = 2 * (before + work.steps)
      BY <2>1, <2>6, <3>3, <3>4
    <3>6. v.persona - 1 = work.persona /\ v.persona <= Len(v.chain)
      BY <1>2, <2>1, <2>4, <3>3
    <3>7. Len(v.events) = 2 * ((v.persona - 1) * v.steps + v.step - 1)
      <4>1. Len(v.events) = 2 * (work.persona * work.steps)
        BY <1>3, <3>5
      <4>2. work.persona * work.steps \in Int
        BY <1>2
      <4>3. (v.persona - 1) * v.steps = work.persona * work.steps
        BY <2>1, <3>3, <3>6
      <4> QED
        BY <3>3, <4>1, <4>2, <4>3
    <3>8. v.step <= v.steps
      BY <1>1, <1>2, <2>1, <3>3
    <3>9. WorkIsRight(Started(v))
      BY <1>1, <2>1, <3>3, <3>6, <3>7, <3>8, StepStarts
    <3> QED
      BY <3>1, <3>9 DEF WorkInv
  <2>5. CASE ~ (w.step < w.steps) /\ ~ (w.persona < Len(w.chain))
    <3> DEFINE v == [w EXCEPT !.result = "completed"]
    <3>1. work' = v
      BY <2>2, <2>5
    <3>2. /\ v \in Works /\ v.events = w.events /\ v.chain = w.chain /\ v.steps = w.steps
          /\ v.result = "completed"
      BY <2>1 DEF Works
    <3> HIDE DEF v
    <3>3. w.step = w.steps /\ w.persona = Len(w.chain)
      BY <2>5, <2>6
    <3>4. Len(v.events) = 2 * (before + work.steps) /\ Len(v.events) % 2 = 0
      <4>1. Len(v.events) = 2 * (before + work.steps)
        BY <2>1, <2>6, <3>2, <3>3
      <4> QED
        BY <1>2, <4>1
    <3>5. Len(v.events) = 2 * v.steps * Len(v.chain)
      <4>1. Len(v.events) = 2 * (work.persona * work.steps)
        BY <1>3, <3>4
      <4>2. work.persona = Len(v.chain) /\ work.steps = v.steps
        BY <2>1, <3>2, <3>3
      <4>3. \A a, b \in Nat : 2 * (a * b) = 2 * b * a
        OBVIOUS
      <4> QED
        BY <1>2, <4>1, <4>2, <4>3
    <3>6. v.steps # 0
      BY <1>1, <1>2, <2>1, <3>2
    <3>7. Reached(v) /\ Paired(v.events)
      BY <2>1, <3>2, <3>4, <3>5, <3>6 DEF Reached
    <3> QED
      BY <3>1, <3>2, <3>7 DEF WorkInv, WorkIsRight
  <2> QED
    BY <2>3, <2>4, <2>5
<1>6. CASE StepRaises /\ work.call = "first"
  <2>1. work' = [work EXCEPT !.call = "heal"]
    BY <1>6 DEF StepRaises
  <2>2. /\ work' \in Works /\ work'.events = work.events /\ work'.chain = work.chain
        /\ work'.steps = work.steps /\ work'.persona = work.persona /\ work'.step = work.step
        /\ work'.prior = work.prior /\ work'.result = work.result
    BY <1>1, <2>1 DEF Works
  <2>3. work.steps # 0
    BY <1>1, <1>2
  <2>4. Reached(work')
    BY <1>1, <2>2, <2>3 DEF Reached, before
  <2> QED
    BY <1>1, <2>2, <2>4 DEF WorkInv, WorkIsRight
<1>7. CASE StepRaises /\ work.call # "first"
  <2> DEFINE w == [work EXCEPT !.events = Append(@, Event(work, "failed"))]
             v == [w EXCEPT !.result = "failed"]
  <2>1. /\ w \in Works /\ Len(w.events) = Len(work.events) + 1 /\ Paired(w.events)
        /\ w.steps = work.steps
    <3>1. "failed" # "started" <=> (Len(work.events) + 1) % 2 = 0
      BY <1>4
    <3> QED
      BY <1>1, <3>1, EventTold
  <2>2. work' = v
    BY <1>1, <1>7 DEF StepRaises, Works
  <2> HIDE DEF w
  <2>3. v \in Works /\ v.events = w.events /\ v.steps = w.steps /\ v.result = "failed"
    BY <2>1 DEF Works
  <2> HIDE DEF v
  <2>4. v.steps # 0 /\ Len(v.events) % 2 = 0
    <3>1. v.steps = work.steps /\ Len(v.events) = Len(work.events) + 1
      BY <2>1, <2>3
    <3> QED
      BY <1>2, <1>4, <1>8, <3>1
  <2>5. Reached(v) /\ Paired(v.events)
    BY <2>1, <2>3, <2>4 DEF Reached
  <2> QED
    BY <2>2, <2>3, <2>5 DEF WorkInv, WorkIsRight
<1> QED
  BY <1>5, <1>6, <1>7 DEF WorkStep
-----------------------------------------------------------------------------
(* The children (ChildScheduling).                                         *)

Schedules == [plan : Plans \cup {<<>>}, kept : Seq(SUBSET (STRING \cup {Alias(i) : i \in Nat})),
              wave : SUBSET Nat, ran : Seq(Nat), done : SUBSET Nat,
              result : {"none", "all", "unresolved", "blocked", "failed"}]

\* The children kept are the first of the plan, with their dependencies resolved.
KeepsFirst(s) ==
  LET specs == SubSeq(s.plan, 1, Len(s.kept))
  IN /\ Len(s.kept) <= Len(s.plan)
     /\ \A i \in DOMAIN s.kept : s.kept[i] = {Resolve(specs, dep) : dep \in s.plan[i].deps}

\* The aliases of a set of children.
AliasesOf(ids) == {Alias(i) : i \in ids}

\* A child runs once, after those whose aliases it depends on; the wave is ready.
InWaves(s) ==
  /\ s.wave \subseteq DOMAIN s.kept \ Range(s.ran)
  /\ Range(s.ran) \subseteq DOMAIN s.kept /\ IsInjective(s.ran)
  /\ s.done \subseteq Range(s.ran)
  /\ \A i \in s.wave : s.kept[i] \subseteq AliasesOf(s.done)
  /\ \A k \in DOMAIN s.ran :
       s.kept[s.ran[k]] \subseteq AliasesOf({j \in s.done : \E l \in 1..k - 1 : s.ran[l] = j})

\* Why the children have ended.
Results(s) ==
  /\ s.result \in {"none", "all", "unresolved"} => s.done = Range(s.ran)
  /\ s.result = "all" => s.done = DOMAIN s.kept
  /\ s.result = "unresolved" =>
       \A i \in DOMAIN s.kept \ s.done : ~ s.kept[i] \subseteq AliasesOf(s.done)
  /\ s.result = "unresolved" => s.done # DOMAIN s.kept

SchedInv == sched \in Schedules /\ KeepsFirst(sched) /\ InWaves(sched) /\ Results(sched)

LEMMA ScheduleFields ==
  ASSUME NEW s \in Schedules
  PROVE  /\ s.plan \in Plans \cup {<<>>} /\ DOMAIN s.kept = 1..Len(s.kept) /\ Len(s.kept) \in Nat
         /\ s.ran \in Seq(Nat) /\ Len(s.ran) \in Nat /\ DOMAIN s.ran = 1..Len(s.ran)
         /\ s.wave \in SUBSET Nat /\ s.done \in SUBSET Nat
<1>1. /\ s.plan \in Plans \cup {<<>>} /\ s.kept \in Seq(SUBSET (STRING \cup {Alias(i) : i \in Nat}))
      /\ s.ran \in Seq(Nat) /\ s.wave \in SUBSET Nat /\ s.done \in SUBSET Nat
  BY DEF Schedules
<1>2. DOMAIN s.kept = 1..Len(s.kept) /\ Len(s.kept) \in Nat
  <2>1. \A S : \A es \in Seq(S) : DOMAIN es = 1..Len(es) /\ Len(es) \in Nat
    OBVIOUS
  <2> QED
    BY <1>1, <2>1, Zenon
<1>3. Len(s.ran) \in Nat /\ DOMAIN s.ran = 1..Len(s.ran)
  BY <1>1
<1> QED
  BY <1>1, <1>2, <1>3

\* The first children of a plan.
LEMMA PlanPrefix ==
  ASSUME NEW plan \in Plans, NEW m \in Nat, m <= Len(plan)
  PROVE  LET specs == SubSeq(plan, 1, m)
         IN /\ DOMAIN specs = 1..m
            /\ \A i \in 1..m : /\ specs[i] = plan[i] /\ i \in DOMAIN plan
                               /\ plan[i].deps \in SUBSET STRING
<1>1. plan \in Seq([objective : STRING, deps : SUBSET STRING])
  BY PlansAssumption DEF PlansAssumption
<1>2. /\ DOMAIN SubSeq(plan, 1, m) = 1..m
      /\ \A i \in 1..m : SubSeq(plan, 1, m)[i] = plan[i] /\ i \in DOMAIN plan
  BY <1>1
<1>3. \A i \in DOMAIN plan : plan[i] \in [objective : STRING, deps : SUBSET STRING]
  <2>1. \A S : \A es \in Seq(S) : \A i \in DOMAIN es : es[i] \in S
    OBVIOUS
  <2> QED
    BY <1>1, <2>1, Zenon
<1>4. \A i \in DOMAIN plan : plan[i].deps \in SUBSET STRING
  BY <1>3
<1> QED
  BY <1>2, <1>4

\* The children that a dependency may mean, of the first m of a plan.
MeantOf(plan, m, dep) == {j \in 1..m : dep \in {Alias(j), plan[j].objective}}

\* What a dependency is turned into: the alias of a child it means, or itself.
LEMMA ResolveMeans ==
  ASSUME NEW plan \in Plans, NEW m \in Nat, m <= Len(plan), NEW dep
  PROVE  LET r == Resolve(SubSeq(plan, 1, m), dep)
         IN /\ r = dep \/ \E j \in 1..m : r = Alias(j)
            /\ \A j \in 1..m : r = Alias(j) => j \in MeantOf(plan, m, dep)
            /\ \A j : MeantOf(plan, m, dep) = {j} => r = Alias(j)
<1> DEFINE specs == SubSeq(plan, 1, m)
           Named == {i \in DOMAIN specs : specs[i].objective = dep}
           r     == Resolve(specs, dep)
<1>1. /\ DOMAIN specs = 1..m
      /\ \A i \in 1..m : specs[i] = plan[i] /\ i \in DOMAIN plan
  BY PlanPrefix
<1>2. r = IF dep \in {Alias(i) : i \in DOMAIN specs} \/ Named = {} THEN dep ELSE Alias(Max(Named))
  BY DEF Resolve
<1>3. \A j : j \in Named <=> j \in 1..m /\ plan[j].objective = dep
  BY <1>1
<1> HIDE DEF specs, Named, r
<1>4. Named # {} => Max(Named) \in Named
  <2>1. Named \in SUBSET (0..m)
    BY <1>3
  <2> QED
    BY <2>1, MaxIsMember
<1>5. CASE dep \in {Alias(i) : i \in DOMAIN specs} \/ Named = {}
  <2>1. r = dep
    BY <1>2, <1>5
  <2>2. ASSUME NEW j, MeantOf(plan, m, dep) = {j} PROVE dep = Alias(j)
    <3>1. CASE \E i \in 1..m : dep = Alias(i)
      <4>1. PICK i \in 1..m : dep = Alias(i)
        BY <3>1
      <4>2. i \in MeantOf(plan, m, dep)
        BY <4>1 DEF MeantOf
      <4> QED
        BY <2>2, <4>1, <4>2
    <3>2. CASE Named = {}
      BY <1>3, <2>2, <3>2 DEF MeantOf
    <3> QED
      BY <1>1, <1>5, <3>1, <3>2
  <2> QED
    BY <2>1, <2>2 DEF r, specs, MeantOf
<1>6. CASE ~ (dep \in {Alias(i) : i \in DOMAIN specs} \/ Named = {})
  <2>1. r = Alias(Max(Named)) /\ Max(Named) \in Named
    BY <1>2, <1>4, <1>6
  <2>2. Max(Named) \in 1..m /\ plan[Max(Named)].objective = dep
    BY <1>3, <2>1
  <2>3. Max(Named) \in MeantOf(plan, m, dep)
    BY <2>2 DEF MeantOf
  <2>4. ASSUME NEW j \in 1..m, r = Alias(j) PROVE j = Max(Named)
    BY <1>1, <2>1, <2>2, <2>4, AliasAssumption DEF AliasAssumption
  <2> QED
    BY <2>1, <2>2, <2>3, <2>4 DEF r, specs
<1> QED
  BY <1>5, <1>6

\* The children are created, and none.
LEMMA ChildrenCreated ==
  /\ sched = NoChildren => SchedInv
  /\ CreateChildNodes => SchedInv'
<1> DEFINE Aliases == STRING \cup {Alias(i) : i \in Nat}
<1>1. ASSUME NEW s, s.wave = {}, s.ran = <<>>, s.done = {}, s.result = "none"
      PROVE  InWaves(s) /\ Results(s)
  BY <1>1 DEF InWaves, Results, Range, IsInjective
<1>2. ASSUME sched = NoChildren PROVE SchedInv
  <2>1. sched \in Schedules
    <3>1. \A S : <<>> \in Seq(S)
      OBVIOUS
    <3>2. {} \in SUBSET Nat
      OBVIOUS
    <3> QED
      BY <1>2, <3>1, <3>2 DEF Schedules, NoChildren
  <2>2. KeepsFirst(sched)
    BY <1>2 DEF NoChildren, KeepsFirst
  <2>3. InWaves(sched) /\ Results(sched)
    BY <1>1, <1>2 DEF NoChildren
  <2> QED
    BY <2>1, <2>2, <2>3 DEF SchedInv
<1>3. ASSUME CreateChildNodes PROVE SchedInv'
  <2>1. PICK plan \in Plans, most \in MaxChildren :
          LET specs == SubSeq(plan, 1, Min({most, Len(plan)}))
          IN sched' = [NoChildren EXCEPT
               !.plan = plan,
               !.kept = [i \in DOMAIN specs |-> {Resolve(specs, dep) : dep \in specs[i].deps}]]
    BY <1>3 DEF CreateChildNodes
  <2> DEFINE m == Min({most, Len(plan)})
             specs == SubSeq(plan, 1, m)
             kept == [i \in DOMAIN specs |-> {Resolve(specs, dep) : dep \in specs[i].deps}]
  <2>2. m \in Nat /\ m <= Len(plan)
    <3>1. most \in Nat
      BY PlansAssumption DEF PlansAssumption
    <3>2. Len(plan) \in Nat
      <4>1. plan \in Seq([objective : STRING, deps : SUBSET STRING])
        BY PlansAssumption DEF PlansAssumption
      <4> QED
        BY <4>1
    <3>3. {most, Len(plan)} \in SUBSET Nat /\ {most, Len(plan)} # {}
      BY <3>1, <3>2
    <3> QED
      BY <3>3, MinIsLeast
  <2> HIDE DEF m
  <2>3. /\ DOMAIN specs = 1..m
        /\ \A i \in 1..m : specs[i] = plan[i] /\ plan[i].deps \in SUBSET STRING
    BY <2>2, PlanPrefix
  <2>4. ASSUME NEW i \in 1..m PROVE kept[i] \in SUBSET Aliases
    <3>1. ASSUME NEW dep, dep \in STRING PROVE Resolve(specs, dep) \in Aliases
      <4>1. Resolve(specs, dep) = dep \/ \E j \in 1..m : Resolve(specs, dep) = Alias(j)
        BY <2>2, ResolveMeans
      <4>2. \A j \in 1..m : j \in Nat
        BY <2>2
      <4> QED
        BY <3>1, <4>1, <4>2
    <3> HIDE DEF specs, Aliases
    <3>2. kept[i] = {Resolve(specs, dep) : dep \in specs[i].deps} /\ specs[i].deps \in SUBSET STRING
      BY <2>3
    <3> QED
      BY <3>1, <3>2
  <2>5. kept \in Seq(SUBSET Aliases) /\ Len(kept) = m /\ DOMAIN kept = 1..m
    <3>1. DOMAIN kept = 1..m /\ kept = [i \in 1..m |-> kept[i]]
      BY <2>3
    <3> HIDE DEF kept
    <3>2. ASSUME NEW S, NEW f, f = [i \in 1..m |-> f[i]], \A i \in 1..m : f[i] \in S
          PROVE  f \in Seq(S) /\ Len(f) = m
      BY <2>2, <3>2
    <3> HIDE DEF Aliases
    <3> QED
      BY <2>4, <3>1, <3>2
  <2>6. \A i \in DOMAIN kept : kept[i] = {Resolve(specs, dep) : dep \in plan[i].deps}
    BY <2>3, <2>5
  <2> HIDE DEF kept, specs
  <2>7. /\ sched' = [NoChildren EXCEPT !.plan = plan, !.kept = kept]
    BY <2>1 DEF kept, specs, m
  <2>8. /\ sched'.plan = plan /\ sched'.kept = kept /\ sched'.wave = {} /\ sched'.ran = <<>>
        /\ sched'.done = {} /\ sched'.result = "none"
    BY <2>7 DEF NoChildren
  <2>9. sched' \in Schedules
    <3>1. <<>> \in Seq(Nat) /\ {} \in SUBSET Nat
      OBVIOUS
    <3> HIDE DEF Aliases
    <3> QED
      BY <2>5, <2>7, <3>1 DEF NoChildren, Schedules, Aliases
  <2>10. KeepsFirst(sched')
    BY <2>2, <2>5, <2>6, <2>8 DEF KeepsFirst, specs
  <2>11. InWaves(sched') /\ Results(sched')
    BY <1>1, <2>8
  <2> QED
    BY <2>9, <2>10, <2>11 DEF SchedInv
<1> QED
  BY <1>2, <1>3

\* The next wave is taken, or there is none.
LEMMA WaveTaken ==
  ASSUME SchedInv, NextWave
  PROVE  SchedInv'
<1>1. /\ sched \in Schedules /\ sched.result = "none" /\ sched.wave = {}
      /\ KeepsFirst(sched) /\ InWaves(sched) /\ Results(sched)
  BY DEF SchedInv, NextWave, Scheduling
<1>2. sched.done = Range(sched.ran) /\ Range(sched.ran) \subseteq DOMAIN sched.kept
  BY <1>1 DEF Results, InWaves
<1>3. \A i \in Pending : i \in Ready <=> sched.kept[i] \subseteq AliasesOf(sched.done)
  BY DEF Ready, CompletedAliases, AliasesOf
<1>4. CASE Pending = {} /\ sched' = [sched EXCEPT !.result = "all"]
  <2>1. /\ sched' \in Schedules /\ sched'.plan = sched.plan /\ sched'.kept = sched.kept
        /\ sched'.wave = sched.wave /\ sched'.ran = sched.ran /\ sched'.done = sched.done
        /\ sched'.result = "all"
    BY <1>1, <1>4 DEF Schedules
  <2>2. InWaves(sched') /\ KeepsFirst(sched')
    BY <1>1, <2>1 DEF InWaves, KeepsFirst
  <2>3. Results(sched')
    BY <1>2, <1>4, <2>1 DEF Results, Pending
  <2> QED
    BY <2>1, <2>2, <2>3 DEF SchedInv
<1>5. CASE Pending # {} /\ Ready = {} /\ sched' = [sched EXCEPT !.result = "unresolved"]
  <2>1. /\ sched' \in Schedules /\ sched'.plan = sched.plan /\ sched'.kept = sched.kept
        /\ sched'.wave = sched.wave /\ sched'.ran = sched.ran /\ sched'.done = sched.done
        /\ sched'.result = "unresolved"
    BY <1>1, <1>5 DEF Schedules
  <2>2. InWaves(sched') /\ KeepsFirst(sched')
    BY <1>1, <2>1 DEF InWaves, KeepsFirst
  <2>3. Results(sched')
    BY <1>2, <1>3, <1>5, <2>1 DEF Results, Pending
  <2> QED
    BY <2>1, <2>2, <2>3 DEF SchedInv
<1>6. CASE sched' = [sched EXCEPT !.wave = Ready]
  <2>1. Ready \subseteq Pending /\ Pending \subseteq Nat
    BY <1>1, ScheduleFields DEF Ready, Pending
  <2>2. /\ sched' \in Schedules /\ sched'.plan = sched.plan /\ sched'.kept = sched.kept
        /\ sched'.wave = Ready /\ sched'.ran = sched.ran /\ sched'.done = sched.done
        /\ sched'.result = sched.result
    BY <1>1, <1>6, <2>1 DEF Schedules
  <2>3. InWaves(sched')
    BY <1>1, <1>3, <2>1, <2>2 DEF InWaves, Pending
  <2>4. KeepsFirst(sched') /\ Results(sched')
    BY <1>1, <2>2 DEF KeepsFirst, Results
  <2> QED
    BY <2>2, <2>3, <2>4 DEF SchedInv
<1> QED
  BY <1>4, <1>5, <1>6 DEF NextWave

\* One more child has run.
LEMMA RanOneMore ==
  ASSUME NEW ran \in Seq(Nat), NEW i \in Nat
  PROVE  /\ Append(ran, i) \in Seq(Nat) /\ Range(Append(ran, i)) = Range(ran) \cup {i}
         /\ DOMAIN Append(ran, i) = DOMAIN ran \cup {Len(ran) + 1}
         /\ Append(ran, i)[Len(ran) + 1] = i
         /\ \A k \in DOMAIN ran : Append(ran, i)[k] = ran[k]
         /\ IsInjective(ran) /\ i \notin Range(ran) => IsInjective(Append(ran, i))
         /\ \A k \in DOMAIN ran \cup {Len(ran) + 1} :
              k \in Nat /\ (k - 1 <= Len(ran)) /\ 1..k - 1 \subseteq DOMAIN ran
<1> DEFINE more == Append(ran, i)
<1>1. /\ more \in Seq(Nat) /\ DOMAIN more = DOMAIN ran \cup {Len(ran) + 1}
      /\ more[Len(ran) + 1] = i /\ \A k \in DOMAIN ran : more[k] = ran[k]
      /\ DOMAIN ran = 1..Len(ran) /\ Len(ran) \in Nat
  OBVIOUS
<1>2. Range(more) = Range(ran) \cup {i}
  BY RangeOfAppend
<1> HIDE DEF more
<1>3. IsInjective(ran) /\ i \notin Range(ran) => IsInjective(more)
  BY <1>1 DEF IsInjective, Range
<1>4. \A k \in DOMAIN ran \cup {Len(ran) + 1} :
         k \in Nat /\ (k - 1 <= Len(ran)) /\ 1..k - 1 \subseteq DOMAIN ran
  BY <1>1
<1> QED
  BY <1>1, <1>2, <1>3, <1>4 DEF more

\* The next child of the wave is executed.
LEMMA ChildExecuted ==
  ASSUME SchedInv, ExecuteChild
  PROVE  SchedInv'
<1>1. /\ sched \in Schedules /\ sched.result = "none" /\ sched.wave # {}
      /\ KeepsFirst(sched) /\ InWaves(sched) /\ Results(sched)
  BY DEF SchedInv, ExecuteChild, Scheduling
<1>2. /\ sched.ran \in Seq(Nat) /\ sched.wave \in SUBSET Nat /\ sched.done \in SUBSET Nat
      /\ DOMAIN sched.kept = 1..Len(sched.kept) /\ Len(sched.ran) \in Nat
      /\ DOMAIN sched.ran = 1..Len(sched.ran)
  BY <1>1, ScheduleFields
<1> DEFINE i    == Min(sched.wave)
           more == Append(sched.ran, i)
           s    == [sched EXCEPT !.wave = @ \ {i}, !.ran = Append(@, i)]
<1>3. i \in sched.wave /\ i \in Nat
  BY <1>1, <1>2, MinIsLeast
<1>4. /\ sched.wave \subseteq DOMAIN sched.kept \ Range(sched.ran)
      /\ Range(sched.ran) \subseteq DOMAIN sched.kept /\ IsInjective(sched.ran)
      /\ sched.done = Range(sched.ran)
      /\ \A c \in sched.wave : sched.kept[c] \subseteq AliasesOf(sched.done)
      /\ \A k \in DOMAIN sched.ran : sched.kept[sched.ran[k]] \subseteq
           AliasesOf({j \in sched.done : \E l \in 1..k - 1 : sched.ran[l] = j})
  BY <1>1 DEF InWaves, Results
<1>5. \/ sched' = [s EXCEPT !.done = @ \cup {i}]
      \/ \E result \in {"blocked", "failed"} : sched' = [s EXCEPT !.result = result]
  BY DEF ExecuteChild
<1> HIDE DEF i
<1>6. /\ more \in Seq(Nat) /\ Range(more) = Range(sched.ran) \cup {i}
      /\ DOMAIN more = DOMAIN sched.ran \cup {Len(sched.ran) + 1}
      /\ more[Len(sched.ran) + 1] = i
      /\ \A k \in DOMAIN sched.ran : more[k] = sched.ran[k]
      /\ IsInjective(more)
      /\ \A k \in DOMAIN sched.ran \cup {Len(sched.ran) + 1} :
           k \in Nat /\ (k - 1 <= Len(sched.ran)) /\ 1..k - 1 \subseteq DOMAIN sched.ran
  <2>1. i \notin Range(sched.ran)
    BY <1>3, <1>4
  <2> QED
    BY <1>2, <1>3, <1>4, <2>1, RanOneMore
<1>7. /\ s \in Schedules /\ s.plan = sched.plan /\ s.kept = sched.kept /\ s.ran = more
      /\ s.wave = sched.wave \ {i} /\ s.done = sched.done /\ s.result = "none"
  <2>1. sched.wave \ {i} \in SUBSET Nat
    BY <1>2
  <2> QED
    BY <1>1, <1>6, <2>1 DEF Schedules
<1> HIDE DEF s, more
<1>8. /\ sched' \in Schedules /\ sched'.plan = sched.plan /\ sched'.kept = sched.kept
      /\ sched'.ran = more /\ sched'.wave = sched.wave \ {i}
      /\ \/ sched'.done = sched.done \cup {i} /\ sched'.result = "none"
         \/ sched'.done = sched.done /\ sched'.result \in {"blocked", "failed"}
  <2>1. CASE sched' = [s EXCEPT !.done = @ \cup {i}]
    <3>1. s.done \cup {i} \in SUBSET Nat
      BY <1>2, <1>3, <1>7
    <3> QED
      BY <1>7, <2>1, <3>1 DEF Schedules
  <2>2. CASE \E result \in {"blocked", "failed"} : sched' = [s EXCEPT !.result = result]
    BY <1>7, <2>2 DEF Schedules
  <2> QED
    BY <1>5, <2>1, <2>2
<1>9. sched.done \subseteq sched'.done /\ sched'.done \subseteq Range(more)
  BY <1>4, <1>6, <1>8
<1>10. \A k \in DOMAIN more : sched.kept[more[k]] \subseteq
          AliasesOf({j \in sched'.done : \E l \in 1..k - 1 : more[l] = j})
  <2>1. SUFFICES ASSUME NEW k \in DOMAIN more
                 PROVE  sched.kept[more[k]] \subseteq
                          AliasesOf({j \in sched'.done : \E l \in 1..k - 1 : more[l] = j})
    OBVIOUS
  <2> DEFINE Before == {j \in sched.done : \E l \in 1..k - 1 : sched.ran[l] = j}
             Now    == {j \in sched'.done : \E l \in 1..k - 1 : more[l] = j}
  <2>2. Before \subseteq Now
    BY <1>6, <1>9
  <2>3. sched.kept[more[k]] \subseteq AliasesOf(Before)
    <3>1. CASE k \in DOMAIN sched.ran
      BY <1>4, <1>6, <3>1
    <3>2. CASE k = Len(sched.ran) + 1
      <4>1. 1..k - 1 = DOMAIN sched.ran
        BY <1>2, <3>2
      <4>2. Before = sched.done
        BY <1>4, <4>1 DEF Range
      <4> QED
        BY <1>3, <1>4, <1>6, <3>2, <4>2
    <3> QED
      BY <1>6, <3>1, <3>2
  <2> HIDE DEF Before, Now
  <2>4. AliasesOf(Before) \subseteq AliasesOf(Now)
    BY <2>2 DEF AliasesOf
  <2>5. sched.kept[more[k]] \subseteq AliasesOf(Now)
    BY <2>3, <2>4
  <2> QED
    BY <2>5 DEF Now
<1>11. \A c \in sched.wave : sched.kept[c] \subseteq AliasesOf(sched'.done)
  BY <1>4, <1>9 DEF AliasesOf
<1>12. Range(more) \subseteq DOMAIN sched.kept
  BY <1>3, <1>4, <1>6
<1>13. sched.wave \ {i} \subseteq DOMAIN sched.kept \ Range(more)
  BY <1>4, <1>6
<1>14. InWaves(sched')
  BY <1>6, <1>8, <1>9, <1>10, <1>11, <1>12, <1>13 DEF InWaves
<1>15. Results(sched')
  BY <1>4, <1>6, <1>8 DEF Results
<1>16. KeepsFirst(sched')
  BY <1>1, <1>8 DEF KeepsFirst
<1> QED
  BY <1>8, <1>14, <1>15, <1>16 DEF SchedInv

\* PlanIsFollowed is what the invariant says of the children, in terms of the plan.
LEMMA WavesFollowPlan == SchedInv => PlanIsFollowed
<1>1. SUFFICES ASSUME SchedInv PROVE PlanIsFollowed
  OBVIOUS
<1> DEFINE m == Len(sched.kept)
           specs == SubSeq(sched.plan, 1, m)
<1>2. /\ sched \in Schedules /\ KeepsFirst(sched) /\ InWaves(sched) /\ Results(sched)
      /\ sched.plan \in Plans \cup {<<>>} /\ m \in Nat /\ DOMAIN sched.kept = 1..m
      /\ DOMAIN sched.ran = 1..Len(sched.ran) /\ Len(sched.ran) \in Nat
      /\ sched.done \in SUBSET Nat
  BY <1>1, ScheduleFields DEF SchedInv
<1>3. m <= Len(sched.plan)
      /\ \A c \in 1..m : sched.kept[c] = {Resolve(specs, dep) : dep \in sched.plan[c].deps}
  BY <1>2 DEF KeepsFirst
<1>4. \A dep : Meant(dep) = MeantOf(sched.plan, m, dep)
  BY <1>2 DEF Meant, MeantOf
<1>5. CASE m = 0
  <2>1. DOMAIN sched.kept = {} /\ DOMAIN sched.ran = {} /\ sched.done = {}
    <3>1. DOMAIN sched.kept = {}
      BY <1>2, <1>5
    <3>2. Range(sched.ran) = {} /\ sched.done = {}
      BY <1>2, <3>1 DEF InWaves
    <3> QED
      BY <3>1, <3>2 DEF Range
  <2> QED
    BY <1>2, <2>1 DEF PlanIsFollowed, InWaves, Results
<1>6. CASE m # 0
  <2>1. sched.plan \in Plans
    BY <1>2, <1>3, <1>6
  <2> HIDE DEF m, specs
  <2>2. ASSUME NEW dep
        PROVE  LET r == Resolve(specs, dep)
               IN /\ \A j \in 1..m : r = Alias(j) => j \in Meant(dep)
                  /\ \A j : Meant(dep) = {j} => r = Alias(j)
    BY <1>2, <1>3, <1>4, <2>1, ResolveMeans DEF specs
  <2>3. ASSUME NEW k \in DOMAIN sched.ran, NEW dep \in sched.plan[sched.ran[k]].deps
        PROVE  \E j \in Meant(dep) \cap sched.done : \E l \in 1..k - 1 : sched.ran[l] = j
    <3>1. sched.ran[k] \in 1..m /\ sched.done \subseteq 1..m
      BY <1>2 DEF InWaves, Range
    <3>2. Resolve(specs, dep) \in sched.kept[sched.ran[k]]
      BY <1>3, <3>1
    <3>3. PICK j \in sched.done :
            (\E l \in 1..k - 1 : sched.ran[l] = j) /\ Resolve(specs, dep) = Alias(j)
      BY <1>2, <3>2 DEF InWaves, AliasesOf
    <3> QED
      BY <2>2, <3>1, <3>3
  <2>4. ASSUME sched.result = "unresolved", Sound PROVE FALSE
    <3> DEFINE Left == 1..m \ sched.done
    <3>1. \A c \in 1..m : \A dep \in sched.plan[c].deps : Cardinality(Meant(dep)) = 1
      BY <1>2, <2>4 DEF Sound
    <3>2. PICK rank \in [1..m -> 1..m] :
            \A c \in 1..m : \A dep \in sched.plan[c].deps : \A j \in Meant(dep) : rank[j] < rank[c]
      BY <1>2, <2>4 DEF Sound
    <3>3. Left # {} /\ \A c \in Left : ~ sched.kept[c] \subseteq AliasesOf(sched.done)
      BY <1>2, <2>4 DEF Results, InWaves
    <3>4. PICK c \in Left : \A d \in Left : rank[c] <= rank[d]
      <4>1. {rank[d] : d \in Left} \in SUBSET Nat /\ {rank[d] : d \in Left} # {}
        BY <1>2, <3>2, <3>3
      <4>2. PICK low \in {rank[d] : d \in Left} : \A n \in {rank[d] : d \in Left} : low <= n
        BY <4>1, Least
      <4> QED
        BY <4>2
    <3>5. PICK dep \in sched.plan[c].deps : Resolve(specs, dep) \notin AliasesOf(sched.done)
      BY <1>3, <3>3, <3>4
    <3>6. PICK j : Meant(dep) = {j}
      <4>1. IsFiniteSet(Meant(dep))
        <5>1. IsFiniteSet(1..m) /\ Meant(dep) \in SUBSET (1..m)
          BY <1>2, <1>4, FS_Interval DEF MeantOf
        <5> QED
          BY <5>1, FS_Subset
      <4>2. Cardinality(Meant(dep)) = 1
        BY <3>1, <3>4, <3>5
      <4> QED
        BY <4>1, <4>2, FS_Singleton
    <3>7. Resolve(specs, dep) = Alias(j)
      BY <2>2, <3>6
    <3>8. j \notin sched.done
      BY <3>5, <3>7 DEF AliasesOf
    <3>9. j \in 1..m
      BY <1>4, <3>6 DEF MeantOf
    <3>10. rank[j] < rank[c] /\ rank[c] <= rank[j]
      BY <3>2, <3>4, <3>5, <3>6, <3>8, <3>9
    <3> QED
      BY <1>2, <3>2, <3>4, <3>9, <3>10
  <2> QED
    BY <1>2, <2>3, <2>4 DEF PlanIsFollowed, InWaves, Results
<1> QED
  BY <1>5, <1>6
-----------------------------------------------------------------------------
(* The check (ExecutionCheck).                                             *)

ValidationAttempts == 1..MaxValidationRetries + 1

Checks == [backend : {"local", "docker"}, code : Codes,
           stage : {"none", "judge", "generate", "run"}, attempt : ValidationAttempts,
           tests : {"none", "cases", "script"}, runs : Seq(Run),
           outcome : {"none", "pass", "fail", "service error", "raised"}]

ChkInv == chk \in Checks /\ FailIsEarned

LEMMA CheckFields ==
  ASSUME NEW c \in Checks
  PROVE  /\ c.attempt \in ValidationAttempts /\ c.runs \in Seq(Run) /\ c.code \in Codes
         /\ c.backend \in {"local", "docker"} /\ c.tests \in {"none", "cases", "script"}
BY DEF Checks

\* No check, and one that begins.
LEMMA CheckBegins ==
  /\ chk = NoCheck => ChkInv
  /\ chk' = NoCheck => ChkInv'
  /\ \A codes : codes \in {Codes, {"none"}} /\ BeginCheck(codes) => ChkInv'
<1>0. 1 \in ValidationAttempts /\ <<>> \in Seq(Run) /\ "none" \in Codes
  BY CheckAssumption DEF CheckAssumption, ValidationAttempts, Codes
<1>1. NoCheck \in Checks /\ NoCheck.outcome = "none"
  BY <1>0 DEF NoCheck, Checks
<1>2. ASSUME NEW codes \in {Codes, {"none"}}, BeginCheck(codes) PROVE ChkInv'
  <2>1. PICK backend \in Backends, code \in codes :
          chk' = [NoCheck EXCEPT !.backend = backend, !.code = code,
                                 !.stage = IF code = "none" THEN "judge" ELSE "generate"]
    BY <1>2 DEF BeginCheck
  <2>2. backend \in {"local", "docker"} /\ code \in Codes
    BY <1>0, <1>2, CheckAssumption DEF CheckAssumption
  <2>3. chk' \in Checks /\ chk'.outcome = "none"
    BY <1>1, <2>1, <2>2 DEF Checks
  <2> QED
    BY <2>3 DEF ChkInv, FailIsEarned, TestsFail
<1> QED
  BY <1>1, <1>2 DEF ChkInv, FailIsEarned, TestsFail

\* An attempt that is not valid does not fail the check.
LEMMA InvalidIsRetried ==
  ASSUME NEW c \in Checks, c.outcome = "none"
  PROVE  Invalid(c) \in Checks /\ Invalid(c).outcome \in {"none", "service error"}
<1>1. CASE c.attempt <= MaxValidationRetries
  <2> DEFINE stage == IF c.code = "none" THEN "judge" ELSE "generate"
             d == [c EXCEPT !.attempt = @ + 1, !.stage = stage, !.tests = "none", !.runs = <<>>]
  <2>1. c.attempt + 1 \in ValidationAttempts
    BY <1>1, CheckAssumption, CheckFields DEF CheckAssumption, ValidationAttempts
  <2>2. <<>> \in Seq(Run) /\ stage \in {"judge", "generate"}
    OBVIOUS
  <2>3. Invalid(c) = d
    BY <1>1 DEF Invalid
  <2> HIDE DEF stage
  <2>4. d \in Checks /\ d.outcome = "none"
    BY <2>1, <2>2 DEF Checks
  <2> QED
    BY <2>3, <2>4
<1>2. CASE ~ (c.attempt <= MaxValidationRetries)
  <2> DEFINE d == [c EXCEPT !.outcome = "service error"]
  <2>1. Invalid(c) = d
    BY <1>2 DEF Invalid
  <2>2. d \in Checks /\ d.outcome = "service error"
    BY DEF Checks
  <2> QED
    BY <2>1, <2>2
<1> QED
  BY <1>1, <1>2

\* What the sandbox makes of a run that does not pass: it is the run's own fault, or
\* that of code which does not compile, if the program is run at all.
LEMMA BatchIsFair ==
  ASSUME chk \in Checks, NEW results \in Batches, NEW i \in DOMAIN results,
         ~ Passes(results[i]), ~ Unrun
  PROVE  chk.code = "broken" \/ HasFailed
<1> DEFINE OneContainer == chk.backend = "docker" /\ chk.tests = "cases"
<1>1. SUFFICES ASSUME chk.code # "broken" PROVE HasFailed
  OBVIOUS
<1>2. Compiles /\ ~ (OneContainer /\ chk.code = "cpp")
  BY <1>1 DEF Compiles, Unrun
<1>3. CASE OneContainer
  <2> DEFINE Stopped == \E k \in DOMAIN chk.runs : chk.runs[k].ended = "timeout"
  <2>1. results = InContainer(chk.runs)
    BY <1>2, <1>3 DEF Batches
  <2>2. /\ i \in DOMAIN chk.runs /\ results[i].printed = chk.runs[i].printed
        /\ results[i].ended = IF Stopped THEN "timeout" ELSE "clean"
    BY <2>1 DEF InContainer
  <2>3. CASE Stopped
    BY <2>3 DEF HasFailed
  <2>4. CASE ~ Stopped
    BY <2>2, <2>4 DEF Passes, HasFailed
  <2> QED
    BY <2>3, <2>4
<1>4. CASE ~ OneContainer
  <2>1. results = chk.runs
    BY <1>2, <1>4 DEF Batches
  <2> QED
    BY <2>1 DEF Passes, HasFailed
<1> QED
  BY <1>3, <1>4

\* A step of the check.
LEMMA CheckGoesOn ==
  ASSUME ChkInv, CheckStep
  PROVE  ChkInv'
<1>1. chk \in Checks /\ chk.outcome = "none"
  BY DEF ChkInv, CheckStep, Judge, GenerateTests, RunCase, ConcludeSuite, Checking
<1>2. ASSUME chk' \in Checks, chk'.outcome # "fail" \/ chk'.stage # "run" PROVE ChkInv'
  BY <1>2 DEF ChkInv, FailIsEarned, TestsFail
<1>3. ASSUME chk' = Invalid(chk) PROVE ChkInv'
  BY <1>1, <1>2, <1>3, InvalidIsRetried
<1>4. ASSUME Raises PROVE ChkInv'
  BY <1>1, <1>2, <1>4 DEF Raises, Checks
<1>5. CASE Judge
  <2>1. ASSUME NEW verdict \in {"pass", "fail"}, chk' = [chk EXCEPT !.outcome = verdict],
               chk.stage = "judge"
        PROVE  ChkInv'
    BY <1>1, <1>2, <2>1 DEF Checks
  <2> QED
    BY <1>3, <1>4, <1>5, <2>1 DEF Judge
<1>6. CASE GenerateTests
  <2>1. ASSUME NEW tests \in {"cases", "script"},
               chk' = [chk EXCEPT !.tests = tests, !.stage = "run"]
        PROVE  ChkInv'
    BY <1>1, <1>2, <2>1 DEF Checks
  <2>2. ASSUME chk' = [chk EXCEPT !.stage = "judge"] PROVE ChkInv'
    BY <1>1, <1>2, <2>2 DEF Checks
  <2> QED
    BY <1>3, <1>4, <1>6, <2>1, <2>2 DEF GenerateTests
<1>7. CASE RunCase
  <2>1. ASSUME NEW run \in Run, chk' = [chk EXCEPT !.runs = Append(@, run)] PROVE ChkInv'
    <3>1. Append(chk.runs, run) \in Seq(Run)
      <4>1. chk.runs \in Seq(Run)
        BY <1>1, CheckFields
      <4> QED
        BY <4>1
    <3> QED
      BY <1>1, <1>2, <2>1, <3>1 DEF Checks
  <2>2. ASSUME chk' = Invalid([chk EXCEPT !.runs = <<>>]) PROVE ChkInv'
    <3> DEFINE c == [chk EXCEPT !.runs = <<>>]
    <3>1. <<>> \in Seq(Run)
      OBVIOUS
    <3>2. c \in Checks /\ c.outcome = "none"
      BY <1>1, <3>1 DEF Checks
    <3> HIDE DEF c
    <3>3. Invalid(c) \in Checks /\ Invalid(c).outcome \in {"none", "service error"}
      BY <3>2, InvalidIsRetried
    <3> QED
      BY <1>2, <2>2, <3>3 DEF c
  <2> QED
    BY <1>4, <1>7, <2>1, <2>2 DEF RunCase
<1>8. CASE ConcludeSuite
  <2>0. PICK results \in Batches :
          LET Failing == {i \in DOMAIN results : ~ Passes(results[i])}
          IN chk' = Invalid(chk) \/ (Failing # {} /\ chk' = [chk EXCEPT !.outcome = "fail"])
    BY <1>8 DEF ConcludeSuite
  <2> DEFINE Failing == {i \in DOMAIN results : ~ Passes(results[i])}
  <2>1. chk' = Invalid(chk) \/ (Failing # {} /\ chk' = [chk EXCEPT !.outcome = "fail"])
    BY <2>0
  <2>2. ASSUME Failing # {}, chk' = [chk EXCEPT !.outcome = "fail"] PROVE ChkInv'
    <3>1. /\ chk' \in Checks /\ chk'.code = chk.code /\ chk'.runs = chk.runs
          /\ chk'.backend = chk.backend /\ chk'.tests = chk.tests
      BY <1>1, <2>2 DEF Checks
    <3>2. Unrun \/ chk.code = "broken" \/ HasFailed
      BY <1>1, <2>2, BatchIsFair
    <3>3. Unrun' = Unrun /\ HasFailed' = HasFailed
      BY <3>1 DEF Unrun, HasFailed
    <3> QED
      BY <3>1, <3>2, <3>3 DEF ChkInv, FailIsEarned
  <2> QED
    BY <1>3, <2>1, <2>2
<1> QED
  BY <1>5, <1>6, <1>7, <1>8 DEF CheckStep
-----------------------------------------------------------------------------
(* The node (NodeServices).                                                *)

Phases == /\ phase \in {"start", "divide", "recursive", "work", "children", "merge", "check", "over"}
          /\ scope \in {"node", "merge"} /\ rounds \in 0..MaxRounds

IInv == Phases /\ CallInv /\ WorkInv /\ SchedInv /\ ChkInv

LEMMA InitInvariant == Init => IInv
<1>1. SUFFICES ASSUME Init PROVE IInv
  OBVIOUS
<1>2. Phases
  BY <1>1, RoundsAssumption DEF Init, Phases, RoundsAssumption
<1>3. CallInv /\ WorkInv /\ SchedInv /\ ChkInv
  BY <1>1, CallBegins, WorkBegins, ChildrenCreated, CheckBegins DEF Init, CallInv, WorkInv
<1> QED
  BY <1>2, <1>3 DEF IInv

LEMMA PhasesStep ==
  ASSUME IInv, [Next]_vars
  PROVE  Phases'
<1>1. Phases /\ MaxRounds \in Nat
  BY RoundsAssumption DEF IInv, RoundsAssumption
<1>2. CASE Start \/ Divided \/ RecursiveCase \/ DividedAgain
  BY <1>1, <1>2 DEF Start, Divided, RecursiveCase, DividedAgain, Phases
<1>3. CASE Worked \/ Scheduled \/ Merged \/ Checked
  BY <1>1, <1>3 DEF Worked, Scheduled, Merged, Checked, MergeNext, CheckNext, Over, Phases
<1>4. CASE Retry
  <2>1. rounds' \in 0..MaxRounds /\ scope' = scope
    BY <1>1, <1>4 DEF Retry, Phases
  <2>2. phase' \in {"work", "divide", "merge", "check", "over"}
    BY <1>4 DEF Retry, MergeNext, CheckNext, Over
  <2> QED
    BY <1>1, <2>1, <2>2 DEF Phases
<1>5. CASE Services \/ UNCHANGED vars
  BY <1>1, <1>5 DEF Services, vars, Phases
<1> QED
  BY <1>2, <1>3, <1>4, <1>5 DEF Next

LEMMA CallStep ==
  ASSUME IInv, [Next]_vars
  PROVE  CallInv'
<1>1. ASSUME UNCHANGED call PROVE CallInv'
  BY <1>1 DEF IInv, CallInv
<1>2. ASSUME call' = NoCall PROVE CallInv'
  BY <1>2, CallBegins DEF CallInv
<1>3. ASSUME NEW n \in Candidates \cup {1}, Ask(n) PROVE CallInv'
  <2>1. n \in Nat \ {0}
    BY RetriesAssumption DEF RetriesAssumption
  <2> QED
    BY <1>3, <2>1, CallBegins DEF Ask, CallInv
<1>4. MergeNext => UNCHANGED call \/ Ask(1)
  BY DEF MergeNext
<1>5. CASE Start
  BY <1>1, <1>3, <1>5 DEF Start
<1>6. CASE Divided \/ DividedAgain \/ Merged
  BY <1>2, <1>6 DEF Divided, DividedAgain, Merged
<1>7. CASE RecursiveCase \/ Worked \/ Checked
  BY <1>1, <1>7 DEF RecursiveCase, Worked, Checked
<1>8. CASE Scheduled \/ Retry
  BY <1>1, <1>3, <1>4, <1>8 DEF Scheduled, Retry
<1>9. CASE Services
  BY <1>1, <1>9, CallHears DEF Services, Step, IInv
<1>10. CASE UNCHANGED vars
  BY <1>1, <1>10 DEF vars
<1> QED
  BY <1>5, <1>6, <1>7, <1>8, <1>9, <1>10 DEF Next

LEMMA WorksStep ==
  ASSUME IInv, [Next]_vars
  PROVE  WorkInv'
<1>1. ASSUME UNCHANGED work PROVE WorkInv'
  BY <1>1 DEF IInv, WorkInv
<1>2. ASSUME NEW chains \in {Chains, Own}, BeginWork(chains) PROVE WorkInv'
  BY <1>2, WorkBegins DEF WorkInv
<1>3. CASE Start \/ Divided
  BY <1>1, <1>2, <1>3 DEF Start, Divided
<1>4. CASE DividedAgain
  BY <1>2, <1>4 DEF DividedAgain
<1>5. CASE Worked
  BY <1>5, WorkBegins DEF Worked, WorkInv
<1>6. CASE RecursiveCase \/ Scheduled \/ Merged \/ Checked
  BY <1>1, <1>6 DEF RecursiveCase, Scheduled, Merged, Checked
<1>7. CASE Retry
  BY <1>1, <1>2, <1>7 DEF Retry
<1>8. CASE Services
  BY <1>1, <1>8, WorkGoesOn DEF Services, Step, IInv
<1>9. CASE UNCHANGED vars
  BY <1>1, <1>9 DEF vars
<1> QED
  BY <1>3, <1>4, <1>5, <1>6, <1>7, <1>8, <1>9 DEF Next

LEMMA SchedStep ==
  ASSUME IInv, [Next]_vars
  PROVE  SchedInv'
<1>1. ASSUME UNCHANGED sched PROVE SchedInv'
  BY <1>1 DEF IInv, SchedInv
<1>2. CASE RecursiveCase
  BY <1>2, ChildrenCreated DEF RecursiveCase
<1>3. CASE Start \/ Divided \/ DividedAgain \/ Worked \/ Scheduled \/ Merged \/ Checked \/ Retry
  BY <1>1, <1>3 DEF Start, Divided, DividedAgain, Worked, Scheduled, Merged, Checked, Retry
<1>4. CASE Services
  BY <1>1, <1>4, WaveTaken, ChildExecuted DEF Services, Step, ScheduleStep, IInv
<1>5. CASE UNCHANGED vars
  BY <1>1, <1>5 DEF vars
<1> QED
  BY <1>2, <1>3, <1>4, <1>5 DEF Next

LEMMA ChkStep ==
  ASSUME IInv, [Next]_vars
  PROVE  ChkInv'
<1>1. ASSUME UNCHANGED chk PROVE ChkInv'
  BY <1>1 DEF IInv, ChkInv, FailIsEarned, TestsFail, Unrun, HasFailed
<1>2. ASSUME NEW codes \in {Codes, {"none"}}, CheckNext(codes) PROVE ChkInv'
  BY <1>1, <1>2, CheckBegins DEF CheckNext
<1>3. ASSUME MergeNext PROVE ChkInv'
  BY <1>1, <1>2, <1>3 DEF MergeNext
<1>4. CASE Start \/ Divided \/ RecursiveCase \/ DividedAgain \/ Checked
  BY <1>1, <1>4 DEF Start, Divided, RecursiveCase, DividedAgain, Checked
<1>5. CASE Worked \/ Scheduled \/ Merged
  BY <1>1, <1>2, <1>3, <1>5 DEF Worked, Scheduled, Merged
<1>6. CASE Retry
  BY <1>3, <1>6, CheckBegins DEF Retry
<1>7. CASE Services
  BY <1>1, <1>7, CheckGoesOn DEF Services, Step, IInv
<1>8. CASE UNCHANGED vars
  BY <1>1, <1>8 DEF vars
<1> QED
  BY <1>4, <1>5, <1>6, <1>7, <1>8 DEF Next

LEMMA NextInvariant == IInv /\ [Next]_vars => IInv'
BY PhasesStep, CallStep, WorksStep, SchedStep, ChkStep DEF IInv

\* The inductive invariant of the services: the phase, and one part for each record.
THEOREM ServicesInvariant == Spec => []IInv
BY InitInvariant, NextInvariant, PTL DEF Spec

\* The types of the records; no service is asked more often than its retries allow
\* (the bounds of the attempts in TypeOK).
THEOREM TypeCorrect == Spec => []TypeOK
<1>1. IInv => TypeOK
  <2>1. SUFFICES ASSUME IInv PROVE TypeOK
    OBVIOUS
  <2>2. /\ call.attempt \in 1..MaxSchemaRetries + 1 /\ call.round \in 1..call.rounds + 1
        /\ call.outcome \in {"none", "decided", "schema error", "raised"}
    <3>1. call \in Calls /\ (call.round <= call.rounds \/ call = NoCall)
      BY <2>1 DEF IInv, CallInv, CallIsRight, Attempts
    <3>2. /\ call.attempt \in 1..MaxSchemaRetries + 1 /\ call.rounds \in Nat
          /\ call.round \in Nat \ {0}
          /\ call.outcome \in {"none", "decided", "schema error", "raised"}
      BY <3>1, CallFields DEF AttemptNumbers
    <3>3. call.round <= call.rounds \/ call.round = 1
      BY <3>1 DEF NoCall
    <3>4. call.round \in 1..call.rounds + 1
      <4>1. call.rounds \in Nat /\ call.round \in Nat /\ call.round # 0
        BY <3>2
      <4> QED
        BY <3>3, <4>1
    <3> QED
      BY <3>2, <3>4
  <2>3. /\ work.chain \in Chains \cup Own \cup {<<>>} /\ work.call \in {"first", "heal"}
        /\ work.result \in {"none", "completed", "failed"}
    BY <2>1 DEF IInv, WorkInv, WorkIsRight, Works
  <2>4. /\ sched.wave \cup sched.done \cup Range(sched.ran) \subseteq DOMAIN sched.kept
        /\ sched.result \in {"none", "all", "unresolved", "blocked", "failed"}
    BY <2>1 DEF IInv, SchedInv, InWaves, Schedules
  <2>5. /\ chk.attempt \in 1..MaxValidationRetries + 1 /\ chk.runs \in Seq(Run)
        /\ chk.outcome \in {"none", "pass", "fail", "service error", "raised"}
    BY <2>1 DEF IInv, ChkInv, Checks, ValidationAttempts
  <2> QED
    BY <2>1, <2>2, <2>3, <2>4, <2>5 DEF TypeOK, IInv, Phases
<1> QED
  BY <1>1, ServicesInvariant, PTL

\* The divider and the merger decide for the first of the best valid answers, and give
\* up only when all their attempts were invalid (the loops of divide and merge).
THEOREM BestAnswerIsTaken == Spec => []BestIsTaken
<1>1. IInv => BestIsTaken
  BY DEF IInv, CallInv, CallIsRight, Decides, ValidOf, Preferred, BestIsTaken
<1> QED
  BY <1>1, ServicesInvariant, PTL

\* A step's end is published before the next step's start, and completed work has had
\* all steps of all personas (WorkerService and _self_heal).
THEOREM EventsArePaired == Spec => []StepsArePaired
<1>1. IInv => StepsArePaired
  <2>1. SUFFICES ASSUME IInv PROVE StepsArePaired
    OBVIOUS
  <2>2. /\ Paired(work.events)
        /\ work.result # "none" => Len(work.events) % 2 = 0
        /\ work.result = "completed" => Len(work.events) = 2 * work.steps * Len(work.chain)
    BY <2>1 DEF IInv, WorkInv, WorkIsRight, Reached
  <2> QED
    BY <2>2 DEF Paired, StepsArePaired
<1> QED
  BY <1>1, ServicesInvariant, PTL

\* The children are executed in an order that the plan's dependencies allow, each once,
\* and given up only when the plan has no such order (_execute_recursive_case).
THEOREM ChildrenFollowPlan == Spec => []PlanIsFollowed
<1>1. IInv => PlanIsFollowed
  BY WavesFollowPlan DEF IInv
<1> QED
  BY <1>1, ServicesInvariant, PTL

\* Tests that fail the check are about code that does not compile, or about a run that
\* went wrong on its own, for every number of cases and in either sandbox, but for the
\* programs it does not get to run, C++ in a container and Java with a public class in a
\* local process (run_batch and _suite_to_checker_result).
THEOREM FailuresAreEarned == Spec => []FailIsEarned
<1>1. IInv => FailIsEarned
  BY DEF IInv, ChkInv
<1> QED
  BY <1>1, ServicesInvariant, PTL
=============================================================================
