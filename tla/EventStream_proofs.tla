------------------------- MODULE EventStream_proofs --------------------------
(***************************************************************************)
(* What EventStream delivers, for any number of publishers, browsers,      *)
(* events and connections: events in their order with any number of        *)
(* publishers, all of them with one.                                       *)
(***************************************************************************)
EXTENDS EventStream, TLAPS, WellFoundedInduction

(* Counting up: what can be said of a list is said of its beginnings first. *)

LEMMA Least ==
  ASSUME NEW T \in SUBSET Nat, T # {}
  PROVE  \E n \in T : \A m \in T : n <= m
<1> DEFINE Less == {x \in Nat \X Nat : x[1] < x[2]}
<1>1. IsWellFoundedOn(Less, Nat)
  <2>1. OpToRel(<, Nat) = Less
    BY DEF OpToRel
  <2> QED
    BY <2>1, NatLessThanWellFounded
<1>2. PICK n \in T : \A m \in T : <<m, n>> \notin Less
  BY <1>1, WFMin, Zenon
<1> QED
  <2>1. ASSUME NEW m \in T PROVE n <= m
    <3>1. <<m, n>> \in Nat \X Nat /\ ~ (<<m, n>>[1] < <<m, n>>[2])
      BY <1>2
    <3> QED
      BY <3>1
  <2> QED
    BY <2>1

\* A set that has 0 and the successor of each of its members up to m has all of 0..m.
LEMMA CountingUp ==
  ASSUME NEW m \in Nat, NEW T, 0 \in T, \A n \in 0..m : n \in T /\ n < m => n + 1 \in T
  PROVE  0..m \subseteq T
<1> DEFINE Rest == (0..m) \ T
<1>1. SUFFICES ASSUME Rest # {} PROVE FALSE
  OBVIOUS
<1>2. PICK n \in Rest : \A k \in Rest : n <= k
  <2>1. Rest \in SUBSET Nat
    OBVIOUS
  <2> QED
    BY <1>1, <2>1, Least
<1>3. n # 0 /\ n - 1 \in 0..m /\ n - 1 \in T /\ n - 1 < m
  BY <1>2
<1> QED
  BY <1>2, <1>3
-----------------------------------------------------------------------------
(* The events after a number (After).                                      *)

\* f has what After has found in each beginning of a list.
Finds(f, es, k, m) ==
  f = [n \in 0..m |-> IF n = 0 THEN <<>>
                      ELSE IF es[n] > k THEN Append(f[n - 1], es[n]) ELSE f[n - 1]]

\* A step of f is about the next event of the list.
FindsNext(f, es, k, n) ==
  f[n + 1] = IF es[n + 1] > k THEN Append(f[n], es[n + 1]) ELSE f[n]

LEMMA FindsSteps ==
  ASSUME NEW f, NEW es, NEW k, NEW m \in Nat, Finds(f, es, k, m)
  PROVE  /\ f[0] = <<>>
         /\ \A n \in 0..m : n < m => FindsNext(f, es, k, n)
<1>1. \A n \in 0..m : f[n] = IF n = 0 THEN <<>>
                            ELSE IF es[n] > k THEN Append(f[n - 1], es[n]) ELSE f[n - 1]
  <2> DEFINE F(n) == IF n = 0 THEN <<>>
                     ELSE IF es[n] > k THEN Append(f[n - 1], es[n]) ELSE f[n - 1]
  <2>1. f = [n \in 0..m |-> F(n)]
    BY Zenon DEF Finds
  <2> HIDE DEF F
  <2>2. \A n \in 0..m : f[n] = F(n)
    BY <2>1, Zenon
  <2> QED
    BY <2>2, Zenon DEF F
<1>2. ASSUME NEW n \in 0..m, n < m PROVE FindsNext(f, es, k, n)
  <2>1. n + 1 \in 0..m /\ n + 1 # 0 /\ (n + 1) - 1 = n
    BY <1>2
  <2> QED
    BY <1>1, <2>1, Zenon DEF FindsNext
<1>3. 0 \in 0..m
  OBVIOUS
<1> QED
  BY <1>1, <1>2, <1>3, Zenon

\* The recursion of After defines a function on the beginnings of a list.
LEMMA FindsExists ==
  ASSUME NEW es, NEW k, NEW m \in Nat
  PROVE  \E f : Finds(f, es, k, m)
<1> DEFINE T == {n \in 0..m : \E f : Finds(f, es, k, n)}
<1>1. 0 \in T
  <2>1. Finds([n \in 0..0 |-> <<>>], es, k, 0)
    BY DEF Finds
  <2> QED
    BY <2>1
<1>2. ASSUME NEW n \in 0..m, n \in T, n < m PROVE n + 1 \in T
  <2>1. PICK f : Finds(f, es, k, n)
    BY <1>2
  <2> DEFINE g == [i \in 0..n + 1 |->
                     IF i <= n THEN f[i]
                     ELSE IF es[n + 1] > k THEN Append(f[n], es[n + 1]) ELSE f[n]]
  <2>2. \A i \in 0..n : g[i] = f[i]
    OBVIOUS
  <2>3. f[0] = <<>> /\ \A i \in 1..n : f[i] = IF es[i] > k THEN Append(f[i - 1], es[i])
                                            ELSE f[i - 1]
    <3>1. f[0] = <<>> /\ \A i \in 0..n : i < n => FindsNext(f, es, k, i)
      <4>1. n \in Nat
        OBVIOUS
      <4> QED
        BY <2>1, <4>1, FindsSteps, Zenon
    <3>2. ASSUME NEW i \in 1..n
          PROVE  f[i] = IF es[i] > k THEN Append(f[i - 1], es[i]) ELSE f[i - 1]
      <4>1. i - 1 \in 0..n /\ i - 1 < n /\ (i - 1) + 1 = i
        OBVIOUS
      <4> QED
        BY <3>1, <4>1, Zenon DEF FindsNext
    <3> QED
      BY <3>1, <3>2
  <2>4. \A i \in 0..n + 1 : g[i] = IF i = 0 THEN <<>>
                                   ELSE IF es[i] > k THEN Append(g[i - 1], es[i]) ELSE g[i - 1]
    <3>1. g[0] = <<>>
      BY <2>2, <2>3
    <3>2. ASSUME NEW i \in 1..n
          PROVE  g[i] = IF es[i] > k THEN Append(g[i - 1], es[i]) ELSE g[i - 1]
      BY <2>2, <2>3
    <3>3. g[n + 1] = IF es[n + 1] > k THEN Append(g[n], es[n + 1]) ELSE g[n]
      BY <2>2
    <3>4. ASSUME NEW i \in 0..n + 1, i \notin 1..n, i # 0 PROVE i = n + 1 /\ i - 1 = n
      BY <3>4
    <3> QED
      BY <3>1, <3>2, <3>3, <3>4
  <2>5. Finds(g, es, k, n + 1)
    <3> DEFINE G(h, i) == IF i = 0 THEN <<>>
                          ELSE IF es[i] > k THEN Append(h[i - 1], es[i]) ELSE h[i - 1]
    <3>1. \A i \in 0..n + 1 : g[i] = G(g, i)
      BY <2>4
    <3>2. g = [i \in 0..n + 1 |-> g[i]]
      OBVIOUS
    <3> HIDE DEF g, G
    <3>3. g = [i \in 0..n + 1 |-> G(g, i)]
      BY <3>1, <3>2, Zenon
    <3> QED
      BY <3>3, Zenon DEF Finds, G
  <2> QED
    BY <2>5, <1>2
<1>3. 0..m \subseteq T
  <2> HIDE DEF T
  <2> QED
    BY <1>1, <1>2, CountingUp
<1> QED
  BY <1>3

\* After is the last of what is found.
LEMMA AfterFinds ==
  ASSUME NEW S, NEW es \in Seq(S), NEW k
  PROVE  \E f : Finds(f, es, k, Len(es)) /\ After(es, k) = f[Len(es)]
<1> DEFINE f == CHOOSE f : Finds(f, es, k, Len(es))
<1>1. Finds(f, es, k, Len(es))
  BY FindsExists
<1>2. After(es, k) = f[Len(es)]
  BY DEF After, Finds
<1> QED
  BY <1>1, <1>2

\* What is found is in the list.
LEMMA AfterType ==
  ASSUME NEW S, NEW es \in Seq(S), NEW k
  PROVE  After(es, k) \in Seq(S)
<1>1. PICK f : Finds(f, es, k, Len(es)) /\ After(es, k) = f[Len(es)]
  BY AfterFinds
<1>a. f[0] = <<>> /\ \A n \in 0..Len(es) : n < Len(es) => FindsNext(f, es, k, n)
  <2>1. Len(es) \in Nat
    OBVIOUS
  <2> QED
    BY <1>1, <2>1, FindsSteps, Zenon
<1> DEFINE T == {n \in 0..Len(es) : f[n] \in Seq(S)}
<1>2. 0 \in T
  <2>1. f[0] = <<>> /\ 0 \in 0..Len(es)
    BY <1>a
  <2>2. f[0] \in Seq(S)
    BY <2>1
  <2> QED
    BY <2>1, <2>2, Zenon
<1>3. ASSUME NEW n \in 0..Len(es), n \in T, n < Len(es) PROVE n + 1 \in T
  <2>1. f[n + 1] = IF es[n + 1] > k THEN Append(f[n], es[n + 1]) ELSE f[n]
    BY <1>a, <1>3, Zenon DEF FindsNext
  <2>2. es[n + 1] \in S
    BY <1>3
  <2>3. f[n] \in Seq(S)
    BY <1>3, Zenon
  <2>4. f[n + 1] \in Seq(S) /\ n + 1 \in 0..Len(es)
    BY <2>1, <2>2, <2>3, <1>3
  <2> QED
    BY <2>4, Zenon
<1>4. 0..Len(es) \subseteq T
  <2> HIDE DEF T
  <2> QED
    BY <1>2, <1>3, CountingUp
<1> QED
  BY <1>1, <1>4

\* es is k + 1, k + 2 ...
Follows(es, k) == \A i \in 1..Len(es) : es[i] = k + i

\* Of the list 1, 2 ... n the events after k are k + 1 ... n.
LEMMA AfterOfAll ==
  ASSUME NEW es \in Seq(Nat), Follows(es, 0), NEW k \in 0..Len(es)
  PROVE  Follows(After(es, k), k) /\ Len(After(es, k)) = Len(es) - k
<1>1. PICK f : Finds(f, es, k, Len(es)) /\ After(es, k) = f[Len(es)]
  BY AfterFinds
<1>a. f[0] = <<>> /\ \A n \in 0..Len(es) : n < Len(es) => FindsNext(f, es, k, n)
  <2>1. Len(es) \in Nat
    OBVIOUS
  <2> QED
    BY <1>1, <2>1, FindsSteps, Zenon
<1> DEFINE Found(n) == /\ f[n] \in Seq(Nat) /\ Follows(f[n], k)
                       /\ Len(f[n]) = IF n <= k THEN 0 ELSE n - k
           T == {n \in 0..Len(es) : Found(n)}
<1>b. ASSUME NEW n \in 0..Len(es), Found(n) PROVE n \in T
  BY <1>b, Zenon
<1>c. ASSUME NEW n \in T PROVE Found(n)
  BY <1>c, Zenon
<1>2. 0 \in T
  <2>1. f[0] = <<>> /\ 0 \in 0..Len(es)
    BY <1>a
  <2>2. Found(0)
    BY <2>1 DEF Follows
  <2> QED
    BY <2>1, <2>2, <1>b
<1>3. ASSUME NEW n \in 0..Len(es), n \in T, n < Len(es) PROVE n + 1 \in T
  <2>1. f[n + 1] = IF es[n + 1] > k THEN Append(f[n], es[n + 1]) ELSE f[n]
    BY <1>a, <1>3, Zenon DEF FindsNext
  <2>2. es[n + 1] = n + 1 /\ n + 1 \in 0..Len(es) /\ k \in Nat /\ n \in Nat
    BY <1>3 DEF Follows
  <2>3. Found(n)
    BY <1>3, <1>c
  <2>4. CASE n + 1 > k
    <3> DEFINE q == f[n]
               r == f[n + 1]
    <3>1. q \in Seq(Nat) /\ Len(q) = n - k /\ \A i \in 1..Len(q) : q[i] = k + i
      BY <2>2, <2>3, <2>4 DEF Follows
    <3>2. r = Append(q, n + 1)
      BY <2>1, <2>2, <2>4
    <3> HIDE DEF q, r
    <3>3. r \in Seq(Nat) /\ Len(r) = (n + 1) - k
      BY <3>1, <3>2, <2>2
    <3>4. ASSUME NEW i \in 1..Len(r) PROVE r[i] = k + i
      <4>1. i \in 1..Len(q) \/ i = Len(q) + 1
        BY <3>1, <3>3, <2>2
      <4>2. CASE i \in 1..Len(q)
        BY <4>2, <3>1, <3>2, <2>2
      <4>3. CASE i = Len(q) + 1
        BY <4>3, <3>1, <3>2, <2>2
      <4> QED
        BY <4>1, <4>2, <4>3
    <3>5. Found(n + 1)
      BY <3>3, <3>4, <2>2, <2>4 DEF r, Follows
    <3> QED
      BY <3>5, <2>2, <1>b
  <2>5. CASE ~ (n + 1 > k)
    <3>1. f[n + 1] = f[n] /\ Len(f[n]) = 0
      BY <2>1, <2>2, <2>3, <2>5
    <3>2. Found(n + 1)
      BY <3>1, <2>2, <2>3, <2>5 DEF Follows
    <3> QED
      BY <3>2, <2>2, <1>b
  <2> QED
    BY <2>4, <2>5
<1>4. 0..Len(es) \subseteq T
  <2>1. Len(es) \in Nat
    OBVIOUS
  <2> HIDE DEF T
  <2> QED
    BY <2>1, <1>2, <1>3, CountingUp
<1>5. Found(Len(es))
  BY <1>4, <1>c
<1> QED
  BY <1>1, <1>5
-----------------------------------------------------------------------------
(* The order of what is sent, with any number of publishers.               *)

\* A publish call has the number of an event, a sequence number handed out.
PublishesNumbered == \A p \in Publishers : pub[p].at # "idle" => pub[p].seq \in 1..seq

\* What a browser has taken and what is on its connection are in order, up to the
\* last event of the generator; without a connection nothing is on its way.
SentUpToLast(s) ==
  /\ Increasing(received[s]) /\ Increasing(wire[s])
  /\ \A i \in DOMAIN received[s], j \in DOMAIN wire[s] : received[s][i] < wire[s][j]
  /\ conn[s].at = "off" => wire[s] = <<>>
  /\ conn[s].at # "off" => /\ \A i \in DOMAIN received[s] : received[s][i] <= conn[s].last
                           /\ \A i \in DOMAIN wire[s] : wire[s][i] <= conn[s].last

IInv == TypeOK /\ PublishesNumbered /\ \A s \in Subscribers : SentUpToLast(s)

PubRecord  == [at : {"idle", "store", "subscribers", "fanout"}, seq : 0..MaxEvents,
               left : SUBSET (Subscribers \X Nat)]
ConnRecord == [at : {"off", "list", "replay"}, last : 0..MaxEvents, replay : Seq(Seqs)]

\* An event in a list, and the last one.
LEMMA LastOfType ==
  ASSUME NEW es \in Seq(Seqs)
  PROVE  LastOf(es) \in 0..MaxEvents
BY ConstantsAssumption DEF LastOf, Last, Seqs, ConstantsAssumption

LEMMA TypeStep ==
  ASSUME TypeOK, PublishesNumbered, [Next]_vars
  PROVE  TypeOK'
<1> USE ConstantsAssumption DEF ConstantsAssumption
<1>1. /\ seq \in 0..MaxEvents /\ log \in Seq(Seqs)
      /\ pub \in [Publishers -> PubRecord] /\ conn \in [Subscribers -> ConnRecord]
      /\ queue \in [Subscribers -> Seq(Seqs)] /\ wire \in [Subscribers -> Seq(Seqs)]
      /\ received \in [Subscribers -> Seq(Seqs)] /\ connects \in [Subscribers -> Nat]
  BY DEF TypeOK, PubRecord, ConnRecord
<1>2. ASSUME NEW p \in Publishers, AppendEvent(p) PROVE TypeOK'
  <2>1. seq' \in 0..MaxEvents /\ seq + 1 \in Seqs
    BY <1>1, <1>2 DEF AppendEvent, Seqs
  <2>2. log' \in Seq(Seqs)
    BY <1>1, <1>2, <2>1 DEF AppendEvent
  <2>3. pub' \in [Publishers -> PubRecord]
    BY <1>1, <1>2, <2>1 DEF AppendEvent, Idle, PubRecord
  <2> QED
    BY <1>1, <1>2, <2>1, <2>2, <2>3 DEF AppendEvent, TypeOK, PubRecord, ConnRecord
<1>3. ASSUME NEW p \in Publishers, StoreEvent(p) PROVE TypeOK'
  <2>1. pub[p].seq \in Seqs
    BY <1>1, <1>3 DEF StoreEvent, PublishesNumbered, Seqs
  <2>2. log' \in Seq(Seqs)
    BY <1>1, <1>3, <2>1 DEF StoreEvent
  <2>3. pub' \in [Publishers -> PubRecord]
    BY <1>1, <1>3 DEF StoreEvent, PubRecord
  <2> QED
    BY <1>1, <1>3, <2>2, <2>3 DEF StoreEvent, TypeOK, PubRecord, ConnRecord
<1>4. ASSUME NEW p \in Publishers, CopySubscribers(p) PROVE TypeOK'
  <2> DEFINE copied == {<<s, connects[s]>> : s \in {t \in Subscribers : conn[t].at # "off"}}
  <2>1. copied \in SUBSET (Subscribers \X Nat)
    BY <1>1
  <2>2. pub' = [pub EXCEPT ![p].at = "fanout", ![p].left = copied]
    BY <1>4 DEF CopySubscribers
  <2> HIDE DEF copied
  <2>3. pub' \in [Publishers -> PubRecord]
    BY <1>1, <2>1, <2>2 DEF PubRecord
  <2> QED
    BY <1>1, <1>4, <2>3 DEF CopySubscribers, TypeOK, PubRecord, ConnRecord
<1>5. ASSUME NEW p \in Publishers, NEW s \in Subscribers, Fanout(p, s) PROVE TypeOK'
  <2>1. pub[p].at = "fanout" /\ UNCHANGED <<seq, log, conn, wire, received, connects>>
    BY <1>5 DEF Fanout
  <2>2. PICK t \in pub[p].left :
          /\ pub' = [pub EXCEPT ![p].left = @ \ {t}]
          /\ queue' = IF t = <<s, connects[s]>> /\ conn[s].at # "off"
                      THEN [queue EXCEPT ![s] = Append(@, pub[p].seq)] ELSE queue
    BY <1>5 DEF Fanout
  <2>3. pub[p].seq \in Seqs
    BY <1>1, <2>1 DEF PublishesNumbered, Seqs
  <2>4. queue' \in [Subscribers -> Seq(Seqs)]
    BY <1>1, <2>2, <2>3
  <2>5. pub' \in [Publishers -> PubRecord]
    BY <1>1, <2>2 DEF PubRecord
  <2> QED
    BY <1>1, <2>1, <2>4, <2>5 DEF TypeOK, PubRecord, ConnRecord
<1>6. ASSUME NEW p \in Publishers, PublishReturns(p) PROVE TypeOK'
  <2>1. pub' \in [Publishers -> PubRecord]
    BY <1>1, <1>6 DEF PublishReturns, PubRecord, Idle
  <2> QED
    BY <1>1, <1>6, <2>1 DEF PublishReturns, TypeOK, PubRecord, ConnRecord
<1>7. ASSUME NEW s \in Subscribers, Connect(s) PROVE TypeOK'
  <2>1. LastOf(received[s]) \in 0..MaxEvents
    BY <1>1, LastOfType
  <2>2. conn' \in [Subscribers -> ConnRecord] /\ connects' \in [Subscribers -> Nat]
    BY <1>1, <1>7, <2>1 DEF Connect, ConnRecord
  <2> QED
    BY <1>1, <1>7, <2>2 DEF Connect, TypeOK, PubRecord, ConnRecord
<1>8. ASSUME NEW s \in Subscribers, ListReplay(s) PROVE TypeOK'
  <2>1. After(log, conn[s].last) \in Seq(Seqs)
    BY <1>1, AfterType
  <2>2. conn' \in [Subscribers -> ConnRecord]
    BY <1>1, <1>8, <2>1 DEF ListReplay, ConnRecord
  <2> QED
    BY <1>1, <1>8, <2>2 DEF ListReplay, TypeOK, PubRecord, ConnRecord
<1>9. ASSUME NEW s \in Subscribers, NEW e \in Seqs, NEW next \in ConnRecord, Yield(s, e, next)
       PROVE  conn' \in [Subscribers -> ConnRecord] /\ wire' \in [Subscribers -> Seq(Seqs)]
  <2> DEFINE m == IF e > next.last THEN e ELSE next.last
  <2>1. m \in 0..MaxEvents
    BY <1>9 DEF ConnRecord, Seqs
  <2>2. [next EXCEPT !.last = IF e > @ THEN e ELSE @] = [next EXCEPT !.last = m]
    OBVIOUS
  <2> HIDE DEF m
  <2>3. [next EXCEPT !.last = m] \in ConnRecord
    BY <1>9, <2>1 DEF ConnRecord
  <2>4. conn' \in [Subscribers -> ConnRecord]
    BY <1>1, <1>9, <2>2, <2>3 DEF Yield
  <2>5. wire' \in [Subscribers -> Seq(Seqs)]
    BY <1>1, <1>9 DEF Yield
  <2> QED
    BY <2>4, <2>5
<1>10. ASSUME NEW s \in Subscribers, YieldReplay(s) PROVE TypeOK'
  <2> DEFINE q == conn[s].replay
  <2>a. q \in Seq(Seqs) /\ q # <<>> /\ conn[s] \in ConnRecord
    BY <1>1, <1>10 DEF YieldReplay, ConnRecord
  <2>b. Head(q) \in Seqs /\ Tail(q) \in Seq(Seqs)
    BY <2>a
  <2>1. Head(conn[s].replay) \in Seqs /\ [conn[s] EXCEPT !.replay = Tail(@)] \in ConnRecord
    BY <2>a, <2>b DEF ConnRecord
  <2>2. /\ Yield(s, Head(conn[s].replay), [conn[s] EXCEPT !.replay = Tail(@)])
        /\ UNCHANGED <<seq, log, pub, queue, received, connects>>
    BY <1>10 DEF YieldReplay
  <2>3. conn' \in [Subscribers -> ConnRecord] /\ wire' \in [Subscribers -> Seq(Seqs)]
    BY <1>9, <2>1, <2>2
  <2> QED
    BY <1>1, <2>2, <2>3 DEF TypeOK, PubRecord, ConnRecord
<1>11. ASSUME NEW s \in Subscribers, YieldLive(s) PROVE TypeOK'
  <2>1. Head(queue[s]) \in Seqs /\ conn[s] \in ConnRecord
    BY <1>1, <1>11 DEF YieldLive
  <2>2. Yield(s, Head(queue[s]), conn[s]) /\ UNCHANGED <<seq, log, pub, received, connects>>
    BY <1>11 DEF YieldLive
  <2>3. conn' \in [Subscribers -> ConnRecord] /\ wire' \in [Subscribers -> Seq(Seqs)]
    BY <1>9, <2>1, <2>2
  <2>4. queue' \in [Subscribers -> Seq(Seqs)]
    BY <1>1, <1>11 DEF YieldLive
  <2> QED
    BY <1>1, <2>2, <2>3, <2>4 DEF TypeOK, PubRecord, ConnRecord
<1>12. ASSUME NEW s \in Subscribers, Disconnect(s) PROVE TypeOK'
  <2>1. Off \in ConnRecord /\ <<>> \in Seq(Seqs)
    BY DEF Off, ConnRecord
  <2> QED
    BY <1>1, <1>12, <2>1 DEF Disconnect, TypeOK, PubRecord, ConnRecord
<1>13. ASSUME NEW s \in Subscribers, Receive(s) PROVE TypeOK'
  <2>1. Head(wire[s]) \in Seqs /\ Tail(wire[s]) \in Seq(Seqs)
    BY <1>1, <1>13 DEF Receive
  <2>2. wire' \in [Subscribers -> Seq(Seqs)] /\ received' \in [Subscribers -> Seq(Seqs)]
    BY <1>1, <1>13, <2>1 DEF Receive
  <2> QED
    BY <1>1, <1>13, <2>2 DEF Receive, TypeOK, PubRecord, ConnRecord
<1>14. CASE UNCHANGED vars
  BY <1>14 DEF vars, TypeOK
<1> QED
  BY <1>2, <1>3, <1>4, <1>5, <1>6, <1>7, <1>8, <1>10, <1>11, <1>12, <1>13, <1>14
  DEF Next, PublishStep, StreamStep

LEMMA NumberedStep ==
  ASSUME TypeOK, PublishesNumbered, [Next]_vars
  PROVE  PublishesNumbered'
<1> USE DEF PublishesNumbered
<1>1. /\ seq \in 0..MaxEvents
      /\ pub \in [Publishers -> PubRecord]
  BY DEF TypeOK, PubRecord
<1>2. ASSUME NEW p \in Publishers, AppendEvent(p) PROVE PublishesNumbered'
  <2>1. seq' = seq + 1 /\ seq \in Nat /\ pub'[p].seq = seq + 1
        /\ \A q \in Publishers \ {p} : pub'[q] = pub[q]
    BY <1>1, <1>2, ConstantsAssumption DEF AppendEvent, Idle, PubRecord, ConstantsAssumption
  <2> QED
    BY <1>1, <2>1 DEF PubRecord
<1>3. ASSUME NEW p \in Publishers, PublishStep(p) PROVE PublishesNumbered'
  <2>1. seq' = seq /\ pub[p].at # "idle" /\ \A q \in Publishers \ {p} : pub'[q] = pub[q]
    BY <1>1, <1>3 DEF PublishStep, StoreEvent, CopySubscribers, PublishReturns, Fanout
  <2>2. pub'[p].at = "idle" \/ pub'[p].seq = pub[p].seq
    BY <1>1, <1>3 DEF PublishStep, StoreEvent, CopySubscribers, PublishReturns, Fanout, Idle,
                      PubRecord
  <2> QED
    BY <2>1, <2>2
<1>4. ASSUME NEW s \in Subscribers, Connect(s) \/ StreamStep(s) \/ Receive(s) \/ Disconnect(s)
      PROVE  UNCHANGED <<seq, pub>>
  BY <1>4 DEF Connect, StreamStep, ListReplay, YieldReplay, YieldLive, Receive, Disconnect
<1>5. CASE UNCHANGED vars
  BY <1>5 DEF vars
<1> QED
  BY <1>2, <1>3, <1>4, <1>5 DEF Next

\* The events of a list with one more, and of a list without its first.
LEMMA AppendElements ==
  ASSUME NEW es \in Seq(Nat), NEW e \in Nat
  PROVE  /\ Append(es, e) \in Seq(Nat)
         /\ \A i \in DOMAIN Append(es, e) :
              \/ i = Len(es) + 1 /\ Append(es, e)[i] = e
              \/ i \in DOMAIN es /\ Append(es, e)[i] = es[i]
OBVIOUS

LEMMA TailElements ==
  ASSUME NEW es \in Seq(Nat), es # <<>>
  PROVE  /\ Tail(es) \in Seq(Nat) /\ Head(es) \in Nat /\ Head(es) = es[1]
         /\ 1 \in DOMAIN es /\ DOMAIN es \subseteq Nat /\ DOMAIN Tail(es) \subseteq Nat \ {0}
         /\ \A i \in DOMAIN Tail(es) : i + 1 \in DOMAIN es /\ Tail(es)[i] = es[i + 1]
OBVIOUS

LEMMA IncreasingAppend ==
  ASSUME NEW es \in Seq(Nat), NEW e \in Nat, Increasing(es), \A i \in DOMAIN es : es[i] < e
  PROVE  Increasing(Append(es, e))
<1> DEFINE q == Append(es, e)
<1>1. ASSUME NEW i \in DOMAIN q, NEW j \in DOMAIN q, i < j PROVE q[i] < q[j]
  <2>1. /\ (i = Len(es) + 1 /\ q[i] = e) \/ (i \in DOMAIN es /\ q[i] = es[i])
        /\ (j = Len(es) + 1 /\ q[j] = e) \/ (j \in DOMAIN es /\ q[j] = es[j])
    BY <1>1, AppendElements
  <2> HIDE DEF q
  <2>2. \A k \in DOMAIN es : k \in Nat /\ k < Len(es) + 1 /\ es[k] \in Nat
    OBVIOUS
  <2>3. CASE j \in DOMAIN es /\ q[j] = es[j]
    BY <1>1, <2>1, <2>2, <2>3 DEF Increasing
  <2>4. CASE j = Len(es) + 1 /\ q[j] = e
    BY <1>1, <2>1, <2>2, <2>4
  <2> QED
    BY <2>1, <2>3, <2>4
<1> QED
  BY <1>1 DEF Increasing

LEMMA IncreasingTail ==
  ASSUME NEW es \in Seq(Nat), es # <<>>, Increasing(es)
  PROVE  Increasing(Tail(es)) /\ \A i \in DOMAIN Tail(es) : Tail(es)[i] > Head(es)
<1> DEFINE q == Tail(es)
<1>1. /\ Head(es) = es[1] /\ 1 \in DOMAIN es /\ \A i \in DOMAIN es : i \in Nat /\ es[i] \in Nat
      /\ \A i \in DOMAIN q : i \in Nat \ {0} /\ i + 1 \in DOMAIN es /\ q[i] = es[i + 1]
  BY TailElements
<1> HIDE DEF q
<1>2. ASSUME NEW i \in DOMAIN q, NEW j \in DOMAIN q, i < j PROVE q[i] < q[j]
  BY <1>1, <1>2 DEF Increasing
<1>3. ASSUME NEW i \in DOMAIN q PROVE q[i] > Head(es)
  <2>1. 1 < i + 1 /\ i + 1 \in DOMAIN es /\ q[i] = es[i + 1] /\ es[1] \in Nat /\ es[i + 1] \in Nat
    BY <1>1
  <2>2. es[1] < es[i + 1]
    BY <1>1, <2>1 DEF Increasing
  <2> QED
    BY <1>1, <2>1, <2>2
<1> QED
  BY <1>2, <1>3 DEF q, Increasing

\* Sending an event beyond the last one, or dropping another.
LEMMA SentAfterYield ==
  ASSUME TypeOK, NEW s \in Subscribers, SentUpToLast(s), conn[s].at = "replay",
         NEW e \in Seqs, NEW next, next.last = conn[s].last, next.at = "replay",
         next \in ConnRecord, Yield(s, e, next), received' = received
  PROVE  SentUpToLast(s)'
<1>1. conn[s].last \in Nat /\ wire[s] \in Seq(Nat) /\ received[s] \in Seq(Nat) /\ e \in Nat
  BY ConstantsAssumption DEF TypeOK, Seqs, ConstantsAssumption
<1>2. /\ conn'[s].last = IF e > conn[s].last THEN e ELSE conn[s].last
      /\ conn'[s].at = "replay"
      /\ wire'[s] = IF e > conn[s].last THEN Append(wire[s], e) ELSE wire[s]
  BY DEF Yield, TypeOK, ConnRecord
<1> DEFINE w == wire[s]
           v == wire'[s]
           r == received[s]
           last == conn[s].last
<1>3. /\ Increasing(r) /\ Increasing(w)
      /\ \A i \in DOMAIN r, j \in DOMAIN w : r[i] < w[j]
      /\ \A i \in DOMAIN r : r[i] <= last
      /\ \A i \in DOMAIN w : w[i] <= last
  BY DEF SentUpToLast
<1>4. /\ r \in Seq(Nat) /\ w \in Seq(Nat) /\ last \in Nat
  BY <1>1
<1>5. CASE e > conn[s].last
  <2>1. v = Append(w, e) /\ conn'[s].last = e /\ e > last
    BY <1>2, <1>5
  <2> HIDE DEF w, v, r, last
  <2>2. \A i \in DOMAIN v : v[i] = e \/ (i \in DOMAIN w /\ v[i] = w[i])
    BY <1>1, <1>4, <2>1, AppendElements
  <2>3. \A i \in DOMAIN r : r[i] < e
    BY <1>1, <1>3, <1>4, <2>1
  <2>4. \A i \in DOMAIN w : w[i] < e
    BY <1>1, <1>3, <1>4, <2>1
  <2>5. Increasing(v)
    BY <1>1, <1>3, <1>4, <2>1, <2>4, IncreasingAppend
  <2>6. \A i \in DOMAIN r, j \in DOMAIN v : r[i] < v[j]
    BY <1>3, <2>2, <2>3, Zenon
  <2>7. /\ \A i \in DOMAIN r : r[i] <= e
        /\ \A i \in DOMAIN v : v[i] <= e
    <3>1. \A n \in Nat : n < e => n <= e
      BY <1>1
    <3>2. e <= e /\ \A i \in DOMAIN r : r[i] \in Nat
      BY <1>1, <1>4
    <3>3. \A i \in DOMAIN w : w[i] \in Nat
      BY <1>4
    <3> QED
      BY <2>2, <2>3, <2>4, <3>1, <3>2, <3>3, Zenon
  <2> QED
    BY <1>2, <1>3, <2>1, <2>5, <2>6, <2>7 DEF SentUpToLast, w, v, r, last
<1>6. CASE ~ (e > conn[s].last)
  BY <1>2, <1>3, <1>6 DEF SentUpToLast
<1> QED
  BY <1>5, <1>6

\* Taking the next frame, which is beyond all the browser has.
LEMMA SentAfterReceive ==
  ASSUME TypeOK, NEW s \in Subscribers, SentUpToLast(s), Receive(s)
  PROVE  SentUpToLast(s)'
<1> DEFINE w == wire[s]
           v == wire'[s]
           r == received[s]
           q == received'[s]
           last == conn[s].last
<1>1. /\ w \in Seq(Nat) /\ r \in Seq(Nat) /\ w # <<>> /\ last \in Nat
      /\ conn' = conn /\ conn[s].at # "off"
  BY ConstantsAssumption DEF TypeOK, Seqs, ConstantsAssumption, Receive, SentUpToLast
<1>2. v = Tail(w) /\ q = IF Head(w) > LastOf(r) THEN Append(r, Head(w)) ELSE r
  BY DEF Receive, TypeOK
<1>3. /\ Increasing(r) /\ Increasing(w)
      /\ \A i \in DOMAIN r, j \in DOMAIN w : r[i] < w[j]
      /\ \A i \in DOMAIN r : r[i] <= last
      /\ \A i \in DOMAIN w : w[i] <= last
  BY <1>1 DEF SentUpToLast
<1> HIDE DEF w, v, r, q, last
<1>4. Head(w) = w[1] /\ Head(w) \in Nat /\ \A i \in DOMAIN r : r[i] < Head(w)
  BY <1>1, <1>3
<1>5. LastOf(r) <= Head(w)
  BY <1>1, <1>4 DEF LastOf, Last
<1>6. Increasing(v) /\ \A i \in DOMAIN v : \E k \in DOMAIN w : v[i] = w[k]
  BY <1>1, <1>2, <1>3, IncreasingTail, TailElements
<1>7. /\ \A i \in DOMAIN r, j \in DOMAIN v : r[i] < v[j]
      /\ \A i \in DOMAIN v : v[i] <= last
  BY <1>3, <1>6, Zenon
<1>8. Head(w) <= last /\ \A i \in DOMAIN v : Head(w) < v[i]
  <2>1. 1 \in DOMAIN w /\ \A i \in DOMAIN v : v[i] > Head(w)
    BY <1>1, <1>2, <1>3, IncreasingTail, TailElements
  <2>2. \A i \in DOMAIN v : v[i] \in Nat
    BY <1>1, <1>2, TailElements
  <2> QED
    BY <1>3, <1>4, <2>1, <2>2
<1>9. CASE q = Append(r, Head(w))
  <2>1. \A i \in DOMAIN q : q[i] = Head(w) \/ (i \in DOMAIN r /\ q[i] = r[i])
    BY <1>1, <1>4, <1>9, AppendElements
  <2>2. Increasing(q)
    BY <1>1, <1>3, <1>4, <1>9, IncreasingAppend
  <2>3. \A i \in DOMAIN q, j \in DOMAIN v : q[i] < v[j]
    BY <1>7, <1>8, <2>1, Zenon
  <2>4. \A i \in DOMAIN q : q[i] <= last
    BY <1>3, <1>8, <2>1, Zenon
  <2> QED
    BY <1>1, <1>6, <1>7, <2>2, <2>3, <2>4 DEF SentUpToLast, v, q, last
<1>10. CASE q = r
  BY <1>1, <1>3, <1>6, <1>7, <1>10 DEF SentUpToLast, v, r, q, last
<1> QED
  BY <1>2, <1>9, <1>10

\* A connection that begins, or ends.
LEMMA SentAfterConnect ==
  ASSUME TypeOK, NEW s \in Subscribers, SentUpToLast(s), Connect(s)
  PROVE  SentUpToLast(s)'
<1>1. /\ received[s] \in Seq(Nat) /\ wire[s] = <<>>
      /\ wire' = wire /\ received' = received
      /\ conn'[s].last = LastOf(received[s])
  BY ConstantsAssumption DEF TypeOK, Seqs, ConstantsAssumption, SentUpToLast, Connect
<1>2. \A i \in DOMAIN received[s] : received[s][i] <= LastOf(received[s])
  <2> DEFINE r == received[s]
  <2>1. r \in Seq(Nat) /\ Increasing(r)
    BY <1>1 DEF SentUpToLast
  <2> HIDE DEF r
  <2>2. \A i \in DOMAIN r : r[i] <= LastOf(r)
    BY <2>1 DEF LastOf, Last, Increasing
  <2> QED
    BY <2>2 DEF r
<1> QED
  BY <1>1, <1>2 DEF SentUpToLast

LEMMA SentAfterDisconnect ==
  ASSUME TypeOK, NEW s \in Subscribers, SentUpToLast(s), Disconnect(s)
  PROVE  SentUpToLast(s)'
<1>1. wire'[s] = <<>> /\ received' = received /\ conn'[s].at = "off"
  BY DEF Disconnect, TypeOK, Off
<1>2. Increasing(<<>>) /\ DOMAIN <<>> = {}
  BY DEF Increasing
<1> QED
  BY <1>1, <1>2 DEF SentUpToLast

\* Each subscriber's frames are still in order.
LEMMA SentStep ==
  ASSUME TypeOK, \A s \in Subscribers : SentUpToLast(s), [Next]_vars,
         NEW s \in Subscribers
  PROVE  SentUpToLast(s)'
<1>1. SentUpToLast(s)
  OBVIOUS
<1>2. CASE UNCHANGED <<conn[s], wire[s], received[s]>>
  BY <1>1, <1>2 DEF SentUpToLast
<1>3. ASSUME NEW p \in Publishers, AppendEvent(p) \/ PublishStep(p)
      PROVE  UNCHANGED <<conn, wire, received>>
  BY <1>3 DEF AppendEvent, PublishStep, StoreEvent, CopySubscribers, PublishReturns, Fanout
<1>4. ASSUME NEW t \in Subscribers, t # s,
             Connect(t) \/ StreamStep(t) \/ Receive(t) \/ Disconnect(t)
      PROVE  UNCHANGED <<conn[s], wire[s], received[s]>>
  BY <1>4 DEF Connect, StreamStep, ListReplay, YieldReplay, YieldLive, Yield, Receive,
              Disconnect, TypeOK
<1>5. CASE Connect(s)
  BY <1>1, <1>5, SentAfterConnect
<1>6. CASE ListReplay(s)
  <2>1. /\ conn[s].at # "off" /\ conn'[s].at # "off" /\ conn'[s].last = conn[s].last
        /\ UNCHANGED <<wire, received>>
    BY <1>6 DEF ListReplay, TypeOK
  <2> QED
    BY <1>1, <2>1 DEF SentUpToLast
<1>7. CASE YieldReplay(s)
  <2> DEFINE next == [conn[s] EXCEPT !.replay = Tail(@)]
  <2>a. conn[s] \in ConnRecord /\ conn[s].replay # <<>> /\ conn[s].at = "replay"
    BY <1>7 DEF YieldReplay, TypeOK, ConnRecord
  <2>b. Head(conn[s].replay) \in Seqs /\ Tail(conn[s].replay) \in Seq(Seqs)
    BY <2>a DEF ConnRecord
  <2>1. /\ next \in ConnRecord /\ next.last = conn[s].last /\ next.at = "replay"
        /\ Head(conn[s].replay) \in Seqs
    BY <2>a, <2>b DEF ConnRecord
  <2>2. conn[s].at = "replay" /\ Yield(s, Head(conn[s].replay), next) /\ received' = received
    BY <1>7 DEF YieldReplay
  <2> QED
    BY <1>1, <2>1, <2>2, SentAfterYield
<1>8. CASE YieldLive(s)
  <2>1. conn[s] \in ConnRecord /\ Head(queue[s]) \in Seqs
    BY <1>8 DEF YieldLive, TypeOK, ConnRecord
  <2>2. conn[s].at = "replay" /\ Yield(s, Head(queue[s]), conn[s]) /\ received' = received
    BY <1>8 DEF YieldLive
  <2> QED
    BY <1>1, <2>1, <2>2, SentAfterYield
<1>9. CASE Receive(s)
  BY <1>1, <1>9, SentAfterReceive
<1>10. CASE Disconnect(s)
  BY <1>1, <1>10, SentAfterDisconnect
<1>11. CASE UNCHANGED vars
  BY <1>2, <1>11 DEF vars
<1> QED
  BY <1>2, <1>3, <1>4, <1>5, <1>6, <1>7, <1>8, <1>9, <1>10, <1>11 DEF Next, StreamStep

LEMMA InitInvariant == Init => IInv
<1> SUFFICES ASSUME Init PROVE IInv
  OBVIOUS
<1>1. TypeOK /\ PublishesNumbered
  BY ConstantsAssumption DEF Init, TypeOK, PublishesNumbered, Idle, Off, ConstantsAssumption
<1>2. Increasing(<<>>) /\ DOMAIN <<>> = {}
  BY DEF Increasing
<1>3. ASSUME NEW s \in Subscribers PROVE SentUpToLast(s)
  <2>1. received[s] = <<>> /\ wire[s] = <<>>
    BY DEF Init
  <2> QED
    BY <1>2, <2>1 DEF SentUpToLast
<1> QED
  BY <1>1, <1>3 DEF IInv

LEMMA NextInvariant == IInv /\ [Next]_vars => IInv'
BY TypeStep, NumberedStep, SentStep DEF IInv

\* The inductive invariant of the stream, for any number of publishers.
THEOREM StreamInvariant == Spec => []IInv
BY InitInvariant, NextInvariant, PTL DEF Spec

\* The types of the log, of the publish calls and of the connections (TypeOK).
THEOREM TypeCorrect == Spec => []TypeOK
<1>1. IInv => TypeOK
  BY DEF IInv
<1> QED
  BY <1>1, StreamInvariant, PTL

\* However publishers race, what a browser has taken, followed by what is on its way
\* to it, is in increasing order over all its connections: nothing comes twice and
\* nothing out of order (the comparison with last_seq in stream_events).
THEOREM FramesInOrder == Spec => []SentInOrder
<1>1. ASSUME IInv, NEW s \in Subscribers PROVE Increasing(received[s] \o wire[s])
  <2> DEFINE r == received[s]
             w == wire[s]
  <2>1. /\ r \in Seq(Nat) /\ w \in Seq(Nat)
        /\ Increasing(r) /\ Increasing(w)
        /\ \A i \in DOMAIN r, j \in DOMAIN w : r[i] < w[j]
    BY <1>1, ConstantsAssumption DEF IInv, TypeOK, Seqs, SentUpToLast, ConstantsAssumption
  <2> HIDE DEF r, w
  <2>2. /\ DOMAIN (r \o w) = 1..Len(r) + Len(w)
        /\ \A i \in 1..Len(r) : (r \o w)[i] = r[i]
        /\ \A i \in Len(r) + 1..Len(r) + Len(w) : (r \o w)[i] = w[i - Len(r)]
    BY <2>1
  <2>3. ASSUME NEW i \in DOMAIN (r \o w), NEW j \in DOMAIN (r \o w), i < j
        PROVE  (r \o w)[i] < (r \o w)[j]
    <3>1. CASE j <= Len(r)
      BY <2>1, <2>2, <2>3, <3>1 DEF Increasing
    <3>2. CASE i <= Len(r) /\ j > Len(r)
      BY <2>1, <2>2, <2>3, <3>2
    <3>3. CASE i > Len(r)
      BY <2>1, <2>2, <2>3, <3>3 DEF Increasing
    <3> QED
      BY <2>1, <2>2, <2>3, <3>1, <3>2, <3>3
  <2>4. Increasing(r \o w)
    BY <2>3 DEF Increasing
  <2> QED
    BY <2>4 DEF r, w
<1>2. IInv => SentInOrder
  BY <1>1 DEF SentInOrder
<1> QED
  BY <1>2, StreamInvariant, PTL
-----------------------------------------------------------------------------
(* What arrives, with one publisher p.                                     *)

\* All events are stored in their order, but for the one that p is about to store;
\* the queues p has yet to reach are of connections already made.
LogIsComplete(p) ==
  /\ Follows(log, 0) /\ Len(log) = IF pub[p].at = "store" THEN seq - 1 ELSE seq
  /\ pub[p].at # "idle" => pub[p].seq = seq
  /\ pub[p].at # "fanout" => pub[p].left = {}
  /\ \A t \in pub[p].left : t[2] <= connects[t[1]]

\* The last event that was put on the queue of s, or would have been.
Queued(p, s) ==
  IF pub[p].at \in {"store", "subscribers"} \/ <<s, connects[s]>> \in pub[p].left
  THEN seq - 1 ELSE seq

\* The browser has the first events, the next ones are on their way to it, and replay
\* and queue have all the others that are stored, possibly some of them twice.  Of
\* the arguments, known is the last event queued and stored the last one stored.
Gapless(at, last, replay, waiting, sent, got, known, stored) ==
  /\ Follows(got, 0) /\ Follows(sent, Len(got)) /\ Len(got) + Len(sent) <= stored
  /\ at = "off" => sent = <<>> /\ waiting = <<>>
  /\ at # "off" => /\ last = Len(got) + Len(sent)
                   /\ Len(waiting) <= known /\ Follows(waiting, known - Len(waiting))
  /\ at = "replay" => /\ Follows(replay, last) /\ last + Len(replay) <= stored
                      /\ known - Len(waiting) <= last + Len(replay)

NothingIsMissed(p, s) ==
  Gapless(conn[s].at, conn[s].last, conn[s].replay, queue[s], wire[s], received[s],
          Queued(p, s), Len(log))

HistoryInv(p) == LogIsComplete(p) /\ \A s \in Subscribers : NothingIsMissed(p, s)

LEMMA LastOfFollows ==
  ASSUME NEW es \in Seq(Nat), Follows(es, 0)
  PROVE  LastOf(es) = Len(es)
BY DEF LastOf, Last, Follows

LEMMA FollowsAppend ==
  ASSUME NEW es \in Seq(Nat), NEW k \in Int, Follows(es, k), k + Len(es) + 1 \in Nat
  PROVE  /\ Follows(Append(es, k + Len(es) + 1), k)
         /\ Len(Append(es, k + Len(es) + 1)) = Len(es) + 1
BY DEF Follows

LEMMA FollowsTail ==
  ASSUME NEW es \in Seq(Nat), NEW k \in Int, Follows(es, k), es # <<>>
  PROVE  /\ Head(es) = k + 1 /\ Follows(Tail(es), k + 1) /\ Len(Tail(es)) = Len(es) - 1
         /\ Tail(es) \in Seq(Nat) /\ Len(es) > 0
BY DEF Follows

\* The types that the proofs below need.
LEMMA StreamTypes ==
  ASSUME IInv
  PROVE  /\ seq \in Nat /\ log \in Seq(Nat)
         /\ pub \in [Publishers -> PubRecord] /\ conn \in [Subscribers -> ConnRecord]
         /\ \A s \in Subscribers : /\ queue[s] \in Seq(Nat) /\ wire[s] \in Seq(Nat)
                                   /\ received[s] \in Seq(Nat) /\ connects[s] \in Nat
                                   /\ conn[s].last \in Nat /\ conn[s].replay \in Seq(Nat)
         /\ \A p \in Publishers : pub[p].at # "idle" => seq > 0
<1>1. MaxEvents \in Nat /\ \A es \in Seq(Seqs) : es \in Seq(Nat)
  BY ConstantsAssumption DEF ConstantsAssumption, Seqs
<1> QED
  BY <1>1 DEF IInv, TypeOK, PubRecord, ConnRecord, PublishesNumbered

LEMMA QueuedType ==
  ASSUME IInv, NEW p \in Publishers, LogIsComplete(p), NEW s \in Subscribers
  PROVE  Queued(p, s) \in Nat /\ Queued(p, s) <= Len(log)
<1>1. seq \in Nat /\ Len(log) \in Nat /\ (pub[p].at # "idle" => seq > 0)
  BY StreamTypes
<1>2. <<s, connects[s]>> \in pub[p].left => pub[p].at = "fanout"
  BY DEF LogIsComplete
<1> QED
  BY <1>1, <1>2 DEF Queued, LogIsComplete

\* More events are stored.
LEMMA StoreMore ==
  ASSUME NEW at, NEW last \in Nat, NEW replay \in Seq(Nat), NEW waiting \in Seq(Nat),
         NEW sent \in Seq(Nat), NEW got \in Seq(Nat), NEW known \in Nat, NEW stored \in Nat,
         NEW more \in Nat, stored <= more,
         Gapless(at, last, replay, waiting, sent, got, known, stored)
  PROVE  Gapless(at, last, replay, waiting, sent, got, known, more)
<1>1. Len(got) \in Nat /\ Len(sent) \in Nat /\ Len(replay) \in Nat
  OBVIOUS
<1>2. Len(got) + Len(sent) <= more
  BY <1>1 DEF Gapless
<1>3. at = "replay" => last + Len(replay) <= more
  BY <1>1 DEF Gapless
<1> QED
  BY <1>2, <1>3, Zenon DEF Gapless

LEMMA StoredReach ==
  ASSUME NEW at, NEW last, NEW replay, NEW waiting, NEW known,
         NEW sent \in Seq(Nat), NEW got \in Seq(Nat), NEW stored \in Nat,
         Gapless(at, last, replay, waiting, sent, got, known, stored)
  PROVE  Len(got) <= stored
<1>1. Len(got) \in Nat /\ Len(sent) \in Nat /\ Len(got) + Len(sent) <= stored
  BY DEF Gapless
<1> QED
  BY <1>1

\* One more event on the queue.
LEMMA QueueOne ==
  ASSUME NEW at, NEW last \in Nat, NEW replay \in Seq(Nat), NEW waiting \in Seq(Nat),
         NEW sent \in Seq(Nat), NEW got \in Seq(Nat), NEW known \in Nat, NEW stored \in Nat,
         Gapless(at, last, replay, waiting, sent, got, known, stored), at # "off"
  PROVE  Gapless(at, last, replay, Append(waiting, known + 1), sent, got, known + 1, stored)
<1> DEFINE old == known - Len(waiting)
           q   == Append(waiting, known + 1)
<1>1. Follows(waiting, old) /\ old \in Int /\ old + Len(waiting) + 1 = known + 1
  BY DEF Gapless
<1>2. Follows(q, old) /\ Len(q) = Len(waiting) + 1
  BY <1>1, FollowsAppend
<1>3. (known + 1) - Len(q) = old /\ Len(q) <= known + 1
  BY <1>1, <1>2 DEF Gapless
<1> HIDE DEF q
<1>4. Follows(q, (known + 1) - Len(q))
  BY <1>2, <1>3
<1>5. Gapless(at, last, replay, q, sent, got, known + 1, stored)
  BY <1>3, <1>4 DEF Gapless
<1> QED
  BY <1>5 DEF q

\* The first event of the replay is sent.
LEMMA SendReplay ==
  ASSUME NEW last \in Nat, NEW replay \in Seq(Nat), NEW waiting \in Seq(Nat),
         NEW sent \in Seq(Nat), NEW got \in Seq(Nat), NEW known \in Nat, NEW stored \in Nat,
         Gapless("replay", last, replay, waiting, sent, got, known, stored), replay # <<>>
  PROVE  /\ Head(replay) = last + 1
         /\ Gapless("replay", last + 1, Tail(replay), waiting, Append(sent, last + 1), got,
                    known, stored)
<1>1. /\ Head(replay) = last + 1 /\ Follows(Tail(replay), last + 1) /\ Tail(replay) \in Seq(Nat)
      /\ Len(Tail(replay)) = Len(replay) - 1 /\ Len(replay) > 0
  BY FollowsTail DEF Gapless
<1>2. last + 1 = Len(got) + Len(sent) + 1 /\ Len(got) \in Nat /\ Len(replay) \in Nat
  BY DEF Gapless
<1>3. /\ Follows(Append(sent, last + 1), Len(got))
      /\ Len(Append(sent, last + 1)) = Len(sent) + 1
  BY <1>2, FollowsAppend DEF Gapless
<1> DEFINE w == Append(sent, last + 1)
           t == Tail(replay)
<1>4. /\ Follows(w, Len(got)) /\ Len(w) = Len(sent) + 1
      /\ Follows(t, last + 1) /\ Len(t) = Len(replay) - 1
  BY <1>1, <1>3
<1> HIDE DEF w, t
<1>5. Len(got) + Len(w) <= stored /\ last + 1 = Len(got) + Len(w)
      /\ (last + 1) + Len(t) <= stored /\ known - Len(waiting) <= (last + 1) + Len(t)
  BY <1>1, <1>2, <1>4 DEF Gapless
<1>6. Gapless("replay", last + 1, t, waiting, w, got, known, stored)
  BY <1>4, <1>5 DEF Gapless
<1> QED
  BY <1>1, <1>6 DEF w, t

\* The first event of the queue is sent, or is one that has been replayed.
LEMMA SendLive ==
  ASSUME NEW last \in Nat, NEW waiting \in Seq(Nat),
         NEW sent \in Seq(Nat), NEW got \in Seq(Nat), NEW known \in Nat, NEW stored \in Nat,
         Gapless("replay", last, <<>>, waiting, sent, got, known, stored),
         waiting # <<>>, known <= stored
  PROVE  /\ Head(waiting) <= last + 1
         /\ Head(waiting) = last + 1 =>
              Gapless("replay", last + 1, <<>>, Tail(waiting), Append(sent, last + 1), got,
                      known, stored)
         /\ Head(waiting) <= last =>
              Gapless("replay", last, <<>>, Tail(waiting), sent, got, known, stored)
<1> DEFINE old == known - Len(waiting)
           t   == Tail(waiting)
           w   == Append(sent, last + 1)
<1>1. old \in Nat /\ Follows(waiting, old) /\ old <= last /\ known = old + Len(waiting)
  BY DEF Gapless
<1>2. /\ Head(waiting) = old + 1 /\ Follows(t, old + 1) /\ t \in Seq(Nat)
      /\ Len(t) = Len(waiting) - 1 /\ Len(waiting) > 0
  BY <1>1, FollowsTail
<1>3. last = Len(got) + Len(sent) /\ Len(got) \in Nat /\ last <= stored
  BY DEF Gapless
<1>4. Follows(w, Len(got)) /\ Len(w) = Len(sent) + 1
  BY <1>3, FollowsAppend DEF Gapless
<1>5. Follows(<<>>, last) /\ Follows(<<>>, last + 1) /\ Len(<<>>) = 0
  BY DEF Follows
<1> HIDE DEF t, w
<1>6. known - Len(t) = old + 1 /\ Len(t) <= known
  BY <1>1, <1>2
<1>7. Follows(t, known - Len(t))
  BY <1>2, <1>6
<1>8. CASE old = last
  <2>1. last + 1 <= stored /\ last + 1 = Len(got) + Len(w)
    BY <1>1, <1>2, <1>3, <1>4, <1>8
  <2>2. Gapless("replay", last + 1, <<>>, t, w, got, known, stored)
    BY <1>1, <1>3, <1>4, <1>5, <1>6, <1>7, <1>8, <2>1 DEF Gapless
  <2> QED
    BY <1>2, <1>8, <2>2 DEF t, w
<1>9. CASE old < last
  <2>1. Gapless("replay", last, <<>>, t, sent, got, known, stored)
    BY <1>1, <1>3, <1>5, <1>6, <1>7, <1>9 DEF Gapless
  <2> QED
    BY <1>1, <1>2, <1>9, <2>1 DEF t
<1>10. old = last \/ old < last
  <2>1. old \in Nat /\ old <= last
    BY <1>1
  <2> HIDE DEF old
  <2> QED
    BY <2>1
<1> QED
  BY <1>8, <1>9, <1>10

\* The first frame on the connection is the next event for the browser.
LEMMA TakeFrame ==
  ASSUME NEW at, NEW last \in Nat, NEW replay \in Seq(Nat), NEW waiting \in Seq(Nat),
         NEW sent \in Seq(Nat), NEW got \in Seq(Nat), NEW known \in Nat, NEW stored \in Nat,
         Gapless(at, last, replay, waiting, sent, got, known, stored), sent # <<>>
  PROVE  /\ Head(sent) = Len(got) + 1 /\ LastOf(got) = Len(got) /\ Len(got) < stored
         /\ Gapless(at, last, replay, waiting, Tail(sent), Append(got, Len(got) + 1), known,
                    stored)
<1> DEFINE g == Append(got, Len(got) + 1)
           t == Tail(sent)
<1>1. /\ Follows(got, 0) /\ Follows(sent, Len(got)) /\ Len(got) \in Nat /\ Len(sent) \in Nat
      /\ Len(got) + Len(sent) <= stored /\ at # "off" /\ last = Len(got) + Len(sent)
  BY DEF Gapless
<1>2. /\ Head(sent) = Len(got) + 1 /\ Follows(t, Len(got) + 1) /\ t \in Seq(Nat)
      /\ Len(t) = Len(sent) - 1 /\ Len(sent) > 0
  BY <1>1, FollowsTail
<1>3. LastOf(got) = Len(got)
  BY <1>1, LastOfFollows
<1>4. 0 + Len(got) + 1 = Len(got) + 1 /\ 0 + Len(got) + 1 \in Nat
  BY <1>1
<1>5. Follows(g, 0) /\ Len(g) = Len(got) + 1
  BY <1>1, <1>4, FollowsAppend
<1> HIDE DEF g, t
<1>6. Follows(t, Len(g)) /\ Len(g) + Len(t) = Len(got) + Len(sent)
  BY <1>1, <1>2, <1>5
<1>7. Gapless(at, last, replay, waiting, t, g, known, stored)
  BY <1>1, <1>5, <1>6 DEF Gapless
<1>8. Len(got) < stored
  BY <1>1, <1>2
<1> QED
  BY <1>2, <1>3, <1>7, <1>8 DEF g, t

\* A subscriber's part of the state.
LEMMA SubscriberTypes ==
  ASSUME IInv, NEW s \in Subscribers
  PROVE  /\ queue[s] \in Seq(Nat) /\ wire[s] \in Seq(Nat) /\ received[s] \in Seq(Nat)
         /\ conn[s] \in ConnRecord /\ conn[s].last \in Nat /\ conn[s].replay \in Seq(Nat)
         /\ connects[s] \in Nat /\ log \in Seq(Nat) /\ Len(log) \in Nat
BY StreamTypes

\* A publisher that stores an event, or puts the next one on a queue, misses nothing;
\* nor does a subscriber whom a step is not about.
LEMMA PublishedIsNotMissed ==
  ASSUME IInv, NEW p \in Publishers, LogIsComplete(p), NEW s \in Subscribers,
         NothingIsMissed(p, s), UNCHANGED <<conn[s], wire[s], received[s]>>,
         Len(log)' \in Nat, Len(log) <= Len(log)',
         \/ queue'[s] = queue[s] /\ (conn[s].at = "off" \/ Queued(p, s)' = Queued(p, s))
         \/ /\ conn[s].at # "off" /\ Queued(p, s)' = Queued(p, s) + 1
            /\ queue'[s] = Append(queue[s], Queued(p, s) + 1)
  PROVE  NothingIsMissed(p, s)'
<1>1. Queued(p, s) \in Nat
  BY QueuedType
<1> DEFINE G(q, k, n) == Gapless(conn[s].at, conn[s].last, conn[s].replay, q, wire[s],
                                 received[s], k, n)
<1>2. Len(received[s]) \in Nat /\ Len(wire[s]) \in Nat /\ Len(conn[s].replay) \in Nat
      /\ conn[s].last \in Nat /\ Len(log) \in Nat
  BY SubscriberTypes
<1>3. G(queue[s], Queued(p, s), Len(log))
  BY DEF NothingIsMissed
<1>4. G(queue[s], Queued(p, s), Len(log)')
  <2>1. Len(log) \in Nat /\ Len(log)' \in Nat /\ Len(log) <= Len(log)'
    BY <1>2
  <2> QED
    BY <1>1, <1>3, <2>1, SubscriberTypes, StoreMore, Zenon
<1>5. conn[s].at = "off" => \A k : G(queue[s], k, Len(log)')
  BY <1>4 DEF Gapless
<1>6. conn[s].at # "off" => G(Append(queue[s], Queued(p, s) + 1), Queued(p, s) + 1, Len(log)')
  BY <1>1, <1>4, SubscriberTypes, QueueOne
<1>7. G(queue'[s], Queued(p, s)', Len(log)')
  <2> HIDE DEF G
  <2> QED
    BY <1>4, <1>5, <1>6
<1> QED
  BY <1>7 DEF NothingIsMissed

\* The steps of the publisher, for the log.
LEMMA PublisherKeepsLog ==
  ASSUME IInv, NEW p \in Publishers, LogIsComplete(p), AppendEvent(p) \/ PublishStep(p)
  PROVE  LogIsComplete(p)' /\ Len(log)' \in Nat /\ Len(log) <= Len(log)'
<1> USE StreamTypes DEF LogIsComplete
<1>1. CASE AppendEvent(p)
  <2>1. /\ seq' = seq + 1 /\ pub[p].at = "idle" /\ connects' = connects
        /\ log' = IF Durable THEN Append(log, seq + 1) ELSE log
        /\ pub'[p].at = (IF Durable THEN "subscribers" ELSE "store")
        /\ pub'[p].seq = seq + 1 /\ pub'[p].left = {}
    BY <1>1 DEF AppendEvent, Idle
  <2>2. Len(log) = seq /\ Follows(log, 0)
    BY <2>1
  <2>3. Follows(log', 0) /\ Len(log') = IF Durable THEN seq + 1 ELSE seq
    BY <2>1, <2>2, FollowsAppend
  <2> QED
    BY <2>1, <2>2, <2>3
<1>2. CASE StoreEvent(p)
  <2>1. /\ seq' = seq /\ pub[p].at = "store" /\ log' = Append(log, pub[p].seq)
        /\ pub'[p].at = "subscribers" /\ pub'[p].seq = pub[p].seq
        /\ pub'[p].left = pub[p].left /\ connects' = connects
    BY <1>2 DEF StoreEvent, PubRecord
  <2>2. Len(log) = seq - 1 /\ Follows(log, 0) /\ pub[p].seq = seq /\ pub[p].left = {}
    BY <2>1
  <2>3. Follows(log', 0) /\ Len(log') = seq
    BY <2>1, <2>2, FollowsAppend
  <2> QED
    BY <2>1, <2>2, <2>3
<1>3. CASE CopySubscribers(p)
  <2> DEFINE copied == {<<t, connects[t]>> : t \in {u \in Subscribers : conn[u].at # "off"}}
  <2>1. /\ pub[p].at = "subscribers" /\ UNCHANGED <<seq, log, connects>>
        /\ pub'[p].at = "fanout" /\ pub'[p].seq = pub[p].seq /\ pub'[p].left = copied
    BY <1>3 DEF CopySubscribers, PubRecord
  <2>2. \A t \in copied : t[2] <= connects[t[1]]
    OBVIOUS
  <2> HIDE DEF copied
  <2> QED
    BY <2>1, <2>2
<1>4. ASSUME NEW s \in Subscribers, Fanout(p, s)
      PROVE  LogIsComplete(p)' /\ Len(log)' \in Nat /\ Len(log) <= Len(log)'
  <2>1. /\ pub[p].at = "fanout" /\ UNCHANGED <<seq, log, connects>>
        /\ pub'[p].at = "fanout" /\ pub'[p].seq = pub[p].seq /\ pub'[p].left \subseteq pub[p].left
    BY <1>4 DEF Fanout, PubRecord
  <2> QED
    BY <2>1
<1>5. CASE PublishReturns(p)
  <2>1. /\ pub[p].at = "fanout" /\ UNCHANGED <<seq, log, connects>>
        /\ pub'[p].at = "idle" /\ pub'[p].left = {}
    BY <1>5 DEF PublishReturns, Idle
  <2> QED
    BY <2>1
<1> QED
  BY <1>1, <1>2, <1>3, <1>4, <1>5 DEF PublishStep

\* The steps of the publisher, for the queue of a browser.
LEMMA PublisherKeepsQueue ==
  ASSUME IInv, NEW p \in Publishers, LogIsComplete(p), AppendEvent(p) \/ PublishStep(p),
         NEW s \in Subscribers
  PROVE  \/ queue'[s] = queue[s] /\ (conn[s].at = "off" \/ Queued(p, s)' = Queued(p, s))
         \/ /\ conn[s].at # "off" /\ Queued(p, s)' = Queued(p, s) + 1
            /\ queue'[s] = Append(queue[s], Queued(p, s) + 1)
<1> USE StreamTypes DEF Queued
<1>1. CASE AppendEvent(p)
  <2>1. /\ seq' = seq + 1 /\ pub[p].at = "idle" /\ queue' = queue
        /\ pub'[p].at \in {"store", "subscribers"}
    BY <1>1 DEF AppendEvent, Idle
  <2>2. pub[p].left = {} /\ seq \in Nat
    BY <2>1 DEF LogIsComplete
  <2> QED
    BY <2>1, <2>2
<1>2. CASE StoreEvent(p)
  <2>1. /\ seq' = seq /\ pub[p].at = "store" /\ pub'[p].at = "subscribers" /\ queue' = queue
    BY <1>2 DEF StoreEvent, PubRecord
  <2> QED
    BY <2>1
<1>3. CASE CopySubscribers(p)
  <2> DEFINE copied == {<<t, connects[t]>> : t \in {u \in Subscribers : conn[u].at # "off"}}
  <2>1. /\ pub[p].at = "subscribers" /\ UNCHANGED <<seq, connects, queue>>
        /\ pub'[p].at = "fanout" /\ pub'[p].left = copied
    BY <1>3 DEF CopySubscribers, PubRecord
  <2>2. conn[s].at # "off" => <<s, connects[s]>> \in copied
    OBVIOUS
  <2> HIDE DEF copied
  <2> QED
    BY <2>1, <2>2
<1>4. ASSUME NEW u \in Subscribers, Fanout(p, u)
      PROVE  \/ queue'[s] = queue[s] /\ (conn[s].at = "off" \/ Queued(p, s)' = Queued(p, s))
             \/ /\ conn[s].at # "off" /\ Queued(p, s)' = Queued(p, s) + 1
                /\ queue'[s] = Append(queue[s], Queued(p, s) + 1)
  <2>1. pub[p].at = "fanout" /\ UNCHANGED <<seq, conn, connects>>
    BY <1>4 DEF Fanout
  <2>2. PICK t \in pub[p].left :
          /\ t[1] = u /\ pub' = [pub EXCEPT ![p].left = @ \ {t}]
          /\ queue' = IF t = <<u, connects[u]>> /\ conn[u].at # "off"
                      THEN [queue EXCEPT ![u] = Append(@, pub[p].seq)] ELSE queue
    BY <1>4 DEF Fanout
  <2>3. pub'[p].at = "fanout" /\ pub'[p].left = pub[p].left \ {t}
    BY <2>1, <2>2 DEF PubRecord
  <2>4. CASE t = <<s, connects[s]>>
    <3>1. u = s /\ Queued(p, s) = seq - 1 /\ Queued(p, s)' = seq /\ seq \in Nat /\ pub[p].seq = seq
      BY <2>1, <2>2, <2>3, <2>4 DEF LogIsComplete
    <3>2. queue'[s] = IF conn[s].at # "off" THEN Append(queue[s], seq) ELSE queue[s]
      BY <2>2, <2>4, <3>1 DEF IInv, TypeOK
    <3> QED
      BY <3>1, <3>2
  <2>5. CASE t # <<s, connects[s]>>
    <3>1. Queued(p, s)' = Queued(p, s)
      BY <2>1, <2>3, <2>5
    <3>2. queue'[s] = queue[s]
      BY <2>2, <2>5 DEF IInv, TypeOK
    <3> QED
      BY <3>1, <3>2
  <2> QED
    BY <2>4, <2>5
<1>5. CASE PublishReturns(p)
  <2>1. /\ pub[p].at = "fanout" /\ pub[p].left = {} /\ UNCHANGED <<seq, queue>>
        /\ pub'[p].at = "idle" /\ pub'[p].left = {}
    BY <1>5 DEF PublishReturns, Idle
  <2> QED
    BY <2>1
<1> QED
  BY <1>1, <1>2, <1>3, <1>4, <1>5 DEF PublishStep

\* A step of one browser or its connection is not about another, nor about publishing.
LEMMA OthersKeep ==
  ASSUME IInv, NEW p \in Publishers, LogIsComplete(p), NEW t \in Subscribers,
         Connect(t) \/ StreamStep(t) \/ Receive(t) \/ Disconnect(t)
  PROVE  /\ UNCHANGED <<seq, log, pub>> /\ LogIsComplete(p)'
         /\ \A s \in Subscribers \ {t} :
              /\ UNCHANGED <<conn[s], wire[s], received[s], queue[s]>>
              /\ Queued(p, s)' = Queued(p, s)
         /\ ~ Connect(t) => Queued(p, t)' = Queued(p, t)
<1>1. UNCHANGED <<seq, log, pub>> /\ (Connect(t) \/ connects' = connects)
  BY DEF Connect, StreamStep, ListReplay, YieldReplay, YieldLive, Receive, Disconnect
<1>2. ASSUME NEW s \in Subscribers \ {t}
      PROVE  UNCHANGED <<conn[s], wire[s], received[s], queue[s], connects[s]>>
  BY DEF Connect, StreamStep, ListReplay, YieldReplay, YieldLive, Yield, Receive,
         Disconnect, IInv, TypeOK
<1>3. ASSUME NEW s \in Subscribers PROVE connects'[s] \in Nat /\ connects[s] <= connects'[s]
  <2>1. connects[s] \in Nat
    BY SubscriberTypes
  <2>2. connects'[s] = connects[s] \/ connects'[s] = connects[s] + 1
    BY <1>1 DEF Connect, IInv, TypeOK
  <2> QED
    BY <2>1, <2>2
<1>4. \A x \in pub[p].left : x[1] \in Subscribers /\ x[2] \in Nat
  BY StreamTypes DEF PubRecord
<1>5. LogIsComplete(p)'
  <2>1. \A x \in pub[p].left : x[2] <= connects'[x[1]]
    <3>1. ASSUME NEW x \in pub[p].left PROVE x[2] <= connects'[x[1]]
      <4>1. x[2] <= connects[x[1]] /\ connects[x[1]] \in Nat
        BY <1>4, SubscriberTypes DEF LogIsComplete
      <4> QED
        BY <1>3, <1>4, <4>1
    <3> QED
      BY <3>1
  <2> QED
    BY <1>1, <2>1 DEF LogIsComplete
<1>6. \A s \in Subscribers \ {t} : Queued(p, s)' = Queued(p, s)
  BY <1>1, <1>2 DEF Queued
<1>7. ~ Connect(t) => Queued(p, t)' = Queued(p, t)
  BY <1>1 DEF Queued
<1> QED
  BY <1>1, <1>2, <1>5, <1>6, <1>7

\* What Yield sends.
LEMMA YieldSends ==
  ASSUME IInv, NEW s \in Subscribers, NEW e, NEW next \in ConnRecord,
         next.last = conn[s].last, next.at = "replay", Yield(s, e, next)
  PROVE  /\ conn'[s].last = (IF e > conn[s].last THEN e ELSE conn[s].last)
         /\ conn'[s].at = "replay" /\ conn'[s].replay = next.replay
         /\ wire'[s] = IF e > conn[s].last THEN Append(wire[s], e) ELSE wire[s]
BY DEF Yield, ConnRecord, IInv, TypeOK

LEMMA FrameTaken ==
  ASSUME IInv, NEW p \in Publishers, LogIsComplete(p), NEW s \in Subscribers,
         NothingIsMissed(p, s), wire[s] # <<>>
  PROVE  /\ Head(wire[s]) = Len(received[s]) + 1 /\ LastOf(received[s]) = Len(received[s])
         /\ Len(received[s]) < Len(log)
         /\ Gapless(conn[s].at, conn[s].last, conn[s].replay, queue[s], Tail(wire[s]),
                    Append(received[s], Len(received[s]) + 1), Queued(p, s), Len(log))
<1> DEFINE at     == conn[s].at
           last   == conn[s].last
           replay == conn[s].replay
           known  == Queued(p, s)
<1>1. /\ queue[s] \in Seq(Nat) /\ wire[s] \in Seq(Nat) /\ received[s] \in Seq(Nat)
      /\ Len(log) \in Nat /\ last \in Nat /\ replay \in Seq(Nat)
  BY SubscriberTypes
<1>2. known \in Nat
  BY QueuedType
<1>3. Gapless(at, last, replay, queue[s], wire[s], received[s], known, Len(log))
  BY DEF NothingIsMissed
<1> HIDE DEF at, last, replay, known
<1>4. \A got \in Seq(Nat), stored \in Nat :
        Gapless(at, last, replay, queue[s], wire[s], got, known, stored)
        => /\ Head(wire[s]) = Len(got) + 1 /\ LastOf(got) = Len(got) /\ Len(got) < stored
           /\ Gapless(at, last, replay, queue[s], Tail(wire[s]), Append(got, Len(got) + 1),
                      known, stored)
  BY <1>1, <1>2, TakeFrame, Zenon
<1>5. /\ Head(wire[s]) = Len(received[s]) + 1 /\ LastOf(received[s]) = Len(received[s])
      /\ Len(received[s]) < Len(log)
      /\ Gapless(at, last, replay, queue[s], Tail(wire[s]),
                 Append(received[s], Len(received[s]) + 1), known, Len(log))
  BY <1>1, <1>3, <1>4, Zenon
<1> QED
  BY <1>5 DEF at, last, replay, known

\* A step of a browser or of its connection.
LEMMA SubscriberMissesNothing ==
  ASSUME IInv, NEW p \in Publishers, LogIsComplete(p), NEW s \in Subscribers,
         NothingIsMissed(p, s), Connect(s) \/ StreamStep(s) \/ Receive(s) \/ Disconnect(s)
  PROVE  NothingIsMissed(p, s)'
<1> DEFINE at    == conn[s].at
           last  == conn[s].last
           known == Queued(p, s)
<1>1. /\ queue[s] \in Seq(Nat) /\ wire[s] \in Seq(Nat) /\ received[s] \in Seq(Nat)
      /\ log \in Seq(Nat) /\ Len(log) \in Nat /\ last \in Nat /\ conn[s].replay \in Seq(Nat)
      /\ conn[s] \in ConnRecord
  BY SubscriberTypes
<1>2. known \in Nat /\ known <= Len(log)
  BY QueuedType
<1>3. log' = log /\ (~ Connect(s) => Queued(p, s)' = known)
  BY OthersKeep
<1>4. Gapless(at, last, conn[s].replay, queue[s], wire[s], received[s], known, Len(log))
  BY DEF NothingIsMissed
<1>5. SUFFICES Gapless(conn'[s].at, conn'[s].last, conn'[s].replay, queue'[s], wire'[s],
                       received'[s], Queued(p, s)', Len(log))
  BY <1>3 DEF NothingIsMissed
<1>6. CASE Connect(s)
  <2>1. /\ at = "off" /\ conn'[s].at = "list" /\ conn'[s].last = LastOf(received[s])
        /\ UNCHANGED <<seq, log, pub, queue, wire, received>>
    BY <1>6 DEF Connect, IInv, TypeOK
  <2>2. queue[s] = <<>> /\ wire[s] = <<>> /\ LastOf(received[s]) = Len(received[s])
    BY <1>1, <1>4, <2>1, LastOfFollows DEF Gapless
  <2>3. Queued(p, s)' \in Nat
    <3>1. seq \in Nat /\ (pub[p].at # "idle" => seq > 0)
      BY StreamTypes
    <3>2. pub[p].left # {} => pub[p].at # "idle"
      BY DEF LogIsComplete
    <3> QED
      BY <2>1, <3>1, <3>2 DEF Queued
  <2>4. Follows(<<>>, Queued(p, s)' - Len(<<>>)) /\ Len(<<>>) = 0 /\ Len(received[s]) \in Nat
    BY <1>1 DEF Follows
  <2>5. queue'[s] = <<>> /\ wire'[s] = <<>> /\ received'[s] = received[s]
        /\ conn'[s].last = Len(received[s]) + Len(<<>>)
    BY <2>1, <2>2, <2>4
  <2> QED
    BY <1>4, <2>1, <2>2, <2>3, <2>4, <2>5 DEF Gapless
<1>7. CASE ListReplay(s)
  <2>1. /\ at = "list" /\ conn'[s].at = "replay" /\ conn'[s].last = last
        /\ conn'[s].replay = After(log, last) /\ UNCHANGED <<queue, wire, received>>
    BY <1>1, <1>7 DEF ListReplay, ConnRecord, IInv, TypeOK
  <2>a. last = Len(received[s]) + Len(wire[s]) /\ last <= Len(log)
    BY <1>4, <2>1 DEF Gapless
  <2>2. last \in 0..Len(log) /\ Follows(log, 0)
    <3>1. Follows(log, 0)
      BY DEF LogIsComplete
    <3>2. last \in Nat /\ Len(log) \in Nat /\ last <= Len(log)
      BY <1>1, <2>a
    <3> QED
      BY <3>1, <3>2
  <2>3. Follows(conn'[s].replay, last) /\ Len(conn'[s].replay) = Len(log) - last
    <3>1. /\ Follows(After(log, last), last)
          /\ Len(After(log, last)) = Len(log) - last
      <4>1. log \in Seq(Nat)
        BY <1>1
      <4> QED
        BY <2>2, <4>1, AfterOfAll, Zenon
    <3> QED
      BY <2>1, <3>1
  <2>4. Queued(p, s)' = known
    BY <1>3, <2>1 DEF Connect
  <2>5. last + Len(conn'[s].replay) = Len(log) /\ known - Len(queue[s]) <= Len(log)
    BY <1>1, <1>2, <2>3
  <2>6. Gapless("replay", last, conn'[s].replay, queue[s], wire[s], received[s], known, Len(log))
    <3> HIDE DEF at, last, known
    <3>a. Len(log) <= Len(log)
      BY <1>1
    <3>1. last + Len(conn'[s].replay) <= Len(log)
          /\ known - Len(queue[s]) <= last + Len(conn'[s].replay)
      BY <2>5, <3>a, Zenon
    <3> QED
      BY <1>4, <2>1, <2>3, <3>1, Zenon DEF Gapless
  <2> QED
    BY <2>1, <2>4, <2>6
<1>8. CASE YieldReplay(s)
  <2> DEFINE next == [conn[s] EXCEPT !.replay = Tail(@)]
  <2>1. /\ at = "replay" /\ conn[s].replay # <<>> /\ Yield(s, Head(conn[s].replay), next)
        /\ UNCHANGED <<log, queue, received>>
    BY <1>8 DEF YieldReplay
  <2>2. /\ Head(conn[s].replay) = last + 1
        /\ Gapless("replay", last + 1, Tail(conn[s].replay), queue[s], Append(wire[s], last + 1),
                   received[s], known, Len(log))
    <3>1. Gapless("replay", last, conn[s].replay, queue[s], wire[s], received[s], known, Len(log))
      BY <1>4, <2>1
    <3> QED
      BY <1>1, <1>2, <2>1, <3>1, SendReplay, Zenon
  <2>3. /\ next \in ConnRecord /\ next.last = last /\ next.at = "replay"
        /\ next.replay = Tail(conn[s].replay)
    <3>1. conn[s].replay \in Seq(Seqs)
      BY <1>1 DEF ConnRecord
    <3>2. Tail(conn[s].replay) \in Seq(Seqs)
      BY <2>1, <3>1
    <3> QED
      BY <1>1, <2>1, <3>2 DEF ConnRecord
  <2> HIDE DEF next
  <2>4. /\ conn'[s].last = last + 1 /\ conn'[s].at = "replay"
        /\ conn'[s].replay = Tail(conn[s].replay) /\ wire'[s] = Append(wire[s], last + 1)
    <3> DEFINE e == Head(conn[s].replay)
    <3>1. /\ conn'[s].last = (IF e > conn[s].last THEN e ELSE conn[s].last)
          /\ conn'[s].at = "replay" /\ conn'[s].replay = next.replay
          /\ wire'[s] = IF e > conn[s].last THEN Append(wire[s], e) ELSE wire[s]
      BY <2>1, <2>3, YieldSends, Zenon
    <3>2. e = last + 1 /\ e > last
      BY <1>1, <2>2
    <3> QED
      BY <2>3, <3>1, <3>2
  <2>5. Queued(p, s)' = known
    BY <1>3, <2>1 DEF Connect
  <2> QED
    BY <2>1, <2>2, <2>4, <2>5
<1>9. CASE YieldLive(s)
  <2> DEFINE e == Head(queue[s])
  <2>1. /\ at = "replay" /\ conn[s].replay = <<>> /\ queue[s] # <<>>
        /\ Yield(s, e, conn[s]) /\ queue'[s] = Tail(queue[s]) /\ UNCHANGED <<log, received>>
    BY <1>9 DEF YieldLive, IInv, TypeOK
  <2>2. /\ e <= last + 1 /\ e \in Nat
        /\ e = last + 1 => Gapless("replay", last + 1, <<>>, Tail(queue[s]),
                                   Append(wire[s], last + 1), received[s], known, Len(log))
        /\ e <= last => Gapless("replay", last, <<>>, Tail(queue[s]), wire[s], received[s],
                                known, Len(log))
    <3>1. Gapless("replay", last, <<>>, queue[s], wire[s], received[s], known, Len(log))
      BY <1>4, <2>1
    <3>2. /\ e <= last + 1
          /\ e = last + 1 => Gapless("replay", last + 1, <<>>, Tail(queue[s]),
                                     Append(wire[s], last + 1), received[s], known, Len(log))
          /\ e <= last => Gapless("replay", last, <<>>, Tail(queue[s]), wire[s], received[s],
                                  known, Len(log))
      BY <1>1, <1>2, <2>1, <3>1, SendLive, Zenon
    <3>3. e \in Nat
      BY <1>1, <2>1
    <3> QED
      BY <3>2, <3>3
  <2> HIDE DEF e
  <2>3. /\ conn'[s].last = (IF e > last THEN e ELSE last) /\ conn'[s].at = "replay"
        /\ conn'[s].replay = <<>>
        /\ wire'[s] = IF e > last THEN Append(wire[s], e) ELSE wire[s]
    BY <1>1, <2>1, YieldSends
  <2>4. Queued(p, s)' = known
    BY <1>3, <2>1 DEF Connect
  <2>5. CASE e = last + 1
    <3>1. conn'[s].last = last + 1 /\ wire'[s] = Append(wire[s], last + 1)
      BY <1>1, <2>3, <2>5
    <3> QED
      BY <2>1, <2>2, <2>3, <2>4, <2>5, <3>1
  <2>6. CASE e <= last
    <3>1. conn'[s].last = last /\ wire'[s] = wire[s]
      BY <1>1, <2>2, <2>3, <2>6
    <3> QED
      BY <2>1, <2>2, <2>3, <2>4, <2>6, <3>1
  <2> QED
    BY <1>1, <2>2, <2>5, <2>6
<1>10. CASE Receive(s)
  <2>1. /\ wire[s] # <<>> /\ wire'[s] = Tail(wire[s]) /\ UNCHANGED <<log, conn, queue>>
        /\ received'[s] = IF Head(wire[s]) > LastOf(received[s])
                          THEN Append(received[s], Head(wire[s])) ELSE received[s]
    BY <1>10 DEF Receive, IInv, TypeOK
  <2>2. /\ Head(wire[s]) = Len(received[s]) + 1 /\ LastOf(received[s]) = Len(received[s])
        /\ Gapless(at, last, conn[s].replay, queue[s], Tail(wire[s]),
                   Append(received[s], Len(received[s]) + 1), known, Len(log))
    BY <2>1, FrameTaken
  <2>3. received'[s] = Append(received[s], Len(received[s]) + 1)
    BY <1>1, <2>1, <2>2
  <2>4. Queued(p, s)' = known
    <3>1. at # "off"
      BY <1>4, <2>1 DEF Gapless
    <3> QED
      BY <1>3, <3>1 DEF Connect
  <2> QED
    BY <2>1, <2>2, <2>3, <2>4
<1>11. CASE Disconnect(s)
  <2>1. /\ conn'[s].at = "off" /\ queue'[s] = <<>> /\ wire'[s] = <<>>
        /\ UNCHANGED <<log, received>>
    BY <1>11 DEF Disconnect, Off, IInv, TypeOK
  <2>2. Len(received[s]) <= Len(log)
    BY <1>1, <1>4, StoredReach
  <2>3. \A n \in Nat : Len(received[s]) <= n =>
          Gapless("off", conn'[s].last, conn'[s].replay, <<>>, <<>>, received[s], Queued(p, s)', n)
    <3>1. Follows(<<>>, Len(received[s])) /\ Len(<<>>) = 0 /\ Len(received[s]) \in Nat
      BY <1>1 DEF Follows
    <3>2. Follows(received[s], 0)
      BY <1>4, Zenon DEF Gapless
    <3>3. Len(received[s]) + Len(<<>>) = Len(received[s])
      BY <3>1
    <3> QED
      BY <3>1, <3>2, <3>3, Zenon DEF Gapless
  <2>4. Gapless("off", conn'[s].last, conn'[s].replay, <<>>, <<>>, received[s], Queued(p, s)',
                Len(log))
    BY <1>1, <2>2, <2>3, Zenon
  <2> QED
    BY <2>1, <2>4
<1> QED
  BY <1>6, <1>7, <1>8, <1>9, <1>10, <1>11 DEF StreamStep

LEMMA HistoryInit ==
  ASSUME Init, NEW p \in Publishers
  PROVE  HistoryInv(p)
<1>1. /\ seq = 0 /\ log = <<>> /\ pub[p] = Idle
      /\ \A s \in Subscribers : /\ conn[s] = Off /\ queue[s] = <<>>
                                /\ wire[s] = <<>> /\ received[s] = <<>>
  BY DEF Init
<1>2. \A k \in {0, Len(<<>>)} : Follows(<<>>, k)
  BY DEF Follows
<1>3. LogIsComplete(p)
  BY <1>1, <1>2 DEF LogIsComplete, Idle
<1>4. \A s \in Subscribers : NothingIsMissed(p, s)
  <2>1. ASSUME NEW s \in Subscribers PROVE NothingIsMissed(p, s)
    <3>1. Gapless("off", 0, <<>>, <<>>, <<>>, <<>>, Queued(p, s), Len(log))
      <4>1. Len(<<>>) = 0 /\ Len(log) = 0 /\ Follows(<<>>, 0)
        BY <1>1, <1>2
      <4> QED
        BY <4>1 DEF Gapless
    <3> QED
      BY <1>1, <3>1 DEF NothingIsMissed, Off
  <2> QED
    BY <2>1
<1> QED
  BY <1>3, <1>4 DEF HistoryInv

LEMMA HistoryNext ==
  ASSUME NEW p \in Publishers, Publishers = {p}, IInv, HistoryInv(p), [Next]_vars
  PROVE  HistoryInv(p)'
<1>1. LogIsComplete(p) /\ \A s \in Subscribers : NothingIsMissed(p, s)
  BY DEF HistoryInv
<1>2. CASE AppendEvent(p) \/ PublishStep(p)
  <2>1. UNCHANGED <<conn, wire, received>>
    BY <1>2 DEF AppendEvent, PublishStep, StoreEvent, CopySubscribers, PublishReturns, Fanout
  <2>2. LogIsComplete(p)' /\ Len(log)' \in Nat /\ Len(log) <= Len(log)'
    BY <1>1, <1>2, PublisherKeepsLog
  <2>3. ASSUME NEW s \in Subscribers PROVE NothingIsMissed(p, s)'
    <3>1. UNCHANGED <<conn[s], wire[s], received[s]>>
      BY <2>1
    <3> QED
      BY <1>1, <1>2, <2>2, <3>1, PublisherKeepsQueue, PublishedIsNotMissed
  <2> QED
    BY <2>2, <2>3 DEF HistoryInv
<1>3. ASSUME NEW t \in Subscribers,
             Connect(t) \/ StreamStep(t) \/ Receive(t) \/ Disconnect(t)
      PROVE  HistoryInv(p)'
  <2>1. /\ log' = log /\ LogIsComplete(p)'
        /\ \A s \in Subscribers \ {t} :
             /\ UNCHANGED <<conn[s], wire[s], received[s], queue[s]>>
             /\ Queued(p, s)' = Queued(p, s)
    BY <1>1, <1>3, OthersKeep
  <2>2. Len(log) \in Nat
    BY StreamTypes
  <2>3. ASSUME NEW s \in Subscribers PROVE NothingIsMissed(p, s)'
    <3>1. CASE s = t
      BY <1>1, <1>3, <3>1, SubscriberMissesNothing
    <3>2. CASE s # t
      BY <1>1, <2>1, <2>2, <3>2, PublishedIsNotMissed
    <3> QED
      BY <3>1, <3>2
  <2> QED
    BY <2>1, <2>3 DEF HistoryInv
<1>4. CASE UNCHANGED vars
  <2>1. LogIsComplete(p)'
    BY <1>1, <1>4 DEF vars, LogIsComplete
  <2>2. \A s \in Subscribers : NothingIsMissed(p, s)'
    BY <1>1, <1>4 DEF vars, NothingIsMissed, Queued
  <2> QED
    BY <2>1, <2>2 DEF HistoryInv
<1> QED
  BY <1>2, <1>3, <1>4 DEF Next

\* A step of the stream adds the next event to the history, delivers the next event of
\* the history to a browser, or does neither.
LEMMA HistoryMaps ==
  ASSUME NEW p \in Publishers, Publishers = {p}, IInv, HistoryInv(p), [Next]_vars
  PROVE  [History!Next]_<<log, received>>
<1>1. LogIsComplete(p) /\ \A s \in Subscribers : NothingIsMissed(p, s)
  BY DEF HistoryInv
<1>2. CASE AppendEvent(p) \/ PublishStep(p)
  <2>1. received' = received
    BY <1>2 DEF AppendEvent, PublishStep, StoreEvent, CopySubscribers, PublishReturns, Fanout
  <2>2. log' = log \/ log' = Append(log, Len(log) + 1)
    <3>1. CASE AppendEvent(p)
      <4>1. /\ pub[p].at = "idle"
            /\ log' = IF Durable THEN Append(log, seq + 1) ELSE log
        BY <3>1 DEF AppendEvent
      <4>2. Len(log) = seq
        BY <1>1, <4>1 DEF LogIsComplete
      <4> QED
        BY <4>1, <4>2
    <3>2. CASE StoreEvent(p)
      <4>1. pub[p].at = "store" /\ log' = Append(log, pub[p].seq)
        BY <3>2 DEF StoreEvent
      <4>2. Len(log) = seq - 1 /\ pub[p].seq = seq /\ seq \in Nat
        BY <1>1, <4>1, StreamTypes DEF LogIsComplete
      <4>3. pub[p].seq = Len(log) + 1
        BY <4>2
      <4> QED
        BY <4>1, <4>3
    <3>3. CASE ~ AppendEvent(p) /\ ~ StoreEvent(p)
      BY <1>2, <3>3 DEF PublishStep, CopySubscribers, PublishReturns, Fanout
    <3> QED
      BY <3>1, <3>2, <3>3
  <2> QED
    BY <2>1, <2>2 DEF History!Next, History!Publish
<1>3. ASSUME NEW s \in Subscribers, Receive(s) PROVE History!Deliver(s)
  <2> DEFINE r == received[s]
  <2>1. /\ r \in Seq(Nat) /\ wire[s] \in Seq(Nat) /\ log \in Seq(Nat)
        /\ wire[s] # <<>> /\ log' = log
        /\ received' = [received EXCEPT ![s] = IF Head(wire[s]) > LastOf(r)
                                               THEN Append(r, Head(wire[s])) ELSE r]
    BY <1>3, StreamTypes DEF Receive
  <2>2. Follows(log, 0)
    BY <1>1 DEF LogIsComplete
  <2>3. Head(wire[s]) = Len(r) + 1 /\ LastOf(r) = Len(r) /\ Len(r) < Len(log)
    BY <1>1, <2>1, FrameTaken
  <2>4. Len(r) < Len(log) /\ log[Len(r) + 1] = Len(r) + 1 /\ Len(r) \in Nat
    <3>1. Len(r) \in Nat /\ Len(log) \in Nat
      BY <2>1
    <3>2. Len(r) + 1 \in 1..Len(log)
      BY <2>3, <3>1
    <3>3. log[Len(r) + 1] = 0 + (Len(r) + 1)
      BY <2>2, <3>2 DEF Follows
    <3> QED
      BY <2>3, <3>1, <3>3
  <2>5. received' = [received EXCEPT ![s] = Append(r, log[Len(r) + 1])]
    <3>1. Head(wire[s]) > LastOf(r) /\ Head(wire[s]) = log[Len(r) + 1]
      BY <2>3, <2>4
    <3> QED
      BY <2>1, <3>1
  <2> QED
    BY <2>1, <2>4, <2>5 DEF History!Deliver
<1>4. ASSUME NEW s \in Subscribers, Connect(s) \/ StreamStep(s) \/ Disconnect(s)
      PROVE  UNCHANGED <<log, received>>
  BY <1>4 DEF Connect, StreamStep, ListReplay, YieldReplay, YieldLive, Disconnect
<1>5. CASE UNCHANGED vars
  BY <1>5 DEF vars
<1> QED
  BY <1>2, <1>3, <1>4, <1>5 DEF Next, History!Next

\* While one thread at a time publishes, a browser has seen the first events of the
\* run, none missing and none twice, through any disconnection and any interleaving of
\* replay and live queue: EventStream implements EventLog (stream_events, RunEventsClient).
THEOREM ImplementsEventLog ==
  ASSUME NEW p, Publishers = {p}
  PROVE  Spec => HistorySpec
<1>1. p \in Publishers
  OBVIOUS
<1>2. Init => HistoryInv(p)
  BY <1>1, HistoryInit
<1>3. IInv /\ HistoryInv(p) /\ [Next]_vars => HistoryInv(p)'
  BY <1>1, HistoryNext
<1>4. Init => History!Init
  BY DEF Init, History!Init
<1>5. IInv /\ HistoryInv(p) /\ [Next]_vars => [History!Next]_<<log, received>>
  BY <1>1, HistoryMaps
<1> QED
  BY <1>2, <1>3, <1>4, <1>5, StreamInvariant, PTL DEF Spec, HistorySpec, History!Spec
=============================================================================
