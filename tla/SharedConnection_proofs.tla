----------------------- MODULE SharedConnection_proofs ------------------------
(***************************************************************************)
(* What the shared connection guarantees, for any number of threads, nodes *)
(* and calls: the event lock is enough to number and store the events,     *)
(* although every thread ends the transactions of every other; a write is  *)
(* lost to a rollback only; and a status moves against the transition      *)
(* table only on a row two calls work on.                                  *)
(***************************************************************************)
EXTENDS SharedConnection, FiniteSetTheorems, TLAPS

\* The places of a call before its statement has been executed, and after.
Before == {"read", "reread", "lock", "begin immediate", "number", "execute", "begin",
           "statement"}
After  == {"commit", "committing"}
Undo   == {"rollback", "rolling"}

\* The arguments and the place of a call fit its kind.
CallFits(c) ==
  /\ c.at # "idle" => c.call \in Calls
  /\ c.at \in Before =>
       /\ c.kind \in Kinds /\ c.node \in Nodes
       /\ c.kind \in {"update_node_status", "record_node"} => c.to \in Targets
       /\ c.kind = "update_run_status" => c.to \in RunTargets
       /\ c.call[2] <=> c.kind = "append_event"
  /\ c.at = "reread" => c.kind \in ReadsTwice
  /\ c.at \in {"lock", "begin immediate", "number"} => c.kind = "append_event"
  /\ c.at \in After \cup Undo => c.kind \in Kinds \cup {None}

CallsFit == \A t \in Threads : CallFits(pc[t])

\* append_event from the acquisition of the lock to its release.
Publishes(c) ==
  \/ c.at \in {"begin immediate", "number"} \cup Undo
  \/ c.at \in {"execute", "begin", "statement"} /\ c.kind = "append_event"
  \/ c.at \in After /\ c.call[2]

LockIsHeld == \A t \in Threads : Publishes(pc[t]) => lock = t

\* Events are numbered from 1, and the number the lock holder has read is the next.
Numbered(es) == \E n \in Nat : es = 1..n

NextNumber == Cardinality(db.events) + 1

NumberIsFree ==
  \A t \in Threads : pc[t].kind = "append_event" /\ pc[t].at \in {"execute", "begin", "statement"}
                     => pc[t].read = NextNumber

EventsNumbered == Numbered(db.events) /\ Numbered(disk.events) /\ NumberIsFree

\* Outside a transaction, and when no call is in effect that is not committed, the
\* tables are those of the disk.
Synced ==
  /\ disk.done \subseteq db.done
  /\ ~txn \/ db.done = disk.done => db = disk

\* Each call is one of its own, in effect after its statement only.
CallsUnique ==
  /\ \A a \in db.done \cup undone : a[1] <= made
  /\ db.done \cap undone = {}
  /\ \A t \in Threads : pc[t].at # "idle" => pc[t].call[1] <= made
  /\ \A t \in Threads : pc[t].at \in Before => pc[t].call \notin db.done \cup undone
  /\ \A t, u \in Threads : t # u /\ pc[t].at # "idle" /\ pc[u].at # "idle"
                           => pc[t].call # pc[u].call

\* A call that has executed its statement is in effect, or a rollback has undone it,
\* which does not happen to an event.
StatementDone ==
  \A t \in Threads : pc[t].at \in After =>
    /\ pc[t].call \in db.done \cup undone
    /\ pc[t].call[2] => pc[t].call \in db.done

\* Rows that two calls work on are known, and no other row changes between the
\* reading of a call, with its check of the transition, and its statement.
RacesKnown ==
  \A t, u \in Threads : t # u /\ pc[t].at # "idle" /\ pc[u].at # "idle"
                        => Touches(pc[t]) \cap Touches(pc[u]) \subseteq raced

RowFresh(c) ==
  c.at \in {"reread", "execute", "begin", "statement"} /\ c.kind \in RowKinds /\ c.node \notin raced
  => /\ c.row = db.node[c.node]
     /\ c.kind \in {"update_node_status", "record_node"} => NodeMay(c.row.status, c.to)

RowsFresh == \A t \in Threads : RowFresh(pc[t])

IInv ==
  /\ TypeOK /\ CallsFit
  /\ LockIsHeld /\ EventsNumbered
  /\ Synced /\ CallsUnique /\ StatementDone /\ AckedEventIsDurable /\ OnlyRollbackLoses
  /\ RacesKnown /\ RowsFresh

-----------------------------------------------------------------------------
(* The shape of a step: one thread moves.                                  *)

\* Every other thread stays where it is in its call.
LEMMA OneThreadMoves ==
  ASSUME TypeOK, NEW t \in Threads, Call(t) \/ Step(t)
  PROVE  \A u \in Threads \ {t} : pc'[u] = pc[u]
<1> USE DEF TypeOK, Goto, Returns, Raises, Fails
<1>1. CASE Call(t)
  BY <1>1 DEF Call
<1>2. CASE Read(t) \/ Reread(t) \/ Lock(t) \/ BeginImmediate(t) \/ Number(t)
  BY <1>2 DEF Read, Reread, Lock, BeginImmediate, Number
<1>3. CASE Execute(t) \/ ImplicitBegin(t) \/ Statement(t)
  BY <1>3 DEF Execute, ImplicitBegin, Statement
<1>4. CASE Commit(t) \/ Committing(t) \/ Rollback(t) \/ Rolling(t)
  BY <1>4 DEF Commit, Committing, Rollback, Rolling
<1> QED
  BY <1>1, <1>2, <1>3, <1>4 DEF Step

\* A thread that moves within its call, ends it, or has executed its statement.
LEMMA AtChanges ==
  ASSUME pc \in [Threads -> Locals], NEW t \in Threads, NEW x \in Places,
         pc' = [pc EXCEPT ![t].at = x]
  PROVE  /\ pc' \in [Threads -> Locals]
         /\ pc'[t].at = x
         /\ pc'[t].kind = pc[t].kind /\ pc'[t].node = pc[t].node /\ pc'[t].to = pc[t].to
         /\ pc'[t].row = pc[t].row /\ pc'[t].read = pc[t].read /\ pc'[t].call = pc[t].call
BY DEF Locals

\* A thread outside a call, and one that has executed its statement.
LEMMA IdleType ==
  /\ Idle \in Locals /\ Idle.at = "idle" /\ Idle.kind = None /\ Idle.call = <<>>
  /\ \A c \in Calls : LET p == [Idle EXCEPT !.at = "commit", !.call = c]
                      IN p \in Locals /\ p.at = "commit" /\ p.kind = None /\ p.call = c
BY DEF Idle, Absent, Locals, Rows, Places, Calls

\* A thread that begins, continues or ends its call with the record p.
LEMMA Replaces ==
  ASSUME pc \in [Threads -> Locals], NEW t \in Threads, NEW p \in Locals,
         pc' = [pc EXCEPT ![t] = p]
  PROVE  pc' \in [Threads -> Locals] /\ pc'[t] = p
OBVIOUS

-----------------------------------------------------------------------------
(* Types.                                                                  *)

\* How a call ends, or goes on.
LEMMA EndTypes ==
  ASSUME TypeOK, CallsFit, NEW t \in Threads, Returns(t) \/ Raises(t) \/ Fails(t),
         Returns(t) => pc[t].call \in Calls
  PROVE  pc' \in [Threads -> Locals] /\ lock' \in Threads \cup {None} /\ acked' \subseteq Calls
<1>1. "rollback" \in Places
  BY DEF Places
<1> QED
  BY <1>1, IdleType, Replaces, AtChanges DEF Returns, Raises, Fails, TypeOK

\* What a call begins with.
LEMMA CallStep ==
  ASSUME TypeOK, NEW t \in Threads, Call(t)
  PROVE  /\ pc' \in [Threads -> Locals]
         /\ pc[t].at = "idle" /\ pc'[t].at = "read"
         /\ pc'[t].kind \in KindsOf(t) /\ pc'[t].kind \in Kinds
         /\ pc'[t].node \in Nodes
         /\ pc'[t].to \in StatusesOf(pc'[t].kind)
         /\ pc'[t].call \in Calls /\ pc'[t].call[1] = made + 1
         /\ pc'[t].call[2] <=> pc'[t].kind = "append_event"
         /\ raced' = raced \cup {m \in Touches(pc'[t]) : Busy(m)}
         /\ made' = made + 1 /\ UNCHANGED <<db, disk, txn, lock, acked, undone>>
<1> DEFINE c(k, n, s) == [Idle EXCEPT !.at = "read", !.kind = k, !.node = n, !.to = s,
                                     !.call = <<made + 1, k = "append_event">>]
<1>0. PICK k \in KindsOf(t) : \E n \in NodesOf(k), s \in StatusesOf(k) :
        /\ pc' = [pc EXCEPT ![t] = c(k, n, s)]
        /\ raced' = raced \cup {m \in Touches(c(k, n, s)) : Busy(m)}
  BY DEF Call
<1>1. PICK n \in NodesOf(k), s \in StatusesOf(k) :
        /\ pc' = [pc EXCEPT ![t] = c(k, n, s)]
        /\ raced' = raced \cup {m \in Touches(c(k, n, s)) : Busy(m)}
  BY <1>0
<1>2. k \in Kinds /\ n \in Nodes
  BY ConstantsAssumption DEF KindsOf, NodesOf, Kinds, RowKinds, RunKinds, NodeKinds
<1>3. s \in NodeStatus \cup RunStatus \cup {None}
  BY ConstantsAssumption DEF StatusesOf
<1>4. <<made + 1, k = "append_event">> \in Calls
  <2>1. made + 1 \in Nat
    BY DEF TypeOK
  <2>2. (k = "append_event") \in BOOLEAN
    OBVIOUS
  <2> QED
    BY <2>1, <2>2, Zenon DEF Calls
<1>9. /\ <<made + 1, k = "append_event">>[1] = made + 1
      /\ <<made + 1, k = "append_event">>[2] <=> k = "append_event"
  <2>1. \A a, b : <<a, b>>[1] = a /\ <<a, b>>[2] = b
    OBVIOUS
  <2> QED
    BY <2>1, Zenon
<1> DEFINE d == c(k, n, s)
<1>5. /\ d \in Locals /\ d.at = "read" /\ d.kind = k /\ d.node = n /\ d.to = s
      /\ d.call = <<made + 1, k = "append_event">>
  BY <1>2, <1>3, <1>4 DEF Idle, Absent, Locals, Rows, Places
<1>8. pc' = [pc EXCEPT ![t] = d] /\ raced' = raced \cup {m \in Touches(d) : Busy(m)}
  BY <1>1
<1> HIDE DEF d
<1>6. pc' \in [Threads -> Locals] /\ pc'[t] = d
  BY <1>8, <1>5, Replaces DEF TypeOK
<1>7. pc[t].at = "idle" /\ made' = made + 1 /\ UNCHANGED <<db, disk, txn, lock, acked, undone>>
  BY DEF Call
<1> QED
  BY <1>2, <1>4, <1>5, <1>6, <1>7, <1>8, <1>9

\* What a read returns.
LEMMA ReadStep ==
  ASSUME TypeOK, CallsFit, NEW t \in Threads, Read(t), ~Rejected(pc[t])
  PROVE  /\ pc' \in [Threads -> Locals]
         /\ pc'[t].at \in {"reread", "lock", "execute"}
         /\ pc'[t].at = "reread" <=> pc[t].kind \in ReadsTwice
         /\ pc'[t].at = "lock" <=> pc[t].kind = "append_event"
         /\ pc'[t].row = db.node[pc[t].node]
         /\ pc'[t].read = IF pc[t].kind = "increment_run_tokens" THEN db.tokens
                          ELSE db.node[pc[t].node].failures
         /\ pc'[t].kind = pc[t].kind /\ pc'[t].node = pc[t].node /\ pc'[t].to = pc[t].to
         /\ pc'[t].call = pc[t].call
         /\ UNCHANGED <<lock, acked>>
<1> DEFINE c == pc[t]
           r == IF c.kind = "increment_run_tokens" THEN db.tokens ELSE db.node[c.node].failures
           x == IF c.kind \in ReadsTwice THEN "reread"
                ELSE IF c.kind = "append_event" THEN "lock" ELSE "execute"
           d == [c EXCEPT !.row = db.node[c.node], !.read = r, !.at = x]
<1>1. c \in Locals /\ c.at = "read" /\ c.node \in Nodes
  BY DEF TypeOK, CallsFit, CallFits, Before, Read
<1>2. db.node[c.node] \in Rows /\ db.tokens \in Nat
  BY <1>1 DEF TypeOK, Table
<1>3. r \in Nat
  BY <1>2 DEF Rows
<1>4. x \in Places
  BY DEF Places
<1>5. pc' = [pc EXCEPT ![t] = d] /\ UNCHANGED <<lock, acked>>
  BY DEF Read, TypeOK
<1> HIDE DEF r, x
<1>6. /\ d \in Locals /\ d.at = x /\ d.row = db.node[c.node] /\ d.read = r
      /\ d.kind = c.kind /\ d.node = c.node /\ d.to = c.to /\ d.call = c.call
  BY <1>1, <1>2, <1>3, <1>4 DEF Locals
<1>7. pc' \in [Threads -> Locals] /\ pc'[t] = d
  <2> HIDE DEF d
  <2> QED
    BY <1>5, <1>6, Replaces DEF TypeOK
<1> QED
  BY <1>5, <1>6, <1>7 DEF r, x, ReadsTwice

\* What the second read of update_node_status and the increments returns.
LEMMA RereadStep ==
  ASSUME TypeOK, CallsFit, NEW t \in Threads, Reread(t), db.node[pc[t].node] # Absent
  PROVE  /\ pc' \in [Threads -> Locals]
         /\ pc'[t].at = "execute" /\ pc'[t].row = db.node[pc[t].node]
         /\ pc'[t].read = pc[t].read
         /\ pc'[t].kind = pc[t].kind /\ pc'[t].node = pc[t].node /\ pc'[t].to = pc[t].to
         /\ pc'[t].call = pc[t].call
         /\ UNCHANGED <<lock, acked>>
<1> DEFINE c == pc[t]
           d == [c EXCEPT !.row = db.node[c.node], !.at = "execute"]
<1>1. c \in Locals /\ c.node \in Nodes
  BY DEF TypeOK, CallsFit, CallFits, Before, Reread
<1>2. db.node[c.node] \in Rows
  BY <1>1 DEF TypeOK, Table
<1>3. pc' = [pc EXCEPT ![t] = d] /\ UNCHANGED <<lock, acked>>
  BY DEF Reread, TypeOK
<1>4. /\ d \in Locals /\ d.at = "execute" /\ d.row = db.node[c.node] /\ d.read = c.read
      /\ d.kind = c.kind /\ d.node = c.node /\ d.to = c.to /\ d.call = c.call
  BY <1>1, <1>2 DEF Locals, Places
<1>5. pc' \in [Threads -> Locals] /\ pc'[t] = d
  <2> HIDE DEF d
  <2> QED
    BY <1>3, <1>4, Replaces DEF TypeOK
<1> QED
  BY <1>3, <1>4, <1>5

\* What a statement changes.
LEMMA EffectIs ==
  ASSUME TypeOK, NEW c \in Locals, CallFits(c), c.at = "statement"
  PROVE  /\ Effect(c) \in Table
         /\ Effect(c).done = db.done \cup {c.call}
         /\ Effect(c).events = IF c.kind = "append_event" THEN db.events \cup {c.read}
                               ELSE db.events
         /\ \A n \in Nodes : n \notin Touches(c) => Effect(c).node[n] = db.node[n]
         /\ c.kind \in RowKinds => Effect(c).node[c.node] = PersistNode(c)
         /\ c.kind = "create_node" => Effect(c).node[c.node] = Fresh
         /\ c.kind \in {"delete_node", "delete_children_of"}
              => \A n \in Touches(c) \cap Nodes : Effect(c).node[n] = Absent
<1> DEFINE d == [db EXCEPT !.done = @ \cup {c.call}]
<1>1. /\ c.kind \in Kinds /\ c.node \in Nodes /\ c.call \in Calls
      /\ c.kind \in {"update_node_status", "record_node"} => c.to \in NodeStatus
      /\ c.kind = "update_run_status" => c.to \in RunStatus
  BY ConstantsAssumption DEF CallFits, Before
<1>2. c.row \in Rows /\ c.read \in Nat
  BY DEF Locals
<1>3. /\ d \in Table /\ d.done = db.done \cup {c.call} /\ d.events = db.events
      /\ d.node = db.node
  BY <1>1 DEF TypeOK, Table
<1>4. Fresh \in Rows /\ Absent \in Rows
  BY DEF Fresh, Absent, Rows, NodeStatus
<1> DEFINE e == Effect(c)
<1>5. CASE c.kind \in RowKinds
  <2>1. e = [d EXCEPT !.node[c.node] = PersistNode(c)]
    BY <1>5 DEF Effect, RowKinds
  <2>2. PersistNode(c) \in Rows
    BY <1>1, <1>2, <1>5 DEF PersistNode, Rows, RowKinds
  <2>3. Touches(c) = {c.node}
    BY <1>5 DEF Touches, RowKinds
  <2>4. c.kind \notin {"append_event", "create_node", "delete_node", "delete_children_of"}
    BY <1>5 DEF RowKinds
  <2> HIDE DEF d, e
  <2> QED
    BY <1>1, <1>3, <2>1, <2>2, <2>3, <2>4 DEF Table, e
<1>6. CASE c.kind = "create_node"
  <2>1. e = [d EXCEPT !.node[c.node] = Fresh]
    BY <1>6 DEF Effect, RowKinds
  <2>3. Touches(c) = {c.node}
    BY <1>6 DEF Touches
  <2>4. c.kind \notin RowKinds
    BY <1>6 DEF RowKinds
  <2> HIDE DEF d, e
  <2> QED
    BY <1>1, <1>3, <1>4, <1>6, <2>1, <2>3, <2>4 DEF Table, e
<1>7. CASE c.kind \in {"delete_node", "delete_children_of"}
  <2>1. e = [d EXCEPT !.node = Without(Touches(c))]
    BY <1>7 DEF Effect, RowKinds
  <2>2. /\ Without(Touches(c)) \in [Nodes -> Rows]
        /\ \A n \in Nodes : Without(Touches(c))[n] = IF n \in Touches(c) THEN Absent ELSE db.node[n]
    BY <1>4 DEF Without, TypeOK, Table
  <2>4. c.kind \notin RowKinds
    BY <1>7 DEF RowKinds
  <2> HIDE DEF d, e
  <2> QED
    BY <1>1, <1>3, <1>7, <2>1, <2>2, <2>4 DEF Table, e
<1>8. CASE c.kind \in {"update_run_status", "increment_run_tokens", "append_event", "create_child_row"}
  <2>1. /\ c.kind = "update_run_status" => e = [d EXCEPT !.status = c.to]
        /\ c.kind = "increment_run_tokens" => e = [d EXCEPT !.tokens = c.read + 1]
        /\ c.kind = "append_event" => e = [d EXCEPT !.events = @ \cup {c.read}]
        /\ c.kind = "create_child_row" => e = d
    BY <1>8 DEF Effect, RowKinds
  <2>2. Touches(c) = {}
    BY <1>8 DEF Touches, RowKinds
  <2>4. c.kind \notin RowKinds
    BY <1>8 DEF RowKinds
  <2> HIDE DEF d, e
  <2>3. e \in Table /\ e.done = d.done /\ e.node = d.node
    BY <1>1, <1>2, <1>3, <1>8, <2>1 DEF Table
  <2>5. e.events = IF c.kind = "append_event" THEN db.events \cup {c.read} ELSE db.events
    BY <1>3, <1>8, <2>1 DEF Table
  <2> QED
    BY <1>3, <1>8, <2>2, <2>3, <2>4, <2>5 DEF e
<1> QED
  BY <1>1, <1>5, <1>6, <1>7, <1>8 DEF Kinds, RunKinds, NodeKinds

\* What a statement that is not refused does.
LEMMA StatementStep ==
  ASSUME TypeOK, CallsFit, NEW t \in Threads, Statement(t), ~Refused(pc[t])
  PROVE  /\ pc' \in [Threads -> Locals]
         /\ pc'[t].at = "commit" /\ pc'[t].kind = None /\ pc'[t].call = pc[t].call
         /\ db' = Effect(pc[t]) /\ disk' = IF txn THEN disk ELSE db'
         /\ UNCHANGED <<lock, acked>>
<1>1. pc[t].call \in Calls
  BY DEF CallsFit, CallFits, Statement
<1> DEFINE d == [Idle EXCEPT !.at = "commit", !.call = pc[t].call]
<1>2. d \in Locals /\ d.at = "commit" /\ d.kind = None /\ d.call = pc[t].call
  BY <1>1, IdleType
<1>3. /\ pc' = [pc EXCEPT ![t] = d]
      /\ db' = Effect(pc[t]) /\ disk' = IF txn THEN disk ELSE db'
      /\ UNCHANGED <<lock, acked>>
  BY DEF Statement
<1> HIDE DEF d
<1> QED
  BY <1>2, <1>3, Replaces DEF TypeOK

\* The events 1, 2 ... n are n events, and n + 1 is the number that follows.
LEMMA NumberedFacts ==
  ASSUME NEW es, Numbered(es)
  PROVE  /\ Cardinality(es) \in Nat /\ es = 1..Cardinality(es)
         /\ Max(es \cup {0}) = Cardinality(es)
         /\ Numbered(es \cup {Cardinality(es) + 1})
         /\ Cardinality(es \cup {Cardinality(es) + 1}) = Cardinality(es) + 1
<1>1. PICK n \in Nat : es = 1..n
  BY DEF Numbered
<1>2. \A m \in Nat : Cardinality(1..m) = m
  BY FS_Interval
<1>3. es \cup {n + 1} = 1..(n + 1)
  BY <1>1
<1>4. n \in es \cup {0} /\ \A y \in es \cup {0} : n >= y
  BY <1>1
<1>5. \A x \in es \cup {0} : (\A y \in es \cup {0} : x >= y) => x = n
  BY <1>1, <1>4
<1>6. Max(es \cup {0}) = n
  <2> DEFINE S == es \cup {0}
             IsMax(x) == \A y \in S : x >= y
  <2>1. n \in S /\ IsMax(n) /\ \A x \in S : IsMax(x) => x = n
    BY <1>4, <1>5
  <2>2. Max(S) = CHOOSE x \in S : IsMax(x)
    BY DEF Max
  <2> HIDE DEF S, IsMax
  <2>3. Max(S) = n
    BY <2>1, <2>2, Zenon
  <2> QED
    BY <2>3 DEF S
<1>7. Cardinality(es) = n
  BY <1>1, <1>2
<1>8. n + 1 \in Nat /\ Cardinality(1..(n + 1)) = n + 1
  BY <1>2
<1>9. Numbered(1..(n + 1))
  BY <1>8 DEF Numbered
<1> QED
  BY <1>1, <1>3, <1>6, <1>7, <1>8, <1>9

\* The types after a step of a call.
LEMMA StepTypes ==
  ASSUME TypeOK, CallsFit, EventsNumbered, NEW t \in Threads, Call(t) \/ Step(t)
  PROVE  TypeOK'
<1>p. {"rollback", "rolling", "number", "begin immediate", "statement", "begin", "committing",
       "execute"} \subseteq Places
  BY DEF Places
<1> DEFINE Ended == /\ pc' \in [Threads -> Locals] /\ lock' \in Threads \cup {None}
                    /\ acked' \subseteq Calls
<1>e. /\ Raises(t) \/ Fails(t) => Ended
      /\ Returns(t) /\ pc[t].call \in Calls => Ended
  <2>1. Returns(t) /\ pc[t].call \in Calls => Ended
    BY EndTypes
  <2>2. Raises(t) /\ ~Returns(t) => Ended
    BY EndTypes
  <2>3. Fails(t) /\ ~Returns(t) => Ended
    BY EndTypes
  <2>4. ASSUME Returns(t), Raises(t) \/ Fails(t) PROVE Ended
    BY <2>4, AtChanges, IdleType, Replaces, <1>p DEF Returns, Raises, Fails, TypeOK
  <2> QED
    BY <2>1, <2>2, <2>3, <2>4
<1>g. \A x \in Places : Goto(t, x) => Ended
  BY AtChanges DEF Goto, TypeOK
<1>1. CASE Call(t)
  <2>1. pc' \in [Threads -> Locals] /\ raced' \subseteq Nodes
    <3>1. Touches(pc'[t]) \subseteq Nodes
      BY <1>1, CallStep, ConstantsAssumption DEF Touches, Subtree
    <3>2. /\ pc' \in [Threads -> Locals]
          /\ raced' = raced \cup {m \in Touches(pc'[t]) : Busy(m)}
      BY <1>1, CallStep
    <3> QED
      BY <3>1, <3>2 DEF TypeOK
  <2>2. made' = made + 1 /\ UNCHANGED <<db, disk, txn, lock, acked, undone>>
    BY <1>1, CallStep
  <2> QED
    BY <2>1, <2>2 DEF TypeOK
<1>2. CASE Read(t)
  BY <1>2, <1>e, ReadStep DEF Read, TypeOK
<1>3. CASE Reread(t)
  BY <1>3, <1>e, RereadStep DEF Reread, TypeOK
<1>4. CASE Lock(t) \/ BeginImmediate(t)
  BY <1>4, <1>e, <1>g, <1>p, AtChanges DEF Lock, BeginImmediate, TypeOK
<1>5. CASE Number(t)
  <2> DEFINE r == Max(db.events \cup {0}) + 1
             d == [pc[t] EXCEPT !.read = r, !.at = "execute"]
  <2>1. r \in Nat
    BY NumberedFacts DEF EventsNumbered
  <2>2. d \in Locals
    BY <1>p, <2>1 DEF Locals, TypeOK
  <2>3. pc' = [pc EXCEPT ![t] = d] /\ UNCHANGED <<db, disk, txn, lock, made, acked, undone, raced>>
    BY <1>5 DEF Number, TypeOK
  <2> HIDE DEF d
  <2> QED
    BY <2>2, <2>3, Replaces DEF TypeOK
<1>6. CASE Execute(t) \/ ImplicitBegin(t)
  BY <1>6, <1>e, <1>g, <1>p DEF Execute, ImplicitBegin, TypeOK
<1>7. CASE Statement(t) 
  <2>1. CASE Refused(pc[t])
    BY <1>7, <2>1, <1>e DEF Statement, TypeOK
  <2>2. CASE ~Refused(pc[t])
    <3>1. Effect(pc[t]) \in Table
      BY <1>7, EffectIs DEF Statement, TypeOK, CallsFit
    <3> QED
      BY <1>7, <2>2, <3>1, StatementStep DEF Statement, TypeOK
  <2> QED
    BY <2>1, <2>2
<1>8. CASE Commit(t) \/ Committing(t) \/ Rollback(t)
  <2>1. pc[t].call \in Calls
    BY <1>8 DEF Commit, Committing, Rollback, CallsFit, CallFits
  <2> QED
    BY <1>8, <2>1, <1>e, <1>g, <1>p DEF Commit, Committing, Rollback, TypeOK
<1>9. CASE Rolling(t)
  <2>1. db.done \subseteq Calls
    BY DEF TypeOK, Table
  <2> QED
    BY <1>9, <2>1, <1>e DEF Rolling, TypeOK
<1> QED
  BY <1>1, <1>2, <1>3, <1>4, <1>5, <1>6, <1>7, <1>8, <1>9 DEF Step

\* The thread that moves keeps its call.
SameCall(c, d) == /\ d.kind = c.kind /\ d.node = c.node /\ d.to = c.to /\ d.row = c.row
                  /\ d.read = c.read /\ d.call = c.call

\* What the ends of a call, and a step within it, do to the thread and to the lock.
LEMMA Ends ==
  ASSUME TypeOK, NEW t \in Threads
  PROVE  /\ Returns(t) => /\ pc'[t] = Idle /\ acked' = acked \cup {pc[t].call}
                          /\ lock' = IF lock = t THEN None ELSE lock
         /\ Raises(t) => /\ pc'[t] = Idle /\ acked' = acked
                         /\ lock' = IF lock = t THEN None ELSE lock
         /\ Fails(t) => /\ UNCHANGED <<lock, acked>>
                        /\ lock # t => pc'[t] = Idle
                        /\ lock = t => pc'[t].at = "rollback" /\ SameCall(pc[t], pc'[t])
         /\ \A x \in Places : Goto(t, x) => /\ pc'[t].at = x /\ SameCall(pc[t], pc'[t])
                                             /\ UNCHANGED <<lock, acked>>
<1>1. "rollback" \in Places
  BY DEF Places
<1>2. Returns(t) \/ Raises(t) => pc'[t] = Idle
  BY IdleType, Replaces DEF Returns, Raises, TypeOK
<1>3. Fails(t) /\ lock # t => Raises(t)
  BY DEF Fails
<1>4. Fails(t) /\ lock = t => /\ pc'[t].at = "rollback" /\ SameCall(pc[t], pc'[t])
                              /\ UNCHANGED <<lock, acked>>
  BY <1>1, AtChanges DEF Fails, SameCall, TypeOK
<1>5. \A x \in Places : Goto(t, x) => pc'[t].at = x /\ SameCall(pc[t], pc'[t])
  BY AtChanges DEF Goto, SameCall, TypeOK
<1> QED
  BY <1>2, <1>3, <1>4, <1>5 DEF Returns, Raises, Goto

\* The number append_event reads is the next one.
LEMMA NumberStep ==
  ASSUME TypeOK, EventsNumbered, NEW t \in Threads, Number(t)
  PROVE  /\ pc' \in [Threads -> Locals]
         /\ pc'[t].at = "execute" /\ pc'[t].read = NextNumber
         /\ pc'[t].kind = pc[t].kind /\ pc'[t].node = pc[t].node /\ pc'[t].to = pc[t].to
         /\ pc'[t].row = pc[t].row /\ pc'[t].call = pc[t].call
<1> DEFINE r == Max(db.events \cup {0}) + 1
           d == [pc[t] EXCEPT !.read = r, !.at = "execute"]
<1>1. r = NextNumber /\ r \in Nat
  BY NumberedFacts DEF EventsNumbered, NextNumber
<1>2. /\ d \in Locals /\ d.at = "execute" /\ d.read = r /\ d.kind = pc[t].kind
      /\ d.node = pc[t].node /\ d.to = pc[t].to /\ d.row = pc[t].row /\ d.call = pc[t].call
  BY <1>1 DEF Locals, TypeOK, Places
<1>3. pc' = [pc EXCEPT ![t] = d]
  BY DEF Number, TypeOK
<1> HIDE DEF d
<1> QED
  BY <1>1, <1>2, <1>3, Replaces DEF TypeOK

\* Where a step that neither reads nor executes leads: the call goes on, or ends.
LEMMA ControlStep ==
  ASSUME TypeOK, NEW t \in Threads
  PROVE  /\ Lock(t) => pc'[t].at = "begin immediate" /\ SameCall(pc[t], pc'[t])
         /\ BeginImmediate(t) => \/ pc'[t] = Idle /\ txn
                                 \/ pc'[t].at = "number" /\ SameCall(pc[t], pc'[t])
         /\ Execute(t) => pc'[t].at \in {"begin", "statement"} /\ SameCall(pc[t], pc'[t])
         /\ ImplicitBegin(t) => \/ pc'[t] = Idle /\ lock # t
                                \/ pc'[t].at = "rollback" /\ SameCall(pc[t], pc'[t]) /\ lock = t
                                \/ pc'[t].at = "statement" /\ SameCall(pc[t], pc'[t])
         /\ Statement(t) /\ Refused(pc[t]) =>
                                \/ pc'[t] = Idle /\ lock # t
                                \/ pc'[t].at = "rollback" /\ SameCall(pc[t], pc'[t]) /\ lock = t
         /\ Commit(t) => \/ pc'[t] = Idle /\ ~txn
                         \/ pc'[t].at = "committing" /\ SameCall(pc[t], pc'[t])
         /\ Committing(t) => \/ pc'[t] = Idle /\ (txn \/ lock # t)
                             \/ pc'[t].at = "rollback" /\ SameCall(pc[t], pc'[t]) /\ lock = t
         /\ Rollback(t) => \/ pc'[t] = Idle /\ ~txn
                           \/ pc'[t].at = "rolling" /\ SameCall(pc[t], pc'[t])
         /\ Rolling(t) => pc'[t] = Idle
<1>p. {"rollback", "rolling", "number", "begin immediate", "statement", "begin", "committing"}
        \subseteq Places
  BY DEF Places
<1>1. Lock(t) => pc'[t].at = "begin immediate" /\ SameCall(pc[t], pc'[t])
  BY <1>p, AtChanges DEF Lock, SameCall, TypeOK
<1> QED
  BY <1>1, <1>p, Ends DEF BeginImmediate, Execute, ImplicitBegin, Statement, Commit, Committing,
    Rollback, Rolling

\* A thread between two calls fits any kind of call.
LEMMA IdleFits == CallFits(Idle)
BY IdleType DEF CallFits, Before, After, Undo

\* Arguments and place still fit the kind of the call.
LEMMA StepFits ==
  ASSUME TypeOK, CallsFit, EventsNumbered, NEW t \in Threads, Call(t) \/ Step(t)
  PROVE  CallsFit'
<1>c. CallFits(pc[t])
  BY DEF CallsFit
<1>o. \A u \in Threads \ {t} : CallFits(pc'[u])
  BY OneThreadMoves DEF CallsFit
<1>i. pc'[t] = Idle => CallFits(pc'[t])
  BY IdleFits
<1>1. CASE Call(t)
  <2>4. /\ pc'[t].kind \in {"update_node_status", "record_node"} => pc'[t].to \in Targets
        /\ pc'[t].kind = "update_run_status" => pc'[t].to \in RunTargets
    BY <1>1, CallStep DEF StatusesOf
  <2>5. CallFits(pc'[t])
    BY <1>1, <2>4, CallStep DEF CallFits, Before, After, Undo
  <2> QED
    BY <1>o, <2>5 DEF CallsFit
<1>2. CASE Read(t)
  <2>1. CASE Rejected(pc[t])
    BY <1>2, <2>1, <1>i, <1>o, Ends DEF Read, CallsFit
  <2>2. CASE ~Rejected(pc[t])
    <3>1. CallFits(pc'[t])
      BY <1>c, <1>2, <2>2, ReadStep DEF Read, CallFits, Before, After, Undo
    <3> QED
      BY <1>o, <3>1 DEF CallsFit
  <2> QED
    BY <2>1, <2>2
<1>3. CASE Reread(t)
  <2>1. CASE db.node[pc[t].node] = Absent
    BY <1>3, <2>1, <1>i, <1>o, Ends DEF Reread, CallsFit
  <2>2. CASE db.node[pc[t].node] # Absent
    <3>1. CallFits(pc'[t])
      BY <1>c, <1>3, <2>2, RereadStep DEF Reread, CallFits, Before, After, Undo
    <3> QED
      BY <1>o, <3>1 DEF CallsFit
  <2> QED
    BY <2>1, <2>2
<1>4. CASE Number(t)
  <2>1. CallFits(pc'[t])
    BY <1>c, <1>4, NumberStep DEF Number, CallFits, Before, After, Undo
  <2> QED
    BY <1>o, <2>1 DEF CallsFit
<1>5. CASE Statement(t) /\ ~Refused(pc[t])
  <2>1. CallFits(pc'[t])
    BY <1>c, <1>5, StatementStep DEF Statement, CallFits, Before, After, Undo
  <2> QED
    BY <1>o, <2>1 DEF CallsFit
<1>6. CASE \/ Lock(t) \/ BeginImmediate(t) \/ Execute(t) \/ ImplicitBegin(t)
           \/ Statement(t) /\ Refused(pc[t])
           \/ Commit(t) \/ Committing(t) \/ Rollback(t) \/ Rolling(t)
  <2>1. pc[t].kind \in Kinds \cup {None}
    BY DEF TypeOK, Locals
  <2>2. CallFits(pc'[t])
    BY <1>c, <1>i, <1>6, <2>1, ControlStep DEF SameCall, Lock, BeginImmediate, Execute,
      ImplicitBegin, Statement, Commit, Committing, Rollback, CallFits, Before, After, Undo
  <2> QED
    BY <1>o, <2>2 DEF CallsFit
<1> QED
  BY <1>1, <1>2, <1>3, <1>4, <1>5, <1>6 DEF Step

\* Nobody but its holder releases the lock, and only a free lock is acquired.
LEMMA LockMoves ==
  ASSUME TypeOK, NEW t \in Threads, Call(t) \/ Step(t)
  PROVE  /\ lock \notin {t, None} => lock' = lock
         /\ lock = t => lock' = t \/ (lock' = None /\ pc'[t] = Idle)
         /\ lock = None => lock' = None \/ (lock' = t /\ pc[t].at = "lock")
<1>n. t # None
  BY ConstantsAssumption
<1>e. /\ Returns(t) \/ Raises(t) => /\ lock # t => lock' = lock
                                    /\ lock = t => lock' = None /\ pc'[t] = Idle
      /\ Fails(t) => \/ lock' = lock
                     \/ lock = t /\ lock' = None /\ pc'[t] = Idle
  BY Ends
<1>1. CASE Call(t)
  BY <1>1, CallStep
<1> DEFINE Moves == /\ lock # t => lock' = lock \/ (lock = None /\ lock' = t /\ pc[t].at = "lock")
                    /\ lock = t => lock' = t \/ (lock' = None /\ pc'[t] = Idle)
<1> SUFFICES Moves
  BY <1>n
<1>2. CASE Read(t)
  BY <1>2, <1>e DEF Read
<1>3. CASE Reread(t)
  BY <1>3, <1>e DEF Reread
<1>4. CASE Number(t)
  BY <1>4 DEF Number
<1>5. CASE Lock(t)
  BY <1>5 DEF Lock
<1>6. CASE BeginImmediate(t) \/ Execute(t) \/ ImplicitBegin(t)
  BY <1>6, <1>e DEF BeginImmediate, Execute, ImplicitBegin, Goto
<1>7. CASE Statement(t)
  BY <1>7, <1>e DEF Statement
<1>8. CASE Commit(t) \/ Committing(t) \/ Rollback(t) \/ Rolling(t)
  BY <1>8, <1>e DEF Commit, Committing, Rollback, Rolling, Goto
<1> QED
  BY <1>1, <1>2, <1>3, <1>4, <1>5, <1>6, <1>7, <1>8 DEF Step

\* Whoever publishes still holds the lock.
LEMMA StepLock ==
  ASSUME TypeOK, CallsFit, EventsNumbered, LockIsHeld, NEW t \in Threads, Call(t) \/ Step(t)
  PROVE  LockIsHeld'
<1>n. None \notin Threads
  BY ConstantsAssumption
<1>c. CallFits(pc[t])
  BY DEF CallsFit
<1>o. \A u \in Threads \ {t} : Publishes(pc'[u]) => lock' = u
  BY <1>n, OneThreadMoves, LockMoves DEF LockIsHeld
<1>i. ~Publishes(Idle)
  BY IdleType DEF Publishes, Undo, After
<1>h. Publishes(pc[t]) => lock = t
  BY DEF LockIsHeld
<1> SUFFICES Publishes(pc'[t]) => lock' = t
  BY <1>o DEF LockIsHeld
<1>1. CASE Call(t) \/ Lock(t)
  BY <1>1, CallStep DEF Lock, Publishes, Undo, After
<1>2. CASE Read(t)
  <2>1. CASE Rejected(pc[t])
    BY <1>2, <2>1, <1>i, Ends DEF Read
  <2>2. CASE ~Rejected(pc[t])
    BY <1>2, <2>2, <1>c, ReadStep DEF Publishes, Undo, After
  <2> QED
    BY <2>1, <2>2
<1>3. CASE Reread(t)
  <2>1. CASE db.node[pc[t].node] = Absent
    BY <1>3, <2>1, <1>i, Ends DEF Reread
  <2>2. CASE db.node[pc[t].node] # Absent
    BY <1>3, <2>2, <1>c, RereadStep DEF Reread, ReadsTwice, CallFits, Publishes, Undo, After
  <2> QED
    BY <2>1, <2>2
<1>4. CASE Number(t)
  BY <1>4, <1>h, NumberStep DEF Number, Publishes, Undo, After
<1>5. CASE Statement(t) /\ ~Refused(pc[t])
  BY <1>5, <1>c, <1>h, StatementStep DEF Statement, CallFits, Before, Publishes, Undo, After
<1>6. CASE Statement(t) /\ Refused(pc[t])
  BY <1>6, <1>i, ControlStep, LockMoves DEF Publishes, Undo, After, Step
<1>7. CASE BeginImmediate(t) \/ Execute(t) \/ ImplicitBegin(t)
  <2>1. Publishes(pc[t]) /\ pc'[t] # Idle => lock' = t
    BY <1>7, <1>h, <1>n, LockMoves
  <2> QED
    BY <1>7, <2>1, <1>i, <1>n, ControlStep, LockMoves DEF BeginImmediate, Execute, ImplicitBegin,
      SameCall, Publishes, Undo, After
<1>8. CASE Commit(t) \/ Committing(t) \/ Rollback(t) \/ Rolling(t)
  <2>1. Publishes(pc[t]) /\ pc'[t] # Idle => lock' = t
    BY <1>8, <1>h, <1>n, LockMoves
  <2> QED
    BY <1>8, <2>1, <1>i, <1>n, ControlStep, LockMoves DEF Commit, Committing, Rollback, Rolling,
      SameCall, Publishes, Undo, After
<1> QED
  BY <1>1, <1>2, <1>3, <1>4, <1>5, <1>6, <1>7, <1>8 DEF Step

-----------------------------------------------------------------------------
(* Events.                                                                 *)

\* Only the holder of the lock changes the events, by adding the next one or by
\* going back to what is committed.
LEMMA EventsMove ==
  ASSUME TypeOK, CallsFit, EventsNumbered, LockIsHeld, NEW t \in Threads, Call(t) \/ Step(t)
  PROVE  /\ \/ db'.events = db.events
            \/ lock = t /\ db'.events = db.events \cup {NextNumber}
            \/ lock = t /\ db'.events = disk.events
         /\ disk'.events \in {disk.events, db.events, db'.events}
         /\ db'.events = db.events \/ pc'[t].at \notin {"execute", "begin", "statement"}
<1>1. CASE UNCHANGED <<db, disk>>
  BY <1>1
<1>2. CASE Statement(t) /\ ~Refused(pc[t])
  <2>1. /\ db' = Effect(pc[t]) /\ disk' = IF txn THEN disk ELSE db'
        /\ pc'[t].at = "commit" /\ pc[t].at = "statement"
    BY <1>2, StatementStep DEF Statement
  <2>2. Effect(pc[t]).events = IF pc[t].kind = "append_event" THEN db.events \cup {pc[t].read}
                              ELSE db.events
    BY <2>1, EffectIs DEF TypeOK, CallsFit
  <2>3. pc[t].kind = "append_event" => lock = t /\ pc[t].read = NextNumber
    BY <2>1 DEF LockIsHeld, Publishes, EventsNumbered, NumberIsFree
  <2> QED
    BY <2>1, <2>2, <2>3
<1>3. CASE Committing(t)
  BY <1>3 DEF Committing
<1>4. CASE Rolling(t)
  <2>1. lock = t
    BY <1>4 DEF Rolling, LockIsHeld, Publishes, Undo
  <2> QED
    BY <1>4, <2>1, ControlStep, IdleType DEF Rolling
<1>5. Call(t) => UNCHANGED <<db, disk>>
  BY CallStep
<1>6. Read(t) \/ Reread(t) \/ Lock(t) \/ BeginImmediate(t) \/ Number(t) \/ Execute(t)
        => UNCHANGED <<db, disk>>
  BY DEF Read, Reread, Lock, BeginImmediate, Number, Execute
<1>7. ImplicitBegin(t) \/ (Statement(t) /\ Refused(pc[t])) \/ Commit(t) \/ Rollback(t)
        => UNCHANGED <<db, disk>>
  BY DEF ImplicitBegin, Statement, Commit, Rollback
<1> QED
  BY <1>1, <1>2, <1>3, <1>4, <1>5, <1>6, <1>7 DEF Step

\* The events are still numbered, and the number of a publisher still free.
LEMMA StepEvents ==
  ASSUME TypeOK, CallsFit, EventsNumbered, LockIsHeld, NEW t \in Threads, Call(t) \/ Step(t)
  PROVE  EventsNumbered'
<1>1. Numbered(db.events \cup {NextNumber})
  BY NumberedFacts DEF EventsNumbered, NextNumber
<1>2. Numbered(db'.events)
  BY <1>1, EventsMove DEF EventsNumbered
<1>3. Numbered(disk'.events)
  BY <1>2, EventsMove DEF EventsNumbered
<1> DEFINE At(c) == c.kind = "append_event" /\ c.at \in {"execute", "begin", "statement"}
<1>4. ASSUME NEW u \in Threads \ {t}, At(pc'[u]) PROVE pc'[u].read = NextNumber'
  <2>1. pc'[u] = pc[u]
    BY OneThreadMoves
  <2>2. lock = u
    BY <1>4, <2>1 DEF LockIsHeld, Publishes
  <2>3. db'.events = db.events
    BY <2>2, EventsMove
  <2> QED
    BY <1>4, <2>1, <2>3 DEF EventsNumbered, NumberIsFree, NextNumber
<1>5. ASSUME At(pc'[t]) PROVE pc'[t].read = NextNumber'
  <2>0. db'.events = db.events
    BY <1>5, EventsMove
  <2> SUFFICES pc'[t].read = NextNumber
    BY <2>0 DEF NextNumber
  <2>i. pc'[t] # Idle
    BY <1>5, IdleType
  <2>n. At(pc[t]) => pc[t].read = NextNumber
    BY DEF EventsNumbered, NumberIsFree
  <2>1. ~Call(t)
    BY <1>5, CallStep
  <2>2. ~Read(t) /\ ~Reread(t)
    <3>1. CASE Read(t)
      BY <1>5, <2>i, <3>1, Ends, ReadStep DEF Read
    <3>2. CASE Reread(t)
      <4>1. pc[t].kind \in ReadsTwice
        BY <3>2 DEF Reread, CallsFit, CallFits
      <4> QED
        BY <1>5, <2>i, <3>2, <4>1, Ends, RereadStep DEF Reread, ReadsTwice
    <3> QED
      BY <3>1, <3>2
  <2>3. CASE Number(t)
    BY <2>3, NumberStep
  <2>4. CASE Execute(t) \/ ImplicitBegin(t)
    BY <1>5, <2>i, <2>n, <2>4, ControlStep DEF Execute, ImplicitBegin, SameCall
  <2>5. ~Statement(t)
    BY <1>5, <2>i, ControlStep, StatementStep
  <2>6. ~(Lock(t) \/ BeginImmediate(t) \/ Commit(t) \/ Committing(t) \/ Rollback(t) \/ Rolling(t))
    BY <1>5, <2>i, ControlStep
  <2> QED
    BY <2>1, <2>2, <2>3, <2>4, <2>5, <2>6 DEF Step
<1> QED
  BY <1>2, <1>3, <1>4, <1>5 DEF EventsNumbered, NumberIsFree

-----------------------------------------------------------------------------
(* Transactions.                                                           *)

\* The steps that change the tables or the disk.
Executes(t)  == Statement(t) /\ ~Refused(pc[t])
Persists(t)  == Committing(t) /\ txn
Discards(t)  == Rolling(t)

\* All those steps do to the tables, the disk and the transaction.
LEMMA TablesMove ==
  ASSUME TypeOK, CallsFit, NEW t \in Threads, Call(t) \/ Step(t)
  PROVE  /\ Executes(t) => /\ db'.done = db.done \cup {pc[t].call}
                           /\ disk' = IF txn THEN disk ELSE db'
                           /\ UNCHANGED <<txn, undone>>
         /\ Persists(t) => disk' = db /\ ~txn' /\ UNCHANGED <<db, undone>>
         /\ Discards(t) => /\ db' = disk /\ ~txn' /\ UNCHANGED disk
                           /\ undone' = undone \cup (db.done \ disk.done)
         /\ ~(Executes(t) \/ Persists(t) \/ Discards(t))
              => (txn' = txn \/ txn') /\ UNCHANGED <<db, disk, undone>>
<1>1. Executes(t) => /\ db'.done = db.done \cup {pc[t].call}
                     /\ disk' = IF txn THEN disk ELSE db'
                     /\ UNCHANGED <<txn, undone>>
  <2> SUFFICES ASSUME Executes(t)
               PROVE  /\ db'.done = db.done \cup {pc[t].call}
                      /\ disk' = IF txn THEN disk ELSE db'
                      /\ UNCHANGED <<txn, undone>>
    OBVIOUS
  <2>1. /\ db' = Effect(pc[t]) /\ disk' = IF txn THEN disk ELSE db'
        /\ pc[t].at = "statement" /\ UNCHANGED <<txn, undone>>
    BY StatementStep DEF Executes, Statement
  <2>2. Effect(pc[t]).done = db.done \cup {pc[t].call}
    BY <2>1, EffectIs DEF TypeOK, CallsFit
  <2> QED
    BY <2>1, <2>2
<1>2. Persists(t) => disk' = db /\ ~txn' /\ UNCHANGED <<db, undone>>
  BY DEF Persists, Committing
<1>3. Discards(t) => /\ db' = disk /\ ~txn' /\ UNCHANGED disk
                     /\ undone' = undone \cup (db.done \ disk.done)
  BY DEF Discards, Rolling
<1>4. ASSUME ~(Executes(t) \/ Persists(t) \/ Discards(t))
      PROVE  (txn' = txn \/ txn') /\ UNCHANGED <<db, disk, undone>>
  <2>1. CASE Call(t)
    BY <2>1, CallStep
  <2>2. CASE Read(t) \/ Reread(t) \/ Lock(t) \/ Number(t) \/ Execute(t)
    BY <2>2 DEF Read, Reread, Lock, Number, Execute
  <2>3. CASE BeginImmediate(t) \/ ImplicitBegin(t) \/ Commit(t) \/ Rollback(t)
    BY <2>3 DEF BeginImmediate, ImplicitBegin, Commit, Rollback
  <2>4. CASE Statement(t)
    BY <1>4, <2>4 DEF Executes, Statement
  <2>5. CASE Committing(t)
    BY <1>4, <2>5 DEF Persists, Committing, TypeOK
  <2> QED
    BY <1>4, <2>1, <2>2, <2>3, <2>4, <2>5 DEF Step, Discards
<1> QED
  BY <1>1, <1>2, <1>3, <1>4

\* A call keeps its identity, and its statement is what takes it from Before to After.
LEMMA CallKept ==
  ASSUME TypeOK, CallsFit, EventsNumbered, NEW t \in Threads, Step(t), pc'[t].at # "idle"
  PROVE  /\ pc[t].at # "idle" /\ pc'[t].call = pc[t].call
         /\ Executes(t) => pc[t].at \in Before /\ pc'[t].at \notin Before
         /\ pc'[t].at \in Before => pc[t].at \in Before
         /\ pc'[t].at \in After => pc[t].at \in After \/ Executes(t)
<1> USE DEF Before, After
<1>i. pc'[t] # Idle
  BY IdleType
<1>1. CASE Read(t)
  BY <1>1, <1>i, Ends, ReadStep DEF Read, Executes, Statement
<1>2. CASE Reread(t)
  BY <1>2, <1>i, Ends, RereadStep DEF Reread, Executes, Statement
<1>3. CASE Number(t)
  BY <1>3, NumberStep DEF Number, Executes, Statement
<1>4. CASE Executes(t)
  BY <1>4, StatementStep DEF Statement, Executes
<1>5. CASE \/ Lock(t) \/ BeginImmediate(t) \/ Execute(t) \/ ImplicitBegin(t)
           \/ Commit(t) \/ Committing(t) \/ Rollback(t) \/ Rolling(t)
  BY <1>5, <1>i, ControlStep DEF SameCall, Lock, BeginImmediate, Execute, ImplicitBegin, Commit,
    Committing, Rollback, Executes, Statement
<1>6. CASE Statement(t) /\ Refused(pc[t])
  BY <1>6, <1>i, ControlStep DEF SameCall, Statement, Executes
<1> QED
  BY <1>1, <1>2, <1>3, <1>4, <1>5, <1>6 DEF Step, Executes

\* Outside a transaction the tables are still those of the disk.
LEMMA StepSynced ==
  ASSUME TypeOK, CallsFit, Synced, CallsUnique, NEW t \in Threads, Call(t) \/ Step(t)
  PROVE  Synced'
<1>1. CASE Executes(t)
  <2>1. pc[t].call \notin db.done
    BY <1>1 DEF Executes, Statement, CallsUnique, Before
  <2> QED
    BY <1>1, <2>1, TablesMove DEF Synced
<1>2. CASE ~Executes(t)
  BY <1>2, TablesMove DEF Synced
<1> QED
  BY <1>1, <1>2

\* Calls are still told apart, and take effect once.
LEMMA StepUnique ==
  ASSUME TypeOK, CallsFit, EventsNumbered, Synced, CallsUnique,
         NEW t \in Threads, Call(t) \/ Step(t)
  PROVE  CallsUnique'
<1>0. made \in Nat /\ made' \in {made, made + 1} /\ db.done \subseteq Calls /\ undone \subseteq Calls
  <2>1. Step(t) => made' = made
    BY DEF Step, Read, Reread, Lock, BeginImmediate, Number, Execute, ImplicitBegin, Statement,
      Commit, Committing, Rollback, Rolling
  <2> QED
    BY <2>1, CallStep DEF TypeOK, Table
<1>a. \A a \in Calls : a[1] \in Nat
  BY DEF Calls
<1>b. \A u \in Threads : pc[u].at # "idle" => pc[u].call \in Calls /\ pc[u].call[1] <= made
  BY DEF CallsFit, CallFits, CallsUnique
<1>c. Call(t) => pc'[t].call[1] = made + 1 /\ pc'[t].call \in Calls /\ made' = made + 1
  BY CallStep
<1>o. \A u \in Threads \ {t} : pc'[u] = pc[u]
  BY OneThreadMoves
<1>1. /\ db'.done \cup undone' \subseteq db.done \cup undone \cup {pc[t].call}
      /\ ~Executes(t) => db'.done \cup undone' \subseteq db.done \cup undone
      /\ db'.done \cap undone' = {}
  <2>1. CASE Executes(t)
    <3>1. pc[t].call \notin db.done \cup undone
      BY <2>1 DEF Executes, Statement, CallsUnique, Before
    <3> QED
      BY <2>1, <3>1, TablesMove DEF CallsUnique
  <2>2. CASE ~Executes(t)
    BY <2>2, TablesMove DEF CallsUnique, Synced
  <2> QED
    BY <2>1, <2>2
<1>e. Executes(t) => pc[t].at # "idle" /\ Step(t) /\ ~Call(t)
  BY CallStep DEF Executes, Statement, Step
<1>2. \A a \in db'.done \cup undone' : a[1] <= made'
  BY <1>0, <1>1, <1>a, <1>b, <1>e DEF CallsUnique
<1>3. \A u \in Threads : pc'[u].at # "idle" => pc'[u].call[1] <= made'
  BY <1>0, <1>a, <1>b, <1>c, <1>o, CallKept
<1>4. ASSUME NEW u \in Threads, pc'[u].at \in Before
      PROVE  pc'[u].call \notin db'.done \cup undone'
  <2>i. pc'[u].at # "idle"
    BY <1>4 DEF Before
  <2>1. CASE u # t
    BY <1>1, <1>4, <1>o, <1>e, <2>1, <2>i DEF CallsUnique
  <2>2. CASE u = t /\ Call(t)
    BY <1>0, <1>1, <1>a, <1>c, <1>e, <2>2 DEF CallsUnique
  <2>3. CASE u = t /\ Step(t)
    BY <1>1, <1>4, <2>3, <2>i, CallKept DEF CallsUnique
  <2> QED
    BY <2>1, <2>2, <2>3
<1>5. ASSUME NEW u \in Threads \ {t}, pc'[t].at # "idle", pc'[u].at # "idle"
      PROVE  pc'[t].call # pc'[u].call
  <2>1. CASE Call(t)
    BY <1>0, <1>a, <1>b, <1>c, <1>o, <1>5, <2>1
  <2>2. CASE Step(t)
    BY <1>o, <1>5, <2>2, CallKept DEF CallsUnique
  <2> QED
    BY <2>1, <2>2
<1>6. \A u, v \in Threads : u # v /\ pc'[u].at # "idle" /\ pc'[v].at # "idle"
                           => pc'[u].call # pc'[v].call
  BY <1>5, <1>o DEF CallsUnique
<1> QED
  BY <1>1, <1>2, <1>3, <1>4, <1>6 DEF CallsUnique

\* A call is in effect after its statement, and an event stays so: only the holder of
\* the lock discards.
LEMMA StepDone ==
  ASSUME TypeOK, CallsFit, EventsNumbered, LockIsHeld, Synced, StatementDone,
         NEW t \in Threads, Call(t) \/ Step(t)
  PROVE  StatementDone'
<1>1. /\ db.done \cup undone \subseteq db'.done \cup undone'
      /\ ~Discards(t) => db.done \subseteq db'.done
      /\ Executes(t) => pc[t].call \in db'.done
  BY TablesMove
<1>2. Discards(t) => lock = t /\ pc'[t] = Idle
  BY ControlStep DEF Discards, Rolling, LockIsHeld, Publishes, Undo
<1>3. ASSUME NEW u \in Threads \ {t}, pc'[u].at \in After
      PROVE  /\ pc'[u].call \in db'.done \cup undone'
             /\ pc'[u].call[2] => pc'[u].call \in db'.done
  <2>1. pc'[u] = pc[u]
    BY OneThreadMoves
  <2>2. pc[u].call[2] => ~Discards(t)
    BY <1>2, <1>3, <2>1 DEF LockIsHeld, Publishes
  <2> QED
    BY <1>1, <1>3, <2>1, <2>2 DEF StatementDone
<1>4. ASSUME pc'[t].at \in After
      PROVE  /\ pc'[t].call \in db'.done \cup undone'
             /\ pc'[t].call[2] => pc'[t].call \in db'.done
  <2>1. pc'[t].at # "idle" /\ pc'[t] # Idle
    BY <1>4, IdleType DEF After
  <2>2. Step(t)
    BY <1>4, CallStep DEF After
  <2>3. pc'[t].call = pc[t].call /\ (pc[t].at \in After \/ Executes(t))
    BY <1>4, <2>1, <2>2, CallKept
  <2> QED
    BY <1>1, <1>2, <2>1, <2>3 DEF StatementDone
<1> QED
  BY <1>3, <1>4 DEF StatementDone

\* A method returns after a commit, its own or another thread's.
LEMMA ReturnsCommitted ==
  ASSUME TypeOK, CallsFit, Synced, NEW t \in Threads, Call(t) \/ Step(t)
  PROVE  \/ acked' = acked
         \/ /\ acked' = acked \cup {pc[t].call} /\ pc[t].at \in After
            /\ disk' = db /\ UNCHANGED <<db, undone>>
<1>1. Raises(t) \/ Fails(t) \/ (\E x \in Places : Goto(t, x)) => acked' = acked
  BY DEF Raises, Fails, Goto
<1>2. CASE Call(t)
  BY <1>2, CallStep
<1>3. CASE Read(t) \/ Reread(t) \/ Lock(t) \/ Number(t)
  BY <1>3, <1>1 DEF Read, Reread, Lock, Number
<1>4. CASE BeginImmediate(t) \/ Execute(t) \/ ImplicitBegin(t) \/ Rollback(t) \/ Rolling(t)
  BY <1>4, <1>1 DEF BeginImmediate, Execute, ImplicitBegin, Rollback, Rolling, Goto
<1>5. CASE Statement(t)
  BY <1>5, <1>1 DEF Statement
<1>6. CASE Commit(t)
  BY <1>6 DEF Commit, Goto, Returns, After, Synced
<1>7. CASE Committing(t)
  BY <1>7, <1>1 DEF Committing, Returns, After
<1> QED
  BY <1>2, <1>3, <1>4, <1>5, <1>6, <1>7 DEF Step

\* A call that returns is committed or undone; what is committed stays so.
LEMMA StepDurable ==
  ASSUME TypeOK, CallsFit, Synced, StatementDone, AckedEventIsDurable, OnlyRollbackLoses,
         NEW t \in Threads, Call(t) \/ Step(t)
  PROVE  AckedEventIsDurable' /\ OnlyRollbackLoses'
<1>1. disk.done \subseteq disk'.done /\ undone \subseteq undone'
  BY TablesMove DEF Synced
<1>2. CASE acked' = acked
  BY <1>1, <1>2 DEF AckedEventIsDurable, OnlyRollbackLoses
<1>3. CASE /\ acked' = acked \cup {pc[t].call} /\ pc[t].at \in After
           /\ disk' = db /\ UNCHANGED <<db, undone>>
  <2>1. pc[t].call \in disk'.done \cup undone' /\ (pc[t].call[2] => pc[t].call \in disk'.done)
    BY <1>3 DEF StatementDone
  <2> QED
    BY <1>1, <1>3, <2>1 DEF AckedEventIsDurable, OnlyRollbackLoses
<1> QED
  BY <1>2, <1>3, ReturnsCommitted

-----------------------------------------------------------------------------
(* Races on a row.                                                         *)

\* A thread touches what it touched before, or less; a call that begins races with
\* every call it meets on a row.
LEMMA TouchesLess ==
  ASSUME TypeOK, CallsFit, EventsNumbered, NEW t \in Threads, Step(t), pc'[t].at # "idle"
  PROVE  pc[t].at # "idle" /\ Touches(pc'[t]) \subseteq Touches(pc[t])
<1>i. pc'[t] # Idle
  BY IdleType
<1>0. pc[t].at # "idle"
  BY CallKept
<1>1. CASE Executes(t)
  <2>1. pc'[t].kind = None
    BY <1>1, StatementStep DEF Executes
  <2>2. None \notin Kinds
    BY ConstantsAssumption
  <2>3. Touches(pc'[t]) = {}
    BY <2>1, <2>2 DEF Touches, Kinds, RowKinds, NodeKinds
  <2> QED
    BY <1>0, <2>3
<1>2. CASE ~Executes(t)
  <2>1. pc'[t].kind = pc[t].kind /\ pc'[t].node = pc[t].node
    BY <1>i, <1>2, Ends, ReadStep, RereadStep, NumberStep, ControlStep
      DEF Step, Executes, Read, Reread, SameCall
  <2> QED
    BY <1>0, <2>1 DEF Touches
<1> QED
  BY <1>1, <1>2

\* Two calls on one row are still known to race.
LEMMA StepRaces ==
  ASSUME TypeOK, CallsFit, EventsNumbered, RacesKnown, NEW t \in Threads, Call(t) \/ Step(t)
  PROVE  RacesKnown'
<1>1. raced \subseteq raced'
  <2>1. Call(t) => raced \subseteq raced'
    BY CallStep
  <2>2. Step(t) => raced \subseteq raced'
    BY DEF Step, Read, Reread, Lock, BeginImmediate, Number, Execute, ImplicitBegin, Statement,
      Commit, Committing, Rollback, Rolling
  <2> QED
    BY <2>1, <2>2
<1>o. \A u \in Threads \ {t} : pc'[u] = pc[u]
  BY OneThreadMoves
<1>2. ASSUME NEW u \in Threads \ {t}, pc'[t].at # "idle", pc'[u].at # "idle",
             NEW n \in Touches(pc'[t]) \cap Touches(pc'[u])
      PROVE  n \in raced'
  <2>1. CASE Call(t)
    <3>1. Busy(n)
      BY <1>o, <1>2 DEF Busy
    <3> QED
      BY <1>2, <2>1, <3>1, CallStep
  <2>2. CASE Step(t)
    <3>1. n \in Touches(pc[t]) \cap Touches(pc[u]) /\ pc[t].at # "idle" /\ pc[u].at # "idle"
      BY <1>o, <1>2, <2>2, TouchesLess
    <3> QED
      BY <1>1, <3>1 DEF RacesKnown
  <2> QED
    BY <2>1, <2>2
<1>3. ASSUME NEW u \in Threads \ {t}, NEW v \in Threads \ {t}, u # v,
             pc'[u].at # "idle", pc'[v].at # "idle"
      PROVE  Touches(pc'[u]) \cap Touches(pc'[v]) \subseteq raced'
  BY <1>1, <1>3, <1>o DEF RacesKnown
<1> QED
  BY <1>2, <1>3 DEF RacesKnown

\* The row a call has read is the row it writes back, unless another call is on it.
LEMMA StepFresh ==
  ASSUME TypeOK, CallsFit, EventsNumbered, RacesKnown, RowsFresh,
         NEW t \in Threads, Call(t) \/ Step(t)
  PROVE  RowsFresh'
<1> DEFINE Holds(c) == c.at \in {"reread", "execute", "begin", "statement"} /\ c.kind \in RowKinds
<1>o. \A u \in Threads \ {t} : pc'[u] = pc[u]
  BY OneThreadMoves
<1>r. raced \subseteq raced'
  <2>1. Step(t) => raced \subseteq raced'
    BY DEF Step, Read, Reread, Lock, BeginImmediate, Number, Execute, ImplicitBegin, Statement,
      Commit, Committing, Rollback, Rolling
  <2> QED
    BY <2>1, CallStep
<1>1. ASSUME NEW u \in Threads \ {t}, Holds(pc'[u]), pc'[u].node \notin raced'
      PROVE  /\ pc'[u].row = db'.node[pc'[u].node]
             /\ pc'[u].kind \in {"update_node_status", "record_node"}
                  => NodeMay(pc'[u].row.status, pc'[u].to)
  <2> DEFINE n == pc[u].node
  <2>1. pc'[u] = pc[u] /\ n \notin raced /\ pc[u].at # "idle"
    BY <1>1, <1>o, <1>r
  <2>2. /\ pc[u].row = db.node[n]
        /\ pc[u].kind \in {"update_node_status", "record_node"} => NodeMay(pc[u].row.status, pc[u].to)
    BY <1>1, <2>1 DEF RowsFresh, RowFresh
  <2>3. n \in Touches(pc[u]) /\ n \in Nodes
    BY <1>1, <2>1 DEF Touches, RowKinds, CallsFit, CallFits, Before
  <2>4. db'.node[n] = db.node[n]
    <3>1. CASE Executes(t)
      <4>1. pc[t].at = "statement" /\ db' = Effect(pc[t])
        BY <3>1 DEF Executes, Statement
      <4>2. n \notin Touches(pc[t])
        BY <2>1, <2>3, <4>1 DEF RacesKnown
      <4> QED
        BY <2>3, <4>1, <4>2, EffectIs DEF TypeOK, CallsFit
    <3>2. CASE Discards(t)
      <4>1. Busy(n)
        BY <2>1, <2>3 DEF Busy
      <4>2. n \in raced'
        BY <2>3, <3>2, <4>1 DEF Discards, Rolling
      <4> QED
        BY <1>1, <2>1, <4>2
    <3>3. CASE ~Executes(t) /\ ~Discards(t)
      BY <3>3, TablesMove
    <3> QED
      BY <3>1, <3>2, <3>3
  <2> QED
    BY <2>1, <2>2, <2>4
<1>2. ASSUME Holds(pc'[t]), pc'[t].node \notin raced'
      PROVE  /\ pc'[t].row = db'.node[pc'[t].node]
             /\ pc'[t].kind \in {"update_node_status", "record_node"}
                  => NodeMay(pc'[t].row.status, pc'[t].to)
  <2>i. pc'[t] # Idle
    BY <1>2, IdleType
  <2>n. pc'[t].node \notin raced
    BY <1>2, <1>r
  <2>f. Holds(pc[t]) /\ pc[t].node \notin raced =>
          /\ pc[t].row = db.node[pc[t].node]
          /\ pc[t].kind \in {"update_node_status", "record_node"}
               => NodeMay(pc[t].row.status, pc[t].to)
    BY DEF RowsFresh, RowFresh
  <2>k. "append_event" \notin RowKinds
    BY DEF RowKinds
  <2>1. ~Call(t)
    BY <1>2, CallStep
  <2>2. CASE Read(t)
    <3>1. ~Rejected(pc[t])
      BY <2>2, <2>i, Ends DEF Read
    <3>2. db' = db /\ pc'[t].row = db.node[pc[t].node] /\ pc'[t].node = pc[t].node
          /\ pc'[t].kind = pc[t].kind /\ pc'[t].to = pc[t].to
      BY <2>2, <3>1, ReadStep DEF Read
    <3>3. db.node[pc[t].node] # Absent
      BY <1>2, <3>1, <3>2 DEF Rejected
    <3>4. pc[t].kind \in {"update_node_status", "record_node"}
            => NodeMay(db.node[pc[t].node].status, pc[t].to)
      BY <3>1, <3>3 DEF Rejected
    <3> QED
      BY <3>2, <3>4
  <2>3. CASE Reread(t)
    <3>1. db.node[pc[t].node] # Absent
      BY <2>3, <2>i, Ends DEF Reread
    <3>2. db' = db /\ pc'[t].row = db.node[pc[t].node] /\ pc'[t].node = pc[t].node
          /\ pc'[t].kind = pc[t].kind /\ pc'[t].to = pc[t].to /\ pc[t].at = "reread"
      BY <2>3, <3>1, RereadStep DEF Reread
    <3> QED
      BY <1>2, <2>n, <2>f, <3>2
  <2>4. ~Number(t)
    BY <1>2, <2>k, NumberStep DEF Number, CallsFit, CallFits
  <2>5. CASE Execute(t) \/ ImplicitBegin(t)
    <3>1. db' = db /\ SameCall(pc[t], pc'[t]) /\ pc[t].at \in {"execute", "begin"}
      BY <1>2, <2>i, <2>5, ControlStep DEF Execute, ImplicitBegin
    <3> QED
      BY <1>2, <2>n, <2>f, <3>1 DEF SameCall
  <2>6. ~Statement(t)
    BY <1>2, <2>i, ControlStep, StatementStep
  <2>7. ~(Lock(t) \/ BeginImmediate(t) \/ Commit(t) \/ Committing(t) \/ Rollback(t) \/ Rolling(t))
    BY <1>2, <2>i, ControlStep
  <2> QED
    BY <2>1, <2>2, <2>3, <2>4, <2>5, <2>6, <2>7 DEF Step
<1> QED
  BY <1>1, <1>2 DEF RowsFresh, RowFresh

-----------------------------------------------------------------------------
(* Theorems.                                                               *)

\* The tables of a run as they are opened, and nobody inside a call.
LEMMA InitInv == Init => IInv
<1> SUFFICES ASSUME Init PROVE IInv
  OBVIOUS
<1>1. /\ db \in Table /\ db.done = {} /\ db.events = {} /\ disk = db
  BY DEF Init, Table, Fresh, Rows, NodeStatus, RunStatus
<1>2. \A t \in Threads : pc[t] = Idle
  BY DEF Init
<1>3. TypeOK
  BY <1>1, IdleType, ConstantsAssumption DEF Init, TypeOK
<1>4. CallsFit
  BY <1>2, IdleFits DEF CallsFit
<1>5. EventsNumbered
  <2>1. 0 \in Nat /\ 1..0 = {}
    OBVIOUS
  <2> QED
    BY <1>1, <1>2, <2>1, IdleType DEF EventsNumbered, Numbered, NumberIsFree
<1>6. LockIsHeld /\ StatementDone
  BY <1>2, IdleType DEF LockIsHeld, StatementDone, Publishes, After, Undo
<1>7. Synced /\ CallsUnique
  BY <1>1, <1>2, IdleType DEF Init, Synced, CallsUnique, Before
<1>8. AckedEventIsDurable /\ OnlyRollbackLoses
  BY DEF Init, AckedEventIsDurable, OnlyRollbackLoses
<1>9. RacesKnown /\ RowsFresh
  BY <1>2, IdleType DEF RacesKnown, RowsFresh, RowFresh
<1> QED
  BY <1>3, <1>4, <1>5, <1>6, <1>7, <1>8, <1>9 DEF IInv

\* Every step of every thread keeps the invariant.
LEMMA NextInv == IInv /\ [Next]_vars => IInv'
<1> SUFFICES ASSUME IInv, [Next]_vars PROVE IInv'
  OBVIOUS
<1>1. CASE UNCHANGED vars
  BY <1>1 DEF vars, IInv, TypeOK, CallsFit, LockIsHeld, EventsNumbered, NumberIsFree, NextNumber,
    Synced, CallsUnique, StatementDone, AckedEventIsDurable, OnlyRollbackLoses, RacesKnown,
    RowsFresh, RowFresh
<1>2. ASSUME NEW t \in Threads, Call(t) \/ Step(t) PROVE IInv'
  BY <1>2, StepTypes, StepFits, StepLock, StepEvents, StepSynced, StepUnique, StepDone, StepDurable,
    StepRaces, StepFresh DEF IInv
<1> QED
  BY <1>1, <1>2 DEF Next

\* The inductive invariant of the shared connection.
THEOREM ConnectionInvariant == Spec => []IInv
BY InitInv, NextInv, PTL DEF Spec

\* The types of the tables, of the connection and of the calls (TypeOK).
THEOREM TypeCorrect == Spec => []TypeOK
<1>1. IInv => TypeOK
  BY DEF IInv
<1> QED
  BY <1>1, ConnectionInvariant, PTL

\* However many threads commit each other's transactions, the events of a run are
\* numbered 1, 2, 3 ... without a gap, and no publisher inserts a taken number
\* (append_event under its lock).
THEOREM EventsAreNumbered == Spec => []EventNumbers
<1>1. IInv => EventNumbers
  <2> SUFFICES ASSUME IInv PROVE EventNumbers
    OBVIOUS
  <2>1. \A es \in {db.events, disk.events} : es = 1..Cardinality(es)
    BY NumberedFacts DEF IInv, EventsNumbered
  <2> QED
    BY <2>1 DEF IInv, EventsNumbered, NumberIsFree, NextNumber, EventNumbers
<1> QED
  BY <1>1, ConnectionInvariant, PTL

\* An event whose append_event has returned is committed for good.
THEOREM AckedEventsAreDurable == Spec => []AckedEventIsDurable
<1>1. IInv => AckedEventIsDurable
  BY DEF IInv
<1> QED
  BY <1>1, ConnectionInvariant, PTL

\* A write whose method has returned is committed, or the rollback of a failing
\* append_event discarded it.
THEOREM OnlyRollbacksLose == Spec => []OnlyRollbackLoses
<1>1. IInv => OnlyRollbackLoses
  BY DEF IInv
<1> QED
  BY <1>1, ConnectionInvariant, PTL

\* The move of a row by a step: by the transition table, unless two calls are on the
\* row or a rollback discards a call in effect.
LegalMove(n) ==
  LET from == db.node[n].status
      to   == db'.node[n].status
  IN \/ "absent" \in {from, to} \/ from = to
     \/ NodeMay(from, to) \/ n \in raced' \/ undone' # undone

\* A statement moves a status as LegalMove says.
LEMMA StatementMove ==
  ASSUME IInv, NEW t \in Threads, Executes(t), NEW n \in Nodes
  PROVE  LegalMove(n)
<1> DEFINE c == pc[t]
<1>0. TypeOK /\ CallsFit
  BY DEF IInv
<1>1. /\ c.at = "statement" /\ db' = Effect(c) /\ raced' = raced /\ ~Refused(c)
      /\ c \in Locals /\ CallFits(c)
  BY <1>0 DEF Executes, Statement, TypeOK, CallsFit
<1>2. CASE n \notin Touches(c)
  BY <1>0, <1>1, <1>2, EffectIs DEF LegalMove
<1>3. CASE c.kind \in RowKinds /\ n \in Touches(c)
  <2>1. n = c.node
    BY <1>3 DEF Touches, RowKinds
  <2>2. db'.node[n] = PersistNode(c)
    BY <1>0, <1>1, <1>3, <2>1, EffectIs
  <2>3. c.row \in Rows
    BY <1>1 DEF Locals
  <2>4. /\ c.kind \in {"update_node_status", "record_node"} => PersistNode(c).status = c.to
        /\ c.kind \notin {"update_node_status", "record_node"} => PersistNode(c).status = c.row.status
    BY <1>3, <2>3 DEF PersistNode, Rows, RowKinds
  <2>5. CASE n \in raced
    BY <1>1, <2>5 DEF LegalMove
  <2>6. CASE n \notin raced
    <3>1. c.row = db.node[n]
      BY <1>1, <1>3, <2>1, <2>6 DEF IInv, RowsFresh, RowFresh
    <3>2. c.kind \in {"update_node_status", "record_node"} => NodeMay(c.row.status, c.to)
      BY <1>1, <1>3, <2>1, <2>6 DEF IInv, RowsFresh, RowFresh
    <3>3. NodeMay(db.node[n].status, db'.node[n].status) \/ db.node[n].status = db'.node[n].status
      BY <2>2, <2>4, <3>1, <3>2
    <3> QED
      BY <3>3 DEF LegalMove
  <2> QED
    BY <2>5, <2>6
<1>4. CASE c.kind = "create_node" /\ n \in Touches(c)
  <2>1. n = c.node
    BY <1>4 DEF Touches
  <2>2. db.node[n] = Absent
    BY <1>1, <1>4, <2>1 DEF Refused
  <2> QED
    BY <2>2 DEF LegalMove, Absent
<1>5. CASE c.kind \in {"delete_node", "delete_children_of"} /\ n \in Touches(c)
  <2>1. db'.node[n] = Absent
    BY <1>0, <1>1, <1>5, EffectIs
  <2> QED
    BY <2>1 DEF LegalMove, Absent
<1> QED
  BY <1>2, <1>3, <1>4, <1>5 DEF Touches

\* So does every other step.
LEMMA MoveIsLegal ==
  ASSUME IInv, [Next]_vars, NEW n \in Nodes
  PROVE  LegalMove(n)
<1>1. CASE db' = db
  BY <1>1 DEF LegalMove
<1>2. ASSUME NEW t \in Threads, Executes(t) PROVE LegalMove(n)
  BY <1>2, StatementMove
<1>3. ASSUME NEW t \in Threads, Discards(t) PROVE LegalMove(n)
  <2>1. db' = disk /\ undone' = undone \cup (db.done \ disk.done)
    BY <1>3 DEF Discards, Rolling
  <2>2. CASE db.done = disk.done
    BY <1>1, <2>1, <2>2 DEF IInv, Synced
  <2>3. CASE db.done # disk.done
    <3>1. undone' # undone
      BY <2>1, <2>3 DEF IInv, Synced, CallsUnique
    <3> QED
      BY <3>1 DEF LegalMove
  <2> QED
    BY <2>2, <2>3
<1>4. ASSUME NEW t \in Threads, Call(t) \/ Step(t), ~Executes(t), ~Discards(t) PROVE db' = db
  <2>1. TypeOK /\ CallsFit
    BY DEF IInv
  <2> QED
    BY <1>4, <2>1, TablesMove
<1> QED
  BY <1>1, <1>2, <1>3, <1>4 DEF Next, vars

\* The status of a node moves against the transition table only where two calls work
\* on its row at once, or a rollback takes it back (LegalMoves).
THEOREM MovesAreLegal == Spec => LegalMoves
<1>1. IInv /\ [Next]_vars => [\A n \in Nodes : LegalMove(n)]_vars
  BY MoveIsLegal
<1>2. [\A n \in Nodes : LegalMove(n)]_vars =>
        [\A n \in Nodes :
           LET from == db.node[n].status
               to   == db'.node[n].status
           IN \/ "absent" \in {from, to} \/ from = to
              \/ NodeMay(from, to) \/ n \in raced' \/ undone' # undone]_vars
  BY DEF LegalMove
<1> QED
  BY <1>1, <1>2, ConnectionInvariant, PTL DEF Spec, LegalMoves

=============================================================================
