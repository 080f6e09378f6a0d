-------------------------- MODULE SharedConnection ---------------------------
(***************************************************************************)
(* SQLiteRunStateRepository under threads: every job and every handler     *)
(* calls it over one sqlite3 connection (check_same_thread=False), so they *)
(* share one transaction.  A write method reads, executes one statement    *)
(* and commits; the driver opens a transaction before an INSERT, UPDATE or *)
(* DELETE if none is open, commit() does nothing if none is open, and any  *)
(* thread's commit ends the transaction of all.  Only append_event takes a *)
(* lock, opens its transaction itself, and rolls back when it fails.  One  *)
(* step is one call into SQLite, between which the driver lets other       *)
(* threads run.                                                            *)
(***************************************************************************)
EXTENDS Policies, FiniteSets, FiniteSetsExt

CONSTANTS
  Workers,     \* threads of the pool
  Handlers,    \* threads that answer requests
  Nodes,       \* node ids of one run
  Root,        \* the node the others are children of
  Targets,     \* node statuses the callers ask for
  RunTargets,  \* run statuses the callers ask for
  MaxCalls,    \* bound: calls of all threads
  None

Threads == Workers \cup Handlers

VARIABLES
  db,      \* what every thread sees: run, node rows, event numbers, and the calls in effect (each a number, and whether it publishes)
  disk,    \* what is committed
  txn,     \* whether the connection has an open transaction
  lock,    \* the holder of _event_lock
  pc,      \* each thread: where it is in its call and what it has read
  made,    \* the number of calls begun
  acked,   \* history: calls that have returned without an exception
  undone,  \* history: calls in effect until a rollback
  raced    \* history: nodes that two calls have worked on at once

vars == <<db, disk, txn, lock, pc, made, acked, undone, raced>>

\* update_node stands for the methods that set fields left out here (objective, persona).
RowKinds  == {"update_node_status", "update_node", "reset_checker_failures",
              "increment_checker_failures", "record_node"}
RunKinds  == {"update_run_status", "increment_run_tokens"}
NodeKinds == {"create_node", "create_child_row", "delete_node", "delete_children_of"}
Kinds     == RowKinds \cup RunKinds \cup NodeKinds \cup {"append_event"}

ASSUME ConstantsAssumption ==
  /\ Root \in Nodes /\ None \notin Nodes \cup Threads \cup Kinds /\ IsFiniteSet(Nodes)
  /\ Targets \subseteq NodeStatus /\ RunTargets \subseteq RunStatus
  /\ MaxCalls \in Nat

\* What the executor and the orchestrator call, and what the handlers call.
KindsOf(t) == IF t \in Workers THEN Kinds \ {"delete_node"}
              ELSE {"update_node_status", "update_node", "update_run_status", "create_child_row",
                    "delete_node", "delete_children_of", "append_event"}

Absent == [status |-> "absent", failures |-> 0]
Fresh  == [status |-> "queued", failures |-> 0]
Idle   == [at |-> "idle", kind |-> None, node |-> None, to |-> None,
           row |-> Absent, read |-> 0, call |-> <<>>]

Init ==
  /\ db = [status |-> "running", tokens |-> 0, events |-> {}, done |-> {},
           node |-> [n \in Nodes |-> IF n = Root THEN [Fresh EXCEPT !.status = "running"]
                                     ELSE [Fresh EXCEPT !.status = "blocked_human"]]]
  /\ disk = db
  /\ txn = FALSE /\ lock = None
  /\ pc = [t \in Threads |-> Idle]
  /\ made = 0
  /\ acked = {} /\ undone = {} /\ raced = {}

Subtree(n) == IF n = Root THEN Nodes ELSE {n}

\* The node rows a call may write.
Touches(c) == CASE c.kind = "delete_node"                   -> Subtree(c.node)
                [] c.kind = "delete_children_of"            -> Subtree(c.node) \ {c.node}
                [] c.kind \in RowKinds \cup {"create_node"} -> {c.node}
                [] OTHER                                    -> {}
-----------------------------------------------------------------------------
(* What the statements do.                                                 *)

\* Rowcount 0, a missing parent, run or node (foreign key), a taken id or number.
Refused(c) ==
  \/ c.kind \in RowKinds \cup {"create_child_row", "delete_node", "append_event"}
     /\ db.node[c.node] = Absent
  \/ c.kind = "create_node" /\ (db.node[c.node] # Absent \/ db.node[Root] = Absent)
  \/ c.kind = "append_event" /\ c.read \in db.events

\* Mutant: the status is written whatever the call changes.
PersistStatus(c) == [c.row EXCEPT !.status = c.to]

\* _persist_node: the whole row as it was read, but for the field of the call.
PersistNode(c) ==
  CASE c.kind = "increment_checker_failures" -> [c.row EXCEPT !.failures = c.read + 1]
    [] c.kind = "reset_checker_failures"     -> [c.row EXCEPT !.failures = 0]
    [] c.kind = "update_node"                -> c.row
    [] OTHER                                 -> [c.row EXCEPT !.status = c.to]

Without(ns) == [n \in Nodes |-> IF n \in ns THEN Absent ELSE db.node[n]]

\* The tables after the statement, which names its columns for a run.
Effect(c) ==
  LET d == [db EXCEPT !.done = @ \cup {c.call}]
  IN CASE c.kind \in RowKinds              -> [d EXCEPT !.node[c.node] = PersistNode(c)]
       [] c.kind = "create_node"           -> [d EXCEPT !.node[c.node] = Fresh]
       [] c.kind \in {"delete_node", "delete_children_of"} -> [d EXCEPT !.node = Without(Touches(c))]
       [] c.kind = "update_run_status"     -> [d EXCEPT !.status = c.to]
       [] c.kind = "increment_run_tokens"  -> [d EXCEPT !.tokens = c.read + 1]
       [] c.kind = "append_event"          -> [d EXCEPT !.events = @ \cup {c.read}]
       [] OTHER                            -> d
-----------------------------------------------------------------------------
(* How a call ends.                                                        *)

Returns(t) ==
  /\ pc' = [pc EXCEPT ![t] = Idle]
  /\ acked' = acked \cup {pc[t].call}
  /\ lock' = IF lock = t THEN None ELSE lock

\* Mutant: the lock is released by a return only.
RaisesLocked(t) ==
  /\ pc' = [pc EXCEPT ![t] = Idle]
  /\ UNCHANGED <<lock, acked>>

\* The call raises; what it has begun stays as it is, but for the lock.
Raises(t) ==
  /\ pc' = [pc EXCEPT ![t] = Idle]
  /\ lock' = IF lock = t THEN None ELSE lock
  /\ UNCHANGED acked

\* Mutant: every failing call rolls back.
FailsRollingBack(t) ==
  pc' = [pc EXCEPT ![t].at = "rollback"] /\ UNCHANGED <<lock, acked>>

\* append_event rolls back first.
Fails(t) ==
  IF lock = t
  THEN pc' = [pc EXCEPT ![t].at = "rollback"] /\ UNCHANGED <<lock, acked>>
  ELSE Raises(t)

Goto(t, at) == pc' = [pc EXCEPT ![t].at = at] /\ UNCHANGED <<lock, acked>>
-----------------------------------------------------------------------------
(* The steps of a call.                                                    *)

\* The arguments a kind of call takes.
NodesOf(k)    == IF k \in RunKinds THEN {Root}
                 ELSE IF k = "create_node" THEN Nodes \ {Root} ELSE Nodes
StatusesOf(k) == CASE k \in {"update_node_status", "record_node"} -> Targets
                   [] k = "update_run_status"                    -> RunTargets
                   [] OTHER                                      -> {None}

Busy(n) == \E u \in Threads : pc[u].at # "idle" /\ n \in Touches(pc[u])

Call(t) ==
  /\ pc[t].at = "idle" /\ made < MaxCalls
  /\ \E k \in KindsOf(t) : \E n \in NodesOf(k), s \in StatusesOf(k) :
       LET c == [Idle EXCEPT !.at = "read", !.kind = k, !.node = n, !.to = s,
                             !.call = <<made + 1, k = "append_event">>]
       IN /\ pc' = [pc EXCEPT ![t] = c]
          /\ raced' = raced \cup {m \in Touches(c) : Busy(m)}
  /\ made' = made + 1
  /\ UNCHANGED <<db, disk, txn, lock, acked, undone>>

\* Mutant: record_node_started and record_node_ended check nothing.
RejectedUnlessUpdate(c) ==
  LET row == db.node[c.node]
  IN \/ c.kind \in RowKinds \cup {"create_child_row"} /\ row = Absent
     \/ c.kind = "update_node_status" /\ row # Absent /\ ~NodeMay(row.status, c.to)
     \/ c.kind = "update_run_status" /\ ~RunMay(db.status, c.to)

\* get_run or get_node, with the check of the transition on what it returns.
Rejected(c) ==
  LET row == db.node[c.node]
  IN \/ c.kind \in RowKinds \cup {"create_child_row"} /\ row = Absent
     \/ c.kind \in {"update_node_status", "record_node"} /\ row # Absent
        /\ ~NodeMay(row.status, c.to)
     \/ c.kind = "update_run_status" /\ ~RunMay(db.status, c.to)

\* update_node_status and the increments read the row a second time, in _update_node.
ReadsTwice == {"update_node_status", "increment_checker_failures"}

Read(t) ==
  LET c == pc[t]
  IN /\ c.at = "read"
     /\ IF Rejected(c) THEN Raises(t)
        ELSE /\ pc' = [pc EXCEPT ![t].row = db.node[c.node],
                        ![t].read = IF c.kind = "increment_run_tokens" THEN db.tokens
                                    ELSE db.node[c.node].failures,
                        ![t].at = IF c.kind \in ReadsTwice THEN "reread"
                                  ELSE IF c.kind = "append_event" THEN "lock" ELSE "execute"]
             /\ UNCHANGED <<lock, acked>>
     /\ UNCHANGED <<db, disk, txn, made, undone, raced>>

Reread(t) ==
  /\ pc[t].at = "reread"
  /\ IF db.node[pc[t].node] = Absent THEN Raises(t)
     ELSE /\ pc' = [pc EXCEPT ![t].row = db.node[pc[t].node], ![t].at = "execute"]
          /\ UNCHANGED <<lock, acked>>
  /\ UNCHANGED <<db, disk, txn, made, undone, raced>>

\* Mutant: nobody waits for the lock.
LockWithoutWaiting(t) ==
  /\ pc[t].at = "lock"
  /\ lock' = t
  /\ pc' = [pc EXCEPT ![t].at = "begin immediate"]
  /\ UNCHANGED <<db, disk, txn, made, acked, undone, raced>>

\* with self._event_lock
Lock(t) ==
  /\ pc[t].at = "lock" /\ lock = None
  /\ lock' = t
  /\ pc' = [pc EXCEPT ![t].at = "begin immediate"]
  /\ UNCHANGED <<db, disk, txn, made, acked, undone, raced>>

\* BEGIN IMMEDIATE, outside the try block, raises inside an open transaction.
BeginImmediate(t) ==
  /\ pc[t].at = "begin immediate"
  /\ txn' = TRUE
  /\ IF txn THEN Raises(t) ELSE Goto(t, "number")
  /\ UNCHANGED <<db, disk, made, undone, raced>>

\* SELECT COALESCE(MAX(seq), 0) + 1
Number(t) ==
  /\ pc[t].at = "number"
  /\ pc' = [pc EXCEPT ![t].read = Max(db.events \cup {0}) + 1, ![t].at = "execute"]
  /\ UNCHANGED <<db, disk, txn, lock, made, acked, undone, raced>>

\* The driver looks whether a transaction is open.  It does not take the
\* statement WITH ... DELETE of delete_children_of for one that needs any.
Execute(t) ==
  /\ pc[t].at = "execute"
  /\ Goto(t, IF txn \/ pc[t].kind = "delete_children_of" THEN "statement" ELSE "begin")
  /\ UNCHANGED <<db, disk, txn, made, undone, raced>>

\* Its BEGIN raises if another thread's has come first.
ImplicitBegin(t) ==
  /\ pc[t].at = "begin"
  /\ txn' = TRUE
  /\ IF txn THEN Fails(t) ELSE Goto(t, "statement")
  /\ UNCHANGED <<db, disk, made, undone, raced>>

\* Outside a transaction the statement commits itself.
Statement(t) ==
  /\ pc[t].at = "statement"
  /\ IF Refused(pc[t]) THEN Fails(t) /\ UNCHANGED <<db, disk>>
     ELSE /\ db' = Effect(pc[t])
          /\ disk' = IF txn THEN disk ELSE db'
          /\ pc' = [pc EXCEPT ![t] = [Idle EXCEPT !.at = "commit", !.call = pc[t].call]]
          /\ UNCHANGED <<lock, acked>>
  /\ UNCHANGED <<txn, made, undone, raced>>

\* Mutant: only append_event commits, the other methods trust the driver.
CommitEventsOnly(t) ==
  /\ pc[t].at = "commit"
  /\ IF txn /\ lock = t THEN Goto(t, "committing") ELSE Returns(t)
  /\ UNCHANGED <<db, disk, txn, made, undone, raced>>

\* commit() returns at once if it sees no transaction; its COMMIT raises if
\* another thread's has come first.
Commit(t) ==
  /\ pc[t].at = "commit"
  /\ IF txn THEN Goto(t, "committing") ELSE Returns(t)
  /\ UNCHANGED <<db, disk, txn, made, undone, raced>>

Committing(t) ==
  /\ pc[t].at = "committing"
  /\ disk' = IF txn THEN db ELSE disk
  /\ txn' = FALSE
  /\ IF txn THEN Returns(t) ELSE Fails(t)
  /\ UNCHANGED <<db, made, undone, raced>>

\* rollback(), in the same two steps; the exception is raised again.
Rollback(t) ==
  /\ pc[t].at = "rollback"
  /\ IF txn THEN Goto(t, "rolling") ELSE Raises(t)
  /\ UNCHANGED <<db, disk, txn, made, undone, raced>>

Rolling(t) ==
  /\ pc[t].at = "rolling"
  /\ db' = disk /\ txn' = FALSE
  /\ undone' = undone \cup (db.done \ disk.done)
  /\ raced' = raced \cup {n \in Nodes : Busy(n)}
  /\ Raises(t)
  /\ UNCHANGED <<disk, made>>
-----------------------------------------------------------------------------
Step(t) == \/ Read(t) \/ Reread(t) \/ Lock(t) \/ BeginImmediate(t) \/ Number(t)
           \/ Execute(t) \/ ImplicitBegin(t) \/ Statement(t)
           \/ Commit(t) \/ Committing(t) \/ Rollback(t) \/ Rolling(t)

Next == \E t \in Threads : Call(t) \/ Step(t)

\* A thread inside a call is scheduled; nobody has to call.
Fairness == \A t \in Threads : WF_vars(Step(t))

Spec     == Init /\ [][Next]_vars
FairSpec == Spec /\ Fairness
-----------------------------------------------------------------------------
(* Properties.                                                             *)

Rows  == [status : NodeStatus \cup {"absent"}, failures : Nat]
Calls == Nat \X BOOLEAN
Table == [status : RunStatus, tokens : Nat, events : SUBSET Nat,
          done : SUBSET Calls, node : [Nodes -> Rows]]
Places == {"idle", "read", "reread", "lock", "begin immediate", "number", "execute",
           "begin", "statement", "commit", "committing", "rollback", "rolling"}
Locals == [at : Places, kind : Kinds \cup {None}, node : Nodes \cup {None},
           to : NodeStatus \cup RunStatus \cup {None}, row : Rows, read : Nat,
           call : Calls \cup {<<>>}]

\* The types of the tables, of the connection and of the calls.
TypeOK ==
  /\ db \in Table /\ disk \in Table
  /\ txn \in BOOLEAN /\ lock \in Threads \cup {None}
  /\ pc \in [Threads -> Locals]
  /\ made \in Nat
  /\ acked \subseteq Calls /\ undone \subseteq Calls /\ raced \subseteq Nodes

\* The events of a run are numbered 1, 2, 3 ... without a gap, before and after a
\* crash, and the number a publisher has read is still free when it inserts it,
\* although commits of other threads end its transaction (append_event).
EventNumbers ==
  /\ \A es \in {db.events, disk.events} : es = 1..Cardinality(es)
  /\ \A t \in Threads : /\ pc[t].kind = "append_event"
                        /\ pc[t].at \in {"execute", "begin", "statement"}
                        => pc[t].read = Cardinality(db.events) + 1

\* An event whose append_event has returned is committed, whichever thread's
\* commit did it, and no rollback takes it away.
AckedEventIsDurable ==
  \A a \in acked : a[2] => a \in disk.done

\* A write whose method has returned is committed, unless the rollback of a
\* failing append_event has discarded it before.
OnlyRollbackLoses ==
  acked \subseteq disk.done \cup undone

\* A node leaves its status against the transition table only where two calls
\* worked on its row at once (the row is checked and written back in different
\* steps), or a rollback takes it back.
LegalMoves ==
  [][\A n \in Nodes :
       LET from == db.node[n].status
           to   == db'.node[n].status
       IN \/ "absent" \in {from, to} \/ from = to
          \/ NodeMay(from, to) \/ n \in raced' \/ undone' # undone]_vars

\* Every call returns or raises: the event lock is always released.
EveryCallReturns ==
  \A t \in Threads : pc[t].at # "idle" ~> pc[t].at = "idle"
=============================================================================
