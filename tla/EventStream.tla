---------------------------- MODULE EventStream -----------------------------
(***************************************************************************)
(* The event stream of one run: the threads that publish                   *)
(* (EventStreamService.publish over append_event of either repository),    *)
(* the SSE generators (stream_events), and the browser's EventSource with  *)
(* the duplicate filter of RunEventsClient, which reconnects with the      *)
(* Last-Event-ID it has received.  An event is its sequence number.        *)
(***************************************************************************)
EXTENDS Naturals, Sequences, SequencesExt

CONSTANTS
  Publishers,   \* threads that publish events of the run: jobs and handlers
  Subscribers,  \* browsers
  MaxEvents,    \* bound: events published
  MaxConnects,  \* bound: connections made by a browser
  Durable       \* SQLiteRunStateRepository (TRUE) or InMemoryRunStateRepository

ASSUME ConstantsAssumption ==
  MaxEvents \in Nat /\ MaxConnects \in Nat /\ Durable \in BOOLEAN

VARIABLES
  seq,       \* the last sequence number handed out
  log,       \* the stored events, in the order list_run_events returns them
  pub,       \* each publish call: its event and the queues it has yet to reach
  conn,      \* each SSE generator: where it is, last_seq and its replay list
  queue,     \* the asyncio queue of each generator
  wire,      \* frames sent and not yet received
  received,  \* events each browser has taken
  connects   \* connections each browser has made

vars == <<seq, log, pub, conn, queue, wire, received, connects>>

Seqs   == 1..MaxEvents
Idle   == [at |-> "idle", seq |-> 0, left |-> {}]
Off    == [at |-> "off", last |-> 0, replay |-> <<>>]

Init ==
  /\ seq = 0 /\ log = <<>>
  /\ pub = [p \in Publishers |-> Idle]
  /\ conn = [s \in Subscribers |-> Off]
  /\ queue = [s \in Subscribers |-> <<>>]
  /\ wire = [s \in Subscribers |-> <<>>]
  /\ received = [s \in Subscribers |-> <<>>]
  /\ connects = [s \in Subscribers |-> 0]

\* The highest sequence number in a list that may be empty.
LastOf(es) == IF es = <<>> THEN 0 ELSE Last(es)
-----------------------------------------------------------------------------
(* publish.                                                                *)

\* append_event.  The database numbers and stores the event under one lock;
\* memory hands the number out first ...
AppendEvent(p) ==
  /\ pub[p].at = "idle" /\ seq < MaxEvents
  /\ seq' = seq + 1
  /\ log' = IF Durable THEN Append(log, seq + 1) ELSE log
  /\ pub' = [pub EXCEPT ![p] = [Idle EXCEPT !.at = IF Durable THEN "subscribers" ELSE "store",
                                            !.seq = seq + 1]]
  /\ UNCHANGED <<conn, queue, wire, received, connects>>

\* ... and stores the event afterwards.
StoreEvent(p) ==
  /\ pub[p].at = "store"
  /\ log' = Append(log, pub[p].seq)
  /\ pub' = [pub EXCEPT ![p].at = "subscribers"]
  /\ UNCHANGED <<seq, conn, queue, wire, received, connects>>

\* Mutant: a generator registers its queue when its replay is over.
CopyLive(p) ==
  /\ pub[p].at = "subscribers"
  /\ pub' = [pub EXCEPT ![p].at = "fanout",
                        ![p].left = {<<s, connects[s]>> : s \in {t \in Subscribers :
                               conn[t].at = "replay" /\ conn[t].replay = <<>>}}]
  /\ UNCHANGED <<seq, log, conn, queue, wire, received, connects>>

\* The queues registered at this moment, each with the connection it belongs to.
CopySubscribers(p) ==
  /\ pub[p].at = "subscribers"
  /\ pub' = [pub EXCEPT ![p].at = "fanout",
                        ![p].left = {<<s, connects[s]>> : s \in {t \in Subscribers :
                                                           conn[t].at # "off"}}]
  /\ UNCHANGED <<seq, log, conn, queue, wire, received, connects>>

\* put_nowait on one of them, outside the lock; the queue of a connection that
\* has ended since is garbage.
Fanout(p, s) ==
  LET target == <<s, connects[s]>>
  IN /\ pub[p].at = "fanout"
     /\ \E t \in pub[p].left :
          /\ t[1] = s
          /\ pub' = [pub EXCEPT ![p].left = @ \ {t}]
          /\ queue' = IF t = target /\ conn[s].at # "off"
                      THEN [queue EXCEPT ![s] = Append(@, pub[p].seq)] ELSE queue
     /\ UNCHANGED <<seq, log, conn, wire, received, connects>>

PublishReturns(p) ==
  /\ pub[p].at = "fanout" /\ pub[p].left = {}
  /\ pub' = [pub EXCEPT ![p] = Idle]
  /\ UNCHANGED <<seq, log, conn, queue, wire, received, connects>>
-----------------------------------------------------------------------------
(* stream_run_events and stream_events.                                    *)

\* Mutant: the Last-Event-ID is ignored and the stream starts at the present.
ConnectAtPresent(s) ==
  /\ conn[s].at = "off" /\ connects[s] < MaxConnects
  /\ conn' = [conn EXCEPT ![s] = [at |-> "list", last |-> LastOf(log), replay |-> <<>>]]
  /\ connects' = [connects EXCEPT ![s] = @ + 1]
  /\ UNCHANGED <<seq, log, pub, queue, wire, received>>

\* A request arrives with the Last-Event-ID of the browser; the generator
\* registers its queue ...
Connect(s) ==
  /\ conn[s].at = "off" /\ connects[s] < MaxConnects
  /\ conn' = [conn EXCEPT ![s] = [at |-> "list", last |-> LastOf(received[s]),
                                  replay |-> <<>>]]
  /\ connects' = [connects EXCEPT ![s] = @ + 1]
  /\ UNCHANGED <<seq, log, pub, queue, wire, received>>

\* list_run_events: the events of a list after a number, in the order of the list
\* (SelectSeq, in a form that can be reasoned about).
After(es, k) ==
  LET upTo[n \in 0..Len(es)] ==
        IF n = 0 THEN <<>>
        ELSE IF es[n] > k THEN Append(upTo[n - 1], es[n]) ELSE upTo[n - 1]
  IN upTo[Len(es)]

\* ... then lists the stored events after it ...
ListReplay(s) ==
  /\ conn[s].at = "list"
  /\ conn' = [conn EXCEPT ![s].at = "replay",
                          ![s].replay = After(log, conn[s].last)]
  /\ UNCHANGED <<seq, log, pub, queue, wire, received, connects>>

\* Mutants: nothing is dropped; last_seq is the event expected next.
YieldAll(s, e, next) ==
  /\ conn' = [conn EXCEPT ![s] = [next EXCEPT !.last = e]]
  /\ wire' = [wire EXCEPT ![s] = Append(@, e)]

YieldExpecting(s, e, next) ==
  /\ conn' = [conn EXCEPT ![s] = [next EXCEPT !.last = IF e > @ THEN e + 1 ELSE @]]
  /\ wire' = [wire EXCEPT ![s] = IF e > conn[s].last THEN Append(@, e) ELSE @]

\* An event not beyond last_seq is dropped, any other one is sent.
Yield(s, e, next) ==
  /\ conn' = [conn EXCEPT ![s] = [next EXCEPT !.last = IF e > @ THEN e ELSE @]]
  /\ wire' = [wire EXCEPT ![s] = IF e > conn[s].last THEN Append(@, e) ELSE @]

\* ... sends them one by one ...
YieldReplay(s) ==
  /\ conn[s].at = "replay" /\ conn[s].replay # <<>>
  /\ Yield(s, Head(conn[s].replay), [conn[s] EXCEPT !.replay = Tail(@)])
  /\ UNCHANGED <<seq, log, pub, queue, received, connects>>

\* ... and goes on with its queue.
YieldLive(s) ==
  /\ conn[s].at = "replay" /\ conn[s].replay = <<>> /\ queue[s] # <<>>
  /\ Yield(s, Head(queue[s]), conn[s])
  /\ queue' = [queue EXCEPT ![s] = Tail(@)]
  /\ UNCHANGED <<seq, log, pub, received, connects>>

\* The connection breaks, with the frames on it; the generator unregisters.
Disconnect(s) ==
  /\ conn[s].at # "off"
  /\ conn' = [conn EXCEPT ![s] = Off]
  /\ queue' = [queue EXCEPT ![s] = <<>>]
  /\ wire' = [wire EXCEPT ![s] = <<>>]
  /\ UNCHANGED <<seq, log, pub, received, connects>>

\* handleMessage of RunEventsClient: a frame not beyond lastSeq is ignored.
Receive(s) ==
  /\ wire[s] # <<>>
  /\ wire' = [wire EXCEPT ![s] = Tail(@)]
  /\ received' = [received EXCEPT ![s] = IF Head(wire[s]) > LastOf(@)
                                         THEN Append(@, Head(wire[s])) ELSE @]
  /\ UNCHANGED <<seq, log, pub, conn, queue, connects>>
-----------------------------------------------------------------------------
PublishStep(p) == \/ StoreEvent(p) \/ CopySubscribers(p) \/ PublishReturns(p)
                  \/ \E s \in Subscribers : Fanout(p, s)

StreamStep(s) == ListReplay(s) \/ YieldReplay(s) \/ YieldLive(s)

Next == \/ \E p \in Publishers : AppendEvent(p) \/ PublishStep(p)
        \/ \E s \in Subscribers : Connect(s) \/ StreamStep(s) \/ Receive(s) \/ Disconnect(s)

\* A publish call goes on, the generator is scheduled, frames arrive while the
\* connection is up, and EventSource reconnects by itself; nobody has to publish
\* and no connection has to break.
Fairness ==
  /\ \A p \in Publishers : WF_vars(PublishStep(p))
  /\ \A s \in Subscribers : /\ WF_vars(StreamStep(s)) /\ WF_vars(Receive(s))
                            /\ WF_vars(Connect(s))

Spec     == Init /\ [][Next]_vars
FairSpec == Spec /\ Fairness
-----------------------------------------------------------------------------
(* Properties.                                                             *)

\* The types of the log, of the publish calls and of the connections.
TypeOK ==
  /\ seq \in 0..MaxEvents
  /\ log \in Seq(Seqs)
  /\ pub \in [Publishers -> [at   : {"idle", "store", "subscribers", "fanout"},
                             seq  : 0..MaxEvents,
                             left : SUBSET (Subscribers \X Nat)]]
  /\ conn \in [Subscribers -> [at     : {"off", "list", "replay"},
                               last   : 0..MaxEvents,
                               replay : Seq(Seqs)]]
  /\ queue \in [Subscribers -> Seq(Seqs)]
  /\ wire \in [Subscribers -> Seq(Seqs)]
  /\ received \in [Subscribers -> Seq(Seqs)]
  /\ connects \in [Subscribers -> Nat]

Increasing(es) == \A i, j \in DOMAIN es : i < j => es[i] < es[j]

\* However many threads publish, the frames of a connection leave in increasing
\* order, beyond everything the browser asked to resume after: nothing is applied
\* twice or out of order (stream_events: "strict sequence order").
SentInOrder ==
  \A s \in Subscribers : Increasing(received[s] \o wire[s])

\* While one thread publishes, the browser's view is gap-free across every
\* interleaving of publishing, replay, disconnection and resume.
History == INSTANCE EventLog WITH history <- log, got <- received

HistorySpec == History!Spec

\* A browser that keeps its connection, or may make another one, gets each event.
EveryEventArrives ==
  \A s \in Subscribers, e \in Seqs :
    e <= seq ~> \/ e \in ToSet(received[s])
                \/ conn[s].at = "off" /\ connects[s] = MaxConnects
-----------------------------------------------------------------------------
(* What the documentation says and the code does not do.                   *)

\* docs/subtle-details.md: "SSE clients can reconnect with Last-Event-Id header
\* to replay missed events": a browser that has reconnected, with nothing left to
\* publish or to receive, has every event.
Quiet(s) == /\ \A p \in Publishers : pub[p] = Idle
            /\ conn[s].at = "replay" /\ conn[s].replay = <<>>
            /\ queue[s] = <<>> /\ wire[s] = <<>>

MissedEventsAreReplayed ==
  \A s \in Subscribers : Quiet(s) /\ connects[s] > 1
                         => ToSet(received[s]) = ToSet(log)
=============================================================================
