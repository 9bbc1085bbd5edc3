--------------------------- MODULE SessionService ---------------------------
(***************************************************************************)
(* The session service of packages/server/src/session-service.ts with the  *)
(* store it is given (memory-store.ts, or a caller's own) and the          *)
(* WebSocket streams of websocket.ts that subscribe to it.                 *)
(*                                                                         *)
(* Every operation on a session waits in that session's promise chain and  *)
(* then runs up to its await of the store (a Store action) and on from it  *)
(* (a Finish action); operations of other sessions, new requests and       *)
(* socket events run in between.  A snapshot is its revision, a tracker is *)
(* what the service depends on: its revision and its deduplication state.  *)
(***************************************************************************)
EXTENDS Integers, Sequences, FiniteSets

CONSTANTS
  SessionIds, Connections, ObservationIds, SourceRevisions,
  MaxSessions, MaxSubscribers,
  SnapshotLimit,         \* SNAPSHOT_LIMIT
  ObservationIdLimit,    \* OBSERVATION_ID_LIMIT, the tracker's and the service's
  StoreFaults,           \* ways a caller's store may reject: see Effective and Acknowledged
  ReuseIds,              \* whether createSessionId may return an id a second time
  MaxOperations,         \* bound on the requests explored
  None

\* What the service keeps of a session: its tracker, and its record in the store.
Trackers == [revision : Nat, ids : Seq(ObservationIds), latest : Int]
Records  == [revision : Nat, snapshots : Seq(Nat), observationIds : Seq(ObservationIds),
             latest : Int]

ASSUME ServiceAssumption ==
  /\ MaxSessions \in Nat \ {0} /\ MaxSubscribers \in Nat \ {0}
  /\ SnapshotLimit \in Nat \ {0} /\ ObservationIdLimit \in Nat \ {0}
  /\ SourceRevisions \subseteq Nat
  /\ StoreFaults \subseteq {"before", "write", "ack"}
  /\ ReuseIds \in BOOLEAN
  /\ MaxOperations \in Nat
  /\ None \notin SessionIds \cup Connections \cup ObservationIds \cup Trackers \cup Records

VARIABLES
  records,            \* the store: a record or None for each id
  runtimes,           \* #sessions: the live trackers
  queue,              \* #tails: the operations waiting on each session, the running one first
  call,               \* where the running operation of each session is
  reservedSessions, subscriberCount,
  subscriptions,      \* #subscribers, as pairs of a session and a connection
  sockets,
  usedIds, issued

vars == <<records, runtimes, queue, call, reservedSessions, subscriberCount, subscriptions,
          sockets, usedIds, issued>>

Entries(s) == {s[i] : i \in DOMAIN s}

\* slice(-n).
LastOf(s, n) == IF Len(s) > n THEN SubSeq(s, Len(s) - n + 1, Len(s)) ELSE s

-----------------------------------------------------------------------------
\* The tracker, as the service sees it.
NewTracker == [revision |-> 0, ids |-> <<>>, latest |-> -1]

TrackerSubmit(t, op) ==
  IF op.observationId \in Entries(t.ids) \/ op.sourceRevision < t.latest THEN t
  ELSE [revision |-> t.revision + 1, ids |-> LastOf(Append(t.ids, op.observationId), ObservationIdLimit),
        latest |-> op.sourceRevision]

\* Mutation: reset starts a new tracker.
TrackerReset_Restarts(t) == NewTracker

TrackerReset(t) == [revision |-> t.revision + 1, ids |-> <<>>, latest |-> -1]

-----------------------------------------------------------------------------
\* The record the service writes for a new session, for a reset and for an
\* accepted observation.
NewRecord == [revision |-> 0, snapshots |-> <<0>>, observationIds |-> <<>>, latest |-> -1]

Retained(snapshots, revision) == LastOf(Append(snapshots, revision), SnapshotLimit)

\* Mutation: reset keeps the retained observation ids.
ResetRecord_KeepsIds(current, t) ==
  [current EXCEPT !.revision = t.revision, !.snapshots = Retained(@, t.revision), !.latest = -1]

ResetRecord(current, t) ==
  [revision |-> t.revision, snapshots |-> Retained(current.snapshots, t.revision),
   observationIds |-> <<>>, latest |-> -1]

SubmitRecord(current, t, op) ==
  [revision |-> t.revision, snapshots |-> Retained(current.snapshots, t.revision),
   observationIds |-> LastOf(Append(current.observationIds, op.observationId), ObservationIdLimit),
   latest |-> op.sourceRevision]

-----------------------------------------------------------------------------
\* A call of the store may reject before it does anything, after the mutation
\* ran but before its result is written, or after everything is done.
Faults             == {"none"} \cup StoreFaults
Mutates(fault)      == fault # "before"
Effective(fault)    == fault \in {"none", "ack"}
Acknowledged(fault) == fault = "none"

Idle     == [stage |-> "idle"]
Resolved == [stage |-> "resolved"]
Settled(ok, record, changed) ==
  [stage |-> "settled", ok |-> ok, record |-> record, changed |-> changed]
Rejected == Settled(FALSE, None, FALSE)

Unused == [state |-> "unused", session |-> None, since |-> 0, stream |-> "none", delivered |-> <<>>]

Init ==
  /\ records = [s \in SessionIds |-> None]
  /\ runtimes = [s \in SessionIds |-> None]
  /\ queue = [s \in SessionIds |-> <<>>]
  /\ call = [s \in SessionIds |-> Idle]
  /\ reservedSessions = 0
  /\ subscriberCount = 0
  /\ subscriptions = {}
  /\ sockets = [c \in Connections |-> Unused]
  /\ usedIds = {}
  /\ issued = 0

LiveSessions   == {s \in SessionIds : runtimes[s] # None}
SubscribersOf(s) == {c \in Connections : <<s, c>> \in subscriptions}

Running(s, kinds, stage) ==
  queue[s] # <<>> /\ Head(queue[s]).kind \in kinds /\ call[s].stage = stage

\* #enqueue.
Enqueue(s, op) ==
  /\ issued < MaxOperations
  /\ issued' = issued + 1
  /\ queue' = [queue EXCEPT ![s] = Append(@, op)]

\* Mutation: the chain is not continued after a rejection.
Dequeue_OnSuccess(s) ==
  /\ queue' = IF call[s].ok THEN [queue EXCEPT ![s] = Tail(@)] ELSE queue
  /\ call' = [call EXCEPT ![s] = IF @.ok THEN Idle ELSE [stage |-> "rejected"]]

\* The tail settles whether or not the operation did; the next one may start.
Dequeue(s) ==
  /\ queue' = [queue EXCEPT ![s] = Tail(@)]
  /\ call' = [call EXCEPT ![s] = Idle]

Settle(s, outcome) == call' = [call EXCEPT ![s] = outcome]

-----------------------------------------------------------------------------
\* create reserves capacity at once, with the id it will use.
Create(s) ==
  /\ ReuseIds \/ s \notin usedIds
  /\ Cardinality(LiveSessions) + reservedSessions < MaxSessions
  /\ reservedSessions' = reservedSessions + 1
  /\ usedIds' = usedIds \cup {s}
  /\ Enqueue(s, [kind |-> "create"])
  /\ UNCHANGED <<records, runtimes, call, subscriberCount, subscriptions, sockets>>

\* submit, reset, delete, get and resume only join the session's chain.
Request(s, op) ==
  /\ Enqueue(s, op)
  /\ UNCHANGED <<records, runtimes, call, reservedSessions, subscriberCount, subscriptions,
                 sockets, usedIds>>

Submits == [kind : {"submit"}, observationId : ObservationIds, sourceRevision : SourceRevisions]
Requests == Submits \cup [kind : {"reset", "delete", "read"}]

\* A socket opens the stream route, which calls subscribe.
Connect(c, s, since) ==
  /\ sockets[c] = Unused
  /\ sockets' = [sockets EXCEPT ![c] = [state |-> "open", session |-> s, since |-> since,
                                        stream |-> "pending", delivered |-> <<>>]]
  /\ Enqueue(s, [kind |-> "subscribe", connection |-> c])
  /\ UNCHANGED <<records, runtimes, call, reservedSessions, subscriberCount, subscriptions, usedIds>>

-----------------------------------------------------------------------------
\* The corpus of a new session is found, or rejected with its location.
ResolveCorpus(s) ==
  /\ Running(s, {"create"}, "idle")
  /\ \E outcome \in {Resolved, Rejected} : Settle(s, outcome)
  /\ UNCHANGED <<records, runtimes, queue, reservedSessions, subscriberCount, subscriptions,
                 sockets, usedIds, issued>>

\* store.create refuses an id that has a record.
StoreCreate(s) ==
  /\ Running(s, {"create"}, "resolved")
  /\ \E fault \in Faults :
       IF records[s] # None THEN Settle(s, Rejected) /\ UNCHANGED records
       ELSE /\ Settle(s, Settled(Acknowledged(fault), NewRecord, TRUE))
            /\ records' = [records EXCEPT ![s] = IF Effective(fault) THEN NewRecord ELSE @]
  /\ UNCHANGED <<runtimes, queue, reservedSessions, subscriberCount, subscriptions, sockets,
                 usedIds, issued>>

\* Mutation: a failed creation keeps its reservation.
FinishCreate_NoRollback(s) ==
  /\ Running(s, {"create"}, "settled")
  /\ runtimes' = [runtimes EXCEPT ![s] = IF call[s].ok THEN NewTracker ELSE @]
  /\ reservedSessions' = IF call[s].ok THEN reservedSessions - 1 ELSE reservedSessions
  /\ Dequeue(s)
  /\ UNCHANGED <<records, subscriberCount, subscriptions, sockets, usedIds, issued>>

\* The session becomes live; the reservation ends either way (finally).
FinishCreate(s) ==
  /\ Running(s, {"create"}, "settled")
  /\ runtimes' = [runtimes EXCEPT ![s] = IF call[s].ok THEN NewTracker ELSE @]
  /\ reservedSessions' = reservedSessions - 1
  /\ Dequeue(s)
  /\ UNCHANGED <<records, subscriberCount, subscriptions, sockets, usedIds, issued>>

-----------------------------------------------------------------------------
\* store.update and the mutation the service gives it: t is the tracker after
\* the mutation and record what the mutation returns.
Update(s, t, record, changed) ==
  \E fault \in Faults :
    /\ runtimes' = [runtimes EXCEPT ![s] = IF Mutates(fault) THEN t ELSE @]
    /\ records' = [records EXCEPT ![s] = IF Effective(fault) THEN record ELSE @]
    /\ Settle(s, Settled(Acknowledged(fault), record, changed))

\* The mutation throws, or there is no record to mutate.
RejectUpdate(s) == Settle(s, Rejected) /\ UNCHANGED <<records, runtimes>>

\* reset needs a live session and a location of its corpus.
StoreReset(s) ==
  /\ Running(s, {"reset"}, "idle")
  /\ \/ /\ runtimes[s] # None /\ records[s] # None
        /\ LET t == TrackerReset(runtimes[s])
           IN  Update(s, t, ResetRecord(records[s], t), TRUE)
     \/ RejectUpdate(s)
  /\ UNCHANGED <<queue, reservedSessions, subscriberCount, subscriptions, sockets, usedIds, issued>>

\* Mutation: a stale revision is answered with the current record.
Stale_Answered(current, op) == FALSE

Stale(current, op) == op.sourceRevision < current.latest

\* submit answers a retained id with the current record, refuses a stale
\* revision, and gives the tracker everything else.
StoreSubmit(s) ==
  /\ Running(s, {"submit"}, "idle")
  /\ LET op      == Head(queue[s])
         current == records[s]
     IN  IF current = None THEN RejectUpdate(s)
         ELSE IF op.observationId \in Entries(current.observationIds)
         THEN Update(s, runtimes[s], current, FALSE)
         ELSE IF Stale(current, op) \/ runtimes[s] = None THEN RejectUpdate(s)
         ELSE LET t       == TrackerSubmit(runtimes[s], op)
                  changed == t.revision # runtimes[s].revision
              IN  Update(s, t, IF changed THEN SubmitRecord(current, t, op) ELSE current, changed)
  /\ UNCHANGED <<queue, reservedSessions, subscriberCount, subscriptions, sockets, usedIds, issued>>

\* A listener that throws is dropped; a closed socket's listener does nothing.
Publish(s, revision) ==
  \E failing \in SUBSET {c \in SubscribersOf(s) : sockets[c].state = "open"} :
    /\ subscriptions' = subscriptions \ {<<s, c>> : c \in failing}
    /\ subscriberCount' = subscriberCount - Cardinality(failing)
    /\ sockets' = [c \in Connections |->
                     IF c \in SubscribersOf(s) \ failing /\ sockets[c].state = "open"
                     THEN [sockets[c] EXCEPT !.delivered = Append(@, revision)] ELSE sockets[c]]

\* Mutation: an answer from the record is published like a change.
Published_Always(outcome) == outcome.ok

\* Only a change is published, and only when the store acknowledged it.
Published(outcome) == outcome.ok /\ outcome.changed

FinishUpdate(s) ==
  /\ Running(s, {"submit", "reset"}, "settled")
  /\ IF Published(call[s]) THEN Publish(s, call[s].record.revision)
     ELSE UNCHANGED <<subscriptions, subscriberCount, sockets>>
  /\ Dequeue(s)
  /\ UNCHANGED <<records, runtimes, reservedSessions, usedIds, issued>>

-----------------------------------------------------------------------------
\* store.get, for get, resume and subscribe.
StoreGet(s) ==
  /\ Running(s, {"read", "subscribe"}, "idle")
  /\ \/ Settle(s, Settled(records[s] # None, records[s], FALSE))
     \/ StoreFaults # {} /\ Settle(s, Rejected)
  /\ UNCHANGED <<records, runtimes, queue, reservedSessions, subscriberCount, subscriptions,
                 sockets, usedIds, issued>>

\* get and resume return what was read.
FinishRead(s) ==
  /\ Running(s, {"read"}, "settled")
  /\ Dequeue(s)
  /\ UNCHANGED <<records, runtimes, reservedSessions, subscriberCount, subscriptions, sockets,
                 usedIds, issued>>

\* The retained snapshots newer than the one the subscriber has: the loop keeps
\* the last ones, since they ascend.
Replay(record, since) ==
  LET snapshots == record.snapshots
      older     == CHOOSE n \in 0 .. Len(snapshots) :
                     \A i \in 1 .. Len(snapshots) : snapshots[i] > since <=> i > n
  IN  SubSeq(snapshots, older + 1, Len(snapshots))

\* subscribe counts and registers the listener, then replays to it; a listener
\* that throws during the replay is released again.
FinishSubscribe(s) ==
  /\ Running(s, {"subscribe"}, "settled")
  /\ LET c      == Head(queue[s]).connection
         open   == sockets[c].state = "open"
         replay == IF open /\ call[s].ok /\ subscriberCount < MaxSubscribers
                   THEN Replay(call[s].record, sockets[c].since) ELSE <<>>
     IN  \/ /\ call[s].ok /\ subscriberCount < MaxSubscribers
            /\ subscriptions' = subscriptions \cup {<<s, c>>}
            /\ subscriberCount' = subscriberCount + 1
            /\ sockets' = [sockets EXCEPT ![c].stream = "granted",
                                          ![c].delivered = replay]
         \/ /\ ~call[s].ok \/ subscriberCount >= MaxSubscribers \/ replay # <<>>
            /\ \E sent \in {0} \cup 1 .. Len(replay) - 1 :
                 sockets' = [sockets EXCEPT ![c].stream = "refused", ![c].state = "closed",
                                            ![c].delivered = SubSeq(replay, 1, sent)]
            /\ UNCHANGED <<subscriptions, subscriberCount>>
  /\ Dequeue(s)
  /\ UNCHANGED <<records, runtimes, reservedSessions, usedIds, issued>>

-----------------------------------------------------------------------------
StoreDelete(s) ==
  /\ Running(s, {"delete"}, "idle")
  /\ \E fault \in Faults :
       /\ Settle(s, Settled(Acknowledged(fault) /\ records[s] # None, None, TRUE))
       /\ records' = [records EXCEPT ![s] = IF Effective(fault) THEN None ELSE @]
  /\ UNCHANGED <<runtimes, queue, reservedSessions, subscriberCount, subscriptions, sockets,
                 usedIds, issued>>

\* Mutation: the subscribers of a deleted session stay counted.
FinishDelete_KeepsCount(s) ==
  /\ Running(s, {"delete"}, "settled")
  /\ IF call[s].ok
     THEN /\ runtimes' = [runtimes EXCEPT ![s] = None]
          /\ subscriptions' = subscriptions \ ({s} \X Connections)
     ELSE UNCHANGED <<runtimes, subscriptions>>
  /\ Dequeue(s)
  /\ UNCHANGED <<records, reservedSessions, subscriberCount, sockets, usedIds, issued>>

\* A deleted session frees its capacity and that of its subscribers.
FinishDelete(s) ==
  /\ Running(s, {"delete"}, "settled")
  /\ IF call[s].ok
     THEN /\ runtimes' = [runtimes EXCEPT ![s] = None]
          /\ subscriberCount' = subscriberCount - Cardinality(SubscribersOf(s))
          /\ subscriptions' = subscriptions \ ({s} \X Connections)
     ELSE UNCHANGED <<runtimes, subscriberCount, subscriptions>>
  /\ Dequeue(s)
  /\ UNCHANGED <<records, reservedSessions, sockets, usedIds, issued>>

-----------------------------------------------------------------------------
\* #releaseSubscriber: only a registered subscriber is counted down.
ReleaseSubscriber(s, c) ==
  IF <<s, c>> \in subscriptions
  THEN /\ subscriptions' = subscriptions \ {<<s, c>>}
       /\ subscriberCount' = subscriberCount - 1
  ELSE UNCHANGED <<subscriptions, subscriberCount>>

\* Mutation: a socket that closed early is not unsubscribed.
StreamReady_IgnoresClose(c) ==
  /\ sockets[c].stream = "granted"
  /\ sockets' = [sockets EXCEPT ![c].stream = "ready"]
  /\ UNCHANGED <<records, runtimes, queue, call, reservedSessions, usedIds, issued,
                 subscriptions, subscriberCount>>

\* The stream route learns how to unsubscribe, and does so at once when the
\* socket closed while subscribe was running.
StreamReady(c) ==
  /\ sockets[c].stream = "granted"
  /\ sockets' = [sockets EXCEPT ![c].stream = "ready"]
  /\ IF sockets[c].state = "closed" THEN ReleaseSubscriber(sockets[c].session, c)
     ELSE UNCHANGED <<subscriptions, subscriberCount>>
  /\ UNCHANGED <<records, runtimes, queue, call, reservedSessions, usedIds, issued>>

\* The peer goes away at any time.
SocketClose(c) ==
  /\ sockets[c].state = "open"
  /\ sockets' = [sockets EXCEPT ![c].state = "closed"]
  /\ IF sockets[c].stream = "ready" THEN ReleaseSubscriber(sockets[c].session, c)
     ELSE UNCHANGED <<subscriptions, subscriberCount>>
  /\ UNCHANGED <<records, runtimes, queue, call, reservedSessions, usedIds, issued>>

-----------------------------------------------------------------------------
\* The steps of the operation that holds a session's chain.
Progress(s) ==
  \/ ResolveCorpus(s) \/ StoreCreate(s) \/ FinishCreate(s)
  \/ StoreReset(s) \/ StoreSubmit(s) \/ FinishUpdate(s)
  \/ StoreGet(s) \/ FinishRead(s) \/ FinishSubscribe(s)
  \/ StoreDelete(s) \/ FinishDelete(s)

Next ==
  \/ \E s \in SessionIds : Create(s) \/ Progress(s)
  \/ \E s \in SessionIds, op \in Requests : Request(s, op)
  \/ \E c \in Connections, s \in SessionIds, since \in 0..1 : Connect(c, s, since)
  \/ \E c \in Connections : StreamReady(c) \/ SocketClose(c)

Spec == Init /\ [][Next]_vars

\* Every promise settles: the event loop runs what is ready, and every call of
\* the store settles.  Nothing is assumed of the callers and the sockets.
Fairness ==
  /\ \A s \in SessionIds : WF_vars(Progress(s))
  /\ \A c \in Connections : WF_vars(StreamReady(c))

FairSpec == Spec /\ Fairness

-----------------------------------------------------------------------------
PendingCreations ==
  {p \in SessionIds \X (1 .. MaxOperations) :
     p[2] \in DOMAIN queue[p[1]] /\ queue[p[1]][p[2]].kind = "create"}

\* Capacity is neither leaked nor exceeded: the counter of reservations is the
\* number of creations in flight, live sessions and reservations never exceed
\* maxSessions, and the counter of subscribers is the number registered,
\* whatever fails, closes early, throws or is deleted (#reserveSession,
\* #releaseSubscriber, delete).
CapacityIsExact ==
  /\ reservedSessions = Cardinality(PendingCreations)
  /\ Cardinality(LiveSessions) + reservedSessions <= MaxSessions
  /\ subscriberCount = Cardinality(subscriptions)
  /\ subscriberCount <= MaxSubscribers

Consecutive(list) == \A i \in 1 .. Len(list) - 1 : list[i + 1] = list[i] + 1

\* With the bundled store, whenever no operation is between its store call and
\* its continuation, a session has a record exactly when it has a tracker, the
\* two agree on revision, retained ids and source revision although each keeps
\* its own, and the retained snapshots are the last consecutive revisions, at
\* most SNAPSHOT_LIMIT of them.  A deleted session so holds no capacity.
RecordAgreesWithTracker ==
  \A s \in SessionIds : call[s].stage # "settled" =>
    IF records[s] = None THEN runtimes[s] = None
    ELSE /\ runtimes[s] # None
         /\ records[s].revision = runtimes[s].revision
         /\ records[s].observationIds = runtimes[s].ids
         /\ records[s].latest = runtimes[s].latest
         /\ Consecutive(records[s].snapshots)
         /\ Len(records[s].snapshots) <= SnapshotLimit
         /\ records[s].snapshots[Len(records[s].snapshots)] = records[s].revision

\* The newest revision a stream's peer knows.
Position(c) ==
  LET delivered == sockets[c].delivered
  IN  IF delivered = <<>> THEN sockets[c].since ELSE delivered[Len(delivered)]

\* A stream delivers consecutive revisions, each once, across the seam between
\* the replay and live publication, and is current between operations.
StreamIsGapless ==
  \A c \in Connections :
    /\ Consecutive(sockets[c].delivered)
    /\ \A s \in SessionIds :
         (<<s, c>> \in subscriptions /\ sockets[c].state = "open" /\ call[s].stage # "settled")
           => Position(c) >= records[s].revision

\* A submission that is answered without an error is in the session's history,
\* and the answer is the session's current record, also when the answer is for
\* a repeated id (the mutation given to store.update).
AcknowledgedMeansRecorded ==
  \A s \in SessionIds :
    Running(s, {"submit"}, "settled") /\ call[s].ok =>
      /\ Head(queue[s]).observationId \in Entries(records[s].observationIds)
      /\ call[s].record = records[s]

\* Whatever the store does, and as long as ids are not reused (randomUUID), no
\* revision is used twice: the tracker is never behind the record, so a failed
\* write loses a snapshot but no later one gets its revision, and no stream
\* repeats a revision or goes back.
RevisionsAreNotReused ==
  /\ \A s \in SessionIds : records[s] # None /\ runtimes[s] # None =>
       records[s].revision <= runtimes[s].revision
  /\ \A c \in Connections :
       LET delivered == sockets[c].delivered
       IN  \A i \in 1 .. Len(delivered) - 1 : delivered[i] < delivered[i + 1]

\* Every operation on a session settles, also behind others that reject.
OperationsDrain == \A s \in SessionIds : queue[s] # <<>> ~> queue[s] = <<>>

\* The subscription of a socket that closed is released for good, also when
\* the socket closed while subscribe was still queued.
DisconnectedIsReleased ==
  \A c \in Connections :
    sockets[c].state = "closed" ~> [](\A s \in SessionIds : <<s, c>> \notin subscriptions)
=============================================================================
