--------------------------- MODULE RemoteSession ----------------------------
(***************************************************************************)
(* The remote session of packages/client/src/remote-session.ts: mutations  *)
(* sent one after another over an unreliable fetch, snapshots that arrive  *)
(* both as responses and on a WebSocket that reconnects and resumes.       *)
(*                                                                         *)
(* The server is what SessionService promises of one session: an operation *)
(* takes effect at once, and its snapshot goes to the stream.  Snapshots   *)
(* are their revisions.  A fetch may fail before its request reaches the   *)
(* server, with the request still under way, or after the server answered. *)
(* A listener may call the session back while it is being notified.        *)
(***************************************************************************)
EXTENDS Integers, Sequences, FiniteSets, SequencesExt

CONSTANTS
  Observations,      \* what a caller submits: [observationId, sourceRevision]
  Listeners,
  MaxAttempts,       \* RemoteRetryOptions.maxAttempts
  SnapshotLimit,     \* snapshots the server retains for a resume
  MaxRevision,       \* bound on the revisions other clients raise the server to
  MaxCalls,          \* bound on mutations called
  MaxDepth,          \* bound on listeners called inside one another
  MaxDrops,          \* bound on sockets that close or fail to be made
  None

ASSUME RemoteAssumption ==
  /\ MaxAttempts \in Nat \ {0} /\ SnapshotLimit \in Nat \ {0}
  /\ \A o \in Observations : o.sourceRevision \in Nat

VARIABLES
  server,              \* the session on the server
  delayed,             \* operations whose fetch failed with the request under way
  closed,
  snapshot,
  listeners, heard,    \* the subscribed listeners and what each heard last
  unheard,             \* the rest of the copy of listeners that notify goes through
  callbacks,           \* the listeners on the call stack, the innermost first
  operations,          \* the mutation chain: what was called and has not settled
  scheduledResetSequence,
  confirmedResets,     \* resets that resolved
  acknowledged,
  answered,            \* the submission the last step resolved
  socket,
  reconnectAttempts, reconnectTask,
  queuedNotifications,
  calls, drops

clientVars    == <<closed, snapshot, listeners, heard, unheard, callbacks>>
mutationVars  == <<operations, scheduledResetSequence, confirmedResets, acknowledged>>
reconnectVars == <<reconnectAttempts, reconnectTask, drops>>
vars == <<server, delayed, clientVars, mutationVars, answered, socket, reconnectVars,
          queuedNotifications, calls>>

NoSocket == [state |-> "none", since |-> 0, subscribed |-> FALSE, inbox |-> <<>>]
Refused  == [state |-> "refused", since |-> 0, subscribed |-> FALSE, inbox |-> <<>>]
Connected(s) == s.state \in {"connecting", "open"}

\* Mutation: the stream resumes one revision too late.
OpenSocket_SkipsOne(revision) ==
  [state |-> "connecting", since |-> revision + 1, subscribed |-> FALSE, inbox |-> <<>>]

\* openSocket asks for what is newer than the current snapshot.
OpenSocket(revision) ==
  [state |-> "connecting", since |-> revision, subscribed |-> FALSE, inbox |-> <<>>]

\* createRemoteSession, once its first request was answered: the socket is
\* made, or its factory threw and a reconnect is scheduled.
Init ==
  /\ server = [revision |-> 0, accepted |-> {}, latest |-> -1, resets |-> 0]
  /\ delayed = {}
  /\ closed = FALSE
  /\ snapshot = 0
  /\ listeners = {} /\ heard = [l \in Listeners |-> 0]
  /\ unheard = {} /\ callbacks = <<>>
  /\ operations = <<>>
  /\ scheduledResetSequence = 0
  /\ confirmedResets = 0
  /\ acknowledged = {}
  /\ answered = None
  /\ \/ socket = OpenSocket(0) /\ reconnectAttempts = 0 /\ reconnectTask = FALSE
     \/ socket = NoSocket /\ reconnectAttempts = 1 /\ reconnectTask = TRUE
  /\ queuedNotifications = <<>>
  /\ calls = 0 /\ drops = 0

-----------------------------------------------------------------------------
\* The server.  A new snapshot is sent on the stream that is subscribed.
Publish(revision) ==
  socket' = IF socket.subscribed THEN [socket EXCEPT !.inbox = Append(@, revision)] ELSE socket

Submitted(o) == o.observationId \in server.accepted
IsStale(o)   == ~Submitted(o) /\ o.sourceRevision < server.latest

\* SessionService.submit: a retained id changes nothing, a stale revision is
\* an error, anything else is a new snapshot.
ServerSubmit(o) ==
  IF Submitted(o) \/ IsStale(o) THEN UNCHANGED <<server, socket>>
  ELSE /\ server' = [server EXCEPT !.revision = @ + 1, !.latest = o.sourceRevision,
                                   !.accepted = @ \cup {o.observationId}]
       /\ Publish(server.revision + 1)

\* SessionService.reset.
ServerReset ==
  /\ server' = [revision |-> server.revision + 1, accepted |-> {}, latest |-> -1,
                resets |-> server.resets + 1]
  /\ Publish(server.revision + 1)

\* Another client of the same session submits an observation of its own.
OtherClientSubmits ==
  /\ server.revision < MaxRevision
  /\ \E o \in Observations :
       /\ o.sourceRevision >= server.latest
       /\ server' = [server EXCEPT !.revision = @ + 1, !.latest = o.sourceRevision]
  /\ Publish(server.revision + 1)
  /\ answered' = None
  /\ UNCHANGED <<delayed, clientVars, mutationVars, reconnectVars, queuedNotifications, calls>>

\* A request whose fetch already failed arrives after all.
DelayedArrives(op) ==
  /\ IF op.kind = "reset" THEN ServerReset ELSE ServerSubmit(op.observation)
  /\ delayed' = delayed \ {op}
  /\ answered' = None
  /\ UNCHANGED <<clientVars, mutationVars, reconnectVars, queuedNotifications, calls>>

-----------------------------------------------------------------------------
\* Mutation: a snapshot of any revision is taken.
Newer_AnyRevision(revision) == ~closed

\* The guard of notify and of enqueue.
Newer(revision) == ~closed /\ revision > snapshot

\* notify takes the snapshot and goes through a copy of the listeners.
Notify(revision) ==
  IF Newer(revision)
  THEN /\ snapshot' = revision
       /\ unheard' = listeners
       /\ UNCHANGED <<closed, listeners, heard, callbacks>>
  ELSE UNCHANGED clientVars

\* Nothing of the session is on the call stack, so that the event loop may turn.
Idle == unheard = {} /\ callbacks = <<>>

\* The caller's code runs on its own or inside a listener.
CallerRuns == unheard = {} \/ callbacks # <<>>

\* Mutation: every listener of the copy is called.
MayHear_Unchecked(l) == TRUE

\* A listener that was unsubscribed or closed meanwhile is passed over.
MayHear(l) == ~closed /\ l \in listeners

\* The loop's next listener, in any order.
VisitListener(l) ==
  /\ callbacks = <<>>
  /\ unheard' = unheard \ {l}
  /\ IF MayHear(l)
     THEN heard' = [heard EXCEPT ![l] = snapshot] /\ callbacks' = <<l>>
     ELSE UNCHANGED <<heard, callbacks>>
  /\ answered' = None
  /\ UNCHANGED <<server, delayed, closed, snapshot, listeners, mutationVars, socket, reconnectVars,
                 queuedNotifications, calls>>

\* subscribe gives the listener the current snapshot first.
Subscribe(l) ==
  /\ CallerRuns /\ ~closed
  /\ Len(callbacks) < MaxDepth
  /\ listeners' = listeners \cup {l}
  /\ heard' = [heard EXCEPT ![l] = snapshot]
  /\ callbacks' = <<l>> \o callbacks
  /\ answered' = None
  /\ UNCHANGED <<server, delayed, closed, snapshot, unheard, mutationVars, socket, reconnectVars,
                 queuedNotifications, calls>>

\* A listener returns; one that throws, in notify or in subscribe, is dropped.
ListenerReturns ==
  /\ callbacks # <<>>
  /\ callbacks' = Tail(callbacks)
  /\ listeners' \in {listeners, listeners \ {Head(callbacks)}}
  /\ answered' = None
  /\ UNCHANGED <<server, delayed, closed, snapshot, heard, unheard, mutationVars, socket,
                 reconnectVars, queuedNotifications, calls>>

Unsubscribe(l) ==
  /\ CallerRuns /\ l \in listeners
  /\ listeners' = listeners \ {l}
  /\ answered' = None
  /\ UNCHANGED <<server, delayed, closed, snapshot, heard, unheard, callbacks, mutationVars, socket,
                 reconnectVars, queuedNotifications, calls>>

-----------------------------------------------------------------------------
\* pendingResetCount, and submissions: an entry lives as long as its operation
\* is unsettled, and the latest one for an id has the highest sequence.
PendingReset == \E i \in DOMAIN operations : operations[i].kind = "reset"
InFlight(o)  ==
  \E i \in DOMAIN operations :
    /\ operations[i].kind = "submit"
    /\ operations[i].observation.observationId = o.observationId
    /\ operations[i].sequence = scheduledResetSequence

Answer(o, sequence) == answered' = [observationId |-> o.observationId, sequence |-> sequence]

Call(kind, observation, sequence) ==
  /\ CallerRuns /\ ~closed
  /\ calls < MaxCalls
  /\ calls' = calls + 1
  /\ operations' = Append(operations, [call |-> calls', kind |-> kind, observation |-> observation,
                       sequence |-> sequence, stage |-> "queued", attempt |-> 0, response |-> None])

\* submit answers an acknowledged id at once unless a reset is pending, and
\* joins a submission of the same id called after the same resets.
Submit(o) ==
  \/ /\ CallerRuns /\ ~closed /\ ~PendingReset /\ o.observationId \in acknowledged
     /\ Answer(o, scheduledResetSequence)
     /\ UNCHANGED <<server, delayed, clientVars, mutationVars, socket, reconnectVars,
                    queuedNotifications, calls>>
  \/ /\ PendingReset \/ o.observationId \notin acknowledged
     /\ ~InFlight(o)
     /\ Call("submit", o, scheduledResetSequence)
     /\ answered' = None
     /\ UNCHANGED <<server, delayed, clientVars, scheduledResetSequence, confirmedResets,
                    acknowledged, socket, reconnectVars, queuedNotifications>>

Reset ==
  /\ Call("reset", None, scheduledResetSequence + 1)
  /\ scheduledResetSequence' = scheduledResetSequence + 1
  /\ answered' = None
  /\ UNCHANGED <<server, delayed, clientVars, confirmedResets, acknowledged, socket, reconnectVars,
                 queuedNotifications>>

\* Mutation: mutations run side by side.
MayStart_Unordered(i) == TRUE

\* Mutation: close abandons the operations that wait.
MayStart_WhileOpen(i) == i = 1 /\ ~closed

\* enqueueMutation: the operation after the settled ones.
MayStart(i) == i = 1

Settle(i) == operations' = RemoveAt(operations, i)

\* An operation's turn: it is refused on a closed session, answered when its
\* id has been acknowledged meanwhile, and sent otherwise.
Start(i) ==
  /\ Idle /\ MayStart(i) /\ operations[i].stage = "queued"
  /\ LET op    == operations[i]
         known == op.kind = "submit" /\ op.observation.observationId \in acknowledged
     IN  IF closed \/ known
         THEN /\ Settle(i)
              /\ IF closed THEN answered' = None ELSE Answer(op.observation, op.sequence)
         ELSE /\ operations' = [operations EXCEPT ![i].stage = "sent", ![i].attempt = 1]
              /\ answered' = None
  /\ UNCHANGED <<server, delayed, clientVars, scheduledResetSequence, confirmedResets,
                 acknowledged, socket, reconnectVars, queuedNotifications, calls>>

\* The request arrives and is answered.
ServerHandles(i) ==
  /\ operations[i].stage = "sent"
  /\ LET op == operations[i]
     IN  IF op.kind = "reset"
         THEN /\ ServerReset
              /\ operations' = [operations EXCEPT ![i].stage = "handled",
                                                  ![i].response = server'.revision]
         ELSE /\ ServerSubmit(op.observation)
              /\ operations' = [operations EXCEPT ![i].stage = "handled", ![i].response =
                                  IF IsStale(op.observation) THEN None ELSE server'.revision]
  /\ answered' = None
  /\ UNCHANGED <<delayed, clientVars, scheduledResetSequence, confirmedResets, acknowledged,
                 reconnectVars, queuedNotifications, calls>>

\* Mutation: a reset is retried like a submission.
Retries_Everything(op) == op.attempt < MaxAttempts

\* Only a submission is retried, up to maxAttempts.
Retries(op) == op.kind = "submit" /\ op.attempt < MaxAttempts

\* The fetch fails, whatever became of the request: a retryable failure backs
\* off, any other one and an unreadable response reject the operation.
FetchFails(i) ==
  /\ Idle /\ operations[i].stage \in {"sent", "handled"}
  /\ LET op == operations[i]
     IN  /\ \/ Retries(op) /\ operations' = [operations EXCEPT ![i].stage = "backoff",
                                                               ![i].response = None]
            \/ Settle(i)
         /\ \/ UNCHANGED delayed
            \/ op.stage = "sent" /\ delayed' = delayed \cup {op}
  /\ answered' = None
  /\ UNCHANGED <<server, clientVars, scheduledResetSequence, confirmedResets, acknowledged, socket,
                 reconnectVars, queuedNotifications, calls>>

\* The backoff ends: the request is sent again, unless the session was closed.
Retry(i) ==
  /\ Idle /\ operations[i].stage = "backoff"
  /\ IF closed THEN Settle(i)
     ELSE operations' = [operations EXCEPT ![i].stage = "sent", ![i].attempt = @ + 1]
  /\ answered' = None
  /\ UNCHANGED <<server, delayed, clientVars, scheduledResetSequence, confirmedResets,
                 acknowledged, socket, reconnectVars, queuedNotifications, calls>>

\* The response: an error rejects; a snapshot is acknowledged and notified.
Respond(i) ==
  /\ Idle /\ operations[i].stage = "handled"
  /\ LET op == operations[i]
     IN  IF op.response = None
         THEN Settle(i) /\ UNCHANGED <<clientVars, confirmedResets, acknowledged>>
         ELSE /\ operations' = [operations EXCEPT ![i].stage = "notified"]
              /\ Notify(op.response)
              /\ IF op.kind = "reset"
                 THEN acknowledged' = {} /\ confirmedResets' = confirmedResets + 1
                 ELSE /\ acknowledged' = IF closed THEN acknowledged
                                         ELSE acknowledged \cup {op.observation.observationId}
                      /\ UNCHANGED confirmedResets
  /\ answered' = None
  /\ UNCHANGED <<server, delayed, scheduledResetSequence, socket, reconnectVars,
                 queuedNotifications, calls>>

\* notify has returned, and the promise resolves.
Resolve(i) ==
  /\ Idle /\ operations[i].stage = "notified"
  /\ Settle(i)
  /\ IF operations[i].kind = "submit"
     THEN Answer(operations[i].observation, operations[i].sequence)
     ELSE answered' = None
  /\ UNCHANGED <<server, delayed, clientVars, scheduledResetSequence, confirmedResets,
                 acknowledged, socket, reconnectVars, queuedNotifications, calls>>

-----------------------------------------------------------------------------
\* The handshake completes; the server has subscribed the stream, or will.
SocketOpens ==
  /\ Idle /\ socket.state = "connecting"
  /\ socket' = [socket EXCEPT !.state = "open"]
  /\ reconnectAttempts' = 0
  /\ answered' = None
  /\ UNCHANGED <<server, delayed, clientVars, mutationVars, reconnectTask, drops,
                 queuedNotifications, calls>>

\* SessionService.subscribe: the retained snapshots newer than the client's.
Replay(since) ==
  LET oldest == server.revision - SnapshotLimit
      from   == IF since > oldest THEN since ELSE oldest
  IN  [k \in 1 .. server.revision - from |-> from + k]

ServerSubscribes ==
  /\ Connected(socket) /\ ~socket.subscribed
  /\ socket' = [socket EXCEPT !.subscribed = TRUE, !.inbox = Replay(socket.since)]
  /\ answered' = None
  /\ UNCHANGED <<server, delayed, clientVars, mutationVars, reconnectVars, queuedNotifications, calls>>

\* messageListener: a newer snapshot is queued for notification.
ReceiveMessage ==
  /\ Idle /\ socket.state = "open" /\ socket.inbox # <<>>
  /\ socket' = [socket EXCEPT !.inbox = Tail(@)]
  /\ queuedNotifications' = IF Newer(Head(socket.inbox))
                            THEN Append(queuedNotifications, Head(socket.inbox))
                            ELSE queuedNotifications
  /\ answered' = None
  /\ UNCHANGED <<server, delayed, clientVars, mutationVars, reconnectVars, calls>>

\* The notification chain's next step.
DeliverNotification ==
  /\ Idle /\ queuedNotifications # <<>>
  /\ queuedNotifications' = Tail(queuedNotifications)
  /\ Notify(Head(queuedNotifications))
  /\ answered' = None
  /\ UNCHANGED <<server, delayed, mutationVars, socket, reconnectVars, calls>>

\* scheduleReconnect, with no socket and no task.
ScheduleReconnect(attempts) ==
  IF attempts < MaxAttempts
  THEN reconnectAttempts' = attempts + 1 /\ reconnectTask' = TRUE
  ELSE reconnectAttempts' = attempts /\ reconnectTask' = FALSE

\* closeListener: only a retryable close code leads to a reconnect.
SocketCloses(retryable) ==
  /\ Idle /\ Connected(socket) /\ drops < MaxDrops
  /\ drops' = drops + 1
  /\ socket' = IF retryable THEN NoSocket ELSE Refused
  /\ IF retryable THEN ScheduleReconnect(reconnectAttempts)
     ELSE UNCHANGED <<reconnectAttempts, reconnectTask>>
  /\ answered' = None
  /\ UNCHANGED <<server, delayed, clientVars, mutationVars, queuedNotifications, calls>>

\* Mutation: a failed reconnect is the last one.
ReconnectFails_GivesUp ==
  /\ Idle /\ reconnectTask /\ ~closed /\ drops < MaxDrops
  /\ drops' = drops + 1
  /\ reconnectTask' = FALSE
  /\ answered' = None
  /\ UNCHANGED <<server, delayed, clientVars, mutationVars, socket, reconnectAttempts,
                 queuedNotifications, calls>>

\* The socket cannot be made: a retryable failure schedules the next attempt,
\* any other one, and a timer that fails, uses the attempts up.
ReconnectFails ==
  /\ Idle /\ reconnectTask /\ ~closed /\ drops < MaxDrops
  /\ drops' = drops + 1
  /\ \/ ScheduleReconnect(reconnectAttempts)
     \/ ScheduleReconnect(MaxAttempts)
  /\ answered' = None
  /\ UNCHANGED <<server, delayed, clientVars, mutationVars, socket, queuedNotifications, calls>>

\* The reconnect delay ends, or close has cancelled it.
Reconnect ==
  /\ Idle /\ reconnectTask
  /\ reconnectTask' = FALSE
  /\ socket' = IF closed THEN socket ELSE OpenSocket(snapshot)
  /\ answered' = None
  /\ UNCHANGED <<server, delayed, clientVars, mutationVars, reconnectAttempts, drops,
                 queuedNotifications, calls>>

-----------------------------------------------------------------------------
\* close, possibly inside a listener that notify called.
Close ==
  /\ CallerRuns /\ ~closed
  /\ closed' = TRUE
  /\ listeners' = {}
  /\ acknowledged' = {}
  /\ queuedNotifications' = <<>>
  /\ socket' = NoSocket
  /\ answered' = None
  /\ UNCHANGED <<server, delayed, snapshot, heard, unheard, callbacks, operations,
                 scheduledResetSequence, confirmedResets, reconnectVars, calls>>

-----------------------------------------------------------------------------
\* The steps the event loop, the timers and the server take by themselves.
Work(i) == Start(i) \/ ServerHandles(i) \/ Retry(i) \/ Respond(i) \/ Resolve(i)
StreamWork ==
  SocketOpens \/ ServerSubscribes \/ ReceiveMessage \/ DeliverNotification \/ Reconnect

Next ==
  \/ \E o \in Observations : Submit(o)
  \/ \E op \in delayed : DelayedArrives(op)
  \/ \E l \in Listeners : Subscribe(l) \/ Unsubscribe(l)
  \/ (\E l \in unheard : VisitListener(l)) \/ ListenerReturns
  \/ \E i \in DOMAIN operations : Work(i) \/ FetchFails(i)
  \/ \E retryable \in BOOLEAN : SocketCloses(retryable)
  \/ OtherClientSubmits \/ Reset \/ StreamWork \/ ReconnectFails \/ Close

Spec == Init /\ [][Next]_vars

\* Every fetch settles, every timer fires, every listener returns, and an open
\* stream delivers.
Fairness ==
  /\ WF_vars((\E l \in unheard : VisitListener(l)) \/ ListenerReturns)
  /\ WF_vars(\E i \in DOMAIN operations : Work(i))
  /\ WF_vars(SocketOpens) /\ WF_vars(ServerSubscribes) /\ WF_vars(ReceiveMessage)
  /\ WF_vars(DeliverNotification) /\ WF_vars(Reconnect)

FairSpec == Spec /\ Fairness

-----------------------------------------------------------------------------
\* Snapshots reach the client as responses and as stream messages, in any
\* order and across resets and reconnects; what it shows is nevertheless a
\* SnapshotFeed: published snapshots, ever newer ones, and none after close
\* (notify, enqueue).
Feed == INSTANCE SnapshotFeed WITH
          published <- server.revision, seen <- snapshot, open <- ~closed

ImplementsFeed == Feed!Spec

\* A stream that has nothing under way has given the client the server's
\* newest snapshot, although snapshots were lost with earlier sockets and the
\* filter drops what responses delivered first (openSocket, enqueue).
StreamIsCurrent ==
  socket.subscribed /\ socket.inbox = <<>> /\ queuedNotifications = <<>> =>
    snapshot = server.revision

\* A submission that resolves is among what the server accepted since its last
\* reset, and every reset called before it has settled, as long as the server
\* has made no reset whose response was lost: repeated calls, retries, delayed
\* requests and resets in between never make it answered by stale
\* deduplication state (submit, reset).
SubmitMeansApplied ==
  answered # None /\ server.resets = confirmedResets =>
    /\ answered.observationId \in server.accepted
    /\ \A i \in DOMAIN operations :
         operations[i].kind = "reset" => operations[i].sequence > answered.sequence

\* The resets that have still to reach the server: called, or under way although
\* their fetch failed.
AwaitedResets ==
  {i \in DOMAIN operations : /\ operations[i].kind = "reset"
                             /\ operations[i].stage \notin {"handled", "notified"}}
DelayedResets == {op \in delayed : op.kind = "reset"}

\* The server makes no more resets than the caller asked for, late ones
\* included: an ambiguous failure is never answered by resetting again (request
\* with retryTransport false).
ResetsApplyOnce ==
  server.resets + Cardinality(AwaitedResets) + Cardinality(DelayedResets) <= scheduledResetSequence

\* close and unsubscribing are final, also inside a listener that notify is
\* calling while others still wait: nothing that was under way moves the
\* snapshot, calls a listener or opens a socket after close, and a listener is
\* only ever called while it is subscribed (notify, subscribe, close).
CloseIsFinal ==
  [][/\ closed => UNCHANGED <<closed, snapshot, listeners, heard, socket>>
     /\ \A l \in Listeners : heard'[l] # heard[l] => l \in listeners']_vars

\* Every mutation settles although fetches fail and the session may be closed.
MutationsSettle == operations # <<>> ~> operations = <<>>

GaveUp == socket = Refused \/ (~Connected(socket) /\ ~reconnectTask /\ reconnectAttempts = MaxAttempts)

\* A client that is behind the server catches up, unless it is closed or out of
\* reconnect attempts (or was told not to reconnect).
BehindCatchesUp ==
  snapshot < server.revision ~> (snapshot = server.revision \/ closed \/ GaveUp)

=============================================================================
