------------------------- MODULE AdapterController --------------------------
(***************************************************************************)
(* The framework-neutral adapter controllers of                            *)
(* packages/client/src/adapter-controller.ts on one in-process session     *)
(* (packages/client/src/local-session.ts) that they share with the         *)
(* application's own listeners.                                            *)
(*                                                                         *)
(* Everything runs on one JavaScript thread: stack is the calls that are   *)
(* suspended inside a callback of the application, which may call the      *)
(* session and the controllers again, and jobs is the microtask queue,     *)
(* which runs when the stack is empty.  Snapshots are their revisions.     *)
(***************************************************************************)
EXTENDS Integers, Sequences, FiniteSets, SequencesExt

CONSTANTS
  Controllers,
  Listeners,       \* listeners the application subscribes to the session itself
  MaxCalls,        \* bound on the application's calls
  None

ASSUME ControllerAssumption ==
  /\ Controllers \cap Listeners = {} /\ None \notin Controllers
  /\ MaxCalls \in Nat

VARIABLES
  snapshot, sessionClosed,
  subscribers,          \* the session's listeners, in the order of subscription
  heard,                \* what each of the application's listeners heard last
  created,              \* the controllers that exist
  state,                \* QaraaState of each controller
  connected,            \* whether it holds an unsubscribe
  closed, lifecycleRevision,
  stack, jobs, calls

sessionVars    == <<snapshot, sessionClosed, subscribers, heard>>
controllerVars == <<created, state, connected, closed, lifecycleRevision>>
vars == <<sessionVars, controllerVars, stack, jobs, calls>>

\* The state a controller of a session with this snapshot begins with.
StateAt(revision) == [snapshot |-> revision, status |-> "idle", failed |-> FALSE]

Init ==
  /\ snapshot = 0 /\ sessionClosed = FALSE
  /\ subscribers = <<>> /\ heard = [l \in Listeners |-> 0]
  /\ created = {}
  /\ state = [c \in Controllers |-> StateAt(0)]
  /\ connected = [c \in Controllers |-> FALSE]
  /\ closed = [c \in Controllers |-> FALSE]
  /\ lifecycleRevision = [c \in Controllers |-> 0]
  /\ stack = <<>> /\ jobs = <<>> /\ calls = 0

\* The listeners are a set in the order of insertion: no one is in it twice.
Without(s, x) ==
  IF x \in ToSet(s) THEN RemoveAt(s, CHOOSE i \in DOMAIN s : s[i] = x) ELSE s
Subscribed(x) == x \in ToSet(subscribers)

\* The application runs between jobs and inside the callbacks it was given.
MayRun == stack # <<>> => Head(stack).inCallback

ApplicationRuns == MayRun /\ calls < MaxCalls /\ calls' = calls + 1

SetState(c, changed) == state' = [state EXCEPT ![c] = changed]

\* createAdapterController; a closed session still has its snapshot.
Create(c) ==
  /\ MayRun
  /\ c \notin created
  /\ created' = created \cup {c}
  /\ SetState(c, StateAt(snapshot))
  /\ UNCHANGED <<sessionVars, connected, closed, lifecycleRevision, stack, jobs, calls>>

-----------------------------------------------------------------------------
\* acceptSnapshot: a newer snapshot is applied by a job.
AcceptSnapshot(c, revision) ==
  jobs' = IF revision <= state[c].snapshot THEN jobs
          ELSE Append(jobs, [kind |-> "snapshot", controller |-> c, revision |-> revision,
                             acceptedAt |-> lifecycleRevision[c]])

\* Mutation: a job is applied whatever happened to its subscription.
StillAccepted_Always(job) == job.revision > state[job.controller].snapshot

StillAccepted(job) ==
  /\ ~closed[job.controller]
  /\ job.acceptedAt = lifecycleRevision[job.controller]
  /\ job.revision > state[job.controller].snapshot

ApplySnapshot(job) ==
  LET c == job.controller
  IN  /\ IF StillAccepted(job)
         THEN SetState(c, [state[c] EXCEPT !.snapshot = job.revision, !.status = "ready"])
         ELSE UNCHANGED state
      /\ jobs' = Tail(jobs)
      /\ UNCHANGED <<sessionVars, created, connected, closed, lifecycleRevision, stack, calls>>

\* connect; a closed session refuses the subscription and nothing changes.
\* The session delivers its snapshot inside subscribe.
Connect(c) ==
  /\ ApplicationRuns
  /\ c \in created /\ ~closed[c] /\ ~connected[c] /\ ~sessionClosed
  /\ subscribers' = Append(subscribers, c)
  /\ connected' = [connected EXCEPT ![c] = TRUE]
  /\ AcceptSnapshot(c, snapshot)
  /\ SetState(c, [state[c] EXCEPT !.status = "ready"])
  /\ UNCHANGED <<snapshot, sessionClosed, heard, created, closed, lifecycleRevision, stack>>

Release(c) ==
  /\ lifecycleRevision' = [lifecycleRevision EXCEPT ![c] = @ + 1]
  /\ connected' = [connected EXCEPT ![c] = FALSE]
  /\ subscribers' = IF connected[c] THEN Without(subscribers, c) ELSE subscribers

Dispose(c) ==
  /\ ApplicationRuns
  /\ c \in created
  /\ Release(c)
  /\ UNCHANGED <<snapshot, sessionClosed, heard, created, state, closed, stack, jobs>>

-----------------------------------------------------------------------------
\* publish of the local session, on behalf of a controller's action or, with
\* None, of the application itself: a frame that goes through the listeners
\* subscribed now.  attached is whether the controller was connected then.
Publishing(c) ==
  [kind |-> "publish", controller |-> c, next |-> snapshot + 1, rest |-> subscribers,
   inCallback |-> FALSE,
   attached |-> c # None /\ connected[c], since |-> IF c = None THEN 0 ELSE lifecycleRevision[c]]

\* An action's await: the result reaches the controller in a job.
Resolved(c, attached, since) ==
  [kind |-> "settled", controller |-> c, ok |-> TRUE, revision |-> snapshot,
   attached |-> attached, since |-> since]

Rejected(c) ==
  [kind |-> "settled", controller |-> c, ok |-> FALSE, revision |-> 0, attached |-> FALSE, since |-> 0]

\* submit and reset of the local session, with below left on the stack: they
\* reject when it is closed, the tracker may ignore an observation, and a newer
\* snapshot is published.
SessionMutate(c, below) ==
  \/ /\ sessionClosed
     /\ stack' = below
     /\ jobs' = IF c = None THEN jobs ELSE Append(jobs, Rejected(c))
     /\ UNCHANGED sessionVars
  \/ /\ ~sessionClosed
     /\ stack' = below
     /\ jobs' = IF c = None THEN jobs
                ELSE Append(jobs, Resolved(c, FALSE, 0))
     /\ UNCHANGED sessionVars
  \/ /\ ~sessionClosed
     /\ snapshot' = snapshot + 1
     /\ stack' = <<Publishing(c)>> \o below
     /\ UNCHANGED <<sessionClosed, subscribers, heard, jobs>>

\* The application mutates the session without a controller.
Mutate ==
  /\ ApplicationRuns
  /\ SessionMutate(None, stack)
  /\ UNCHANGED controllerVars

\* Mutation: a listener gets the snapshot that its publication began with.
Delivered_Own(frame) == frame.next

\* What publish hands to the next listener: the current snapshot, which a
\* callback may have made newer than the one this publication began with.
Delivered(frame) == snapshot

\* One round of publish's loop: listeners that are gone, and all of them once
\* the session is closed, are skipped; a listener that throws is dropped.
NotifyNext ==
  /\ stack # <<>> /\ Head(stack).kind = "publish" /\ Head(stack).rest # <<>>
  /\ LET frame == Head(stack)
         next  == Head(frame.rest)
         Returning(inCallback) ==
           stack' = [stack EXCEPT ![1].rest = Tail(@), ![1].inCallback = inCallback]
     IN  \/ /\ sessionClosed \/ ~Subscribed(next)
            /\ Returning(FALSE)
            /\ UNCHANGED <<sessionVars, jobs>>
         \/ /\ ~sessionClosed /\ Subscribed(next) /\ next \in Controllers
            /\ AcceptSnapshot(next, Delivered(frame))
            /\ Returning(FALSE)
            /\ UNCHANGED sessionVars
         \/ /\ ~sessionClosed /\ Subscribed(next) /\ next \in Listeners
            /\ heard' = [heard EXCEPT ![next] = Delivered(frame)]
            /\ \/ subscribers' = subscribers /\ Returning(TRUE)
               \/ subscribers' = Without(subscribers, next) /\ Returning(FALSE)
            /\ UNCHANGED <<snapshot, sessionClosed, jobs>>
  /\ UNCHANGED <<controllerVars, calls>>

\* Mutation: the result overtakes the snapshots that the publication queued.
PublishReturns_First ==
  /\ stack # <<>> /\ Head(stack).kind = "publish" /\ Head(stack).rest = <<>>
  /\ LET frame == Head(stack)
     IN  jobs' = IF frame.controller = None THEN jobs
                 ELSE <<Resolved(frame.controller, frame.attached, frame.since)>> \o jobs
  /\ stack' = Tail(stack)
  /\ UNCHANGED <<sessionVars, controllerVars, calls>>

\* publish returns and the promise of submit or reset resolves.
PublishReturns ==
  /\ stack # <<>> /\ Head(stack).kind = "publish" /\ Head(stack).rest = <<>>
  /\ LET frame == Head(stack)
     IN  jobs' = IF frame.controller = None THEN jobs
                 ELSE Append(jobs, Resolved(frame.controller, frame.attached, frame.since))
  /\ stack' = Tail(stack)
  /\ UNCHANGED <<sessionVars, controllerVars, calls>>

\* subscribe of the local session, for a listener of the application, and the
\* function it returns.
Subscribe(l) ==
  /\ ApplicationRuns
  /\ ~sessionClosed /\ ~Subscribed(l)
  /\ subscribers' = Append(subscribers, l)
  /\ heard' = [heard EXCEPT ![l] = snapshot]
  /\ UNCHANGED <<snapshot, sessionClosed, controllerVars, stack, jobs>>

Unsubscribe(l) ==
  /\ ApplicationRuns
  /\ Subscribed(l)
  /\ subscribers' = Without(subscribers, l)
  /\ UNCHANGED <<snapshot, sessionClosed, heard, controllerVars, stack, jobs>>

CloseSession == sessionClosed' = TRUE /\ subscribers' = <<>> /\ UNCHANGED <<snapshot, heard>>

\* The application closes the session without a controller.
SessionClose ==
  /\ ApplicationRuns
  /\ CloseSession
  /\ UNCHANGED <<controllerVars, stack, jobs>>

-----------------------------------------------------------------------------
\* action: the status changes, which calls the controller's own listeners, and
\* then the session is called.
Begin(c) ==
  /\ ApplicationRuns
  /\ c \in created /\ ~closed[c]
  /\ SetState(c, [state[c] EXCEPT !.status = "submitting", !.failed = FALSE])
  /\ stack' = <<[kind |-> "begin", controller |-> c, inCallback |-> TRUE]>> \o stack
  /\ UNCHANGED <<sessionVars, created, connected, closed, lifecycleRevision, jobs>>

Run ==
  /\ stack # <<>> /\ Head(stack).kind = "begin"
  /\ SessionMutate(Head(stack).controller, Tail(stack))
  /\ UNCHANGED <<controllerVars, calls>>

MaySettle(c) == ~closed[c]

\* The rest of action, after its await.
SettleAction(job) ==
  LET c == job.controller
  IN  /\ IF MaySettle(c) THEN SetState(c, [state[c] EXCEPT !.status = "ready", !.failed = ~job.ok])
         ELSE UNCHANGED state
      /\ jobs' = Tail(jobs)
      /\ UNCHANGED <<sessionVars, created, connected, closed, lifecycleRevision, stack, calls>>

\* close: the subscription is released at once, the session is closed in a
\* job and the status published in the next.
Close(c) ==
  /\ ApplicationRuns
  /\ c \in created /\ ~closed[c]
  /\ closed' = [closed EXCEPT ![c] = TRUE]
  /\ Release(c)
  /\ jobs' = Append(jobs, [kind |-> "close", controller |-> c])
  /\ UNCHANGED <<snapshot, sessionClosed, heard, created, state, stack>>

CloseContinues(job) ==
  /\ CloseSession
  /\ jobs' = Append(Tail(jobs), [kind |-> "closed", controller |-> job.controller])
  /\ UNCHANGED <<controllerVars, stack, calls>>

CloseSettles(job) ==
  /\ SetState(job.controller, [state[job.controller] EXCEPT !.status = "closed"])
  /\ jobs' = Tail(jobs)
  /\ UNCHANGED <<sessionVars, created, connected, closed, lifecycleRevision, stack, calls>>

RunJob ==
  /\ stack = <<>> /\ jobs # <<>>
  /\ LET job == Head(jobs)
     IN  \/ job.kind = "snapshot" /\ ApplySnapshot(job)
         \/ job.kind = "settled" /\ SettleAction(job)
         \/ job.kind = "close" /\ CloseContinues(job)
         \/ job.kind = "closed" /\ CloseSettles(job)

\* What runs by itself: publications, suspended calls and microtasks.
Runtime == NotifyNext \/ PublishReturns \/ Run \/ RunJob

\* What the application does to the session without a controller.
SessionCalls ==
  \/ Mutate \/ SessionClose
  \/ \E l \in Listeners : Subscribe(l) \/ Unsubscribe(l)

-----------------------------------------------------------------------------
\* However connect, dispose and close are interleaved with publications, an
\* open session holds a controller's listener, once, exactly while the
\* controller holds the function that releases it, and a closed session holds
\* none.
SubscriptionIsOwned ==
  /\ IsInjective(subscribers)
  /\ \A c \in Controllers : Subscribed(c) <=> connected[c] /\ ~sessionClosed

\* A snapshot that c will accept is waiting in the microtask queue.
Waiting(c) ==
  \E i \in DOMAIN jobs : /\ jobs[i].kind = "snapshot" /\ jobs[i].controller = c
                         /\ jobs[i].revision = snapshot
                         /\ jobs[i].acceptedAt = lifecycleRevision[c]

\* Between jobs, a connected controller with no snapshot waiting for it shows
\* the session's current snapshot, also when a callback made a newer one while
\* an older one was being published.
ConnectedIsCurrent ==
  stack = <<>> /\ ~sessionClosed =>
    \A c \in Controllers : connected[c] => state[c].snapshot = snapshot \/ Waiting(c)

\* When submit or reset of a controller settles after it advanced the reading,
\* the controller already shows a snapshot as new as the result, provided that
\* it stayed connected and the session open.
SettledIsVisible ==
  stack = <<>> /\ jobs # <<>> /\ Head(jobs).kind = "settled" /\ ~sessionClosed =>
    LET job == Head(jobs)
    IN  job.attached /\ job.since = lifecycleRevision[job.controller] =>
          state[job.controller].snapshot >= job.revision

\* Once no publication is running, every listener of the application has heard
\* the current snapshot last, although a listener may mutate the session while
\* the ones after it still wait for the snapshot before.
ListenersAreCurrent ==
  stack = <<>> => \A l \in Listeners : Subscribed(l) => heard[l] = snapshot

\* What was under way when a controller was disposed or closed has no effect on
\* its snapshot, not even when it was connected again in between, and after
\* close was called the only change of its state is to the status closed.
NothingAfterRelease ==
  [][\A c \in created :
       /\ state'[c].snapshot # state[c].snapshot => connected[c]
       /\ closed[c] /\ state'[c] # state[c] =>
            state'[c] = [state[c] EXCEPT !.status = "closed"]]_vars
=============================================================================
