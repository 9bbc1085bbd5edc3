------------------------- MODULE RemoteSessionProofs ------------------------
(***************************************************************************)
(* Proofs about the remote session, for any observations, listeners, retry *)
(* limits, retention and schedule of failures: the snapshot the client     *)
(* shows is a SnapshotFeed, close is final, a stream with nothing under    *)
(* way is current, no reset is applied twice, and a submission that        *)
(* resolves was applied since the server's last reset.                     *)
(*                                                                         *)
(* Mutations run one at a time, so that only the first operation is ever   *)
(* under way; every step treats the chain in one of four ways, and the     *)
(* server in one of three, and the invariants are proved about those.      *)
(***************************************************************************)
EXTENDS RemoteSession, FiniteSetTheorems, TLAPS

Identifiers == {o.observationId : o \in Observations}

Operation ==
  [call : Nat, kind : {"submit", "reset"}, observation : Observations \cup {None},
   sequence : Nat, stage : {"queued", "sent", "handled", "backoff", "notified"}, attempt : Nat,
   response : Nat \cup {None}]

Server == [revision : Nat, accepted : SUBSET Identifiers, latest : Int, resets : Nat]

Socket == [state : {"none", "refused", "connecting", "open"}, since : Nat, subscribed : BOOLEAN,
           inbox : Seq(Nat)]

\* Only the first operation of the chain has been started.
HeadInv ==
  \A i \in DOMAIN operations :
    /\ operations[i].kind = "submit" => operations[i].observation \in Observations
    /\ i # 1 => operations[i].stage = "queued"

\* What may arrive late was sent by the chain.
DelayedOK ==
  /\ delayed \subseteq Operation /\ IsFiniteSet(delayed)
  /\ \A op \in delayed : op.kind = "submit" => op.observation \in Observations

ClientOK ==
  /\ listeners \subseteq Listeners /\ heard \in [Listeners -> Nat]
  /\ unheard \subseteq Listeners /\ callbacks \in Seq(Listeners)
  /\ calls \in Nat

TypeOK ==
  /\ server \in Server
  /\ DelayedOK
  /\ closed \in BOOLEAN
  /\ snapshot \in Nat
  /\ ClientOK
  /\ operations \in Seq(Operation)
  /\ scheduledResetSequence \in Nat
  /\ confirmedResets \in Nat
  /\ socket \in Socket
  /\ queuedNotifications \in Seq(Nat)
  /\ HeadInv

\* A closed session has neither a socket nor a listener.
ClosedInv == closed => socket = NoSocket /\ listeners = {}

\* Everything the client holds was published.
BoundsInv ==
  /\ snapshot <= server.revision
  /\ \A i \in DOMAIN operations :
       operations[i].response # None => operations[i].response <= server.revision
  /\ \A k \in DOMAIN queuedNotifications : queuedNotifications[k] <= server.revision
  /\ \A k \in DOMAIN socket.inbox : socket.inbox[k] <= server.revision
  /\ socket.since <= snapshot

\* The newest snapshot is shown or on its way to a subscribed stream.
FlowInv ==
  socket.subscribed =>
    /\ ~closed
    /\ \/ snapshot = server.revision
       \/ \E k \in DOMAIN socket.inbox : socket.inbox[k] = server.revision
       \/ \E k \in DOMAIN queuedNotifications : queuedNotifications[k] = server.revision

\* The server has answered the operation.
Handled(op, kind) == op.kind = kind /\ op.stage = "handled"

\* The client resolves the operation as a submission the server took.
Taken(op) ==
  /\ op.kind = "submit"
  /\ (op.stage = "handled" /\ op.response # None) \/ op.stage = "notified"

\* A reset the server has made and not yet confirmed is counted once.
ConfirmInv ==
  /\ confirmedResets <= server.resets
  /\ operations # <<>> =>
       (Handled(operations[1], "reset") => confirmedResets + 1 <= server.resets)

\* Without an unconfirmed reset, which may be one that arrived late, a submission
\* the server answered is still accepted.
HandledInv ==
  server.resets = confirmedResets /\ operations # <<>> =>
    (Taken(operations[1]) => operations[1].observation.observationId \in server.accepted)

\* Without an unconfirmed reset, what was acknowledged is still accepted.
AcknowledgedInv == server.resets = confirmedResets => acknowledged \subseteq server.accepted

\* The chain is in the order of its reset sequences.
OrderInv ==
  /\ \A i \in DOMAIN operations : operations[i].sequence <= scheduledResetSequence
  /\ \A i, j \in DOMAIN operations :
       i < j => /\ operations[i].sequence <= operations[j].sequence
                /\ operations[j].kind = "reset" => operations[i].sequence < operations[j].sequence

-----------------------------------------------------------------------------
\* The chain of mutations.

\* The first operation changes its stage and its response, and nothing else of
\* the chain changes.
Restaged(old, new, stage, response) ==
  /\ old # <<>>
  /\ new \in Seq(Operation)
  /\ Len(new) = Len(old)
  /\ \A i \in DOMAIN old :
       /\ new[i].kind = old[i].kind
       /\ new[i].observation = old[i].observation
       /\ new[i].sequence = old[i].sequence
       /\ i # 1 => new[i] = old[i]
  /\ new[1].stage = stage
  /\ new[1].response = response

\* A record of the first operation in its place leaves the others alone.
LEMMA ReplaceFirst ==
  ASSUME NEW s \in Seq(Operation), s # <<>>, NEW op \in Operation,
         op.kind = s[1].kind, op.observation = s[1].observation, op.sequence = s[1].sequence
  PROVE  Restaged(s, [s EXCEPT ![1] = op], op.stage, op.response)
<1> DEFINE new == [s EXCEPT ![1] = op]
<1>1. 1 \in DOMAIN s
  OBVIOUS
<1>2. new \in Seq(Operation) /\ Len(new) = Len(s) /\ DOMAIN new = DOMAIN s
  BY <1>1
<1>3. new[1] = op
  BY <1>1
<1>4. \A i \in DOMAIN s : i # 1 => new[i] = s[i]
  OBVIOUS
<1> HIDE DEF new
<1>5. \A i \in DOMAIN s : /\ new[i].kind = s[i].kind
                          /\ new[i].observation = s[i].observation
                          /\ new[i].sequence = s[i].sequence
  BY <1>3, <1>4
<1>6. Restaged(s, new, op.stage, op.response)
  BY <1>2, <1>3, <1>4, <1>5 DEF Restaged
<1> QED
  BY <1>6 DEF new

\* A new stage and attempt (Start, Retry).
LEMMA RestagedWithAttempt ==
  ASSUME NEW s \in Seq(Operation), s # <<>>, NEW a \in Nat,
         NEW stage \in {"queued", "sent", "handled", "backoff", "notified"}
  PROVE  Restaged(s, [s EXCEPT ![1].stage = stage, ![1].attempt = a], stage, s[1].response)
<1>1. 1 \in DOMAIN s /\ s[1] \in Operation
  OBVIOUS
<1> DEFINE op == [s[1] EXCEPT !.stage = stage, !.attempt = a]
<1>2. op \in Operation /\ op.kind = s[1].kind /\ op.observation = s[1].observation
      /\ op.sequence = s[1].sequence /\ op.stage = stage /\ op.response = s[1].response
  BY <1>1 DEF Operation
<1>3. [s EXCEPT ![1].stage = stage, ![1].attempt = a] = [s EXCEPT ![1] = op]
  BY <1>1
<1> HIDE DEF op
<1> QED
  BY <1>2, <1>3, ReplaceFirst

\* A new stage and response (ServerHandles, FetchFails).
LEMMA RestagedWithResponse ==
  ASSUME NEW s \in Seq(Operation), s # <<>>, NEW r \in Nat \cup {None},
         NEW stage \in {"queued", "sent", "handled", "backoff", "notified"}
  PROVE  Restaged(s, [s EXCEPT ![1].stage = stage, ![1].response = r], stage, r)
<1>1. 1 \in DOMAIN s /\ s[1] \in Operation
  OBVIOUS
<1> DEFINE op == [s[1] EXCEPT !.stage = stage, !.response = r]
<1>2. op \in Operation /\ op.kind = s[1].kind /\ op.observation = s[1].observation
      /\ op.sequence = s[1].sequence /\ op.stage = stage /\ op.response = r
  BY <1>1 DEF Operation
<1>3. [s EXCEPT ![1].stage = stage, ![1].response = r] = [s EXCEPT ![1] = op]
  BY <1>1
<1> HIDE DEF op
<1> QED
  BY <1>2, <1>3, ReplaceFirst

\* A new stage (Respond).
LEMMA RestagedOnly ==
  ASSUME NEW s \in Seq(Operation), s # <<>>,
         NEW stage \in {"queued", "sent", "handled", "backoff", "notified"}
  PROVE  Restaged(s, [s EXCEPT ![1].stage = stage], stage, s[1].response)
<1>1. 1 \in DOMAIN s /\ s[1] \in Operation
  OBVIOUS
<1> DEFINE op == [s[1] EXCEPT !.stage = stage]
<1>2. op \in Operation /\ op.kind = s[1].kind /\ op.observation = s[1].observation
      /\ op.sequence = s[1].sequence /\ op.stage = stage /\ op.response = s[1].response
  BY <1>1 DEF Operation
<1>3. [s EXCEPT ![1].stage = stage] = [s EXCEPT ![1] = op]
  BY <1>1
<1> HIDE DEF op
<1> QED
  BY <1>2, <1>3, ReplaceFirst

\* The settled operation is the first one.
LEMMA SettlesFirst ==
  ASSUME operations \in Seq(Operation), operations # <<>>, Settle(1)
  PROVE  operations' = Tail(operations)
<1>1. operations' = SubSeq(operations, 1, 0) \o SubSeq(operations, 2, Len(operations))
  BY DEF Settle, RemoveAt
<1>2. SubSeq(operations, 1, 0) = <<>>
  OBVIOUS
<1>3. SubSeq(operations, 2, Len(operations)) = Tail(operations)
  OBVIOUS
<1>4. Tail(operations) \in Seq(Operation)
  OBVIOUS
<1> QED
  BY <1>1, <1>2, <1>3, <1>4

-----------------------------------------------------------------------------
\* What a step does to the server, and to the mutations.

\* Submitting and resetting keep the server's types; a submission that is not
\* stale is accepted afterwards, and accepted ids are only lost to a reset.
LEMMA SubmitOnServer ==
  ASSUME TypeOK, NEW o \in Observations, ServerSubmit(o)
  PROVE  /\ server' \in Server
         /\ server'.resets = server.resets
         /\ server.accepted \subseteq server'.accepted
         /\ IsStale(o) \/ o.observationId \in server'.accepted
         /\ \/ server' = server /\ socket' = socket
            \/ server'.revision = server.revision + 1 /\ Publish(server.revision + 1)
<1>1. server \in Server /\ o.observationId \in Identifiers /\ o.sourceRevision \in Int
  BY RemoteAssumption DEF TypeOK, Identifiers
<1>2. CASE Submitted(o) \/ IsStale(o)
  <2>1. server' = server /\ socket' = socket
    BY <1>2 DEF ServerSubmit
  <2> QED
    BY <1>1, <1>2, <2>1 DEF Submitted
<1>3. CASE ~(Submitted(o) \/ IsStale(o))
  <2>1. server' = [server EXCEPT !.revision = @ + 1, !.latest = o.sourceRevision,
                                 !.accepted = @ \cup {o.observationId}]
        /\ Publish(server.revision + 1)
    BY <1>3 DEF ServerSubmit
  <2> DEFINE s1 == [server EXCEPT !.revision = @ + 1]
             s2 == [s1 EXCEPT !.latest = o.sourceRevision]
             s3 == [s2 EXCEPT !.accepted = @ \cup {o.observationId}]
  <2>2. s1 \in Server /\ s1.revision = server.revision + 1 /\ s1.resets = server.resets
        /\ s1.accepted = server.accepted
    BY <1>1 DEF Server
  <2>3. server' = s3
    BY <1>1, <2>1 DEF Server
  <2> HIDE DEF s1
  <2>4. s2 \in Server /\ s2.revision = server.revision + 1 /\ s2.resets = server.resets
        /\ s2.accepted = server.accepted
    BY <1>1, <2>2 DEF Server
  <2> HIDE DEF s2
  <2>5. s3 \in Server /\ s3.revision = server.revision + 1 /\ s3.resets = server.resets
        /\ s3.accepted = server.accepted \cup {o.observationId}
    BY <1>1, <2>4 DEF Server
  <2> HIDE DEF s3
  <2> QED
    BY <2>1, <2>3, <2>5
<1> QED
  BY <1>2, <1>3

\* A submission from another client.
LEMMA OtherOnServer ==
  ASSUME TypeOK, OtherClientSubmits
  PROVE  /\ server' \in Server
         /\ server'.resets = server.resets
         /\ server'.accepted = server.accepted
         /\ server'.revision = server.revision + 1
<1>1. PICK o \in Observations :
        server' = [server EXCEPT !.revision = @ + 1, !.latest = o.sourceRevision]
  BY DEF OtherClientSubmits
<1>2. server \in Server /\ o.sourceRevision \in Int
  BY RemoteAssumption DEF TypeOK
<1> DEFINE s1 == [server EXCEPT !.revision = @ + 1]
           s2 == [s1 EXCEPT !.latest = o.sourceRevision]
<1>3. s1 \in Server /\ s1.revision = server.revision + 1 /\ s1.resets = server.resets
      /\ s1.accepted = server.accepted
  BY <1>2 DEF Server
<1>4. server' = s2
  BY <1>1, <1>2 DEF Server
<1> HIDE DEF s1
<1>5. s2 \in Server /\ s2.revision = server.revision + 1 /\ s2.resets = server.resets
      /\ s2.accepted = server.accepted
  BY <1>2, <1>3 DEF Server
<1> HIDE DEF s2
<1> QED
  BY <1>4, <1>5

\* A reset.
LEMMA ResetOnServer ==
  ASSUME TypeOK, ServerReset
  PROVE  /\ server' \in Server
         /\ server'.resets = server.resets + 1
         /\ server'.accepted = {}
         /\ server'.revision = server.revision + 1
         /\ Publish(server.revision + 1)
<1>1. server \in Server
  BY DEF TypeOK
<1> QED
  BY <1>1 DEF ServerReset, Server

\* No mutation moves; the server may have accepted something, and a submit of
\* an acknowledged id may have been answered.
Rests ==
  /\ UNCHANGED <<operations, scheduledResetSequence, confirmedResets>>
  /\ delayed' \subseteq delayed
  /\ acknowledged' \subseteq acknowledged
  /\ server'.resets = server.resets
  /\ server.accepted \subseteq server'.accepted
  /\ server.revision <= server'.revision
  /\ \/ answered' = None
     \/ ~PendingReset /\ answered'.observationId \in acknowledged /\ UNCHANGED acknowledged

\* A reset arrives whose fetch had failed.
ResetsLate ==
  /\ UNCHANGED <<operations, scheduledResetSequence, confirmedResets, acknowledged>>
  /\ \E op \in delayed : op.kind = "reset" /\ delayed' = delayed \ {op}
  /\ server'.accepted = {} /\ server'.resets = server.resets + 1
  /\ server'.revision = server.revision + 1
  /\ answered' = None

\* A mutation joins the chain.
Calls(op) ==
  /\ operations' = Append(operations, op)
  /\ op.stage = "queued" /\ op.response = None
  /\ op.kind = "submit" => op.observation \in Observations
  /\ op.sequence = scheduledResetSequence'
  /\ op.kind = "reset" => scheduledResetSequence' = scheduledResetSequence + 1
  /\ op.kind = "submit" => UNCHANGED scheduledResetSequence
  /\ UNCHANGED <<server, delayed, confirmedResets, acknowledged>>
  /\ answered' = None

\* How the first operation settles: without an answer, or answered because its
\* id was acknowledged or because the server took it.
Resolves(op) ==
  \/ answered' = None
  \/ /\ op.kind = "submit" /\ op.observation.observationId \in acknowledged
     /\ Answer(op.observation, op.sequence)
  \/ Taken(op) /\ Answer(op.observation, op.sequence)

\* A request may be left under way.
MayStray(op) ==
  UNCHANGED delayed \/ (op.stage = "sent" /\ delayed' = delayed \cup {op})

Settles ==
  /\ operations # <<>> /\ operations' = Tail(operations)
  /\ UNCHANGED <<server, scheduledResetSequence, confirmedResets, acknowledged>>
  /\ Resolves(operations[1])
  /\ MayStray(operations[1])

\* The response of the first operation is taken.
Confirms ==
  /\ operations # <<>>
  /\ operations[1].stage = "handled" /\ operations[1].response # None
  /\ Restaged(operations, operations', "notified", operations[1].response)
  /\ UNCHANGED <<server, delayed, scheduledResetSequence>>
  /\ \/ /\ operations[1].kind = "submit"
        /\ acknowledged' \subseteq acknowledged \cup {operations[1].observation.observationId}
        /\ UNCHANGED confirmedResets
     \/ /\ operations[1].kind = "reset"
        /\ acknowledged' = {} /\ confirmedResets' = confirmedResets + 1
  /\ answered' = None

\* What the server has to do with the first operation's next stage.
Handles(op, stage, response) ==
  \/ /\ stage \in {"sent", "backoff"}
     /\ op.kind = "reset" => op.stage \notin {"handled", "notified"} /\ UNCHANGED delayed
     /\ response \in {None, op.response}
     /\ MayStray(op)
     /\ UNCHANGED server
  \/ /\ stage = "handled" /\ op.kind = "reset" /\ op.stage = "sent"
     /\ UNCHANGED delayed
     /\ server'.accepted = {} /\ server'.resets = server.resets + 1
     /\ server'.revision = server.revision + 1
     /\ response = server'.revision
  \/ /\ stage = "handled" /\ op.kind = "submit"
     /\ UNCHANGED delayed
     /\ server'.resets = server.resets /\ server.accepted \subseteq server'.accepted
     /\ server.revision <= server'.revision
     /\ response # None =>
          response = server'.revision /\ op.observation.observationId \in server'.accepted

Progresses(stage, response) ==
  /\ Restaged(operations, operations', stage, response)
  /\ Handles(operations[1], stage, response)
  /\ UNCHANGED <<scheduledResetSequence, confirmedResets, acknowledged>>
  /\ answered' = None

MutationStep ==
  \/ Rests
  \/ ResetsLate
  \/ \E op \in Operation : Calls(op)
  \/ Settles
  \/ Confirms
  \/ \E stage, response : Progresses(stage, response)

\* Only the first operation works or fails.
LEMMA FirstWorks ==
  ASSUME TypeOK, NEW i \in DOMAIN operations, Work(i) \/ FetchFails(i)
  PROVE  i = 1 /\ operations # <<>> /\ operations[1] \in Operation
<1>1. operations \in Seq(Operation) /\ HeadInv
  BY DEF TypeOK
<1>2. i # 1 => operations[i].stage = "queued"
  BY <1>1 DEF HeadInv
<1>3. CASE Start(i)
  BY <1>3, <1>1 DEF Start, MayStart
<1>4. CASE ServerHandles(i)
  BY <1>4, <1>1, <1>2 DEF ServerHandles
<1>5. CASE Retry(i)
  BY <1>5, <1>1, <1>2 DEF Retry
<1>6. CASE Respond(i)
  BY <1>6, <1>1, <1>2 DEF Respond
<1>7. CASE FetchFails(i)
  BY <1>7, <1>1, <1>2 DEF FetchFails
<1>8. CASE Resolve(i)
  BY <1>8, <1>1, <1>2 DEF Resolve
<1> QED
  BY <1>3, <1>4, <1>5, <1>6, <1>7, <1>8 DEF Work

\* submit.
LEMMA SubmitSteps ==
  ASSUME TypeOK, NEW o \in Observations, Submit(o)
  PROVE  MutationStep /\ server' \in Server
<1> USE DEF TypeOK
<1>1. server.revision \in Nat /\ server \in Server
  BY DEF Server
<1>2. CASE ~PendingReset /\ o.observationId \in acknowledged
           /\ Answer(o, scheduledResetSequence)
           /\ UNCHANGED <<server, delayed, clientVars, mutationVars, socket, reconnectVars,
                          queuedNotifications, calls>>
  <2>1. answered'.observationId = o.observationId
    BY <1>2 DEF Answer
  <2>2. Rests
    BY <1>1, <1>2, <2>1 DEF Rests, mutationVars
  <2> QED
    BY <1>1, <1>2, <2>2 DEF MutationStep
<1> DEFINE op == [call |-> calls + 1, kind |-> "submit", observation |-> o,
                  sequence |-> scheduledResetSequence, stage |-> "queued", attempt |-> 0,
                  response |-> None]
<1>3. CASE /\ Call("submit", o, scheduledResetSequence) /\ answered' = None
           /\ UNCHANGED <<server, delayed, clientVars, scheduledResetSequence, confirmedResets,
                          acknowledged, socket, reconnectVars, queuedNotifications>>
  <2>1. op \in Operation
    BY DEF Operation, ClientOK
  <2>2. operations' = Append(operations, op)
    BY <1>3 DEF Call
  <2>4. Calls(op)
    BY <1>3, <2>2 DEF Calls
  <2> HIDE DEF op
  <2>3. \E q \in Operation : Calls(q)
    BY <2>1, <2>4
  <2> QED
    BY <1>1, <1>3, <2>3 DEF MutationStep
<1> QED
  BY <1>2, <1>3 DEF Submit

\* reset.
LEMMA ResetSteps ==
  ASSUME TypeOK, Reset
  PROVE  MutationStep /\ server' \in Server
<1> DEFINE op == [call |-> calls + 1, kind |-> "reset", observation |-> None,
                  sequence |-> scheduledResetSequence + 1, stage |-> "queued", attempt |-> 0,
                  response |-> None]
<1>1. op \in Operation
  BY DEF Operation, TypeOK, ClientOK
<1>5. operations' = Append(operations, op)
  BY DEF Reset, Call
<1>2. Calls(op)
  BY <1>5 DEF Reset, Calls
<1>3. server' \in Server
  BY DEF Reset, TypeOK
<1> HIDE DEF op
<1>4. \E q \in Operation : Calls(q)
  BY <1>1, <1>2
<1> QED
  BY <1>3, <1>4 DEF MutationStep

\* A change of the first operation's stage that reaches no server.
LEMMA StageSteps ==
  ASSUME TypeOK, NEW stage \in {"sent", "backoff"}, NEW response,
         operations[1].kind = "reset" =>
           operations[1].stage \notin {"handled", "notified"} /\ UNCHANGED delayed,
         MayStray(operations[1]),
         response \in {None, operations[1].response},
         Restaged(operations, operations', stage, response),
         UNCHANGED <<server, scheduledResetSequence, confirmedResets, acknowledged>>,
         answered' = None
  PROVE  MutationStep /\ server' \in Server
<1>1. Handles(operations[1], stage, response)
  BY DEF Handles
<1>2. Progresses(stage, response)
  BY <1>1 DEF Progresses
<1>3. server' \in Server
  BY DEF TypeOK
<1> QED
  BY <1>2, <1>3 DEF MutationStep

\* The first operation settles.
LEMMA SettleSteps ==
  ASSUME TypeOK, operations # <<>>, Settle(1), Resolves(operations[1]), MayStray(operations[1]),
         UNCHANGED <<server, scheduledResetSequence, confirmedResets, acknowledged>>
  PROVE  MutationStep /\ server' \in Server
<1>1. operations' = Tail(operations)
  BY SettlesFirst DEF TypeOK
<1>2. Settles
  BY <1>1 DEF Settles
<1>3. server' \in Server
  BY DEF TypeOK
<1> QED
  BY <1>2, <1>3 DEF MutationStep

\* An operation's turn.
LEMMA StartSteps ==
  ASSUME TypeOK, operations # <<>>, operations[1] \in Operation, Start(1)
  PROVE  MutationStep /\ server' \in Server
<1> DEFINE op == operations[1]
           known == op.kind = "submit" /\ op.observation.observationId \in acknowledged
<1>1. op.stage = "queued" /\ MayStray(op)
      /\ UNCHANGED <<server, delayed, scheduledResetSequence, confirmedResets, acknowledged>>
  BY DEF Start, MayStray
<1>2. CASE closed \/ known
  <2>1. Settle(1)
    BY <1>2 DEF Start
  <2>2. Resolves(op)
    BY <1>1, <1>2 DEF Start, Resolves
  <2> QED
    BY <1>1, <2>1, <2>2, SettleSteps
<1>3. CASE ~(closed \/ known)
  <2>1. operations' = [operations EXCEPT ![1].stage = "sent", ![1].attempt = 1]
        /\ answered' = None
    BY <1>3 DEF Start
  <2>2. Restaged(operations, operations', "sent", op.response)
    BY <2>1, RestagedWithAttempt DEF TypeOK
  <2> QED
    BY <1>1, <2>1, <2>2, StageSteps
<1> QED
  BY <1>2, <1>3

\* The backoff ends.
LEMMA RetrySteps ==
  ASSUME TypeOK, operations # <<>>, operations[1] \in Operation, Retry(1)
  PROVE  MutationStep /\ server' \in Server
<1> DEFINE op == operations[1]
<1>1. op.stage = "backoff" /\ answered' = None /\ MayStray(op)
      /\ UNCHANGED <<server, delayed, scheduledResetSequence, confirmedResets, acknowledged>>
  BY DEF Retry, MayStray
<1>2. CASE closed
  <2>1. Settle(1)
    BY <1>2 DEF Retry
  <2>2. Resolves(op)
    BY <1>1 DEF Resolves
  <2> QED
    BY <1>1, <2>1, <2>2, SettleSteps
<1>3. CASE ~closed
  <2>1. operations' = [operations EXCEPT ![1].stage = "sent", ![1].attempt = @ + 1]
    BY <1>3 DEF Retry
  <2>2. operations \in Seq(Operation) /\ 1 \in DOMAIN operations
    BY DEF TypeOK
  <2>3. operations' = [operations EXCEPT ![1].stage = "sent", ![1].attempt = op.attempt + 1]
    <3> DEFINE s1 == [operations EXCEPT ![1].stage = "sent"]
    <3>1. s1[1].attempt = op.attempt
      BY <2>2 DEF Operation
    <3>2. operations' = [s1 EXCEPT ![1].attempt = s1[1].attempt + 1]
      BY <2>1, <2>2
    <3> QED
      BY <3>1, <3>2
  <2>4. op.attempt + 1 \in Nat
    BY DEF Operation
  <2>5. Restaged(operations, operations', "sent", op.response)
    BY <2>2, <2>3, <2>4, RestagedWithAttempt
  <2> QED
    BY <1>1, <2>5, StageSteps
<1> QED
  BY <1>2, <1>3

\* The fetch fails.
LEMMA FetchFailsSteps ==
  ASSUME TypeOK, operations # <<>>, operations[1] \in Operation, FetchFails(1)
  PROVE  MutationStep /\ server' \in Server
<1> DEFINE op == operations[1]
<1>1. answered' = None /\ MayStray(op)
      /\ UNCHANGED <<server, scheduledResetSequence, confirmedResets, acknowledged>>
  BY DEF FetchFails, MayStray
<1>2. CASE Settle(1)
  <2>1. Resolves(op)
    BY <1>1 DEF Resolves
  <2> QED
    BY <1>1, <1>2, <2>1, SettleSteps
<1>3. CASE /\ Retries(op)
           /\ operations' = [operations EXCEPT ![1].stage = "backoff", ![1].response = None]
  <2>1. Restaged(operations, operations', "backoff", None)
    BY <1>3, RestagedWithResponse DEF TypeOK
  <2>2. op.kind # "reset"
    BY <1>3 DEF Retries
  <2> QED
    BY <1>1, <2>1, <2>2, StageSteps
<1> QED
  BY <1>2, <1>3 DEF FetchFails

\* The response.
LEMMA RespondSteps ==
  ASSUME TypeOK, operations # <<>>, operations[1] \in Operation, Respond(1)
  PROVE  MutationStep /\ server' \in Server
<1> DEFINE op == operations[1]
<1>1. op.stage = "handled" /\ answered' = None
      /\ UNCHANGED <<server, delayed, scheduledResetSequence>> /\ server' \in Server
  BY DEF Respond, TypeOK
<1>2. CASE op.response = None
  <2>1. Settle(1) /\ UNCHANGED <<confirmedResets, acknowledged>>
    BY <1>2 DEF Respond
  <2> QED
    BY <1>1, <2>1, SettleSteps DEF Resolves, MayStray
<1>3. CASE op.response # None
  <2>1. operations' = [operations EXCEPT ![1].stage = "notified"]
    BY <1>3 DEF Respond
  <2>2. Restaged(operations, operations', "notified", op.response)
    BY <2>1, RestagedOnly DEF TypeOK
  <2>3. \/ /\ op.kind = "submit"
           /\ acknowledged' \subseteq acknowledged \cup {op.observation.observationId}
           /\ UNCHANGED confirmedResets
        \/ op.kind = "reset" /\ acknowledged' = {} /\ confirmedResets' = confirmedResets + 1
    BY <1>3 DEF Respond, Operation
  <2>4. Confirms
    BY <1>1, <1>3, <2>2, <2>3 DEF Confirms
  <2> QED
    BY <1>1, <2>4 DEF MutationStep
<1> QED
  BY <1>2, <1>3

\* The promise resolves.
LEMMA ResolveSteps ==
  ASSUME TypeOK, operations # <<>>, operations[1] \in Operation, Resolve(1)
  PROVE  MutationStep /\ server' \in Server
<1> DEFINE op == operations[1]
<1>1. op.stage = "notified" /\ Settle(1) /\ MayStray(op)
      /\ UNCHANGED <<server, scheduledResetSequence, confirmedResets, acknowledged>>
  BY DEF Resolve, MayStray
<1>2. Resolves(op)
  BY <1>1 DEF Resolve, Resolves, Taken
<1> QED
  BY <1>1, <1>2, SettleSteps

\* The server handles the request.
LEMMA HandleSteps ==
  ASSUME TypeOK, operations # <<>>, operations[1] \in Operation, ServerHandles(1)
  PROVE  MutationStep /\ server' \in Server
<1> DEFINE op == operations[1]
<1>1. op.stage = "sent" /\ answered' = None
      /\ UNCHANGED <<delayed, scheduledResetSequence, confirmedResets, acknowledged>>
  BY DEF ServerHandles
<1>2. CASE op.kind = "reset"
  <2>1. ServerReset
    BY <1>2 DEF ServerHandles
  <2>2. operations' = [operations EXCEPT ![1].stage = "handled",
                                         ![1].response = server'.revision]
    BY <1>2 DEF ServerHandles
  <2>3. server' \in Server /\ server'.accepted = {} /\ server'.resets = server.resets + 1
        /\ server'.revision = server.revision + 1 /\ server'.revision \in Nat
    BY <2>1, ResetOnServer DEF Server
  <2>4. Restaged(operations, operations', "handled", server'.revision)
    BY <2>2, <2>3, RestagedWithResponse DEF TypeOK
  <2>5. Handles(op, "handled", server'.revision)
    BY <1>1, <1>2, <2>3 DEF Handles
  <2>6. Progresses("handled", server'.revision)
    BY <1>1, <2>4, <2>5 DEF Progresses
  <2> QED
    BY <2>3, <2>6 DEF MutationStep
<1>3. CASE op.kind = "submit"
  <2>1. op.observation \in Observations
    BY <1>3 DEF TypeOK, HeadInv
  <2>2. ServerSubmit(op.observation)
    BY <1>3 DEF ServerHandles
  <2> DEFINE response == IF IsStale(op.observation) THEN None ELSE server'.revision
  <2>3. operations' = [operations EXCEPT ![1].stage = "handled", ![1].response = response]
    BY <1>3 DEF ServerHandles
  <2>4. server' \in Server /\ server'.resets = server.resets
        /\ server.accepted \subseteq server'.accepted
        /\ (IsStale(op.observation) \/ op.observation.observationId \in server'.accepted)
        /\ (server' = server \/ server'.revision = server.revision + 1)
    BY <2>1, <2>2, SubmitOnServer
  <2>5. server'.revision \in Nat /\ server.revision <= server'.revision
    BY <2>4 DEF Server, TypeOK
  <2>6. response \in Nat \cup {None}
    BY <2>5
  <2>7. response # None =>
          response = server'.revision /\ op.observation.observationId \in server'.accepted
    BY <2>4
  <2> HIDE DEF response
  <2>8. Restaged(operations, operations', "handled", response)
    BY <2>3, <2>6, RestagedWithResponse DEF TypeOK
  <2>9. Handles(op, "handled", response)
    BY <1>1, <1>3, <2>4, <2>5, <2>7 DEF Handles
  <2>10. Progresses("handled", response)
    BY <1>1, <2>8, <2>9 DEF Progresses
  <2> QED
    BY <2>4, <2>10 DEF MutationStep
<1>4. op.kind \in {"submit", "reset"}
  BY DEF Operation
<1> QED
  BY <1>2, <1>3, <1>4

\* A step that only the server or the stream takes.
LEMMA RestSteps ==
  ASSUME TypeOK, server' \in Server, answered' = None, delayed' \subseteq delayed,
         UNCHANGED <<operations, scheduledResetSequence, confirmedResets>>,
         acknowledged' \subseteq acknowledged,
         server'.resets = server.resets, server.accepted \subseteq server'.accepted,
         server.revision <= server'.revision
  PROVE  MutationStep /\ server' \in Server
BY DEF MutationStep, Rests

\* Every step of the remote session is one of them.
LEMMA MutationSteps ==
  ASSUME TypeOK, Next
  PROVE  MutationStep /\ server' \in Server
<1>0. server \in Server /\ server.revision \in Nat
  BY DEF TypeOK, Server
<1>1. ASSUME NEW o \in Observations, Submit(o)
      PROVE  MutationStep /\ server' \in Server
  BY <1>1, SubmitSteps
<1>2. ASSUME NEW op \in delayed, DelayedArrives(op)
      PROVE  MutationStep /\ server' \in Server
  <2>1. CASE op.kind = "submit"
    <3>1. op.observation \in Observations /\ ServerSubmit(op.observation)
      BY <1>2, <2>1 DEF TypeOK, DelayedOK, DelayedArrives
    <3>2. server' \in Server /\ server'.resets = server.resets
          /\ server.accepted \subseteq server'.accepted
          /\ (server' = server \/ server'.revision = server.revision + 1)
      BY <3>1, SubmitOnServer
    <3>3. server.revision <= server'.revision
      BY <1>0, <3>2
    <3> QED
      BY <1>2, <3>2, <3>3, RestSteps DEF DelayedArrives, mutationVars
  <2>2. CASE op.kind = "reset"
    <3>1. ServerReset
      BY <1>2, <2>2 DEF DelayedArrives
    <3>2. server' \in Server /\ server'.accepted = {} /\ server'.resets = server.resets + 1
          /\ server'.revision = server.revision + 1
      BY <3>1, ResetOnServer
    <3>3. ResetsLate
      BY <1>2, <2>2, <3>2 DEF ResetsLate, DelayedArrives, mutationVars
    <3> QED
      BY <3>2, <3>3 DEF MutationStep
  <2>3. op.kind \in {"submit", "reset"}
    BY DEF TypeOK, DelayedOK, Operation
  <2> QED
    BY <2>1, <2>2, <2>3
<1>3. ASSUME NEW l, Subscribe(l) \/ Unsubscribe(l) \/ VisitListener(l) \/ ListenerReturns
      PROVE  MutationStep /\ server' \in Server
  BY <1>0, <1>3, RestSteps
  DEF Subscribe, Unsubscribe, VisitListener, ListenerReturns, mutationVars
<1>4. ASSUME NEW i \in DOMAIN operations, Work(i) \/ FetchFails(i)
      PROVE  MutationStep /\ server' \in Server
  <2>1. i = 1 /\ operations # <<>> /\ operations[1] \in Operation
    BY <1>4, FirstWorks
  <2> QED
    BY <1>4, <2>1, StartSteps, HandleSteps, RetrySteps, RespondSteps, ResolveSteps,
       FetchFailsSteps DEF Work
<1>5. ASSUME NEW retryable \in BOOLEAN, SocketCloses(retryable)
      PROVE  MutationStep /\ server' \in Server
  BY <1>0, <1>5, RestSteps DEF SocketCloses, mutationVars
<1>6. CASE OtherClientSubmits
  <2>1. server' \in Server /\ server'.resets = server.resets
        /\ server'.accepted = server.accepted /\ server'.revision = server.revision + 1
    BY <1>6, OtherOnServer
  <2> QED
    BY <1>0, <1>6, <2>1, RestSteps DEF OtherClientSubmits, mutationVars
<1>7. CASE Reset
  BY <1>7, ResetSteps
<1>8. CASE StreamWork
  BY <1>0, <1>8, RestSteps
  DEF StreamWork, SocketOpens, ServerSubscribes, ReceiveMessage, DeliverNotification, Reconnect,
      mutationVars
<1>9. CASE ReconnectFails
  BY <1>0, <1>9, RestSteps DEF ReconnectFails, mutationVars
<1>10. CASE Close
  BY <1>0, <1>10, RestSteps DEF Close
<1> QED
  BY <1>1, <1>2, <1>3, <1>4, <1>5, <1>6, <1>7, <1>8, <1>9, <1>10 DEF Next

-----------------------------------------------------------------------------
\* What a step does to the stream and to the snapshot.

\* What is behind the head moves up.
LEMMA TailShifts ==
  ASSUME NEW s \in Seq(Nat), s # <<>>
  PROVE  /\ Tail(s) \in Seq(Nat)
         /\ \A k \in DOMAIN s : k # 1 => k - 1 \in DOMAIN Tail(s) /\ Tail(s)[k - 1] = s[k]
OBVIOUS

\* A replay holds the newest revision unless the client has it, and nothing
\* newer.
LEMMA ReplayBounds ==
  ASSUME NEW since \in Nat, server.revision \in Nat, since <= server.revision
  PROVE  /\ Replay(since) \in Seq(Nat)
         /\ \A k \in DOMAIN Replay(since) : Replay(since)[k] <= server.revision
         /\ \/ since = server.revision
            \/ \E k \in DOMAIN Replay(since) : Replay(since)[k] = server.revision
<1> DEFINE oldest == server.revision - SnapshotLimit
           from   == IF since > oldest THEN since ELSE oldest
           n      == server.revision - from
           r      == [k \in 1 .. n |-> from + k]
<1>1. from \in Nat /\ from <= server.revision
      /\ (since = server.revision \/ from < server.revision)
  BY RemoteAssumption
<1>2. Replay(since) = r
  BY DEF Replay
<1> HIDE DEF from
<1>3. n \in Nat
  BY <1>1
<1>4. \A k \in 1 .. n : from + k \in Nat /\ from + k <= server.revision
  BY <1>1
<1>5. r \in Seq(Nat)
  BY <1>3, <1>4
<1>6. \A k \in DOMAIN r : r[k] <= server.revision
  BY <1>4
<1>7. ASSUME from < server.revision
      PROVE  \E k \in DOMAIN r : r[k] = server.revision
  <2>1. n \in 1 .. n /\ from + n = server.revision
    BY <1>1, <1>7
  <2>2. n \in DOMAIN r /\ r[n] = server.revision
    BY <2>1
  <2> QED
    BY <2>2
<1> QED
  BY <1>1, <1>2, <1>5, <1>6, <1>7

\* notify with a published revision, and what becomes of the queue.
Shows(revision) ==
  /\ revision \in Nat /\ revision <= server.revision
  /\ snapshot' = IF Newer(revision) THEN revision ELSE snapshot
  /\ UNCHANGED <<server, socket, closed>>
  /\ \/ UNCHANGED queuedNotifications
     \/ /\ queuedNotifications # <<>> /\ revision = Head(queuedNotifications)
        /\ queuedNotifications' = Tail(queuedNotifications)

Publishes ==
  /\ server'.revision = server.revision + 1
  /\ Publish(server.revision + 1)
  /\ UNCHANGED <<snapshot, closed, queuedNotifications>>

\* The socket of an open session changes, and nothing was published or shown.
Reconnects ==
  /\ ~closed
  /\ \/ socket' = [socket EXCEPT !.state = "open"]
     \/ socket' = NoSocket \/ socket' = Refused
     \/ socket' = OpenSocket(snapshot)
     \/ socket' = [socket EXCEPT !.subscribed = TRUE, !.inbox = Replay(socket.since)]
  /\ UNCHANGED <<server, snapshot, closed, queuedNotifications>>

Receives ==
  /\ ~closed /\ socket.inbox # <<>>
  /\ socket' = [socket EXCEPT !.inbox = Tail(@)]
  /\ queuedNotifications' = IF Newer(Head(socket.inbox))
                            THEN Append(queuedNotifications, Head(socket.inbox))
                            ELSE queuedNotifications
  /\ UNCHANGED <<server, snapshot, closed>>

Ends ==
  /\ closed' = TRUE /\ listeners' = {} /\ socket' = NoSocket /\ queuedNotifications' = <<>>
  /\ UNCHANGED <<server, snapshot>>

Idles == UNCHANGED <<server, snapshot, closed, socket, queuedNotifications>>

StreamStep ==
  \/ Idles \/ (\E revision : Shows(revision)) \/ Publishes \/ Reconnects \/ Receives \/ Ends

\* After close nothing is seen of the stream any more, and no listener is called
\* that is not subscribed.
Final ==
  /\ closed => UNCHANGED <<closed, snapshot, listeners, heard, socket>>
  /\ \A l \in Listeners : heard'[l] # heard[l] => l \in listeners'

\* notify shows a published revision, leaves a closed session alone, and calls
\* nobody yet.
LEMMA NotifyShows ==
  ASSUME TypeOK, NEW revision, Notify(revision), UNCHANGED calls
  PROVE  /\ snapshot' = IF Newer(revision) THEN revision ELSE snapshot
         /\ closed' = closed
         /\ ClientOK'
         /\ UNCHANGED <<listeners, heard>>
         /\ closed => UNCHANGED snapshot
BY DEF Notify, clientVars, TypeOK, ClientOK, Newer

\* A session whose socket is connected is not closed.
LEMMA ConnectedIsOpen ==
  ASSUME ClosedInv, Connected(socket) \/ socket.subscribed \/ socket.state = "connecting"
                    \/ socket.inbox # <<>>
  PROVE  ~closed
BY DEF ClosedInv, NoSocket, Connected

\* What the invariants need to know of a step besides StreamStep.
Sound == StreamStep /\ Final /\ DelayedOK' /\ ClientOK'

\* A publication on the server reaches no closed session.
LEMMA PublishSteps ==
  ASSUME TypeOK, ClosedInv, DelayedOK',
         UNCHANGED <<clientVars, queuedNotifications>>, calls' \in {calls, calls + 1},
         \/ server' = server /\ socket' = socket
         \/ server'.revision = server.revision + 1 /\ Publish(server.revision + 1)
  PROVE  Sound
<1>1. UNCHANGED <<closed, snapshot, listeners, heard, unheard, callbacks>>
  BY DEF clientVars
<1>4. ClientOK'
  BY <1>1 DEF TypeOK, ClientOK
<1>2. StreamStep
  BY <1>1 DEF StreamStep, Idles, Publishes
<1>3. closed => socket' = socket
  BY DEF ClosedInv, NoSocket, Publish
<1> QED
  BY <1>1, <1>2, <1>3, <1>4 DEF Sound, Final

\* A step that leaves the requests under way alone keeps their type.
LEMMA DelayedRest ==
  ASSUME TypeOK, UNCHANGED delayed
  PROVE  DelayedOK'
BY DEF TypeOK, DelayedOK

\* A step of an open session that calls nobody and leaves the chain's requests
\* alone.
LEMMA QuietSteps ==
  ASSUME TypeOK, ~closed, StreamStep,
         UNCHANGED <<delayed, listeners, heard, unheard, callbacks, calls>>
  PROVE  Sound
<1>1. DelayedOK'
  BY DelayedRest
<1>2. ClientOK'
  BY DEF TypeOK, ClientOK
<1> QED
  BY <1>1, <1>2 DEF Sound, Final

\* The mutations' own steps.
LEMMA WorkStreams ==
  ASSUME TypeOK, ClosedInv, BoundsInv, NEW i \in DOMAIN operations, Work(i) \/ FetchFails(i)
  PROVE  Sound
<1>1. i = 1 /\ operations # <<>> /\ operations[1] \in Operation
  BY FirstWorks
<1> DEFINE op == operations[1]
<1>2. CASE Start(1) \/ Retry(1) \/ Resolve(1)
  BY <1>2, PublishSteps, DelayedRest DEF Start, Retry, Resolve
<1>3. CASE FetchFails(1)
  <2>1. op.kind = "submit" => op.observation \in Observations
    BY <1>1 DEF TypeOK, HeadInv
  <2>2. delayed' = delayed \/ delayed' = delayed \cup {op}
    BY <1>3 DEF FetchFails
  <2>3. IsFiniteSet(delayed')
    BY <2>2, FS_AddElement DEF TypeOK, DelayedOK
  <2>4. DelayedOK'
    BY <1>1, <2>1, <2>2, <2>3 DEF TypeOK, DelayedOK
  <2> QED
    BY <1>3, <2>4, PublishSteps DEF FetchFails
<1>4. CASE ServerHandles(1)
  <2>1. UNCHANGED <<delayed, clientVars, queuedNotifications, calls>>
    BY <1>4 DEF ServerHandles
  <2>2. \/ server' = server /\ socket' = socket
        \/ server'.revision = server.revision + 1 /\ Publish(server.revision + 1)
    <3>1. CASE op.kind = "reset"
      <4>1. ServerReset
        BY <1>4, <3>1 DEF ServerHandles
      <4> QED
        BY <4>1, ResetOnServer
    <3>2. CASE op.kind # "reset"
      <4>1. op.kind = "submit"
        BY <1>1, <3>2 DEF Operation
      <4>2. op.observation \in Observations
        BY <1>1, <4>1 DEF TypeOK, HeadInv
      <4>3. ServerSubmit(op.observation)
        BY <1>4, <3>2 DEF ServerHandles
      <4> QED
        BY <4>2, <4>3, SubmitOnServer
    <3> QED
      BY <3>1, <3>2
  <2> QED
    BY <2>1, <2>2, PublishSteps, DelayedRest
<1>5. CASE Respond(1)
  <2>1. UNCHANGED <<server, delayed, socket, queuedNotifications, calls>>
    BY <1>5 DEF Respond
  <2>2. CASE op.response = None
    <3>1. UNCHANGED clientVars
      BY <1>5, <2>2 DEF Respond
    <3> QED
      BY <2>1, <3>1, PublishSteps, DelayedRest
  <2>3. CASE op.response # None
    <3>1. Notify(op.response)
      BY <1>5, <2>3 DEF Respond
    <3>2. op.response \in Nat /\ op.response <= server.revision
      BY <1>1, <2>3 DEF Operation, BoundsInv
    <3>3. Shows(op.response)
      BY <2>1, <3>1, <3>2, NotifyShows DEF Shows
    <3>4. StreamStep
      BY <3>3 DEF StreamStep
    <3> QED
      BY <2>1, <3>1, <3>4, NotifyShows, DelayedRest DEF Sound, Final
  <2> QED
    BY <2>2, <2>3
<1> QED
  BY <1>1, <1>2, <1>3, <1>4, <1>5 DEF Work

\* The steps of the stream.
LEMMA StreamWorks ==
  ASSUME TypeOK, ClosedInv, BoundsInv, StreamWork
  PROVE  Sound
<1>1. CASE SocketOpens
  <2>1. UNCHANGED <<server, closed, snapshot, queuedNotifications>>
        /\ UNCHANGED <<delayed, listeners, heard, unheard, callbacks, calls>>
    BY <1>1 DEF SocketOpens, clientVars
  <2>2. ~closed /\ socket' = [socket EXCEPT !.state = "open"]
    BY <1>1, ConnectedIsOpen DEF SocketOpens
  <2>3. Reconnects
    BY <2>1, <2>2 DEF Reconnects
  <2> QED
    BY <2>1, <2>2, <2>3, QuietSteps DEF StreamStep
<1>2. CASE ServerSubscribes
  <2>1. UNCHANGED <<server, closed, snapshot, queuedNotifications>>
        /\ UNCHANGED <<delayed, listeners, heard, unheard, callbacks, calls>>
    BY <1>2 DEF ServerSubscribes, clientVars
  <2>2. ~closed
        /\ socket' = [socket EXCEPT !.subscribed = TRUE, !.inbox = Replay(socket.since)]
    BY <1>2, ConnectedIsOpen DEF ServerSubscribes
  <2>3. Reconnects
    BY <2>1, <2>2 DEF Reconnects
  <2> QED
    BY <2>1, <2>2, <2>3, QuietSteps DEF StreamStep
<1>3. CASE ReceiveMessage
  <2>1. UNCHANGED <<server, closed, snapshot>>
        /\ UNCHANGED <<delayed, listeners, heard, unheard, callbacks, calls>>
    BY <1>3 DEF ReceiveMessage, clientVars
  <2>2. ~closed
    BY <1>3, ConnectedIsOpen DEF ReceiveMessage
  <2>3. Receives
    BY <1>3, <2>1, <2>2 DEF ReceiveMessage, Receives
  <2> QED
    BY <2>1, <2>2, <2>3, QuietSteps DEF StreamStep
<1>4. CASE DeliverNotification
  <2> DEFINE revision == Head(queuedNotifications)
  <2>1. UNCHANGED <<server, delayed, socket, calls>> /\ Notify(revision)
        /\ queuedNotifications # <<>> /\ queuedNotifications' = Tail(queuedNotifications)
    BY <1>4 DEF DeliverNotification
  <2>2. revision \in Nat /\ revision <= server.revision
    BY <2>1 DEF TypeOK, BoundsInv
  <2>3. Shows(revision)
    BY <2>1, <2>2, NotifyShows DEF Shows
  <2>4. StreamStep
    BY <2>3 DEF StreamStep
  <2> QED
    BY <2>1, <2>4, NotifyShows, DelayedRest DEF Sound, Final
<1>5. CASE Reconnect
  <2>1. UNCHANGED <<server, closed, snapshot, queuedNotifications>>
        /\ UNCHANGED <<delayed, listeners, heard, unheard, callbacks, calls>>
        /\ socket' = IF closed THEN socket ELSE OpenSocket(snapshot)
    BY <1>5 DEF Reconnect, clientVars
  <2>2. Idles \/ Reconnects
    BY <2>1 DEF Idles, Reconnects
  <2>3. ClientOK' /\ DelayedOK'
    BY <2>1, DelayedRest DEF TypeOK, ClientOK
  <2> QED
    BY <2>1, <2>2, <2>3 DEF Sound, Final, StreamStep
<1> QED
  BY <1>1, <1>2, <1>3, <1>4, <1>5 DEF StreamWork

\* The steps of the listeners: the one that is called is subscribed, and the
\* session is open.
LEMMA ListenerSteps ==
  ASSUME TypeOK, ClosedInv,
         \/ \E l \in Listeners : Subscribe(l) \/ Unsubscribe(l) \/ VisitListener(l)
         \/ ListenerReturns
  PROVE  Sound
<1>1. UNCHANGED <<server, delayed, closed, snapshot, socket, queuedNotifications, calls>>
  BY DEF Subscribe, Unsubscribe, VisitListener, ListenerReturns
<1>2. StreamStep /\ DelayedOK'
  BY <1>1, DelayedRest DEF StreamStep, Idles
<1>3. snapshot \in Nat /\ ClientOK
  BY DEF TypeOK
<1>4. ASSUME NEW l \in Listeners, Subscribe(l) PROVE ClientOK' /\ Final
  <2>1. ~closed /\ listeners' = listeners \cup {l} /\ callbacks' = <<l>> \o callbacks
        /\ heard' = [heard EXCEPT ![l] = snapshot] /\ UNCHANGED unheard
    BY <1>4 DEF Subscribe
  <2> QED
    BY <1>1, <1>3, <2>1 DEF ClientOK, Final
<1>5. ASSUME NEW l \in Listeners, Unsubscribe(l) PROVE ClientOK' /\ Final
  <2>1. l \in listeners /\ listeners' = listeners \ {l}
        /\ UNCHANGED <<heard, unheard, callbacks>>
    BY <1>5 DEF Unsubscribe
  <2> QED
    BY <1>1, <1>3, <2>1 DEF ClientOK, Final, ClosedInv
<1>6. ASSUME NEW l \in Listeners, VisitListener(l) PROVE ClientOK' /\ Final
  <2>1. unheard' = unheard \ {l} /\ UNCHANGED listeners
    BY <1>6 DEF VisitListener
  <2>2. CASE MayHear(l)
    <3>1. heard' = [heard EXCEPT ![l] = snapshot] /\ callbacks' = <<l>>
      BY <1>6, <2>2 DEF VisitListener
    <3>2. ~closed /\ l \in listeners
      BY <2>2 DEF MayHear
    <3>3. <<l>> \in Seq(Listeners)
      OBVIOUS
    <3> QED
      BY <1>1, <1>3, <2>1, <3>1, <3>2, <3>3 DEF ClientOK, Final
  <2>3. CASE ~MayHear(l)
    <3>1. UNCHANGED <<heard, callbacks>>
      BY <1>6, <2>3 DEF VisitListener
    <3> QED
      BY <1>1, <1>3, <2>1, <3>1 DEF ClientOK, Final
  <2> QED
    BY <2>2, <2>3
<1>7. ASSUME ListenerReturns PROVE ClientOK' /\ Final
  <2>1. callbacks # <<>> /\ callbacks' = Tail(callbacks)
        /\ listeners' \in {listeners, listeners \ {Head(callbacks)}}
        /\ UNCHANGED <<heard, unheard>>
    BY <1>7 DEF ListenerReturns
  <2>2. callbacks' \in Seq(Listeners)
    BY <1>3, <2>1 DEF ClientOK
  <2>3. listeners' \subseteq listeners
    BY <2>1
  <2> QED
    <3>1. ClientOK'
      BY <1>1, <1>3, <2>1, <2>2, <2>3 DEF ClientOK
    <3>2. closed => listeners' = listeners
      BY <2>3 DEF ClosedInv
    <3>3. Final
      BY <1>1, <2>1, <3>2 DEF Final
    <3> QED
      BY <3>1, <3>3
<1> QED
  BY <1>2, <1>4, <1>5, <1>6, <1>7 DEF Sound

\* Every step of the remote session is one of them.
LEMMA StreamSteps ==
  ASSUME TypeOK, ClosedInv, BoundsInv, Next
  PROVE  Sound
<1>1. ASSUME NEW o \in Observations, Submit(o)
      PROVE  Sound
  BY <1>1, PublishSteps, DelayedRest DEF Submit, Call
<1>2. ASSUME NEW op \in delayed, DelayedArrives(op)
      PROVE  Sound
  <2>1. UNCHANGED <<clientVars, queuedNotifications, calls>> /\ delayed' = delayed \ {op}
    BY <1>2 DEF DelayedArrives
  <2>2. DelayedOK'
    BY <2>1, FS_RemoveElement DEF TypeOK, DelayedOK
  <2>3. \/ server' = server /\ socket' = socket
        \/ server'.revision = server.revision + 1 /\ Publish(server.revision + 1)
    <3>1. CASE op.kind = "reset"
      <4>1. ServerReset
        BY <1>2, <3>1 DEF DelayedArrives
      <4> QED
        BY <4>1, ResetOnServer
    <3>2. CASE op.kind # "reset"
      <4>1. op.kind = "submit"
        BY <3>2 DEF TypeOK, DelayedOK, Operation
      <4>2. op.observation \in Observations /\ ServerSubmit(op.observation)
        BY <1>2, <3>2, <4>1 DEF TypeOK, DelayedOK, DelayedArrives
      <4> QED
        BY <4>2, SubmitOnServer
    <3> QED
      BY <3>1, <3>2
  <2> QED
    BY <2>1, <2>2, <2>3, PublishSteps
<1>3. ASSUME NEW l \in Listeners, Subscribe(l) \/ Unsubscribe(l) PROVE Sound
  BY <1>3, ListenerSteps
<1>11. ASSUME NEW l \in unheard, VisitListener(l) PROVE Sound
  BY <1>11, ListenerSteps DEF TypeOK, ClientOK
<1>12. CASE ListenerReturns
  BY <1>12, ListenerSteps
<1>4. ASSUME NEW i \in DOMAIN operations, Work(i) \/ FetchFails(i)
      PROVE  Sound
  BY <1>4, WorkStreams
<1>5. ASSUME NEW retryable \in BOOLEAN, SocketCloses(retryable)
      PROVE  Sound
  <2>1. UNCHANGED <<server, closed, snapshot, queuedNotifications>>
        /\ UNCHANGED <<delayed, listeners, heard, unheard, callbacks, calls>>
    BY <1>5 DEF SocketCloses, clientVars
  <2>2. ~closed /\ (socket' = NoSocket \/ socket' = Refused)
    BY <1>5, ConnectedIsOpen DEF SocketCloses
  <2>3. Reconnects
    BY <2>1, <2>2 DEF Reconnects
  <2> QED
    BY <2>1, <2>2, <2>3, QuietSteps DEF StreamStep
<1>6. CASE OtherClientSubmits
  BY <1>6, OtherOnServer, PublishSteps, DelayedRest DEF OtherClientSubmits
<1>7. CASE Reset
  BY <1>7, PublishSteps, DelayedRest DEF Reset, Call
<1>8. CASE StreamWork
  BY <1>8, StreamWorks
<1>9. CASE ReconnectFails
  BY <1>9, PublishSteps, DelayedRest DEF ReconnectFails
<1>10. CASE Close
  <2>1. ~closed /\ UNCHANGED <<delayed, heard, unheard, callbacks, calls>> /\ listeners' = {}
        /\ Ends
    BY <1>10 DEF Close, Ends, reconnectVars
  <2>2. ClientOK' /\ DelayedOK'
    BY <2>1, DelayedRest DEF TypeOK, ClientOK
  <2> QED
    BY <2>1, <2>2 DEF Sound, Final, StreamStep
<1> QED
  BY <1>1, <1>2, <1>3, <1>4, <1>5, <1>6, <1>7, <1>8, <1>9, <1>10, <1>11, <1>12
  DEF Next

-----------------------------------------------------------------------------
\* The types, and the invariants of the stream.

\* The chain keeps its types and only its head is started.
LEMMA ChainTypes ==
  ASSUME TypeOK, MutationStep
  PROVE  /\ operations' \in Seq(Operation) /\ HeadInv'
         /\ scheduledResetSequence' \in Nat /\ confirmedResets' \in Nat
<1>1. operations \in Seq(Operation) /\ scheduledResetSequence \in Nat /\ confirmedResets \in Nat
      /\ HeadInv
  BY DEF TypeOK
<1>2. CASE Rests \/ ResetsLate
  BY <1>1, <1>2 DEF Rests, ResetsLate, HeadInv
<1>3. CASE \E op \in Operation : Calls(op)
  <2>1. PICK op \in Operation : Calls(op)
    BY <1>3
  <2>2. operations' = Append(operations, op) /\ op.stage = "queued"
        /\ (op.kind = "submit" => op.observation \in Observations)
    BY <2>1 DEF Calls
  <2>3. HeadInv'
    <3> SUFFICES ASSUME NEW i \in DOMAIN operations'
                 PROVE  /\ operations'[i].kind = "submit" =>
                             operations'[i].observation \in Observations
                        /\ i # 1 => operations'[i].stage = "queued"
      BY DEF HeadInv
    <3>1. CASE i \in DOMAIN operations
      <4>1. operations'[i] = operations[i]
        BY <1>1, <2>2, <3>1
      <4> QED
        BY <1>1, <3>1, <4>1 DEF HeadInv
    <3>2. CASE i \notin DOMAIN operations
      <4>1. operations'[i] = op
        BY <1>1, <2>2, <3>2
      <4> QED
        BY <2>2, <4>1
    <3> QED
      BY <3>1, <3>2
  <2>4. op.sequence \in Nat
    BY DEF Operation
  <2> QED
    BY <1>1, <2>1, <2>2, <2>3, <2>4 DEF Calls
<1>4. CASE Settles
  <2>1. operations # <<>> /\ operations' = Tail(operations)
    BY <1>4 DEF Settles
  <2>2. \A i \in DOMAIN operations' : i + 1 \in DOMAIN operations
                                     /\ operations'[i] = operations[i + 1]
    BY <1>1, <2>1
  <2>3. HeadInv'
    BY <1>1, <2>1, <2>2 DEF HeadInv
  <2> QED
    BY <1>1, <1>4, <2>1, <2>3 DEF Settles
<1>5. CASE \E stage, response : Progresses(stage, response)
  <2>1. PICK stage, response : Progresses(stage, response)
    BY <1>5
  <2>2. Restaged(operations, operations', stage, response)
    BY <2>1 DEF Progresses
  <2>3. operations' \in Seq(Operation) /\ DOMAIN operations' = DOMAIN operations
    BY <1>1, <2>2 DEF Restaged
  <2>4. HeadInv'
    BY <1>1, <2>2, <2>3 DEF Restaged, HeadInv
  <2> QED
    BY <1>1, <2>1, <2>3, <2>4 DEF Progresses
<1>6. CASE Confirms
  <2>1. Restaged(operations, operations', "notified", operations[1].response)
        /\ UNCHANGED scheduledResetSequence
        /\ confirmedResets' \in {confirmedResets, confirmedResets + 1}
    BY <1>6 DEF Confirms
  <2>2. operations' \in Seq(Operation) /\ DOMAIN operations' = DOMAIN operations
    BY <1>1, <2>1 DEF Restaged
  <2>3. HeadInv'
    BY <1>1, <2>1, <2>2 DEF Restaged, HeadInv
  <2> QED
    BY <1>1, <2>1, <2>2, <2>3
<1> QED
  BY <1>2, <1>3, <1>4, <1>5, <1>6 DEF MutationStep

\* A socket is of its type.
LEMMA SocketTypes ==
  /\ NoSocket \in Socket /\ Refused \in Socket
  /\ \A revision \in Nat : OpenSocket(revision) \in Socket
  /\ \A s \in Socket : [s EXCEPT !.state = "open"] \in Socket
  /\ \A s \in Socket, inbox \in Seq(Nat) : [s EXCEPT !.inbox = inbox] \in Socket
  /\ \A s \in Socket, inbox \in Seq(Nat) :
       [s EXCEPT !.subscribed = TRUE, !.inbox = inbox] \in Socket
<1>1. <<>> \in Seq(Nat)
  OBVIOUS
<1>2. NoSocket \in Socket /\ Refused \in Socket
  BY <1>1 DEF Socket, NoSocket, Refused
<1>3. \A revision \in Nat : OpenSocket(revision) \in Socket
  BY <1>1 DEF Socket, OpenSocket
<1>4. \A s \in Socket : [s EXCEPT !.state = "open"] \in Socket
  BY DEF Socket
<1>5. \A s \in Socket, inbox \in Seq(Nat) : [s EXCEPT !.inbox = inbox] \in Socket
  BY DEF Socket
<1>6. \A s \in Socket, inbox \in Seq(Nat) :
        [s EXCEPT !.subscribed = TRUE, !.inbox = inbox] \in Socket
  <2> TAKE s \in Socket, inbox \in Seq(Nat)
  <2> DEFINE s1 == [s EXCEPT !.subscribed = TRUE]
  <2>1. s1 \in Socket
    BY DEF Socket
  <2> HIDE DEF s1
  <2>2. [s1 EXCEPT !.inbox = inbox] \in Socket
    BY <2>1, <1>5
  <2>3. [s EXCEPT !.subscribed = TRUE, !.inbox = inbox] = [s1 EXCEPT !.inbox = inbox]
    BY DEF s1, Socket
  <2> QED
    BY <2>2, <2>3
<1> QED
  BY <1>2, <1>3, <1>4, <1>5, <1>6

\* The socket keeps its type, and the snapshot and the queue theirs.
LEMMA StreamTypes ==
  ASSUME TypeOK, BoundsInv, StreamStep
  PROVE  /\ socket' \in Socket /\ queuedNotifications' \in Seq(Nat)
         /\ snapshot' \in Nat /\ closed' \in BOOLEAN
<1>1. /\ socket \in Socket /\ queuedNotifications \in Seq(Nat) /\ snapshot \in Nat
      /\ closed \in BOOLEAN /\ server.revision \in Nat
      /\ socket.inbox \in Seq(Nat) /\ socket.since \in Nat /\ socket.since <= server.revision
  BY DEF TypeOK, Server, Socket, BoundsInv
<1>2. CASE Idles
  BY <1>1, <1>2 DEF Idles
<1>3. ASSUME NEW revision, Shows(revision)
      PROVE  /\ socket' \in Socket /\ queuedNotifications' \in Seq(Nat)
             /\ snapshot' \in Nat /\ closed' \in BOOLEAN
  <2>1. socket' \in Socket /\ closed' \in BOOLEAN /\ snapshot' \in Nat
    BY <1>1, <1>3 DEF Shows
  <2>2. queuedNotifications' = queuedNotifications
        \/ (queuedNotifications # <<>> /\ queuedNotifications' = Tail(queuedNotifications))
    BY <1>3 DEF Shows
  <2>3. queuedNotifications' \in Seq(Nat)
    BY <1>1, <2>2, TailShifts
  <2> QED
    BY <2>1, <2>3
<1>4. CASE Publishes
  <2>1. Append(socket.inbox, server.revision + 1) \in Seq(Nat)
    BY <1>1
  <2>2. [socket EXCEPT !.inbox = Append(@, server.revision + 1)] \in Socket
    BY <1>1, <2>1, SocketTypes
  <2>3. socket' \in Socket
    BY <1>1, <1>4, <2>2 DEF Publishes, Publish
  <2> QED
    BY <1>1, <1>4, <2>3 DEF Publishes
<1>5. CASE Reconnects
  <2>1. Replay(socket.since) \in Seq(Nat)
    BY <1>1, ReplayBounds
  <2>2. socket' \in Socket
    BY <1>1, <1>5, <2>1, SocketTypes DEF Reconnects
  <2> QED
    BY <1>1, <1>5, <2>2 DEF Reconnects
<1>6. CASE Receives
  <2>1. Tail(socket.inbox) \in Seq(Nat) /\ Head(socket.inbox) \in Nat
    BY <1>1, <1>6 DEF Receives
  <2>2. [socket EXCEPT !.inbox = Tail(@)] \in Socket
    BY <1>1, <2>1, SocketTypes
  <2>3. queuedNotifications' \in Seq(Nat)
    BY <1>1, <1>6, <2>1 DEF Receives
  <2> QED
    BY <1>1, <1>6, <2>2, <2>3 DEF Receives
<1>7. CASE Ends
  <2>1. socket' = NoSocket /\ queuedNotifications' = <<>> /\ UNCHANGED snapshot /\ closed' = TRUE
    BY <1>7 DEF Ends
  <2>2. <<>> \in Seq(Nat)
    OBVIOUS
  <2> QED
    BY <1>1, <2>1, <2>2, SocketTypes
<1> QED
  BY <1>2, <1>3, <1>4, <1>5, <1>6, <1>7 DEF StreamStep

\* What the client holds stays published.
LEMMA StreamBounds ==
  ASSUME TypeOK, BoundsInv, StreamStep
  PROVE  /\ snapshot' <= server'.revision /\ snapshot <= snapshot'
         /\ server.revision <= server'.revision
         /\ \A k \in DOMAIN queuedNotifications' : queuedNotifications'[k] <= server'.revision
         /\ \A k \in DOMAIN socket'.inbox : socket'.inbox[k] <= server'.revision
         /\ socket'.since <= snapshot'
<1> DEFINE Goal == /\ snapshot' <= server'.revision /\ snapshot <= snapshot'
                   /\ server.revision <= server'.revision
                   /\ \A k \in DOMAIN queuedNotifications' :
                        queuedNotifications'[k] <= server'.revision
                   /\ \A k \in DOMAIN socket'.inbox : socket'.inbox[k] <= server'.revision
                   /\ socket'.since <= snapshot'
<1>1. /\ socket \in Socket /\ queuedNotifications \in Seq(Nat) /\ snapshot \in Nat
      /\ server.revision \in Nat /\ socket.inbox \in Seq(Nat) /\ socket.since \in Nat
  BY DEF TypeOK, Server, Socket
<1>2. /\ snapshot <= server.revision /\ socket.since <= snapshot
      /\ \A k \in DOMAIN queuedNotifications : queuedNotifications[k] <= server.revision
      /\ \A k \in DOMAIN socket.inbox : socket.inbox[k] <= server.revision
  BY DEF BoundsInv
<1>3. CASE Idles
  BY <1>1, <1>2, <1>3 DEF Idles
<1>4. ASSUME NEW revision, Shows(revision)
      PROVE  Goal
  <2>1. UNCHANGED <<server, socket>> /\ revision \in Nat /\ revision <= server.revision
    BY <1>4 DEF Shows
  <2>2. snapshot' <= server.revision /\ snapshot <= snapshot'
    BY <1>1, <1>2, <1>4 DEF Shows, Newer
  <2>3. \A k \in DOMAIN queuedNotifications' : queuedNotifications'[k] <= server.revision
    <3>1. CASE UNCHANGED queuedNotifications
      BY <1>2, <3>1
    <3>2. CASE queuedNotifications # <<>> /\ queuedNotifications' = Tail(queuedNotifications)
      <4>1. \A k \in DOMAIN queuedNotifications' :
              /\ k + 1 \in DOMAIN queuedNotifications
              /\ queuedNotifications'[k] = queuedNotifications[k + 1]
        BY <1>1, <3>2
      <4> QED
        BY <1>2, <4>1
    <3> QED
      BY <1>4, <3>1, <3>2 DEF Shows
  <2>4. socket'.since <= snapshot'
    BY <1>1, <1>2, <1>4, <2>1 DEF Shows, Newer
  <2> QED
    BY <1>1, <1>2, <2>1, <2>2, <2>3, <2>4
<1>5. CASE Publishes
  <2>1. server'.revision = server.revision + 1 /\ UNCHANGED <<snapshot, queuedNotifications>>
    BY <1>5 DEF Publishes
  <2>2. socket'.since = socket.since
        /\ (socket'.inbox = socket.inbox
            \/ socket'.inbox = Append(socket.inbox, server.revision + 1))
    BY <1>1, <1>5 DEF Publishes, Publish, Socket
  <2>3. \A k \in DOMAIN socket'.inbox : socket'.inbox[k] <= server'.revision
    <3>1. \A k \in DOMAIN socket.inbox :
            socket.inbox[k] \in Nat /\ socket.inbox[k] <= server.revision + 1
      BY <1>1, <1>2
    <3>2. CASE socket'.inbox = socket.inbox
      BY <2>1, <3>1, <3>2
    <3>3. CASE socket'.inbox = Append(socket.inbox, server.revision + 1)
      <4>1. \A k \in DOMAIN socket'.inbox :
              \/ k \in DOMAIN socket.inbox /\ socket'.inbox[k] = socket.inbox[k]
              \/ socket'.inbox[k] = server.revision + 1
        BY <1>1, <3>3
      <4> QED
        BY <1>1, <2>1, <3>1, <4>1
    <3> QED
      BY <2>2, <3>2, <3>3
  <2>4. \A k \in DOMAIN queuedNotifications' : queuedNotifications'[k] <= server'.revision
    BY <1>1, <1>2, <2>1
  <2> QED
    BY <1>1, <1>2, <2>1, <2>2, <2>3, <2>4
<1>6. CASE Reconnects
  <2>1. UNCHANGED <<server, snapshot, queuedNotifications>>
    BY <1>6 DEF Reconnects
  <2>2. \A k \in DOMAIN Replay(socket.since) : Replay(socket.since)[k] <= server.revision
    <3>1. socket.since <= server.revision
      BY <1>1, <1>2
    <3> QED
      BY <1>1, <3>1, ReplayBounds
  <2> DEFINE Box == \/ socket'.inbox = socket.inbox \/ socket'.inbox = <<>>
                    \/ socket'.inbox = Replay(socket.since)
             Since == socket'.since = socket.since \/ socket'.since = 0
                      \/ socket'.since = snapshot
  <2>3. Box /\ Since
    <3>1. CASE socket' = [socket EXCEPT !.state = "open"]
      BY <1>1, <3>1 DEF Socket
    <3>2. CASE socket' = NoSocket \/ socket' = Refused \/ socket' = OpenSocket(snapshot)
      BY <3>2 DEF NoSocket, Refused, OpenSocket
    <3>3. CASE socket' = [socket EXCEPT !.subscribed = TRUE, !.inbox = Replay(socket.since)]
      <4>1. socket'.inbox = Replay(socket.since)
        BY <1>1, <3>3 DEF Socket
      <4>2. socket'.since = socket.since
        BY <1>1, <3>3 DEF Socket
      <4> QED
        BY <4>1, <4>2
    <3> QED
      BY <1>6, <3>1, <3>2, <3>3 DEF Reconnects
  <2>5. \A k \in DOMAIN socket'.inbox : socket'.inbox[k] <= server.revision
    BY <1>2, <2>2, <2>3
  <2> QED
    BY <1>1, <1>2, <2>1, <2>3, <2>5
<1>7. CASE Receives
  <2>1. UNCHANGED <<server, snapshot>> /\ socket.inbox # <<>>
    BY <1>7 DEF Receives
  <2>2. socket'.since = socket.since /\ socket'.inbox = Tail(socket.inbox)
    BY <1>1, <1>7 DEF Receives, Socket
  <2>3. \A k \in DOMAIN socket'.inbox : socket'.inbox[k] <= server.revision
    BY <1>1, <1>2, <2>1, <2>2
  <2>4. Head(socket.inbox) \in Nat /\ Head(socket.inbox) <= server.revision
    BY <1>1, <1>2, <2>1
  <2>5. \A k \in DOMAIN queuedNotifications' : queuedNotifications'[k] <= server.revision
    BY <1>1, <1>2, <1>7, <2>4 DEF Receives
  <2> QED
    BY <1>1, <1>2, <2>1, <2>2, <2>3, <2>5
<1>8. CASE Ends
  <2>1. UNCHANGED <<server, snapshot>> /\ queuedNotifications' = <<>>
        /\ socket'.inbox = <<>> /\ socket'.since = 0
    BY <1>8 DEF Ends, NoSocket
  <2> QED
    BY <1>1, <1>2, <2>1
<1> QED
  BY <1>3, <1>4, <1>5, <1>6, <1>7, <1>8 DEF StreamStep

\* A response, once there, stays published.
LEMMA ResponseBounds ==
  ASSUME TypeOK, BoundsInv, MutationStep, server.revision <= server'.revision,
         server' \in Server
  PROVE  \A i \in DOMAIN operations' :
           operations'[i].response # None => operations'[i].response <= server'.revision
<1> SUFFICES ASSUME NEW i \in DOMAIN operations', operations'[i].response # None
             PROVE  operations'[i].response <= server'.revision
  OBVIOUS
<1>1. operations \in Seq(Operation) /\ server.revision \in Nat /\ server'.revision \in Nat
  BY DEF TypeOK, Server
<1>2. \A j \in DOMAIN operations :
        operations[j].response # None =>
          operations[j].response \in Nat /\ operations[j].response <= server'.revision
  <2> TAKE j \in DOMAIN operations
  <2> HAVE operations[j].response # None
  <2>1. operations[j] \in Operation
    BY <1>1
  <2>2. operations[j].response \in Nat
    BY <2>1 DEF Operation
  <2>3. operations[j].response <= server.revision
    BY DEF BoundsInv
  <2> QED
    BY <1>1, <2>2, <2>3
<1>3. CASE Rests \/ ResetsLate
  BY <1>2, <1>3 DEF Rests, ResetsLate
<1>4. CASE \E op \in Operation : Calls(op)
  <2>1. PICK op \in Operation : Calls(op)
    BY <1>4
  <2>2. operations' = Append(operations, op) /\ op.response = None
    BY <2>1 DEF Calls
  <2>3. i \in DOMAIN operations /\ operations'[i] = operations[i]
    BY <1>1, <2>2
  <2> QED
    BY <1>2, <2>3
<1>5. CASE Settles
  <2>1. operations # <<>> /\ operations' = Tail(operations)
    BY <1>5 DEF Settles
  <2>2. i + 1 \in DOMAIN operations /\ operations'[i] = operations[i + 1]
    BY <1>1, <2>1
  <2> QED
    BY <1>2, <2>2
<1>6. CASE \E stage, response : Progresses(stage, response)
  <2>1. PICK stage, response : Progresses(stage, response)
    BY <1>6
  <2>2. Restaged(operations, operations', stage, response)
        /\ Handles(operations[1], stage, response)
    BY <2>1 DEF Progresses
  <2>3. DOMAIN operations' = DOMAIN operations /\ 1 \in DOMAIN operations
        /\ (i # 1 => operations'[i] = operations[i]) /\ operations'[1].response = response
    BY <1>1, <2>2 DEF Restaged
  <2>4. response # None => response = server'.revision \/ response = operations[1].response
    BY <2>2 DEF Handles
  <2>5. CASE i = 1
    BY <1>1, <1>2, <2>3, <2>4, <2>5
  <2>6. CASE i # 1
    BY <1>2, <2>3, <2>6
  <2> QED
    BY <2>5, <2>6
<1>7. CASE Confirms
  <2>1. Restaged(operations, operations', "notified", operations[1].response)
    BY <1>7 DEF Confirms
  <2>2. DOMAIN operations' = DOMAIN operations /\ 1 \in DOMAIN operations
        /\ (i # 1 => operations'[i] = operations[i])
        /\ operations'[1].response = operations[1].response
    BY <1>1, <2>1 DEF Restaged
  <2> QED
    BY <1>2, <2>2
<1> QED
  BY <1>3, <1>4, <1>5, <1>6, <1>7 DEF MutationStep

\* The newest snapshot stays on its way until it is shown.
LEMMA FlowKept ==
  ASSUME TypeOK, BoundsInv, FlowInv, StreamStep
  PROVE  FlowInv'
<1> SUFFICES ASSUME socket'.subscribed
             PROVE  /\ ~closed'
                    /\ \/ snapshot' = server'.revision
                       \/ \E k \in DOMAIN socket'.inbox :
                            socket'.inbox[k] = server'.revision
                       \/ \E k \in DOMAIN queuedNotifications' :
                            queuedNotifications'[k] = server'.revision
  BY DEF FlowInv
<1> DEFINE r == server.revision
           Shown == snapshot' = server'.revision
           InBox == \E k \in DOMAIN socket'.inbox : socket'.inbox[k] = server'.revision
           InQueue == \E k \in DOMAIN queuedNotifications' :
                        queuedNotifications'[k] = server'.revision
<1>1. /\ socket \in Socket /\ queuedNotifications \in Seq(Nat) /\ snapshot \in Nat
      /\ r \in Nat /\ socket.inbox \in Seq(Nat) /\ socket.since \in Nat
      /\ snapshot <= r /\ socket.since <= snapshot
  BY DEF TypeOK, Server, Socket, BoundsInv
<1>2. CASE Idles
  BY <1>2 DEF Idles, FlowInv
<1>3. ASSUME NEW revision, Shows(revision)
      PROVE  ~closed' /\ (Shown \/ InBox \/ InQueue)
  <2>1. UNCHANGED <<server, socket, closed>> /\ revision \in Nat /\ revision <= r
    BY <1>3 DEF Shows
  <2>2. ~closed /\ (\/ snapshot = r
                    \/ \E k \in DOMAIN socket.inbox : socket.inbox[k] = r
                    \/ \E k \in DOMAIN queuedNotifications : queuedNotifications[k] = r)
    BY <2>1 DEF FlowInv
  <2>3. snapshot = r => Shown
    BY <1>1, <1>3, <2>1 DEF Shows, Newer
  <2>4. ASSUME NEW k \in DOMAIN queuedNotifications, queuedNotifications[k] = r
        PROVE  Shown \/ InQueue
    <3>1. CASE UNCHANGED queuedNotifications
      BY <2>1, <2>4, <3>1
    <3>2. CASE queuedNotifications # <<>> /\ revision = Head(queuedNotifications)
               /\ queuedNotifications' = Tail(queuedNotifications)
      <4>1. CASE k = 1
        <5>1. revision = r
          BY <1>1, <2>4, <3>2, <4>1
        <5> QED
          BY <1>1, <1>3, <2>1, <2>2, <5>1 DEF Shows, Newer
      <4>2. CASE k # 1
        <5>1. k - 1 \in DOMAIN queuedNotifications'
              /\ queuedNotifications'[k - 1] = queuedNotifications[k]
          BY <1>1, <2>4, <3>2, <4>2
        <5> QED
          BY <2>1, <2>4, <5>1
      <4> QED
        BY <4>1, <4>2
    <3> QED
      BY <1>3, <3>1, <3>2 DEF Shows
  <2> QED
    BY <2>1, <2>2, <2>3, <2>4
<1>4. CASE Publishes
  <2>1. server'.revision = r + 1 /\ UNCHANGED closed
    BY <1>4 DEF Publishes
  <2>2. socket.subscribed
    BY <1>1, <1>4 DEF Publishes, Publish
  <2>3. socket'.inbox = Append(socket.inbox, r + 1)
    BY <1>1, <1>4, <2>2 DEF Publishes, Publish, Socket
  <2>4. Len(socket.inbox) + 1 \in DOMAIN socket'.inbox
        /\ socket'.inbox[Len(socket.inbox) + 1] = r + 1
    BY <1>1, <2>3
  <2> QED
    BY <2>1, <2>2, <2>4 DEF FlowInv
<1>5. CASE Reconnects
  <2>1. UNCHANGED <<server, snapshot, closed, queuedNotifications>> /\ ~closed
    BY <1>5 DEF Reconnects
  <2>2. CASE socket' = [socket EXCEPT !.state = "open"]
    <3>1. socket'.subscribed = socket.subscribed /\ socket'.inbox = socket.inbox
      BY <1>1, <2>2 DEF Socket
    <3> QED
      BY <2>1, <3>1 DEF FlowInv
  <2>3. CASE socket' = NoSocket \/ socket' = Refused \/ socket' = OpenSocket(snapshot)
    BY <2>3 DEF NoSocket, Refused, OpenSocket
  <2>4. CASE socket' = [socket EXCEPT !.subscribed = TRUE, !.inbox = Replay(socket.since)]
    <3>1. socket'.inbox = Replay(socket.since)
      BY <1>1, <2>4 DEF Socket
    <3>2. socket.since = r
          \/ \E k \in DOMAIN Replay(socket.since) : Replay(socket.since)[k] = r
      BY <1>1, ReplayBounds
    <3>3. CASE socket.since = r
      BY <1>1, <2>1, <3>3
    <3>4. CASE \E k \in DOMAIN Replay(socket.since) : Replay(socket.since)[k] = r
      BY <2>1, <3>1, <3>4
    <3> QED
      BY <3>2, <3>3, <3>4
  <2> QED
    BY <1>5, <2>2, <2>3, <2>4 DEF Reconnects
<1>6. CASE Receives
  <2>1. UNCHANGED <<server, snapshot, closed>> /\ ~closed /\ socket.inbox # <<>>
        /\ queuedNotifications' = IF Newer(Head(socket.inbox))
                                  THEN Append(queuedNotifications, Head(socket.inbox))
                                  ELSE queuedNotifications
    BY <1>6 DEF Receives
  <2>2. socket'.subscribed = socket.subscribed /\ socket'.inbox = Tail(socket.inbox)
    BY <1>1, <1>6 DEF Receives, Socket
  <2>3. \/ snapshot = r
        \/ \E k \in DOMAIN socket.inbox : socket.inbox[k] = r
        \/ \E k \in DOMAIN queuedNotifications : queuedNotifications[k] = r
    BY <2>2 DEF FlowInv
  <2>4. ASSUME NEW k \in DOMAIN queuedNotifications, queuedNotifications[k] = r
        PROVE  InQueue
    <3>1. k \in DOMAIN queuedNotifications' /\ queuedNotifications'[k] = r
      BY <1>1, <2>1, <2>4
    <3> QED
      BY <2>1, <3>1
  <2>5. ASSUME NEW k \in DOMAIN socket.inbox, socket.inbox[k] = r
        PROVE  Shown \/ InBox \/ InQueue
    <3>1. CASE k = 1
      <4>1. Head(socket.inbox) = r
        BY <1>1, <2>5, <3>1
      <4>2. CASE snapshot = r
        BY <2>1, <4>2
      <4>3. CASE snapshot # r
        <5>1. queuedNotifications' = Append(queuedNotifications, r)
          BY <1>1, <2>1, <4>1, <4>3 DEF Newer
        <5>2. Len(queuedNotifications) + 1 \in DOMAIN queuedNotifications'
              /\ queuedNotifications'[Len(queuedNotifications) + 1] = r
          BY <1>1, <5>1
        <5> QED
          BY <2>1, <5>2
      <4> QED
        BY <4>2, <4>3
    <3>2. CASE k # 1
      <4>1. k - 1 \in DOMAIN socket'.inbox /\ socket'.inbox[k - 1] = r
        BY <1>1, <2>1, <2>2, <2>5, <3>2, TailShifts
      <4> QED
        BY <2>1, <4>1
    <3> QED
      BY <3>1, <3>2
  <2> QED
    BY <2>1, <2>3, <2>4, <2>5
<1>7. CASE Ends
  BY <1>7 DEF Ends, NoSocket
<1> QED
  BY <1>2, <1>3, <1>4, <1>5, <1>6, <1>7 DEF StreamStep

\* What holds of the types and of the stream.
StreamInv == TypeOK /\ ClosedInv /\ BoundsInv /\ FlowInv

\* The session createRemoteSession returns satisfies it.
LEMMA StreamInit == Init => StreamInv
<1> SUFFICES ASSUME Init PROVE StreamInv
  OBVIOUS
<1>1. server \in Server /\ server.revision = 0
  BY DEF Init, Server
<1>2. socket \in Socket /\ socket.inbox = <<>> /\ socket.since = 0 /\ ~socket.subscribed
  <2>1. socket = OpenSocket(0) \/ socket = NoSocket
    BY DEF Init
  <2>2. socket \in Socket
    BY <2>1, SocketTypes
  <2> QED
    BY <2>1, <2>2 DEF OpenSocket, NoSocket
<1>3. operations = <<>> /\ queuedNotifications = <<>> /\ snapshot = 0 /\ closed = FALSE
  BY DEF Init
<1>4. TypeOK
  <2>1. operations \in Seq(Operation) /\ queuedNotifications \in Seq(Nat) /\ HeadInv
    BY <1>3 DEF HeadInv
  <2>2. scheduledResetSequence \in Nat /\ confirmedResets \in Nat
    BY DEF Init
  <2>3. DelayedOK
    BY FS_EmptySet DEF Init, DelayedOK
  <2>4. ClientOK
    BY DEF Init, ClientOK
  <2> QED
    BY <1>1, <1>2, <1>3, <2>1, <2>2, <2>3, <2>4 DEF TypeOK
<1>5. BoundsInv
  BY <1>1, <1>2, <1>3 DEF BoundsInv
<1>6. ClosedInv /\ FlowInv
  BY <1>2, <1>3 DEF ClosedInv, FlowInv
<1> QED
  BY <1>4, <1>5, <1>6 DEF StreamInv

\* Every step preserves it, and is a step of the mutations and of the stream.
LEMMA StreamNext ==
  ASSUME StreamInv, Next
  PROVE  StreamInv' /\ MutationStep /\ Sound
<1>1. TypeOK /\ ClosedInv /\ BoundsInv /\ FlowInv
  BY DEF StreamInv
<1>2. MutationStep /\ server' \in Server
  BY <1>1, MutationSteps
<1>3. Sound
  BY <1>1, StreamSteps
<1>4. StreamStep /\ Final /\ DelayedOK' /\ ClientOK'
  BY <1>3 DEF Sound
<1>5. TypeOK'
  BY <1>1, <1>2, <1>4, ChainTypes, StreamTypes DEF TypeOK
<1>6. ClosedInv'
  <2>1. CASE closed
    BY <1>1, <1>4, <2>1 DEF Final, ClosedInv
  <2>2. CASE ~closed
    BY <1>4, <2>2 DEF StreamStep, Idles, Shows, Publishes, Reconnects, Receives, Ends, ClosedInv
  <2> QED
    BY <2>1, <2>2
<1>7. BoundsInv'
  <2>1. \A i \in DOMAIN operations' :
          operations'[i].response # None => operations'[i].response <= server'.revision
    BY <1>1, <1>2, <1>4, StreamBounds, ResponseBounds
  <2> QED
    BY <1>1, <1>4, <2>1, StreamBounds DEF BoundsInv
<1>8. FlowInv'
  BY <1>1, <1>4, FlowKept
<1> QED
  BY <1>2, <1>3, <1>5, <1>6, <1>7, <1>8 DEF StreamInv

\* A step that changes nothing preserves it.
LEMMA StreamStutters == ASSUME StreamInv, UNCHANGED vars PROVE StreamInv'
<1>1. UNCHANGED <<server, delayed, closed, snapshot, operations,
                  scheduledResetSequence, confirmedResets, socket, queuedNotifications>>
      /\ UNCHANGED <<listeners, heard, unheard, callbacks, calls>>
  BY DEF vars, clientVars, mutationVars
<1>3. DelayedOK' /\ ClientOK' /\ HeadInv'
  BY <1>1 DEF StreamInv, TypeOK, DelayedOK, ClientOK, HeadInv
<1>4. TypeOK'
  BY <1>1, <1>3 DEF StreamInv, TypeOK
<1>2. TypeOK' /\ ClosedInv' /\ BoundsInv' /\ FlowInv'
  BY <1>1, <1>4 DEF StreamInv, ClosedInv, BoundsInv, FlowInv
<1> QED
  BY <1>2 DEF StreamInv

\* The types, what the client holds and what is on its way to it
\* (createRemoteSession, notify, enqueue, openSocket, close).
THEOREM Typing == Spec => []StreamInv
<1>1. StreamInv /\ [Next]_vars => StreamInv'
  BY StreamNext, StreamStutters
<1> QED
  BY <1>1, StreamInit, PTL DEF Spec

\* A stream that has nothing under way has given the client the server's newest
\* snapshot, whatever was lost with earlier sockets and whatever responses
\* delivered first (openSocket, enqueue, notify).
THEOREM StreamCatchesUp == Spec => []StreamIsCurrent
<1>1. StreamInv => StreamIsCurrent
  BY DEF StreamInv, FlowInv, StreamIsCurrent
<1> QED
  BY <1>1, Typing, PTL

\* After close no step moves the snapshot, calls a listener or opens a socket, and
\* no listener is called that is not subscribed, although listeners may close the
\* session or unsubscribe one another while notify goes through them (close,
\* subscribe, and the guards of notify, enqueue and scheduleReconnect).
THEOREM CloseEndsSession == Spec => CloseIsFinal
<1>1. StreamInv /\ [Next]_vars =>
        [/\ closed => UNCHANGED <<closed, snapshot, listeners, heard, socket>>
         /\ \A l \in Listeners : heard'[l] # heard[l] => l \in listeners']_vars
  BY StreamNext DEF Sound, Final
<1> QED
  BY <1>1, Typing, PTL DEF Spec, CloseIsFinal

\* The client shows a feed: published snapshots, ever newer ones, and none after
\* close (notify, enqueue, request).
THEOREM RemoteSessionImplementsFeed == Spec => ImplementsFeed
<1>1. Init => Feed!Init
  BY DEF Init, Feed!Init
<1>2. StreamInv /\ [Next]_vars => [Feed!Next]_(Feed!feedVars)
  <2> SUFFICES ASSUME StreamInv, [Next]_vars
               PROVE  [Feed!Next]_(Feed!feedVars)
    OBVIOUS
  <2>1. CASE UNCHANGED vars
    BY <2>1 DEF vars, clientVars, Feed!feedVars
  <2>2. CASE Next
    <3>1. StreamStep /\ StreamInv'
      BY <2>2, StreamNext DEF Sound
    <3>2. snapshot \in Nat /\ server.revision \in Nat /\ closed \in BOOLEAN
          /\ snapshot' \in Nat /\ closed' \in BOOLEAN
          /\ snapshot' <= server'.revision
      BY <3>1 DEF StreamInv, TypeOK, BoundsInv, Server
    <3>3. CASE Idles \/ Reconnects \/ Receives
      BY <3>3 DEF Idles, Reconnects, Receives, Feed!feedVars
    <3>4. CASE Publishes
      BY <3>4 DEF Publishes, Feed!Next, Feed!Publish
    <3>5. CASE Ends
      BY <3>5 DEF Ends, Feed!Next, Feed!End
    <3>6. ASSUME NEW revision, Shows(revision)
          PROVE  [Feed!Next]_(Feed!feedVars)
      <4>1. UNCHANGED <<server, closed>> /\ revision \in Nat /\ revision <= server.revision
            /\ snapshot' = IF Newer(revision) THEN revision ELSE snapshot
        BY <3>6 DEF Shows
      <4>2. CASE Newer(revision)
        <5>1. ~closed /\ revision \in snapshot + 1 .. server.revision
          BY <3>2, <4>1, <4>2 DEF Newer
        <5>2. Feed!Deliver
          BY <3>2, <4>1, <4>2, <5>1 DEF Feed!Deliver
        <5> QED
          BY <5>2 DEF Feed!Next
      <4>3. CASE ~Newer(revision)
        BY <4>1, <4>3 DEF Feed!feedVars
      <4> QED
        BY <4>2, <4>3
    <3> QED
      BY <3>1, <3>3, <3>4, <3>5, <3>6 DEF StreamStep
  <2> QED
    BY <2>1, <2>2
<1> QED
  BY <1>1, <1>2, Typing, PTL DEF Spec, ImplementsFeed, Feed!Spec

-----------------------------------------------------------------------------
\* The invariants of the mutations.

\* A call leaves the head in place, or becomes it.
LEMMA CalledHead ==
  ASSUME TypeOK, NEW op \in Operation, Calls(op)
  PROVE  \/ operations'[1].stage = "queued"
         \/ operations # <<>> /\ operations'[1] = operations[1]
<1>1. operations \in Seq(Operation)
  BY DEF TypeOK
<1>2. operations' = Append(operations, op) /\ op.stage = "queued"
  BY DEF Calls
<1>3. CASE operations = <<>>
  BY <1>1, <1>2, <1>3
<1>4. CASE operations # <<>>
  BY <1>1, <1>2, <1>4
<1> QED
  BY <1>3, <1>4

\* What moves up has not been started.
LEMMA MovedHead ==
  ASSUME TypeOK, Settles, operations' # <<>>
  PROVE  operations'[1].stage = "queued"
<1>1. operations \in Seq(Operation) /\ HeadInv
  BY DEF TypeOK
<1>2. operations # <<>> /\ operations' = Tail(operations)
  BY DEF Settles
<1>3. 2 \in DOMAIN operations /\ operations'[1] = operations[2]
  BY <1>1, <1>2
<1> QED
  BY <1>1, <1>3 DEF HeadInv

\* The first operation moves on in its place.
LEMMA RestagedHead ==
  ASSUME TypeOK, NEW stage, NEW response, Restaged(operations, operations', stage, response)
  PROVE  /\ operations # <<>>
         /\ operations'[1].stage = stage /\ operations'[1].response = response
         /\ operations'[1].kind = operations[1].kind
         /\ operations'[1].observation = operations[1].observation
BY DEF TypeOK, Restaged

\* Every reset on the server is confirmed at most once.
LEMMA ConfirmKept ==
  ASSUME TypeOK, ConfirmInv, MutationStep, server' \in Server
  PROVE  ConfirmInv'
<1>1. /\ operations \in Seq(Operation) /\ confirmedResets \in Nat /\ server.resets \in Nat
      /\ server'.resets \in Nat /\ confirmedResets <= server.resets
      /\ (operations # <<>> =>
           (Handled(operations[1], "reset") => confirmedResets + 1 <= server.resets))
  BY DEF TypeOK, Server, ConfirmInv
<1>2. CASE Rests \/ ResetsLate
  <2>1. UNCHANGED <<operations, confirmedResets>>
        /\ server'.resets \in {server.resets, server.resets + 1}
    BY <1>2 DEF Rests, ResetsLate
  <2> QED
    BY <1>1, <2>1 DEF ConfirmInv, Handled
<1>3. CASE \E op \in Operation : Calls(op)
  <2>1. UNCHANGED <<server, confirmedResets>>
    BY <1>3 DEF Calls
  <2>2. \/ operations'[1].stage = "queued"
        \/ operations # <<>> /\ operations'[1] = operations[1]
    BY <1>3, CalledHead
  <2> QED
    BY <1>1, <2>1, <2>2 DEF ConfirmInv, Handled
<1>4. CASE Settles
  <2>1. UNCHANGED <<server, confirmedResets>>
    BY <1>4 DEF Settles
  <2>2. operations' # <<>> => operations'[1].stage = "queued"
    BY <1>4, MovedHead
  <2> QED
    BY <1>1, <2>1, <2>2 DEF ConfirmInv, Handled
<1>5. CASE Confirms
  <2> DEFINE op == operations[1]
  <2>1. /\ op.stage = "handled" /\ operations # <<>> /\ UNCHANGED server
        /\ Restaged(operations, operations', "notified", op.response)
        /\ \/ UNCHANGED confirmedResets
           \/ op.kind = "reset" /\ confirmedResets' = confirmedResets + 1
    BY <1>5 DEF Confirms
  <2>2. operations'[1].stage = "notified"
    BY <2>1, RestagedHead
  <2>3. confirmedResets' <= server.resets
    BY <1>1, <2>1 DEF Handled
  <2> QED
    BY <2>1, <2>2, <2>3 DEF ConfirmInv, Handled
<1>6. CASE \E stage, response : Progresses(stage, response)
  <2>1. PICK stage, response : Progresses(stage, response)
    BY <1>6
  <2>2. Restaged(operations, operations', stage, response)
        /\ Handles(operations[1], stage, response) /\ UNCHANGED confirmedResets
    BY <2>1 DEF Progresses
  <2>3. operations # <<>> /\ operations'[1].stage = stage
        /\ operations'[1].kind = operations[1].kind
    BY <2>2, RestagedHead
  <2>4. server.resets <= server'.resets
    BY <1>1, <2>2 DEF Handles
  <2>5. stage = "handled" /\ operations[1].kind = "reset" =>
          server'.resets = server.resets + 1
    BY <2>2 DEF Handles
  <2> QED
    BY <1>1, <2>2, <2>3, <2>4, <2>5 DEF ConfirmInv, Handled
<1> QED
  BY <1>2, <1>3, <1>4, <1>5, <1>6 DEF MutationStep

\* An answered submission stays accepted while it is answered, unless a reset
\* arrives.
LEMMA HandledKept ==
  ASSUME TypeOK, ConfirmInv, HandledInv, MutationStep
  PROVE  HandledInv'
<1>1. /\ operations \in Seq(Operation) /\ confirmedResets \in Nat /\ server.resets \in Nat
      /\ confirmedResets <= server.resets
  BY DEF TypeOK, Server, ConfirmInv
<1> SUFFICES ASSUME server'.resets = confirmedResets', operations' # <<>>, Taken(operations'[1])
             PROVE  operations'[1].observation.observationId \in server'.accepted
  BY DEF HandledInv
<1>2. CASE Rests
  <2>1. UNCHANGED <<operations, confirmedResets>> /\ server'.resets = server.resets
        /\ server.accepted \subseteq server'.accepted
    BY <1>2 DEF Rests
  <2> QED
    BY <2>1 DEF HandledInv
<1>3. CASE ResetsLate
  <2>1. UNCHANGED confirmedResets /\ server'.resets = server.resets + 1
    BY <1>3 DEF ResetsLate
  <2> QED
    BY <1>1, <2>1
<1>4. CASE \E op \in Operation : Calls(op)
  <2>1. UNCHANGED <<server, confirmedResets>>
    BY <1>4 DEF Calls
  <2>2. \/ operations'[1].stage = "queued"
        \/ operations # <<>> /\ operations'[1] = operations[1]
    BY <1>4, CalledHead
  <2>3. operations # <<>> /\ operations'[1] = operations[1]
    BY <2>2 DEF Taken
  <2> QED
    BY <2>1, <2>3 DEF HandledInv
<1>5. CASE Settles
  BY <1>5, MovedHead DEF Taken
<1>6. CASE Confirms
  <2> DEFINE op == operations[1]
  <2>1. /\ operations # <<>> /\ op.stage = "handled" /\ op.response # None /\ UNCHANGED server
        /\ Restaged(operations, operations', "notified", op.response)
        /\ \/ op.kind = "submit" /\ UNCHANGED confirmedResets
           \/ op.kind = "reset"
    BY <1>6 DEF Confirms
  <2>2. operations'[1].kind = op.kind /\ operations'[1].observation = op.observation
    BY <2>1, RestagedHead
  <2>3. op.kind = "submit"
    BY <2>2 DEF Taken
  <2>4. Taken(op) /\ server.resets = confirmedResets
    BY <2>1, <2>3 DEF Taken
  <2> QED
    BY <2>1, <2>2, <2>4 DEF HandledInv
<1>7. CASE \E stage, response : Progresses(stage, response)
  <2>1. PICK stage, response : Progresses(stage, response)
    BY <1>7
  <2>2. Restaged(operations, operations', stage, response)
        /\ Handles(operations[1], stage, response)
    BY <2>1 DEF Progresses
  <2>3. /\ operations'[1].stage = stage /\ operations'[1].response = response
        /\ operations'[1].kind = operations[1].kind
        /\ operations'[1].observation = operations[1].observation
    BY <2>2, RestagedHead
  <2>4. stage = "handled" /\ operations[1].kind = "submit" /\ response # None =>
          operations[1].observation.observationId \in server'.accepted
    BY <2>2 DEF Handles
  <2>5. stage \in {"sent", "backoff", "handled"}
    BY <2>2 DEF Handles
  <2> QED
    BY <2>3, <2>4, <2>5 DEF Taken
<1> QED
  BY <1>2, <1>3, <1>4, <1>5, <1>6, <1>7 DEF MutationStep

\* What was acknowledged stays accepted until the server resets.
LEMMA AcknowledgedKept ==
  ASSUME TypeOK, ConfirmInv, HandledInv, AcknowledgedInv, MutationStep
  PROVE  AcknowledgedInv'
<1>1. confirmedResets \in Nat /\ server.resets \in Nat /\ confirmedResets <= server.resets
  BY DEF TypeOK, Server, ConfirmInv
<1>2. CASE Rests
  BY <1>2 DEF Rests, AcknowledgedInv
<1>3. CASE ResetsLate
  <2>1. UNCHANGED confirmedResets /\ server'.resets = server.resets + 1
    BY <1>3 DEF ResetsLate
  <2> QED
    BY <1>1, <2>1 DEF AcknowledgedInv
<1>4. CASE (\E op \in Operation : Calls(op)) \/ Settles
  BY <1>4 DEF Calls, Settles, AcknowledgedInv
<1>5. CASE Confirms
  <2> DEFINE op == operations[1]
  <2>1. UNCHANGED server /\ operations # <<>>
    BY <1>5 DEF Confirms
  <2>2. CASE /\ op.kind = "submit"
             /\ acknowledged' \subseteq acknowledged \cup {op.observation.observationId}
             /\ UNCHANGED confirmedResets
    <3>1. Taken(op)
      BY <1>5, <2>2 DEF Confirms, Taken
    <3>2. server.resets = confirmedResets => op.observation.observationId \in server.accepted
      BY <2>1, <3>1 DEF HandledInv
    <3> QED
      BY <2>1, <2>2, <3>2 DEF AcknowledgedInv
  <2>3. CASE acknowledged' = {}
    BY <2>3 DEF AcknowledgedInv
  <2> QED
    BY <1>5, <2>2, <2>3 DEF Confirms
<1>6. CASE \E stage, response : Progresses(stage, response)
  <2>1. PICK stage, response : Progresses(stage, response)
    BY <1>6
  <2>2. UNCHANGED <<confirmedResets, acknowledged>> /\ Handles(operations[1], stage, response)
    BY <2>1 DEF Progresses
  <2>3. \/ server'.resets = server.resets + 1
        \/ server'.resets = server.resets /\ server.accepted \subseteq server'.accepted
    BY <2>2 DEF Handles
  <2> QED
    BY <1>1, <2>2, <2>3 DEF AcknowledgedInv
<1> QED
  BY <1>2, <1>3, <1>4, <1>5, <1>6 DEF MutationStep

\* The chain stays in the order of its reset sequences.
LEMMA OrderKept ==
  ASSUME TypeOK, OrderInv, MutationStep
  PROVE  OrderInv'
<1>1. /\ operations \in Seq(Operation) /\ scheduledResetSequence \in Nat
      /\ \A i \in DOMAIN operations :
           operations[i].sequence \in Nat /\ operations[i].sequence <= scheduledResetSequence
  <2>1. operations \in Seq(Operation) /\ scheduledResetSequence \in Nat
    BY DEF TypeOK
  <2>2. \A i \in DOMAIN operations : operations[i] \in Operation
    BY <2>1
  <2> QED
    BY <2>1, <2>2 DEF OrderInv, Operation
<1>2. CASE Rests \/ ResetsLate
  BY <1>2 DEF Rests, ResetsLate, OrderInv
<1>3. CASE \E op \in Operation : Calls(op)
  <2>1. PICK op \in Operation : Calls(op)
    BY <1>3
  <2>2. /\ operations' = Append(operations, op) /\ op.sequence = scheduledResetSequence'
        /\ op.kind = "reset" => scheduledResetSequence' = scheduledResetSequence + 1
        /\ op.kind = "submit" => scheduledResetSequence' = scheduledResetSequence
        /\ op.kind \in {"submit", "reset"}
    BY <2>1 DEF Calls, Operation
  <2>3. scheduledResetSequence <= scheduledResetSequence'
        /\ (op.kind = "reset" => scheduledResetSequence < scheduledResetSequence')
        /\ scheduledResetSequence' \in Nat
    BY <1>1, <2>2
  <2>4. \A i \in DOMAIN operations' :
          \/ i \in DOMAIN operations /\ operations'[i] = operations[i]
          \/ i = Len(operations) + 1 /\ operations'[i] = op
    BY <1>1, <2>2
  <2>5. \A i \in DOMAIN operations' : operations'[i].sequence <= scheduledResetSequence'
    BY <1>1, <2>2, <2>3, <2>4
  <2>6. ASSUME NEW i \in DOMAIN operations', NEW j \in DOMAIN operations', i < j
        PROVE  /\ operations'[i].sequence <= operations'[j].sequence
               /\ operations'[j].kind = "reset" =>
                    operations'[i].sequence < operations'[j].sequence
    <3>1. i \in DOMAIN operations /\ operations'[i] = operations[i]
      BY <1>1, <2>2, <2>6
    <3>2. CASE j \in DOMAIN operations /\ operations'[j] = operations[j]
      BY <2>6, <3>1, <3>2 DEF OrderInv
    <3>3. CASE operations'[j] = op
      BY <1>1, <2>2, <2>3, <3>1, <3>3
    <3> QED
      BY <2>4, <3>2, <3>3
  <2> QED
    BY <2>5, <2>6 DEF OrderInv
<1>4. CASE Settles
  <2>1. operations # <<>> /\ operations' = Tail(operations) /\ UNCHANGED scheduledResetSequence
    BY <1>4 DEF Settles
  <2>2. \A i \in DOMAIN operations' : /\ i \in Nat /\ i + 1 \in DOMAIN operations
                                      /\ operations'[i] = operations[i + 1]
    BY <1>1, <2>1
  <2>3. ASSUME NEW i \in DOMAIN operations', NEW j \in DOMAIN operations', i < j
        PROVE  /\ operations'[i].sequence <= operations'[j].sequence
               /\ operations'[j].kind = "reset" =>
                    operations'[i].sequence < operations'[j].sequence
    <3>1. i + 1 < j + 1
      BY <2>2, <2>3
    <3> QED
      BY <2>2, <3>1 DEF OrderInv
  <2> QED
    BY <1>1, <2>1, <2>2, <2>3 DEF OrderInv
<1>5. CASE Confirms \/ \E stage, response : Progresses(stage, response)
  <2>1. PICK stage, response : Restaged(operations, operations', stage, response)
    BY <1>5 DEF Confirms, Progresses
  <2>2. Restaged(operations, operations', stage, response) /\ UNCHANGED scheduledResetSequence
    BY <1>5, <2>1 DEF Confirms, Progresses
  <2>3. DOMAIN operations' = DOMAIN operations
        /\ \A i \in DOMAIN operations : /\ operations'[i].kind = operations[i].kind
                                        /\ operations'[i].sequence = operations[i].sequence
    BY <1>1, <2>2 DEF Restaged
  <2> QED
    BY <2>2, <2>3 DEF OrderInv
<1> QED
  BY <1>2, <1>3, <1>4, <1>5 DEF MutationStep

\* The step that answers a submission answers one that was applied.
LEMMA AnswersApplied ==
  ASSUME TypeOK, HandledInv, AcknowledgedInv, OrderInv, MutationStep
  PROVE  SubmitMeansApplied'
<1>1. operations \in Seq(Operation)
  BY DEF TypeOK
<1>2. CASE answered' = None
  BY <1>2 DEF SubmitMeansApplied
<1>3. CASE Rests
  <2>1. CASE answered' # None
    <3>1. ~PendingReset /\ answered'.observationId \in acknowledged
      BY <1>3, <2>1 DEF Rests
    <3>2. UNCHANGED <<operations, confirmedResets>> /\ server'.resets = server.resets
          /\ server.accepted \subseteq server'.accepted
      BY <1>3 DEF Rests
    <3>3. server.resets = confirmedResets => answered'.observationId \in server.accepted
      BY <3>1 DEF AcknowledgedInv
    <3> QED
      BY <3>1, <3>2, <3>3 DEF SubmitMeansApplied, PendingReset
  <2> QED
    BY <1>2, <2>1
<1>4. CASE Settles /\ answered' # None
  <2> DEFINE op == operations[1]
  <2>1. UNCHANGED server /\ operations # <<>> /\ operations' = Tail(operations) /\ Resolves(op)
    BY <1>4 DEF Settles
  <2>2. Answer(op.observation, op.sequence) /\ UNCHANGED confirmedResets
        /\ (op.observation.observationId \in acknowledged \/ Taken(op))
    BY <1>4, <2>1 DEF Resolves, Settles
  <2>3. answered'.observationId = op.observation.observationId
        /\ answered'.sequence = op.sequence
    BY <2>2 DEF Answer
  <2>4. server.resets = confirmedResets => op.observation.observationId \in server.accepted
    BY <2>1, <2>2 DEF AcknowledgedInv, HandledInv
  <2>5. \A i \in DOMAIN operations' :
          operations'[i].kind = "reset" => op.sequence < operations'[i].sequence
    <3> TAKE i \in DOMAIN operations'
    <3>1. 1 \in DOMAIN operations /\ i + 1 \in DOMAIN operations /\ 1 < i + 1
          /\ operations'[i] = operations[i + 1]
      BY <1>1, <2>1
    <3> QED
      BY <3>1 DEF OrderInv
  <2>6. \A i \in DOMAIN operations' :
          operations'[i].kind = "reset" => operations'[i].sequence > answered'.sequence
    BY <2>3, <2>5
  <2> QED
    BY <2>1, <2>2, <2>3, <2>4, <2>6 DEF SubmitMeansApplied
<1> QED
  BY <1>2, <1>3, <1>4 DEF MutationStep, Calls, Progresses, Confirms, ResetsLate

-----------------------------------------------------------------------------
\* The resets the caller asked for and the server has not made.

Unhandled(s) ==
  {i \in DOMAIN s : s[i].kind = "reset" /\ s[i].stage \notin {"handled", "notified"}}

\* They are finitely many.
LEMMA UnhandledCount ==
  ASSUME NEW s \in Seq(Operation)
  PROVE  IsFiniteSet(Unhandled(s)) /\ Cardinality(Unhandled(s)) \in Nat
<1>1. IsFiniteSet(1 .. Len(s))
  BY FS_Interval
<1>2. Unhandled(s) \in SUBSET (1 .. Len(s))
  BY DEF Unhandled
<1>3. IsFiniteSet(Unhandled(s))
  BY <1>1, <1>2, FS_Subset
<1> QED
  BY <1>3, FS_CardinalityType

\* Settling the first operation leaves no more of them, and fewer if it is one.
LEMMA SettledCount ==
  ASSUME NEW s \in Seq(Operation), s # <<>>
  PROVE  /\ Cardinality(Unhandled(Tail(s))) <= Cardinality(Unhandled(s))
         /\ 1 \in Unhandled(s) =>
              Cardinality(Unhandled(Tail(s))) <= Cardinality(Unhandled(s)) - 1
<1> DEFINE S == Unhandled(Tail(s))
           T == Unhandled(s)
           U == T \ {1}
           shift == [i \in S |-> i + 1]
<1>1. \A i \in S : i \in Nat /\ i + 1 \in U
  BY DEF Unhandled
<1>2. \A i, j \in S : shift[i] = shift[j] => i = j
  BY <1>1
<1>3. shift \in [S -> U]
  BY <1>1
<1>4. shift \in Injection(S, U)
  BY <1>2, <1>3 DEF Injection, IsInjective
<1>5. IsFiniteSet(T) /\ Cardinality(T) \in Nat
  BY UnhandledCount
<1>6. Tail(s) \in Seq(Operation)
  OBVIOUS
<1>7. Cardinality(S) \in Nat
  BY <1>6, UnhandledCount
<1> HIDE DEF S, T, shift
<1>8. IsFiniteSet(U) /\ Cardinality(U) = IF 1 \in T THEN Cardinality(T) - 1 ELSE Cardinality(T)
  BY <1>5, FS_RemoveElement
<1> HIDE DEF U
<1>9. Cardinality(S) <= Cardinality(U)
  BY <1>4, <1>8, FS_Injection
<1>10. /\ Cardinality(S) <= Cardinality(T)
       /\ 1 \in T => Cardinality(S) <= Cardinality(T) - 1
  BY <1>5, <1>7, <1>8, <1>9
<1> QED
  BY <1>10 DEF S, T

\* The late resets are finitely many, and a request left under way adds one at
\* most.
LEMMA DelayedCount ==
  ASSUME TypeOK, DelayedOK'
  PROVE  /\ IsFiniteSet(DelayedResets) /\ Cardinality(DelayedResets) \in Nat
         /\ Cardinality(DelayedResets') \in Nat
         /\ delayed' \subseteq delayed => Cardinality(DelayedResets') <= Cardinality(DelayedResets)
         /\ \A op \in DelayedResets :
              delayed' = delayed \ {op} =>
                Cardinality(DelayedResets') = Cardinality(DelayedResets) - 1
         /\ \A op : delayed' = delayed \cup {op} =>
              /\ Cardinality(DelayedResets') <= Cardinality(DelayedResets) + 1
              /\ op.kind # "reset" =>
                   Cardinality(DelayedResets') <= Cardinality(DelayedResets)
<1>1. IsFiniteSet(delayed) /\ IsFiniteSet(delayed')
  BY DEF TypeOK, DelayedOK
<1>2. IsFiniteSet(DelayedResets) /\ IsFiniteSet(DelayedResets')
  BY <1>1, FS_Subset DEF DelayedResets
<1>3. Cardinality(DelayedResets) \in Nat /\ Cardinality(DelayedResets') \in Nat
  BY <1>2, FS_CardinalityType
<1>4. ASSUME delayed' \subseteq delayed
      PROVE  Cardinality(DelayedResets') <= Cardinality(DelayedResets)
  <2>1. DelayedResets' \in SUBSET DelayedResets
    BY <1>4 DEF DelayedResets
  <2> QED
    BY <1>2, <2>1, FS_Subset
<1>5. ASSUME NEW op \in DelayedResets, delayed' = delayed \ {op}
      PROVE  Cardinality(DelayedResets') = Cardinality(DelayedResets) - 1
  <2>1. DelayedResets' = DelayedResets \ {op}
    BY <1>5 DEF DelayedResets
  <2> QED
    BY <1>2, <2>1, FS_RemoveElement
<1>6. ASSUME NEW op, delayed' = delayed \cup {op}
      PROVE  /\ Cardinality(DelayedResets') <= Cardinality(DelayedResets) + 1
             /\ op.kind # "reset" => Cardinality(DelayedResets') <= Cardinality(DelayedResets)
  <2>1. CASE op.kind # "reset" \/ op \in DelayedResets
    <3>1. DelayedResets' = DelayedResets
      BY <1>6, <2>1 DEF DelayedResets
    <3> QED
      BY <1>3, <3>1
  <2>2. CASE op.kind = "reset" /\ op \notin DelayedResets
    <3>1. DelayedResets' = DelayedResets \cup {op}
      BY <1>6, <2>2 DEF DelayedResets
    <3>2. Cardinality(DelayedResets') = Cardinality(DelayedResets) + 1
      BY <1>2, <2>2, <3>1, FS_AddElement
    <3> QED
      BY <1>3, <2>2, <3>2
  <2> QED
    BY <2>1, <2>2
<1> QED
  BY <1>2, <1>3, <1>4, <1>5, <1>6

\* The server never makes a reset that no caller asked for.
LEMMA ResetsKept ==
  ASSUME TypeOK, ResetsApplyOnce, MutationStep, server' \in Server, DelayedOK',
         operations' \in Seq(Operation), scheduledResetSequence' \in Nat
  PROVE  ResetsApplyOnce'
<1> DEFINE d == Cardinality(DelayedResets)
           u == Cardinality(Unhandled(operations))
<1>1. /\ operations \in Seq(Operation) /\ server.resets \in Nat /\ server'.resets \in Nat
      /\ scheduledResetSequence \in Nat
      /\ server.resets + u + d <= scheduledResetSequence
  BY DEF TypeOK, Server, ResetsApplyOnce, AwaitedResets, Unhandled
<1>2. /\ IsFiniteSet(Unhandled(operations)) /\ u \in Nat
      /\ Cardinality(Unhandled(operations')) \in Nat
  BY <1>1, UnhandledCount
<1>3. d \in Nat /\ Cardinality(DelayedResets') \in Nat
  BY DelayedCount
<1> SUFFICES server'.resets + Cardinality(Unhandled(operations')) + Cardinality(DelayedResets')
               <= scheduledResetSequence'
  BY DEF ResetsApplyOnce, AwaitedResets, Unhandled
<1>4. CASE Rests
  <2>1. /\ UNCHANGED <<operations, scheduledResetSequence>> /\ delayed' \subseteq delayed
        /\ server'.resets = server.resets
    BY <1>4 DEF Rests
  <2>2. Cardinality(DelayedResets') <= d
    BY <2>1, DelayedCount
  <2> HIDE DEF d, u
  <2>3. Cardinality(Unhandled(operations')) = u
    BY <2>1 DEF u
  <2> QED
    BY <1>1, <1>2, <1>3, <2>1, <2>2, <2>3
<1>5. CASE ResetsLate
  <2>1. PICK op \in delayed : op.kind = "reset" /\ delayed' = delayed \ {op}
    BY <1>5 DEF ResetsLate
  <2>2. UNCHANGED <<operations, scheduledResetSequence>> /\ server'.resets = server.resets + 1
    BY <1>5 DEF ResetsLate
  <2>3. Cardinality(DelayedResets') = d - 1
    BY <2>1, DelayedCount DEF DelayedResets
  <2> HIDE DEF d, u
  <2>4. Cardinality(Unhandled(operations')) = u
    BY <2>2 DEF u
  <2> QED
    BY <1>1, <1>2, <1>3, <2>2, <2>3, <2>4
<1>6. CASE \E op \in Operation : Calls(op)
  <2>1. PICK op \in Operation : Calls(op)
    BY <1>6
  <2>2. /\ operations' = Append(operations, op) /\ UNCHANGED <<server, delayed>>
        /\ op.kind = "reset" => scheduledResetSequence' = scheduledResetSequence + 1
        /\ op.kind = "submit" => scheduledResetSequence' = scheduledResetSequence
        /\ op.kind \in {"submit", "reset"}
    BY <2>1 DEF Calls, Operation
  <2> DEFINE n == Len(operations) + 1
  <2>3. /\ DOMAIN operations' = DOMAIN operations \cup {n} /\ n \notin DOMAIN operations
        /\ operations'[n] = op
        /\ \A i \in DOMAIN operations : operations'[i] = operations[i]
    BY <1>1, <2>2
  <2>4. n \notin Unhandled(operations)
    BY <2>3 DEF Unhandled
  <2>7. DelayedResets' = DelayedResets
    BY <2>2 DEF DelayedResets
  <2> HIDE DEF n
  <2>5. CASE op.kind = "reset"
    <3>1. Unhandled(operations') \in SUBSET (Unhandled(operations) \cup {n})
      BY <2>3 DEF Unhandled
    <3>2. IsFiniteSet(Unhandled(operations) \cup {n})
          /\ Cardinality(Unhandled(operations) \cup {n}) = u + 1
      BY <1>2, <2>4, FS_AddElement
    <3>3. Cardinality(Unhandled(operations')) <= u + 1
      BY <3>1, <3>2, FS_Subset
    <3> HIDE DEF u
    <3> QED
      BY <1>1, <1>2, <1>3, <2>2, <2>5, <2>7, <3>3
  <2>6. CASE op.kind = "submit"
    <3>1. Unhandled(operations') = Unhandled(operations)
      BY <2>3, <2>6 DEF Unhandled
    <3> QED
      BY <1>1, <2>2, <2>6, <2>7, <3>1
  <2> QED
    BY <2>2, <2>5, <2>6
<1>7. CASE Settles
  <2> DEFINE op == operations[1]
  <2>1. UNCHANGED <<server, scheduledResetSequence>> /\ operations # <<>>
        /\ operations' = Tail(operations) /\ MayStray(op)
    BY <1>7 DEF Settles
  <2>2. Cardinality(Unhandled(operations')) <= u
        /\ (1 \in Unhandled(operations) => Cardinality(Unhandled(operations')) <= u - 1)
    BY <1>1, <2>1, SettledCount
  <2>3. CASE 1 \in Unhandled(operations)
    <3>1. Cardinality(DelayedResets') <= d + 1
      BY <1>3, <2>1, DelayedCount DEF MayStray, DelayedResets
    <3> HIDE DEF d, u
    <3> QED
      BY <1>1, <1>2, <1>3, <2>1, <2>2, <2>3, <3>1
  <2>4. CASE 1 \notin Unhandled(operations)
    <3>1. op.kind = "reset" => op.stage # "sent"
      BY <1>1, <2>1, <2>4 DEF Unhandled
    <3>2. Cardinality(DelayedResets') <= d
      BY <1>3, <2>1, <3>1, DelayedCount DEF MayStray
    <3> HIDE DEF d, u
    <3> QED
      BY <1>1, <1>2, <1>3, <2>1, <2>2, <3>2
  <2> QED
    BY <2>3, <2>4
<1>8. CASE Confirms
  <2>1. /\ Restaged(operations, operations', "notified", operations[1].response)
        /\ operations[1].stage = "handled"
        /\ UNCHANGED <<server, delayed, scheduledResetSequence>>
    BY <1>8 DEF Confirms
  <2>2. /\ DOMAIN operations' = DOMAIN operations /\ operations'[1].stage = "notified"
        /\ \A i \in DOMAIN operations : i # 1 => operations'[i] = operations[i]
    BY <1>1, <2>1 DEF Restaged
  <2>3. Unhandled(operations') = Unhandled(operations)
    BY <2>1, <2>2 DEF Unhandled
  <2>4. DelayedResets' = DelayedResets
    BY <2>1 DEF DelayedResets
  <2> QED
    BY <1>1, <2>1, <2>3, <2>4
<1>9. CASE \E stage, response : Progresses(stage, response)
  <2>1. PICK stage, response : Progresses(stage, response)
    BY <1>9
  <2>2. Restaged(operations, operations', stage, response)
        /\ Handles(operations[1], stage, response) /\ UNCHANGED scheduledResetSequence
    BY <2>1 DEF Progresses
  <2>3. /\ DOMAIN operations' = DOMAIN operations /\ 1 \in DOMAIN operations
        /\ operations'[1].stage = stage
        /\ \A i \in DOMAIN operations : /\ operations'[i].kind = operations[i].kind
                                        /\ i # 1 => operations'[i] = operations[i]
    BY <1>1, <2>2 DEF Restaged
  <2>4. CASE operations[1].kind = "reset" /\ stage = "handled"
    <3>1. server'.resets = server.resets + 1 /\ operations[1].stage = "sent"
          /\ UNCHANGED delayed
      BY <2>2, <2>4 DEF Handles
    <3>2. Unhandled(operations') = Unhandled(operations) \ {1} /\ 1 \in Unhandled(operations)
      BY <2>3, <2>4, <3>1 DEF Unhandled
    <3>3. Cardinality(Unhandled(operations')) = u - 1
      BY <1>2, <3>2, FS_RemoveElement
    <3>4. Cardinality(DelayedResets') = d
      BY <3>1 DEF DelayedResets
    <3> HIDE DEF d, u
    <3> QED
      BY <1>1, <1>2, <1>3, <2>2, <3>1, <3>3, <3>4
  <2>5. CASE ~(operations[1].kind = "reset" /\ stage = "handled")
    <3>1. server'.resets = server.resets
      BY <2>2, <2>5 DEF Handles
    <3>2. operations[1].kind = "reset" =>
            operations[1].stage \notin {"handled", "notified"} /\ stage \in {"sent", "backoff"}
      BY <2>2, <2>5 DEF Handles
    <3>3. Unhandled(operations') = Unhandled(operations)
      BY <2>3, <3>2 DEF Unhandled
    <3>4. operations[1].kind = "reset" => UNCHANGED delayed
      BY <2>2, <2>5 DEF Handles
    <3>5. MayStray(operations[1])
      BY <2>2 DEF Handles, MayStray
    <3>6. Cardinality(DelayedResets') <= d
      BY <1>3, <3>4, <3>5, DelayedCount DEF MayStray
    <3> HIDE DEF d
    <3> QED
      BY <1>1, <1>2, <1>3, <2>2, <3>1, <3>3, <3>6
  <2> QED
    BY <2>4, <2>5
<1> QED
  BY <1>4, <1>5, <1>6, <1>7, <1>8, <1>9 DEF MutationStep

-----------------------------------------------------------------------------
\* What holds of the mutations too.
MutationInv ==
  /\ StreamInv
  /\ ConfirmInv /\ HandledInv /\ AcknowledgedInv /\ OrderInv
  /\ ResetsApplyOnce /\ SubmitMeansApplied

\* The session createRemoteSession returns satisfies it.
LEMMA MutationInit == Init => MutationInv
<1> SUFFICES ASSUME Init PROVE MutationInv
  OBVIOUS
<1>1. server.resets = 0 /\ operations = <<>> /\ confirmedResets = 0 /\ acknowledged = {}
      /\ answered = None /\ scheduledResetSequence = 0 /\ delayed = {}
  BY DEF Init
<1>2. ConfirmInv /\ HandledInv /\ AcknowledgedInv /\ OrderInv /\ SubmitMeansApplied
  BY <1>1 DEF ConfirmInv, HandledInv, AcknowledgedInv, OrderInv, SubmitMeansApplied
<1>3. AwaitedResets = {} /\ DelayedResets = {}
  BY <1>1 DEF AwaitedResets, DelayedResets
<1>4. ResetsApplyOnce
  BY <1>1, <1>3, FS_EmptySet DEF ResetsApplyOnce
<1> QED
  BY <1>2, <1>4, StreamInit DEF MutationInv

\* Every step preserves it.
LEMMA MutationNext == ASSUME MutationInv, [Next]_vars PROVE MutationInv'
<1>1. CASE Next
  <2>1. /\ StreamInv /\ ConfirmInv /\ HandledInv /\ AcknowledgedInv /\ OrderInv
        /\ ResetsApplyOnce /\ TypeOK
    BY DEF MutationInv, StreamInv
  <2>2. StreamInv' /\ MutationStep
    BY <1>1, <2>1, StreamNext
  <2>3. server' \in Server /\ operations' \in Seq(Operation) /\ scheduledResetSequence' \in Nat
        /\ DelayedOK'
    BY <2>2 DEF StreamInv, TypeOK
  <2>4. ConfirmInv' /\ HandledInv' /\ OrderInv'
    BY <2>1, <2>2, <2>3, ConfirmKept, HandledKept, OrderKept
  <2>5. AcknowledgedInv' /\ SubmitMeansApplied'
    BY <2>1, <2>2, AcknowledgedKept, AnswersApplied
  <2>6. ResetsApplyOnce'
    BY <2>1, <2>2, <2>3, ResetsKept
  <2> QED
    BY <2>2, <2>4, <2>5, <2>6 DEF MutationInv
<1>2. CASE UNCHANGED vars
  <2>1. UNCHANGED <<server, delayed, operations, scheduledResetSequence, confirmedResets,
                    acknowledged, answered>>
    BY <1>2 DEF vars, mutationVars
  <2>2. StreamInv'
    BY <1>2, StreamStutters DEF MutationInv
  <2>3. ConfirmInv' /\ HandledInv' /\ AcknowledgedInv' /\ OrderInv'
    BY <2>1 DEF MutationInv, ConfirmInv, HandledInv, AcknowledgedInv, OrderInv, Handled, Taken
  <2>4. ResetsApplyOnce' /\ SubmitMeansApplied'
    BY <2>1 DEF MutationInv, ResetsApplyOnce, AwaitedResets, DelayedResets, SubmitMeansApplied
  <2> QED
    BY <2>2, <2>3, <2>4 DEF MutationInv
<1> QED
  BY <1>1, <1>2

\* The invariants of the mutation chain and of the ids it acknowledges.
LEMMA Mutations == Spec => []MutationInv
<1>1. MutationInv /\ [Next]_vars => MutationInv'
  BY MutationNext
<1> QED
  BY <1>1, MutationInit, PTL DEF Spec

\* A submission that resolves is among what the server accepted since its last
\* reset, and no reset called before it is still to settle, unless the server made
\* a reset that was never confirmed, late ones included (submit, reset).
THEOREM SubmissionsApplied == Spec => []SubmitMeansApplied
<1>1. MutationInv => SubmitMeansApplied
  BY DEF MutationInv
<1> QED
  BY <1>1, Mutations, PTL

\* The server makes no more resets than callers asked for, whatever fails and
\* however late a request arrives (reset, request with retryTransport false).
THEOREM ResetsAppliedOnce == Spec => []ResetsApplyOnce
<1>1. MutationInv => ResetsApplyOnce
  BY DEF MutationInv
<1> QED
  BY <1>1, Mutations, PTL

=============================================================================
