----------------------------- MODULE StreamWire -----------------------------
(***************************************************************************)
(* What the snapshot streams of the Go, Dart and Python libraries have in  *)
(* common: one session on the server, the WebSocket on which its snapshots *)
(* arrive, and the fields each library keeps of its stream.  The server is *)
(* what SessionService promises: a subscriber gets the retained snapshots  *)
(* newer than the revision it asked for, and every new one after them.     *)
(* Snapshots are their revisions.                                          *)
(***************************************************************************)
EXTENDS Integers, Sequences

CONSTANTS
  MaxRetries,        \* reconnects in a row before a stream gives up
  SnapshotLimit,     \* snapshots the server retains for a resume
  MaxRevision,       \* bound on the snapshots published
  MaxFaults          \* bound on sockets that fail and on unusable messages

ASSUME WireAssumption ==
  /\ {MaxRetries, MaxRevision, MaxFaults} \subseteq Nat
  /\ SnapshotLimit \in Nat \ {0}

VARIABLES
  library,           \* whose stream this is
  published,         \* the newest snapshot of the server
  socket,            \* the socket of the reading task, as the network has it
  faults,
  reader,            \* the reading task: [pc, revision, attempt, ...]
  stream,            \* the fields of the stream object
  received,          \* the snapshot the consumer was given last
  clientClosed       \* close of the client was called

wireVars   == <<library, published, faults>>
streamVars == <<reader, stream, received, clientClosed>>
vars == <<wireVars, socket, streamVars>>

Refusal    == -1     \* an error envelope
Unreadable == -2     \* an event that does not decode

NoSocket == [state |-> "none", since |-> 0, inbox |-> <<>>]

\* The socket a stream asks for, to resume after a revision it has.
Dial(since) == [state |-> "dialing", since |-> since, inbox |-> <<>>]

Carrying(s, state, inbox) == [s EXCEPT !.state = state, !.inbox = inbox]

\* What has arrived of a socket that ends: any first part of what was sent.
Ended(s) == {Carrying(s, "ended", SubSeq(s.inbox, 1, n)) : n \in 0..Len(s.inbox)}

HasMessage  == socket.inbox # <<>>
SocketEnded == socket.state = "ended" /\ socket.inbox = <<>>
Consumed    == [socket EXCEPT !.inbox = Tail(@)]

WireInit ==
  /\ published = 0 /\ socket = NoSocket /\ faults = 0
  /\ received = 0 /\ clientClosed = FALSE

\* Another client advances the reading.  The event may reach this one in a
\* form it does not decode.
Publish ==
  /\ published < MaxRevision
  /\ published' = published + 1
  /\ \E event \in {published + 1, Unreadable} :
       /\ event = Unreadable => socket.state = "open" /\ faults < MaxFaults
       /\ faults' = IF event = Unreadable THEN faults + 1 ELSE faults
       /\ socket' = IF socket.state = "open" THEN [socket EXCEPT !.inbox = Append(@, event)]
                    ELSE socket
  /\ UNCHANGED <<library, streamVars>>

\* SessionService.subscribe: the retained snapshots newer than the client's.
Replay(since) ==
  LET from == IF since > published - SnapshotLimit THEN since ELSE published - SnapshotLimit
  IN  [k \in 1 .. published - from |-> from + k]

\* An older snapshot is sent again.
Repeat ==
  /\ socket.state = "open" /\ faults < MaxFaults
  /\ faults' = faults + 1
  /\ \E revision \in 0..published : socket' = [socket EXCEPT !.inbox = Append(@, revision)]
  /\ UNCHANGED <<library, published, streamVars>>

\* The server accepts the upgrade and subscribes the stream.
Accept ==
  /\ socket.state = "dialing"
  /\ socket' = Carrying(socket, "open", Replay(socket.since))
  /\ UNCHANGED <<wireVars, streamVars>>

\* It refuses the stream with an error and ends the socket, or the socket
\* fails: before it is open, or with messages lost.
Break ==
  /\ socket.state \in {"dialing", "open"} /\ faults < MaxFaults
  /\ faults' = faults + 1
  /\ \/ socket' \in Ended(socket)
     \/ socket.state = "dialing" /\ socket' = Carrying(socket, "ended", <<Refusal>>)
  /\ UNCHANGED <<library, published, streamVars>>

\* close of the client: a flag first, the streams one after another.
CloseClient ==
  /\ ~clientClosed
  /\ clientClosed' = TRUE
  /\ UNCHANGED <<wireVars, socket, reader, stream, received>>

Wire == Publish \/ Repeat \/ Accept \/ Break \/ CloseClient

Goto(pc) == reader' = [reader EXCEPT !.pc = pc]

\* Mutation: stale and repeated snapshots are not suppressed.
IsNewer_AnyRevision(revision) == revision >= 0

\* The guard of every library's stream: a snapshot that is not newer than the
\* last accepted one is skipped.
IsNewer(revision) == revision > reader.revision
=============================================================================
