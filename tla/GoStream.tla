------------------------------ MODULE GoStream ------------------------------
(***************************************************************************)
(* Client.Stream of sdk/go/qaraa/stream.go: a goroutine that reads the     *)
(* socket and keeps the newest snapshot in a channel of capacity one, next *)
(* to a consumer that may take it between any two of its steps.  Closing   *)
(* the stream is cancelling its context.                                   *)
(***************************************************************************)
EXTENDS StreamWire

Empty == 0

Init ==
  /\ library = "go" /\ WireInit
  /\ reader = [pc |-> "registering", revision |-> 0, attempt |-> 0]
  /\ stream = [closed |-> FALSE, registered |-> FALSE, buffered |-> Empty, failed |-> FALSE]

At(pc) == library = "go" /\ reader.pc = pc

\* The goroutine returns: the channels are closed, a failure is reported first
\* unless the context was cancelled.
End(failed) ==
  /\ reader' = [reader EXCEPT !.pc = "done"]
  /\ stream' = [stream EXCEPT !.registered = FALSE, !.failed = failed]

\* streamRetry, with the socket closed: give up, or wait.
Retry ==
  /\ socket' = NoSocket
  /\ IF reader.attempt >= MaxRetries THEN End(~stream.closed)
     ELSE reader' = [reader EXCEPT !.pc = "waiting", !.attempt = @ + 1] /\ UNCHANGED stream

\* Under the client's lock: the stream is registered, and cancelled when the
\* client is closed already.
Register ==
  /\ At("registering")
  /\ stream' = [stream EXCEPT !.registered = TRUE, !.closed = @ \/ clientClosed]
  /\ Goto("top")
  /\ UNCHANGED <<wireVars, socket, received, clientClosed>>

\* The top of the loop.
Connect ==
  /\ At("top")
  /\ IF clientClosed \/ stream.closed THEN End(FALSE) /\ UNCHANGED socket
     ELSE Goto("dialing") /\ socket' = Dial(reader.revision) /\ UNCHANGED stream
  /\ UNCHANGED <<wireVars, received, clientClosed>>

\* dial returns.
Dialed ==
  /\ At("dialing") /\ (socket.state = "open" \/ HasMessage)
  /\ Goto("reading")
  /\ UNCHANGED <<wireVars, socket, stream, received, clientClosed>>

\* dial or Read fails, because of the network or of the context.
Fails ==
  /\ \/ At("dialing") /\ (SocketEnded \/ stream.closed)
     \/ At("reading") /\ (SocketEnded \/ stream.closed)
  /\ Retry
  /\ UNCHANGED <<wireVars, received, clientClosed>>

\* delay ends by its timer, by the context, or by the client's close.
WaitEnds ==
  /\ At("waiting")
  /\ \/ ~clientClosed /\ Goto("top") /\ UNCHANGED stream
     \/ (clientClosed \/ stream.closed) /\ End(~stream.closed)
  /\ UNCHANGED <<wireVars, socket, received, clientClosed>>

\* One message: an error or an unreadable event ends the stream, a snapshot
\* that is not newer is skipped, any other one is offered to the consumer.
Read ==
  /\ At("reading") /\ HasMessage
  /\ LET event == Head(socket.inbox)
     IN  \/ /\ event \in {Refusal, Unreadable}
            /\ End(TRUE) /\ socket' = NoSocket
         \/ /\ event >= 0 /\ ~IsNewer(event)
            /\ socket' = Consumed /\ UNCHANGED <<reader, stream>>
         \/ /\ event >= 0 /\ IsNewer(event)
            /\ reader' = [reader EXCEPT !.pc = "offering", !.revision = event, !.attempt = 0]
            /\ socket' = Consumed /\ UNCHANGED stream
  /\ UNCHANGED <<wireVars, received, clientClosed>>

\* The first select: the snapshot is sent when the channel is empty.
Offer ==
  /\ At("offering")
  /\ IF stream.buffered = Empty
     THEN Goto("reading") /\ stream' = [stream EXCEPT !.buffered = reader.revision]
     ELSE Goto("draining") /\ UNCHANGED stream
  /\ UNCHANGED <<wireVars, socket, received, clientClosed>>

\* Mutation: a channel the consumer has not emptied keeps what it holds.
Drain_KeepsOldest ==
  /\ At("draining")
  /\ Goto("reading")
  /\ UNCHANGED <<wireVars, socket, stream, received, clientClosed>>

\* The second select: the older snapshot is taken back, unless the consumer
\* has taken it meanwhile.
Drain ==
  /\ At("draining")
  /\ stream' = [stream EXCEPT !.buffered = Empty]
  /\ Goto("replacing")
  /\ UNCHANGED <<wireVars, socket, received, clientClosed>>

\* The third select: the channel is empty, so the send is ready; when the
\* context is cancelled too, the goroutine may return instead, and leaves the
\* socket to be collected.
Replace ==
  /\ At("replacing")
  /\ \/ Goto("reading") /\ stream' = [stream EXCEPT !.buffered = reader.revision] /\ UNCHANGED socket
     \/ stream.closed /\ End(FALSE) /\ socket' = NoSocket
  /\ UNCHANGED <<wireVars, received, clientClosed>>

\* The consumer receives from the channel, also after it was closed.
Take ==
  /\ library = "go" /\ stream.buffered # Empty
  /\ received' = stream.buffered
  /\ stream' = [stream EXCEPT !.buffered = Empty]
  /\ UNCHANGED <<wireVars, socket, reader, clientClosed>>

\* The caller cancels the context, or Client.Close does for what is registered.
Cancel ==
  /\ library = "go" /\ ~stream.closed
  /\ stream' = [stream EXCEPT !.closed = TRUE]
  /\ UNCHANGED <<wireVars, socket, reader, received, clientClosed>>

CloseCancels == clientClosed /\ Cancel /\ stream.registered

Work == Register \/ Connect \/ Dialed \/ Fails \/ WaitEnds \/ Read \/ Offer \/ Drain \/ Replace

Next == Work \/ Take \/ Cancel
=============================================================================
