---------------------------- MODULE PythonStream ----------------------------
(***************************************************************************)
(* QaraaSnapshotStream of sdk/python/src/qaraa/stream.py: an asynchronous  *)
(* iterator whose __anext__ connects when it has no socket, and reads      *)
(* until it has a newer snapshot.  aclose may run at every await of it.    *)
(***************************************************************************)
EXTENDS StreamWire

Init ==
  /\ library = "python" /\ WireInit
  /\ reader = [pc |-> "idle", revision |-> 0, attempt |-> 0, generation |-> 0]
  /\ stream = [closed |-> FALSE, failed |-> FALSE, held |-> FALSE, generation |-> 0]

At(pc) == library = "python" /\ reader.pc = pc

Closed == stream.closed \/ clientClosed

\* StopAsyncIteration: a for loop over the stream ends.
Stop == Goto("done")

\* __anext__ raises what a message or close of the client told it, and leaves
\* the socket; the caller may call it again.
Raise == Goto("raised") /\ stream' = [stream EXCEPT !.failed = TRUE]

\* The top of the loop.  A socket that is left from an earlier call is read on.
Loop(failures) ==
  /\ reader' = [reader EXCEPT !.pc = IF Closed THEN "done"
                                     ELSE IF stream.held THEN "reading" ELSE "connecting",
                              !.attempt = failures, !.generation = stream.generation]
  /\ socket' = IF Closed \/ stream.held THEN socket ELSE Dial(reader.revision)

\* __anext__ is called, with no failure counted.
Anext ==
  /\ At("idle") \/ At("raised")
  /\ Loop(0)
  /\ UNCHANGED <<wireVars, stream, received, clientClosed>>

\* A failure without a socket left: it is raised, or a delay begins.
Failure ==
  /\ Goto(IF reader.attempt >= MaxRetries THEN "raised" ELSE "waiting")
  /\ stream' = [stream EXCEPT !.held = FALSE]
  /\ socket' = NoSocket

\* connect returns: a candidate that nobody wants any more is closed.
Connected ==
  /\ At("connecting") /\ (socket.state = "open" \/ HasMessage)
  /\ IF Closed \/ reader.generation # stream.generation
     THEN Stop /\ socket' = NoSocket /\ UNCHANGED stream
     ELSE Goto("reading") /\ stream' = [stream EXCEPT !.held = TRUE] /\ UNCHANGED socket
  /\ UNCHANGED <<wireVars, received, clientClosed>>

ConnectFails ==
  /\ At("connecting") /\ SocketEnded
  /\ Failure
  /\ UNCHANGED <<wireVars, received, clientClosed>>

\* One frame.  An error or an unreadable event is raised and leaves the socket
\* for the next call; a newer snapshot is returned.
Read ==
  /\ At("reading") /\ HasMessage
  /\ LET event == Head(socket.inbox)
     IN  /\ socket' = Consumed
         /\ \/ Closed /\ Stop /\ UNCHANGED <<stream, received>>
            \/ ~Closed /\ event \in {Refusal, Unreadable} /\ Raise /\ UNCHANGED received
            \/ ~Closed /\ event >= 0 /\ ~IsNewer(event) /\ UNCHANGED <<reader, stream, received>>
            \/ /\ ~Closed /\ event >= 0 /\ IsNewer(event)
               /\ reader' = [reader EXCEPT !.pc = "idle", !.revision = event]
               /\ received' = event
               /\ UNCHANGED stream
  /\ UNCHANGED <<wireVars, clientClosed>>

\* The frames end, in order or with an exception.  After aclose the field is
\* None, and what that raises ends the iteration too; a socket that ended in
\* order is closed and counted as a failure even when the client is closed.
FramesEnd ==
  /\ At("reading") /\ SocketEnded
  /\ \/ Closed /\ Stop /\ socket' = NoSocket /\ UNCHANGED stream
     \/ ~stream.closed /\ Failure
  /\ UNCHANGED <<wireVars, received, clientClosed>>

\* The delay, which close of the client turns into an exception.
WaitEnds ==
  /\ At("waiting")
  /\ IF clientClosed THEN Raise /\ UNCHANGED socket
     ELSE Loop(reader.attempt + 1) /\ UNCHANGED stream
  /\ UNCHANGED <<wireVars, received, clientClosed>>

\* aclose: the socket the stream holds is closed, what has arrived on it is
\* still read.
Aclose ==
  /\ library = "python" /\ ~stream.closed
  /\ stream' = [stream EXCEPT !.closed = TRUE, !.generation = @ + 1, !.held = FALSE]
  /\ IF ~stream.held THEN UNCHANGED socket
     ELSE IF reader.pc = "reading" THEN socket' \in Ended(socket)
     ELSE socket' = NoSocket
  /\ UNCHANGED <<wireVars, reader, received, clientClosed>>

CloseCancels == clientClosed /\ Aclose

Work == Connected \/ ConnectFails \/ Read \/ FramesEnd \/ WaitEnds

Next == Work \/ Anext \/ Aclose
=============================================================================
