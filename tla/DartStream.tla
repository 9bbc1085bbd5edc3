----------------------------- MODULE DartStream -----------------------------
(***************************************************************************)
(* QaraaSnapshotStream of sdk/dart/lib/src/snapshot_stream.dart: a         *)
(* broadcast stream that connects while it has a listener.  One run of     *)
(* _start reads at a time; pausing, closing and listening again change the *)
(* generation under it while it waits, and it looks at that only at some   *)
(* of its awaits.                                                          *)
(***************************************************************************)
EXTENDS StreamWire

CONSTANT MaxListens     \* bound on how often a listener subscribes

Init ==
  /\ library = "dart" /\ WireInit
  /\ reader = [pc |-> "idle", revision |-> 0, attempt |-> 0, generation |-> 0]
  /\ stream = [closed |-> FALSE, failed |-> FALSE, held |-> FALSE, generation |-> 0,
               hasListener |-> FALSE, restartRequested |-> FALSE, listens |-> 0]

At(pc) == library = "dart" /\ reader.pc = pc
Stale  == reader.generation # stream.generation

\* Whether the run goes on: the loop condition, _waitForRetry's result and the
\* check on the connector's result.
GoesOn == ~stream.closed /\ stream.hasListener /\ ~clientClosed /\ ~Stale

\* A run of _start begins, up to its first await.  A client that is closed
\* ends it at once.
Begin(object) ==
  /\ stream' = [object EXCEPT !.generation = @ + 1]
  /\ reader' = [reader EXCEPT !.pc = IF clientClosed THEN "idle" ELSE "connecting",
                              !.attempt = 0, !.generation = object.generation + 1]
  /\ socket' = IF clientClosed THEN NoSocket ELSE Dial(reader.revision)

\* The run ends: its finally block starts the next one that was asked for.
Finish ==
  IF stream.restartRequested /\ ~stream.closed /\ stream.hasListener
  THEN Begin([stream EXCEPT !.held = FALSE, !.restartRequested = FALSE])
  ELSE Goto("idle") /\ stream' = [stream EXCEPT !.held = FALSE] /\ socket' = NoSocket

\* addError, and close.
Fail ==
  /\ Goto("idle") /\ socket' = NoSocket
  /\ stream' = [stream EXCEPT !.failed = TRUE, !.closed = TRUE, !.held = FALSE,
                              !.generation = @ + 1]

\* A retry's delay, unless the retries are used up.
Retry ==
  /\ reader.attempt < MaxRetries
  /\ reader' = [reader EXCEPT !.pc = "waiting", !.attempt = @ + 1]
  /\ stream' = [stream EXCEPT !.held = FALSE] /\ socket' = NoSocket

\* The catch block.  What is not a reading of the current generation any more
\* returns; the socket is forgotten, but not closed.
Catch(terminal) ==
  \/ (stream.closed \/ clientClosed \/ Stale) /\ Finish
  \/ /\ ~(stream.closed \/ clientClosed \/ Stale)
     /\ IF terminal \/ reader.attempt >= MaxRetries THEN Fail ELSE Retry

-----------------------------------------------------------------------------
\* A listener subscribes: the first one starts a run, or asks the run that is
\* still under way to be followed by another.
Listen ==
  /\ library = "dart" /\ ~stream.hasListener /\ stream.listens < MaxListens
  /\ LET object == [stream EXCEPT !.hasListener = TRUE, !.listens = @ + 1]
     IN  IF stream.closed \/ reader.pc # "idle"
         THEN /\ stream' = [object EXCEPT !.restartRequested = @ \/ ~stream.closed]
              /\ UNCHANGED <<socket, reader>>
         ELSE Begin(object)
  /\ UNCHANGED <<wireVars, received, clientClosed>>

\* Mutation: the connector's result is taken without another look.
Connected_Unchecked ==
  /\ At("connecting")
  /\ Goto("reading") /\ stream' = [stream EXCEPT !.held = TRUE] /\ UNCHANGED socket
  /\ UNCHANGED <<wireVars, received, clientClosed>>

\* The connector's socket, which may still be in its handshake: a run that
\* should not go on closes it.
Connected ==
  /\ At("connecting")
  /\ IF GoesOn
     THEN Goto("reading") /\ stream' = [stream EXCEPT !.held = TRUE] /\ UNCHANGED socket
     ELSE Finish
  /\ UNCHANGED <<wireVars, received, clientClosed>>

\* One message: an error is terminal, an unreadable event is not, and a newer
\* snapshot is added to the controller whatever the generation.
Read ==
  /\ At("reading") /\ HasMessage
  /\ LET event == Head(socket.inbox)
     IN  \/ /\ stream.closed \/ ~stream.hasListener
            /\ Retry \/ (reader.attempt >= MaxRetries /\ Finish)
            /\ UNCHANGED received
         \/ /\ ~stream.closed /\ stream.hasListener
            /\ \/ event \in {Refusal, Unreadable} /\ Catch(event = Refusal) /\ UNCHANGED received
               \/ /\ event >= 0 /\ ~IsNewer(event)
                  /\ socket' = Consumed /\ UNCHANGED <<reader, stream, received>>
               \/ /\ event >= 0 /\ IsNewer(event)
                  /\ reader' = [reader EXCEPT !.revision = event]
                  /\ received' = event
                  /\ socket' = Consumed /\ UNCHANGED stream
  /\ UNCHANGED <<wireVars, clientClosed>>

\* The connector, the handshake or the messages end: with an error, or without
\* one, which counts as a failure as well.
SocketDone ==
  /\ \/ At("connecting") /\ SocketEnded /\ Catch(FALSE)
     \/ At("reading") /\ SocketEnded /\ (Catch(FALSE) \/ Retry)
  /\ UNCHANGED <<wireVars, received, clientClosed>>

\* _waitForRetry: the delay ends, or the stream or the client wakes it.
WaitEnds ==
  /\ At("waiting")
  /\ IF GoesOn THEN Goto("connecting") /\ socket' = Dial(reader.revision) /\ UNCHANGED stream
     ELSE Finish
  /\ UNCHANGED <<wireVars, received, clientClosed>>

\* The socket that the stream holds is closed; what has arrived is still read.
CloseHeld == IF stream.held THEN socket' \in Ended(socket) ELSE UNCHANGED socket

\* _pause, when the last listener has cancelled.
Pause ==
  /\ library = "dart" /\ stream.hasListener
  /\ stream' = [stream EXCEPT !.hasListener = FALSE, !.held = FALSE, !.generation = @ + 1]
  /\ CloseHeld
  /\ UNCHANGED <<wireVars, reader, received, clientClosed>>

\* close, called by the client.
CloseCancels ==
  /\ library = "dart" /\ clientClosed /\ ~stream.closed
  /\ stream' = [stream EXCEPT !.closed = TRUE, !.held = FALSE, !.generation = @ + 1]
  /\ CloseHeld
  /\ UNCHANGED <<wireVars, reader, received, clientClosed>>

Work == Connected \/ Read \/ SocketDone \/ WaitEnds

Next == Work \/ Listen \/ Pause \/ CloseCancels
=============================================================================
