--------------------------- MODULE LibraryStreams ---------------------------
(***************************************************************************)
(* The snapshot streams of the three libraries against the same server and *)
(* the same network: each behaviour is one stream of one of them.          *)
(***************************************************************************)
EXTENDS StreamWire

CONSTANT MaxListens     \* bound on how often a Dart listener subscribes

ASSUME ListensAssumption == MaxListens \in Nat

Go     == INSTANCE GoStream
Dart   == INSTANCE DartStream
Python == INSTANCE PythonStream

Init == Go!Init \/ Dart!Init \/ Python!Init

Next == Wire \/ Go!Next \/ Dart!Next \/ Python!Next

Spec == Init /\ [][Next]_vars

\* A connection that is asked for is answered, timers fire, tasks go on, and
\* close reaches every stream; a consumer that has a stream keeps asking it.
Fairness ==
  /\ WF_vars(Accept)
  /\ WF_vars(Go!Work) /\ WF_vars(Dart!Work) /\ WF_vars(Python!Work)
  /\ WF_vars(Go!Take) /\ WF_vars(Python!Anext)
  /\ WF_vars(Go!CloseCancels) /\ WF_vars(Dart!CloseCancels) /\ WF_vars(Python!CloseCancels)

FairSpec == Spec /\ Fairness

-----------------------------------------------------------------------------
\* Whatever sockets, generations and overwritten channels a snapshot went
\* through, consumers of the three libraries see what a SnapshotFeed shows:
\* published snapshots, ever newer ones, and none after the stream was closed,
\* except for the one Go's closed channel may still hold.
Feed == INSTANCE SnapshotFeed WITH
          seen <- received,
          open <- IF library = "go" THEN reader.pc # "done" \/ stream.buffered # 0
                  ELSE ~stream.closed

ImplementsFeed == Feed!Spec

\* The consumer closed or paused the stream, or was told of a failure.
Excused ==
  \/ clientClosed \/ stream.closed
  \/ stream.failed \/ reader.pc = "raised"
  \/ library = "dart" /\ ~stream.hasListener

\* A consumer that is behind the server catches up, although a snapshot was
\* dropped with a socket, replaced in a channel or made unreadable, unless the
\* stream was closed or paused or its failure was reported.
ConsumerCatchesUp == received < published ~> (received = published \/ Excused)

\* Once the client or the stream was closed, its task ends and the socket it was
\* reading is closed, whichever await or select the close met.  A socket that
\* the library drops without closing it is not followed any further.
CloseStopsStreams ==
  clientClosed \/ stream.closed ~>
    [](reader.pc \in {"idle", "done", "raised"} /\ socket.state \notin {"dialing", "open"})
=============================================================================
