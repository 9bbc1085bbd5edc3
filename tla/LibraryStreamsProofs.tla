------------------------ MODULE LibraryStreamsProofs ------------------------
(***************************************************************************)
(* The streams of the three libraries implement SnapshotFeed, for every    *)
(* number of retries, snapshots, faults and listeners.                     *)
(***************************************************************************)
EXTENDS LibraryStreams, TLAPS

States  == {"none", "dialing", "open", "ended"}
Sockets == [state : States, since : Nat, inbox : Seq(Int)]

\* Nothing newer than snapshot n: in an inbox, and in a socket, which asks for
\* nothing newer either.
Within(inbox, n) == inbox \in Seq(Int) /\ \A i \in 1 .. Len(inbox) : inbox[i] <= n

UpTo(s, n) == s \in Sockets /\ s.since <= n /\ Within(s.inbox, n)

\* What was shown, accepted and published is in order.
OrderInv ==
  /\ {published, received, reader.revision} \subseteq Nat
  /\ received <= reader.revision /\ reader.revision <= published
  /\ UpTo(socket, published)

\* Go: what waits in the channel is newer than what the consumer took, and what
\* the goroutine is about to send is newer than both.
GoPcs == {"registering", "top", "dialing", "reading", "waiting", "offering", "draining",
          "replacing", "done"}

GoReaders == [pc : GoPcs, revision : Nat, attempt : Nat]
GoStreams == [closed : BOOLEAN, registered : BOOLEAN, buffered : Nat, failed : BOOLEAN]

GoInv ==
  /\ reader \in GoReaders /\ stream \in GoStreams
  /\ stream.buffered # 0 => received < stream.buffered /\ stream.buffered <= reader.revision
  /\ reader.pc \in {"offering", "draining", "replacing"} =>
       received < reader.revision /\ stream.buffered < reader.revision
  /\ reader.pc = "replacing" => stream.buffered = 0

\* Dart and Python show what they accept, so that only the types matter.
Pcs     == {"idle", "connecting", "reading", "waiting", "raised", "done"}
Readers == [pc : Pcs, revision : Nat, attempt : Nat, generation : Nat]

DartStreams ==
  [closed : BOOLEAN, failed : BOOLEAN, held : BOOLEAN, generation : Nat,
   hasListener : BOOLEAN, restartRequested : BOOLEAN, listens : Nat]

PythonStreams == [closed : BOOLEAN, failed : BOOLEAN, held : BOOLEAN, generation : Nat]

DartInv   == reader \in Readers /\ stream \in DartStreams
PythonInv == reader \in Readers /\ stream \in PythonStreams

FeedInv ==
  /\ library \in {"go", "dart", "python"}
  /\ OrderInv
  /\ library = "go" => GoInv
  /\ library = "dart" => DartInv
  /\ library = "python" => PythonInv

Open == IF library = "go" THEN reader.pc # "done" \/ stream.buffered # 0 ELSE ~stream.closed

\* What a step may show: a newer published snapshot while the feed is open, or
\* nothing, and the feed does not open again.
Shows ==
  /\ published' = published
  /\ \/ received' = received /\ (Open' => Open)
     \/ Open /\ received < received' /\ received' <= published

-----------------------------------------------------------------------------
\* A step of a library is a step of the feed.
LEMMA ShowsIsFeedStep ==
  ASSUME FeedInv, FeedInv', Shows
  PROVE  [Feed!Next]_(Feed!feedVars)
  <1>1. published' = published /\ received \in Nat /\ received' \in Nat /\ published \in Nat
    BY DEF Shows, FeedInv, OrderInv
  <1>2. Open \in BOOLEAN /\ Open' \in BOOLEAN
    BY DEF Open
  <1>3. CASE received' = received /\ Open' = Open
    BY <1>1, <1>3 DEF Open, Feed!feedVars
  <1>4. CASE received' = received /\ Open' = FALSE
    BY <1>1, <1>4 DEF Open, Feed!Next, Feed!End
  <1>5. CASE Open /\ received < received' /\ received' <= published
    <2>1. received' \in received + 1 .. published
      BY <1>1, <1>5
    <2> QED BY <1>1, <1>2, <1>5, <2>1 DEF Open, Feed!Next, Feed!Deliver
  <1> QED BY <1>2, <1>3, <1>4, <1>5 DEF Shows

\* A socket that nothing has arrived on holds nothing newer.
LEMMA DialUpTo ==
  ASSUME NEW n \in Nat, NEW since \in Nat, since <= n, NEW state \in States
  PROVE  UpTo([state |-> state, since |-> since, inbox |-> <<>>], n)
  BY DEF UpTo, Within, Sockets

\* What is left to show of a socket that carries something else now.
LEMMA CarryingUpTo ==
  ASSUME NEW n \in Nat, NEW s \in Sockets, s.since <= n, NEW state \in States,
         NEW inbox, Within(inbox, n)
  PROVE  UpTo(Carrying(s, state, inbox), n)
  <1>1. /\ Carrying(s, state, inbox) \in Sockets
        /\ Carrying(s, state, inbox).since = s.since
        /\ Carrying(s, state, inbox).inbox = inbox
    BY DEF Sockets, Carrying, Within
  <1> QED BY <1>1 DEF UpTo

\* What is lost with a socket is the last part of what was sent.
LEMMA FirstPart ==
  ASSUME NEW n \in Nat, NEW inbox, Within(inbox, n), NEW k \in 0 .. Len(inbox)
  PROVE  Within(SubSeq(inbox, 1, k), n)
  <1>1. /\ SubSeq(inbox, 1, k) \in Seq(Int) /\ Len(SubSeq(inbox, 1, k)) = k
        /\ \A i \in 1..k : SubSeq(inbox, 1, k)[i] = inbox[i]
    BY DEF Within
  <1> QED BY <1>1 DEF Within

\* What is left of a socket that ends.
LEMMA EndedUpTo ==
  ASSUME NEW n \in Nat, NEW s, UpTo(s, n), NEW t \in Ended(s)
  PROVE  UpTo(t, n)
  <1>1. PICK k \in 0 .. Len(s.inbox) : t = Carrying(s, "ended", SubSeq(s.inbox, 1, k))
    BY DEF Ended
  <1>2. s \in Sockets /\ s.since <= n /\ Within(s.inbox, n)
    BY DEF UpTo
  <1>3. Within(SubSeq(s.inbox, 1, k), n)
    BY <1>2, FirstPart
  <1>4. "ended" \in States
    BY DEF States
  <1> QED BY <1>1, <1>2, <1>3, <1>4, CarryingUpTo

\* A message that is read was at most that new, and so are the others.
LEMMA ConsumedUpTo ==
  ASSUME NEW n \in Nat, UpTo(socket, n), HasMessage
  PROVE  /\ UpTo(Consumed, n)
         /\ Head(socket.inbox) \in Int /\ Head(socket.inbox) <= n
  <1>1. /\ socket \in Sockets /\ socket.since <= n
        /\ socket.inbox \in Seq(Int) /\ socket.inbox # <<>>
    BY DEF UpTo, Within, HasMessage
  <1>2. /\ Tail(socket.inbox) \in Seq(Int) /\ Len(Tail(socket.inbox)) = Len(socket.inbox) - 1
        /\ \A i \in 1 .. Len(Tail(socket.inbox)) : Tail(socket.inbox)[i] = socket.inbox[i + 1]
        /\ Head(socket.inbox) = socket.inbox[1] /\ Len(socket.inbox) \in Nat \ {0}
    BY <1>1
  <1>3. /\ Within(Tail(socket.inbox), n)
        /\ Head(socket.inbox) \in Int /\ Head(socket.inbox) <= n
    BY <1>1, <1>2 DEF UpTo, Within
  <1>4. /\ Consumed \in Sockets /\ Consumed.since = socket.since
        /\ Consumed.inbox = Tail(socket.inbox)
    BY <1>1, <1>2 DEF Consumed, Sockets
  <1> QED BY <1>1, <1>3, <1>4 DEF UpTo

\* One more message, after one more snapshot or none.
LEMMA AppendUpTo ==
  ASSUME NEW n \in Nat, NEW m \in Nat, n <= m, UpTo(socket, n), NEW event \in Int, event <= m
  PROVE  UpTo([socket EXCEPT !.inbox = Append(@, event)], m) /\ UpTo(socket, m)
  <1>1. socket \in Sockets /\ socket.since <= m /\ Within(socket.inbox, m)
    BY DEF UpTo, Within, Sockets
  <1>2. /\ Append(socket.inbox, event) \in Seq(Int)
        /\ Len(Append(socket.inbox, event)) = Len(socket.inbox) + 1
        /\ \A i \in 1 .. Len(socket.inbox) : Append(socket.inbox, event)[i] = socket.inbox[i]
        /\ Append(socket.inbox, event)[Len(socket.inbox) + 1] = event
        /\ Len(socket.inbox) \in Nat
    BY <1>1 DEF Within
  <1>3. Within(Append(socket.inbox, event), m)
    BY <1>1, <1>2 DEF Within
  <1> DEFINE longer == [socket EXCEPT !.inbox = Append(@, event)]
  <1>4. /\ longer \in Sockets /\ longer.since = socket.since
        /\ longer.inbox = Append(socket.inbox, event)
    BY <1>1, <1>2 DEF Sockets
  <1> HIDE DEF longer
  <1>5. UpTo(longer, m) /\ UpTo(socket, m)
    BY <1>1, <1>3, <1>4 DEF UpTo
  <1> QED BY <1>5 DEF longer

\* The snapshots a subscriber gets at first are published ones.
LEMMA ReplayUpTo ==
  ASSUME published \in Nat, UpTo(socket, published)
  PROVE  UpTo(Carrying(socket, "open", Replay(socket.since)), published)
  <1> DEFINE from == IF socket.since > published - SnapshotLimit THEN socket.since
                     ELSE published - SnapshotLimit
             replay == [k \in 1 .. published - from |-> from + k]
  <1>1. socket \in Sockets /\ socket.since \in Nat /\ socket.since <= published
    BY DEF UpTo, Sockets
  <1>2. from \in Nat /\ from <= published
    BY <1>1, WireAssumption
  <1>3. Replay(socket.since) = replay
    BY DEF Replay
  <1> HIDE DEF from
  <1>4. /\ replay \in Seq(Int) /\ Len(replay) = published - from
        /\ \A i \in 1 .. published - from : replay[i] <= published
    BY <1>2
  <1> HIDE DEF replay
  <1>5. Within(replay, published)
    BY <1>4 DEF Within
  <1>6. "open" \in States
    BY DEF States
  <1> QED BY <1>1, <1>3, <1>5, <1>6, CarryingUpTo

-----------------------------------------------------------------------------
\* No socket, and a new one that resumes after a published snapshot.
LEMMA UnusedUpTo ==
  ASSUME NEW n \in Nat, NEW since \in Nat, since <= n
  PROVE  UpTo(NoSocket, n) /\ UpTo(Dial(since), n)
  <1>1. "none" \in States /\ "dialing" \in States /\ 0 \in Nat /\ 0 <= n
    BY DEF States
  <1> QED BY <1>1, DialUpTo DEF NoSocket, Dial

\* A step that shows and accepts nothing.
Quiet ==
  /\ published' = published /\ received' = received
  /\ reader'.revision = reader.revision
  /\ UpTo(socket', published)

\* Such a step keeps what was shown, accepted and published in order.
LEMMA QuietKeepsOrder ==
  ASSUME OrderInv, Quiet
  PROVE  OrderInv'
  BY DEF OrderInv, Quiet

-----------------------------------------------------------------------------
\* The goroutine goes on; nothing it has accepted changes.
LEMMA GoGoto ==
  ASSUME reader \in GoReaders, NEW pc \in GoPcs, Go!Goto(pc)
  PROVE  reader' \in GoReaders /\ reader'.pc = pc /\ reader'.revision = reader.revision
  BY DEF Go!Goto, GoReaders

\* The goroutine returns and leaves the channel as it is.
LEMMA GoEnd ==
  ASSUME reader \in GoReaders, stream \in GoStreams, NEW failed \in BOOLEAN, Go!End(failed)
  PROVE  /\ reader' \in GoReaders /\ reader'.pc = "done" /\ reader'.revision = reader.revision
         /\ stream' \in GoStreams /\ stream'.buffered = stream.buffered
  <1>1. "done" \in GoPcs
    BY DEF GoPcs
  <1> QED BY <1>1 DEF Go!End, GoReaders, GoStreams

\* streamRetry leaves the channel as it is, whether it gives up or waits.
LEMMA GoRetry ==
  ASSUME reader \in GoReaders, stream \in GoStreams, Go!Retry
  PROVE  /\ reader' \in GoReaders /\ reader'.pc \in {"done", "waiting"}
         /\ reader'.revision = reader.revision
         /\ stream' \in GoStreams /\ stream'.buffered = stream.buffered
         /\ socket' = NoSocket
  <1>1. socket' = NoSocket
    BY DEF Go!Retry, Go!NoSocket, NoSocket
  <1>2. CASE reader.attempt >= MaxRetries
    <2>1. Go!End(~stream.closed) /\ (~stream.closed) \in BOOLEAN
      BY <1>2 DEF Go!Retry
    <2> QED BY <1>1, <2>1, GoEnd
  <1>3. CASE ~(reader.attempt >= MaxRetries)
    <2> DEFINE waiting == [reader EXCEPT !.pc = "waiting"]
    <2>1. "waiting" \in GoPcs /\ reader.attempt + 1 \in Nat
      BY DEF GoPcs, GoReaders
    <2>2. reader' = [waiting EXCEPT !.attempt = reader.attempt + 1] /\ stream' = stream
      BY <1>3 DEF Go!Retry
    <2>3. /\ waiting \in GoReaders /\ waiting.pc = "waiting"
          /\ waiting.revision = reader.revision
      BY <2>1 DEF GoReaders
    <2> HIDE DEF waiting
    <2>4. reader' \in GoReaders /\ reader'.pc = "waiting" /\ reader'.revision = reader.revision
      BY <2>1, <2>2, <2>3 DEF GoReaders
    <2> QED BY <1>1, <2>2, <2>4
  <1> QED BY <1>2, <1>3

\* The steps of the goroutine that neither read a newer snapshot nor send it.
LEMMA GoQuiet ==
  ASSUME library = "go", OrderInv, GoInv, Quiet, reader' \in GoReaders, stream' \in GoStreams,
         stream'.buffered = stream.buffered,
         reader'.pc \notin {"offering", "draining", "replacing"}, reader.pc # "done"
  PROVE  OrderInv' /\ GoInv' /\ Shows
  <1>1. OrderInv'
    BY QuietKeepsOrder
  <1>2. GoInv'
    BY DEF GoInv, Quiet
  <1>3. Shows
    BY DEF Shows, Quiet, Open
  <1> QED BY <1>1, <1>2, <1>3

\* Registering the stream, cancelled or not.
LEMMA GoRegister ==
  ASSUME OrderInv, GoInv, Go!Register
  PROVE  OrderInv' /\ GoInv' /\ Shows
  <1> DEFINE registered == [stream EXCEPT !.registered = TRUE]
  <1>1. /\ library = "go" /\ reader.pc = "registering"
        /\ stream' = [registered EXCEPT !.closed = stream.closed \/ clientClosed]
        /\ Go!Goto("top") /\ UNCHANGED <<published, socket, received>>
    BY DEF Go!Register, Go!At, Go!wireVars, GoInv, GoStreams
  <1>2. registered \in GoStreams /\ registered.buffered = stream.buffered
    BY DEF GoInv, GoStreams
  <1> HIDE DEF registered
  <1>3. stream' \in GoStreams /\ stream'.buffered = stream.buffered
    BY <1>1, <1>2 DEF GoStreams
  <1>4. "top" \in GoPcs
    BY DEF GoPcs
  <1>5. reader' \in GoReaders /\ reader'.pc = "top" /\ reader'.revision = reader.revision
    BY <1>1, <1>4, GoGoto DEF GoInv
  <1>6. Quiet
    BY <1>1, <1>5 DEF Quiet, OrderInv
  <1> QED BY <1>1, <1>3, <1>5, <1>6, GoQuiet

\* The top of the loop returns or dials after the accepted snapshot.
LEMMA GoConnect ==
  ASSUME OrderInv, GoInv, Go!Connect
  PROVE  OrderInv' /\ GoInv' /\ Shows
  <1>1. library = "go" /\ reader.pc = "top" /\ UNCHANGED <<published, received>>
    BY DEF Go!Connect, Go!At, Go!wireVars
  <1>2. UpTo(socket, published) /\ UpTo(Dial(reader.revision), published)
    BY UnusedUpTo DEF OrderInv
  <1>3. reader \in GoReaders /\ stream \in GoStreams
    BY DEF GoInv
  <1>4. CASE clientClosed \/ stream.closed
    <2>1. Go!End(FALSE) /\ socket' = socket /\ FALSE \in BOOLEAN
      BY <1>4 DEF Go!Connect
    <2>2. /\ reader' \in GoReaders /\ reader'.pc = "done" /\ reader'.revision = reader.revision
          /\ stream' \in GoStreams /\ stream'.buffered = stream.buffered
      BY <1>3, <2>1, GoEnd
    <2>3. Quiet
      BY <1>1, <1>2, <2>1, <2>2 DEF Quiet
    <2> QED BY <1>1, <2>2, <2>3, GoQuiet
  <1>5. CASE ~(clientClosed \/ stream.closed)
    <2>1. Go!Goto("dialing") /\ socket' = Dial(reader.revision) /\ stream' = stream
      BY <1>5 DEF Go!Connect, Go!Dial, Dial
    <2>2. "dialing" \in GoPcs
      BY DEF GoPcs
    <2>3. reader' \in GoReaders /\ reader'.pc = "dialing" /\ reader'.revision = reader.revision
      BY <1>3, <2>1, <2>2, GoGoto
    <2>4. Quiet
      BY <1>1, <1>2, <2>1, <2>3 DEF Quiet
    <2> QED BY <1>1, <1>3, <2>1, <2>3, <2>4, GoQuiet
  <1> QED BY <1>4, <1>5

\* dial returns a socket.
LEMMA GoDialed ==
  ASSUME OrderInv, GoInv, Go!Dialed
  PROVE  OrderInv' /\ GoInv' /\ Shows
  <1>1. /\ library = "go" /\ reader.pc = "dialing" /\ Go!Goto("reading")
        /\ UNCHANGED <<published, received, stream, socket>>
    BY DEF Go!Dialed, Go!At, Go!wireVars
  <1>2. "reading" \in GoPcs
    BY DEF GoPcs
  <1>3. reader' \in GoReaders /\ reader'.pc = "reading" /\ reader'.revision = reader.revision
    BY <1>1, <1>2, GoGoto DEF GoInv
  <1>4. Quiet
    BY <1>1, <1>3 DEF Quiet, OrderInv
  <1> QED BY <1>1, <1>3, <1>4, GoQuiet DEF GoInv

\* dial or Read fails.
LEMMA GoFails ==
  ASSUME OrderInv, GoInv, Go!Fails
  PROVE  OrderInv' /\ GoInv' /\ Shows
  <1>1. /\ library = "go" /\ reader.pc \in {"dialing", "reading"} /\ Go!Retry
        /\ UNCHANGED <<published, received>>
    BY DEF Go!Fails, Go!At, Go!wireVars
  <1>2. /\ reader' \in GoReaders /\ reader'.pc \in {"done", "waiting"}
        /\ reader'.revision = reader.revision
        /\ stream' \in GoStreams /\ stream'.buffered = stream.buffered
        /\ socket' = NoSocket
    BY <1>1, GoRetry DEF GoInv
  <1>3. UpTo(NoSocket, published)
    BY UnusedUpTo DEF OrderInv
  <1>4. Quiet
    BY <1>1, <1>2, <1>3 DEF Quiet
  <1> QED BY <1>1, <1>2, <1>4, GoQuiet

\* The delay ends.
LEMMA GoWaitEnds ==
  ASSUME OrderInv, GoInv, Go!WaitEnds
  PROVE  OrderInv' /\ GoInv' /\ Shows
  <1>1. library = "go" /\ reader.pc = "waiting" /\ UNCHANGED <<published, received, socket>>
    BY DEF Go!WaitEnds, Go!At, Go!wireVars
  <1>2. reader \in GoReaders /\ stream \in GoStreams /\ "top" \in GoPcs
    BY DEF GoInv, GoPcs
  <1>3. /\ reader' \in GoReaders /\ reader'.pc \in {"top", "done"}
        /\ reader'.revision = reader.revision
        /\ stream' \in GoStreams /\ stream'.buffered = stream.buffered
    <2>1. CASE Go!Goto("top") /\ stream' = stream
      BY <1>2, <2>1, GoGoto
    <2>2. CASE Go!End(~stream.closed)
      <3>1. (~stream.closed) \in BOOLEAN
        OBVIOUS
      <3> QED BY <1>2, <2>2, <3>1, GoEnd
    <2> QED BY <2>1, <2>2 DEF Go!WaitEnds
  <1>4. Quiet
    BY <1>1, <1>3 DEF Quiet, OrderInv
  <1> QED BY <1>1, <1>3, <1>4, GoQuiet

\* A message: only a newer snapshot is about to be sent.
LEMMA GoRead ==
  ASSUME OrderInv, GoInv, Go!Read
  PROVE  OrderInv' /\ GoInv' /\ Shows
  <1> DEFINE event == Head(socket.inbox)
  <1>1. /\ library = "go" /\ reader.pc = "reading" /\ UNCHANGED <<published, received>>
        /\ HasMessage
    BY DEF Go!Read, Go!At, Go!wireVars, Go!HasMessage, HasMessage
  <1>2. /\ reader \in GoReaders /\ stream \in GoStreams
        /\ published \in Nat /\ UpTo(socket, published)
    BY DEF GoInv, OrderInv
  <1>3. /\ UpTo(Consumed, published) /\ UpTo(NoSocket, published)
        /\ event \in Int /\ event <= published
    BY <1>1, <1>2, ConsumedUpTo, UnusedUpTo
  <1>4. CASE Go!End(TRUE) /\ socket' = NoSocket
    <2>1. /\ reader' \in GoReaders /\ reader'.pc = "done" /\ reader'.revision = reader.revision
          /\ stream' \in GoStreams /\ stream'.buffered = stream.buffered
      BY <1>2, <1>4, GoEnd
    <2>2. Quiet
      BY <1>1, <1>3, <1>4, <2>1 DEF Quiet
    <2> QED BY <1>1, <2>1, <2>2, GoQuiet
  <1>5. CASE socket' = Consumed /\ reader' = reader /\ stream' = stream
    <2>1. Quiet
      BY <1>1, <1>3, <1>5 DEF Quiet
    <2> QED BY <1>1, <1>2, <1>5, <2>1, GoQuiet
  <1>6. CASE /\ event > reader.revision
             /\ reader' = [reader EXCEPT !.pc = "offering", !.revision = event, !.attempt = 0]
             /\ socket' = Consumed /\ stream' = stream
    <2> DEFINE offering == [reader EXCEPT !.pc = "offering"]
               newer    == [offering EXCEPT !.revision = event]
    <2>1. reader.revision \in Nat /\ reader.attempt \in Nat /\ "offering" \in GoPcs
      BY <1>2 DEF GoReaders, GoPcs
    <2>2. offering \in GoReaders /\ offering.pc = "offering"
      BY <1>2, <2>1 DEF GoReaders
    <2>3. reader' = [newer EXCEPT !.attempt = 0]
      BY <1>6
    <2>4. event \in Nat
      BY <1>3, <1>6, <2>1
    <2> HIDE DEF offering, event
    <2>5. newer \in GoReaders /\ newer.pc = "offering" /\ newer.revision = event
      BY <2>2, <2>4 DEF GoReaders
    <2> HIDE DEF newer
    <2>6. reader' \in GoReaders /\ reader'.pc = "offering" /\ reader'.revision = event
      BY <2>3, <2>5 DEF GoReaders
    <2>7. stream.buffered \in Nat
      BY <1>2 DEF GoStreams
    <2>8. OrderInv'
      BY <1>1, <1>3, <1>6, <2>1, <2>4, <2>6 DEF OrderInv
    <2>9. GoInv'
      BY <1>1, <1>2, <1>6, <2>1, <2>4, <2>6, <2>7 DEF GoInv, OrderInv
    <2>10. Shows
      BY <1>1, <1>6, <2>6 DEF Shows, Open
    <2> QED BY <2>8, <2>9, <2>10
  <1> HIDE DEF event
  <1>7. \/ Go!End(TRUE) /\ socket' = NoSocket
        \/ socket' = Consumed /\ reader' = reader /\ stream' = stream
        \/ /\ event > reader.revision
           /\ reader' = [reader EXCEPT !.pc = "offering", !.revision = event, !.attempt = 0]
           /\ socket' = Consumed /\ stream' = stream
    BY DEF Go!Read, Go!IsNewer, Go!Consumed, Consumed, Go!NoSocket, NoSocket, event
  <1> QED BY <1>4, <1>5, <1>6, <1>7

\* The socket, the server and what was accepted and shown stay.
LEMMA GoChannel ==
  ASSUME library = "go", OrderInv, GoInv,
         published' = published, received' = received, UpTo(socket', published),
         reader' \in GoReaders, reader'.revision = reader.revision, stream' \in GoStreams,
         reader.pc # "done",
         stream'.buffered # 0 =>
           received < stream'.buffered /\ stream'.buffered <= reader.revision,
         reader'.pc \in {"offering", "draining", "replacing"} =>
           received < reader.revision /\ stream'.buffered < reader.revision,
         reader'.pc = "replacing" => stream'.buffered = 0
  PROVE  OrderInv' /\ GoInv' /\ Shows
  <1>1. Quiet
    BY DEF Quiet
  <1>2. OrderInv'
    BY <1>1, QuietKeepsOrder
  <1>3. GoInv'
    BY DEF GoInv
  <1>4. Shows
    BY DEF Shows, Open
  <1> QED BY <1>2, <1>3, <1>4

\* The first select: the channel takes the snapshot only when it is empty.
LEMMA GoOffer ==
  ASSUME OrderInv, GoInv, Go!Offer
  PROVE  OrderInv' /\ GoInv' /\ Shows
  <1>1. /\ library = "go" /\ reader.pc = "offering"
        /\ UNCHANGED <<published, received, socket>>
    BY DEF Go!Offer, Go!At, Go!wireVars
  <1>2. /\ reader \in GoReaders /\ stream \in GoStreams
        /\ "reading" \in GoPcs /\ "draining" \in GoPcs
        /\ received < reader.revision /\ stream.buffered < reader.revision
        /\ UpTo(socket, published)
    BY <1>1 DEF GoInv, GoPcs, OrderInv
  <1>3. reader.revision \in Nat
    BY <1>2 DEF GoReaders
  <1>4. CASE stream.buffered = 0
    <2>1. Go!Goto("reading") /\ stream' = [stream EXCEPT !.buffered = reader.revision]
      BY <1>4 DEF Go!Offer, Go!Empty
    <2>2. reader' \in GoReaders /\ reader'.pc = "reading" /\ reader'.revision = reader.revision
      BY <1>2, <2>1, GoGoto
    <2>3. stream' \in GoStreams /\ stream'.buffered = reader.revision
      BY <1>2, <1>3, <2>1 DEF GoStreams
    <2> QED BY <1>1, <1>2, <1>3, <2>2, <2>3, GoChannel
  <1>5. CASE stream.buffered # 0
    <2>1. Go!Goto("draining") /\ stream' = stream
      BY <1>5 DEF Go!Offer, Go!Empty
    <2>2. reader' \in GoReaders /\ reader'.pc = "draining" /\ reader'.revision = reader.revision
      BY <1>2, <2>1, GoGoto
    <2>3. received < stream.buffered /\ stream.buffered <= reader.revision
      BY <1>5 DEF GoInv
    <2> QED BY <1>1, <1>2, <2>1, <2>2, <2>3, GoChannel
  <1> QED BY <1>4, <1>5

\* The second select: afterwards the channel is empty, whoever emptied it.
LEMMA GoDrain ==
  ASSUME OrderInv, GoInv, Go!Drain
  PROVE  OrderInv' /\ GoInv' /\ Shows
  <1>1. /\ library = "go" /\ reader.pc = "draining" /\ Go!Goto("replacing")
        /\ stream' = [stream EXCEPT !.buffered = 0]
        /\ UNCHANGED <<published, received, socket>>
    BY DEF Go!Drain, Go!At, Go!wireVars, Go!Empty
  <1>2. /\ reader \in GoReaders /\ stream \in GoStreams /\ "replacing" \in GoPcs
        /\ received < reader.revision /\ received \in Nat /\ UpTo(socket, published)
    BY <1>1 DEF GoInv, GoPcs, OrderInv
  <1>3. reader' \in GoReaders /\ reader'.pc = "replacing" /\ reader'.revision = reader.revision
    BY <1>1, <1>2, GoGoto
  <1>4. stream' \in GoStreams /\ stream'.buffered = 0
    BY <1>1, <1>2 DEF GoStreams
  <1>5. reader.revision \in Nat
    BY <1>2 DEF GoReaders
  <1> QED BY <1>1, <1>2, <1>3, <1>4, <1>5, GoChannel

\* The third select: the snapshot is newer than what the consumer took.
LEMMA GoReplace ==
  ASSUME OrderInv, GoInv, Go!Replace
  PROVE  OrderInv' /\ GoInv' /\ Shows
  <1>1. library = "go" /\ reader.pc = "replacing" /\ UNCHANGED <<published, received>>
    BY DEF Go!Replace, Go!At, Go!wireVars
  <1>2. /\ reader \in GoReaders /\ stream \in GoStreams /\ "reading" \in GoPcs
        /\ received < reader.revision /\ UpTo(socket, published)
        /\ stream.buffered = 0 /\ UpTo(NoSocket, published)
    BY <1>1, UnusedUpTo DEF GoInv, GoPcs, OrderInv
  <1>3. reader.revision \in Nat
    BY <1>2 DEF GoReaders
  <1>4. CASE /\ Go!Goto("reading") /\ socket' = socket
             /\ stream' = [stream EXCEPT !.buffered = reader.revision]
    <2>1. reader' \in GoReaders /\ reader'.pc = "reading" /\ reader'.revision = reader.revision
      BY <1>2, <1>4, GoGoto
    <2>2. stream' \in GoStreams /\ stream'.buffered = reader.revision
      BY <1>2, <1>3, <1>4 DEF GoStreams
    <2> QED BY <1>1, <1>2, <1>3, <1>4, <2>1, <2>2, GoChannel
  <1>5. CASE Go!End(FALSE) /\ socket' = NoSocket
    <2>1. FALSE \in BOOLEAN
      OBVIOUS
    <2>2. /\ reader' \in GoReaders /\ reader'.pc = "done" /\ reader'.revision = reader.revision
          /\ stream' \in GoStreams /\ stream'.buffered = stream.buffered
      BY <1>2, <1>5, <2>1, GoEnd
    <2> QED BY <1>1, <1>2, <1>5, <2>2, GoChannel
  <1> QED BY <1>4, <1>5 DEF Go!Replace, Go!NoSocket, NoSocket

\* The consumer takes what the channel holds, which is newer than what it took
\* before; the feed of a goroutine that has returned ends with it.
LEMMA GoTake ==
  ASSUME OrderInv, GoInv, Go!Take
  PROVE  OrderInv' /\ GoInv' /\ Shows
  <1>1. /\ library = "go" /\ stream.buffered # 0 /\ received' = stream.buffered
        /\ stream' = [stream EXCEPT !.buffered = 0]
        /\ UNCHANGED <<published, reader, socket>>
    BY DEF Go!Take, Go!wireVars, Go!Empty
  <1>2. /\ reader \in GoReaders /\ stream \in GoStreams
        /\ received < stream.buffered /\ stream.buffered <= reader.revision
    BY <1>1 DEF GoInv
  <1>3. stream' \in GoStreams /\ stream'.buffered = 0 /\ stream.buffered \in Nat
    BY <1>1, <1>2 DEF GoStreams
  <1>4. OrderInv'
    BY <1>1, <1>2, <1>3 DEF OrderInv
  <1>5. GoInv'
    BY <1>1, <1>2, <1>3 DEF GoInv, OrderInv
  <1>6. Shows
    BY <1>1, <1>2, <1>3 DEF Shows, Open, OrderInv
  <1> QED BY <1>4, <1>5, <1>6

\* Cancelling leaves the channel to the consumer.
LEMMA GoCancel ==
  ASSUME OrderInv, GoInv, Go!Cancel
  PROVE  OrderInv' /\ GoInv' /\ Shows
  <1>1. /\ library = "go" /\ stream' = [stream EXCEPT !.closed = TRUE]
        /\ UNCHANGED <<published, reader, socket, received>>
    BY DEF Go!Cancel, Go!wireVars
  <1>2. stream' \in GoStreams /\ stream'.buffered = stream.buffered
    BY <1>1 DEF GoInv, GoStreams
  <1> QED BY <1>1, <1>2 DEF GoInv, OrderInv, Shows, Open

\* The goroutine, and the consumer it shares the channel with.
LEMMA GoStep ==
  ASSUME FeedInv, Go!Next
  PROVE  FeedInv' /\ Shows
  <1>1. library = "go" /\ library' = library
    BY DEF Go!Next, Go!Work, Go!Register, Go!Connect, Go!Dialed, Go!Fails, Go!WaitEnds,
           Go!Read, Go!Offer, Go!Drain, Go!Replace, Go!Take, Go!Cancel, Go!At, Go!wireVars
  <1>2. OrderInv /\ GoInv
    BY <1>1 DEF FeedInv
  <1>3. OrderInv' /\ GoInv' /\ Shows
    BY <1>2, GoRegister, GoConnect, GoDialed, GoFails, GoWaitEnds, GoRead, GoOffer, GoDrain,
       GoReplace, GoTake, GoCancel
       DEF Go!Next, Go!Work
  <1> QED BY <1>1, <1>3 DEF FeedInv

-----------------------------------------------------------------------------
\* The reading task of Dart or Python goes on.
LEMMA ReaderGoesTo ==
  ASSUME reader \in Readers, NEW pc \in Pcs, reader' = [reader EXCEPT !.pc = pc]
  PROVE  reader' \in Readers /\ reader'.revision = reader.revision
  BY DEF Readers

\* The task accepts a snapshot.
LEMMA ReaderAccepts ==
  ASSUME reader \in Readers, NEW revision \in Nat, reader' = [reader EXCEPT !.revision = revision]
  PROVE  reader' \in Readers /\ reader'.revision = revision
  BY DEF Readers

\* It begins again, with its failures counted anew.
LEMMA ReaderBegins ==
  ASSUME reader \in Readers, NEW pc \in Pcs, NEW attempt \in Nat, NEW generation \in Nat,
         reader' = [reader EXCEPT !.pc = pc, !.attempt = attempt, !.generation = generation]
  PROVE  reader' \in Readers /\ reader'.revision = reader.revision
  BY DEF Readers

\* It counts one more failure.
LEMMA ReaderRetries ==
  ASSUME reader \in Readers, NEW pc \in Pcs, NEW attempt \in Nat,
         reader' = [reader EXCEPT !.pc = pc, !.attempt = attempt]
  PROVE  reader' \in Readers /\ reader'.revision = reader.revision
  BY DEF Readers

\* What a Dart stream changes, in the order of its assignments.
LEMMA DartFields ==
  ASSUME NEW s \in DartStreams
  PROVE  /\ [s EXCEPT !.generation = @ + 1] \in DartStreams
         /\ [s EXCEPT !.generation = @ + 1].closed = s.closed
         /\ \A b \in BOOLEAN : [s EXCEPT !.held = b] \in DartStreams
                           /\ [s EXCEPT !.held = b].closed = s.closed
  <1>1. /\ [s EXCEPT !.generation = @ + 1] \in DartStreams
        /\ [s EXCEPT !.generation = @ + 1].closed = s.closed
    BY DEF DartStreams
  <1>2. ASSUME NEW b \in BOOLEAN
        PROVE  [s EXCEPT !.held = b] \in DartStreams /\ [s EXCEPT !.held = b].closed = s.closed
    BY DEF DartStreams
  <1> QED BY <1>1, <1>2

\* A run ends and another one was asked for.
LEMMA DartRestarted ==
  ASSUME NEW s \in DartStreams, NEW t,
         t = [s EXCEPT !.held = FALSE, !.restartRequested = FALSE]
  PROVE  t \in DartStreams /\ t.closed = s.closed
  <1> DEFINE t1 == [s EXCEPT !.held = FALSE]
  <1>0. t = [t1 EXCEPT !.restartRequested = FALSE]
    OBVIOUS
  <1>1. t1 \in DartStreams /\ t1.closed = s.closed
    BY DEF DartStreams
  <1> HIDE DEF t1
  <1> QED BY <1>0, <1>1 DEF DartStreams

\* The stream is closed with an error.
LEMMA DartFailed ==
  ASSUME NEW s \in DartStreams, NEW t,
         t = [s EXCEPT !.failed = TRUE, !.closed = TRUE, !.held = FALSE, !.generation = @ + 1]
  PROVE  t \in DartStreams /\ t.closed = TRUE
  <1> DEFINE t1 == [s EXCEPT !.failed = TRUE]
             t2 == [t1 EXCEPT !.closed = TRUE]
             t3 == [t2 EXCEPT !.held = FALSE]
  <1>0. t = [t3 EXCEPT !.generation = @ + 1]
    OBVIOUS
  <1>1. t1 \in DartStreams /\ t1.closed = s.closed
    BY DEF DartStreams
  <1> HIDE DEF t1
  <1>2. t2 \in DartStreams /\ t2.closed = TRUE
    BY <1>1 DEF DartStreams
  <1> HIDE DEF t2
  <1>3. t3 \in DartStreams /\ t3.closed = TRUE
    BY <1>2 DEF DartStreams
  <1> HIDE DEF t3
  <1> QED BY <1>0, <1>3 DEF DartStreams

\* A listener subscribes.
LEMMA DartListened ==
  ASSUME NEW s \in DartStreams, NEW t,
         t = [s EXCEPT !.hasListener = TRUE, !.listens = @ + 1]
  PROVE  t \in DartStreams /\ t.closed = s.closed
  <1> DEFINE t1 == [s EXCEPT !.hasListener = TRUE]
  <1>0. t = [t1 EXCEPT !.listens = @ + 1]
    OBVIOUS
  <1>1. t1 \in DartStreams /\ t1.closed = s.closed
    BY DEF DartStreams
  <1> HIDE DEF t1
  <1> QED BY <1>0, <1>1 DEF DartStreams

\* The last listener cancels.
LEMMA DartPaused ==
  ASSUME NEW s \in DartStreams, NEW t,
         t = [s EXCEPT !.hasListener = FALSE, !.held = FALSE, !.generation = @ + 1]
  PROVE  t \in DartStreams /\ t.closed = s.closed
  <1> DEFINE t1 == [s EXCEPT !.hasListener = FALSE]
             t2 == [t1 EXCEPT !.held = FALSE]
  <1>0. t = [t2 EXCEPT !.generation = @ + 1]
    OBVIOUS
  <1>1. t1 \in DartStreams /\ t1.closed = s.closed
    BY DEF DartStreams
  <1> HIDE DEF t1
  <1>2. t2 \in DartStreams /\ t2.closed = s.closed
    BY <1>1 DEF DartStreams
  <1> HIDE DEF t2
  <1> QED BY <1>0, <1>2 DEF DartStreams

\* The client closes the stream.
LEMMA DartClosed ==
  ASSUME NEW s \in DartStreams, NEW t,
         t = [s EXCEPT !.closed = TRUE, !.held = FALSE, !.generation = @ + 1]
  PROVE  t \in DartStreams /\ t.closed = TRUE
  <1> DEFINE t1 == [s EXCEPT !.closed = TRUE]
             t2 == [t1 EXCEPT !.held = FALSE]
  <1>0. t = [t2 EXCEPT !.generation = @ + 1]
    OBVIOUS
  <1>1. t1 \in DartStreams /\ t1.closed = TRUE
    BY DEF DartStreams
  <1> HIDE DEF t1
  <1>2. t2 \in DartStreams /\ t2.closed = TRUE
    BY <1>1 DEF DartStreams
  <1> HIDE DEF t2
  <1> QED BY <1>0, <1>2 DEF DartStreams

-----------------------------------------------------------------------------
\* A step of a Dart stream that shows and accepts nothing.
DartKeeps ==
  /\ reader' \in Readers /\ reader'.revision = reader.revision
  /\ stream' \in DartStreams /\ (stream.closed => stream'.closed)
  /\ UpTo(socket', published)

\* Nothing is shown, and a closed stream stays closed.
LEMMA DartQuiet ==
  ASSUME library = "dart", OrderInv, DartInv, DartKeeps,
         UNCHANGED <<library, published, received>>
  PROVE  OrderInv' /\ DartInv' /\ Shows
  <1>1. Quiet
    BY DEF Quiet, DartKeeps
  <1>2. OrderInv'
    BY <1>1, QuietKeepsOrder
  <1>3. stream.closed \in BOOLEAN /\ stream'.closed \in BOOLEAN
    BY DEF DartInv, DartKeeps, DartStreams
  <1>4. DartInv'
    BY DEF DartInv, DartKeeps
  <1>5. Shows
    BY <1>3 DEF Shows, Open, DartKeeps
  <1> QED BY <1>2, <1>4, <1>5

\* The sockets a step of a reading task may leave.
LEMMA SocketsOfReader ==
  ASSUME OrderInv
  PROVE  /\ UpTo(socket, published) /\ UpTo(NoSocket, published)
         /\ UpTo(Dial(reader.revision), published)
         /\ \A t \in Ended(socket) : UpTo(t, published)
  <1>1. /\ published \in Nat /\ reader.revision \in Nat /\ reader.revision <= published
        /\ UpTo(socket, published)
    BY DEF OrderInv
  <1>2. \A t \in Ended(socket) : UpTo(t, published)
    BY <1>1, EndedUpTo
  <1> QED BY <1>1, <1>2, UnusedUpTo

\* A run begins after the accepted snapshot.
LEMMA DartBegin ==
  ASSUME OrderInv, DartInv, NEW object \in DartStreams, stream.closed => object.closed,
         Dart!Begin(object)
  PROVE  DartKeeps
  <1> DEFINE pc == IF clientClosed THEN "idle" ELSE "connecting"
  <1>1. pc \in Pcs /\ object.generation + 1 \in Nat /\ 0 \in Nat
    BY DEF Pcs, DartStreams
  <1>2. /\ stream' = [object EXCEPT !.generation = @ + 1]
        /\ reader' = [reader EXCEPT !.pc = pc, !.attempt = 0,
                                    !.generation = object.generation + 1]
    BY DEF Dart!Begin
  <1>3. socket' = NoSocket \/ socket' = Dial(reader.revision)
    BY DEF Dart!Begin, Dart!NoSocket, NoSocket, Dart!Dial, Dial
  <1> HIDE DEF pc
  <1>4. reader' \in Readers /\ reader'.revision = reader.revision
    BY <1>1, <1>2, ReaderBegins DEF DartInv
  <1>5. stream' \in DartStreams /\ stream'.closed = object.closed
    BY <1>2, DartFields
  <1>6. UpTo(socket', published)
    BY <1>3, SocketsOfReader
  <1> QED BY <1>4, <1>5, <1>6 DEF DartKeeps

\* A run ends, or is followed by the next one.
LEMMA DartFinish ==
  ASSUME OrderInv, DartInv, Dart!Finish
  PROVE  DartKeeps
  <1> DEFINE restarted == [stream EXCEPT !.held = FALSE, !.restartRequested = FALSE]
  <1>1. restarted \in DartStreams /\ restarted.closed = stream.closed
    BY DartRestarted DEF DartInv
  <1>2. CASE Dart!Begin(restarted)
    <2> HIDE DEF restarted
    <2> QED BY <1>1, <1>2, DartBegin
  <1>3. CASE Dart!Goto("idle") /\ stream' = [stream EXCEPT !.held = FALSE] /\ socket' = NoSocket
    <2>1. "idle" \in Pcs
      BY DEF Pcs
    <2>2. reader' \in Readers /\ reader'.revision = reader.revision
      BY <1>3, <2>1, ReaderGoesTo DEF DartInv, Dart!Goto
    <2>3. stream' \in DartStreams /\ stream'.closed = stream.closed
      BY <1>3, DartFields DEF DartInv
    <2> QED BY <1>3, <2>2, <2>3, SocketsOfReader DEF DartKeeps
  <1> QED BY <1>2, <1>3 DEF Dart!Finish, Dart!NoSocket, NoSocket

\* addError, and close.
LEMMA DartFail ==
  ASSUME OrderInv, DartInv, Dart!Fail
  PROVE  DartKeeps
  <1>1. "idle" \in Pcs
    BY DEF Pcs
  <1>2. reader' \in Readers /\ reader'.revision = reader.revision
    BY <1>1, ReaderGoesTo DEF DartInv, Dart!Fail, Dart!Goto
  <1>3. stream' \in DartStreams /\ stream'.closed = TRUE
    BY DartFailed DEF DartInv, Dart!Fail
  <1>4. socket' = NoSocket
    BY DEF Dart!Fail, Dart!NoSocket, NoSocket
  <1> QED BY <1>2, <1>3, <1>4, SocketsOfReader DEF DartKeeps

\* A delay begins.
LEMMA DartRetry ==
  ASSUME OrderInv, DartInv, Dart!Retry
  PROVE  DartKeeps
  <1>1. "waiting" \in Pcs /\ reader.attempt + 1 \in Nat
    BY DEF Pcs, DartInv, Readers
  <1>2. /\ reader' = [reader EXCEPT !.pc = "waiting", !.attempt = reader.attempt + 1]
        /\ stream' = [stream EXCEPT !.held = FALSE] /\ socket' = NoSocket
    BY DEF Dart!Retry, Dart!NoSocket, NoSocket
  <1>3. reader' \in Readers /\ reader'.revision = reader.revision
    BY <1>1, <1>2, ReaderRetries DEF DartInv
  <1>4. stream' \in DartStreams /\ stream'.closed = stream.closed
    BY <1>2, DartFields DEF DartInv
  <1> QED BY <1>2, <1>3, <1>4, SocketsOfReader DEF DartKeeps

\* Whatever the catch block decides.
LEMMA DartCatch ==
  ASSUME OrderInv, DartInv, NEW terminal \in BOOLEAN, Dart!Catch(terminal)
  PROVE  DartKeeps
  BY DartFinish, DartFail, DartRetry DEF Dart!Catch

\* onListen, while a run is under way or not.
LEMMA DartListen ==
  ASSUME OrderInv, DartInv, Dart!Listen
  PROVE  OrderInv' /\ DartInv' /\ Shows
  <1> DEFINE object == [stream EXCEPT !.hasListener = TRUE, !.listens = @ + 1]
  <1>1. library = "dart" /\ UNCHANGED <<library, published, received>>
    BY DEF Dart!Listen, Dart!wireVars
  <1>2. object \in DartStreams /\ object.closed = stream.closed
    BY DartListened DEF DartInv
  <1>3. \/ /\ stream' = [object EXCEPT !.restartRequested = @ \/ ~stream.closed]
           /\ UNCHANGED <<socket, reader>>
        \/ Dart!Begin(object)
    BY DEF Dart!Listen
  <1> HIDE DEF object
  <1>4. CASE /\ stream' = [object EXCEPT !.restartRequested = @ \/ ~stream.closed]
             /\ UNCHANGED <<socket, reader>>
    <2>1. (object.restartRequested \/ ~stream.closed) \in BOOLEAN
      OBVIOUS
    <2>2. stream' \in DartStreams /\ stream'.closed = object.closed
      BY <1>2, <1>4, <2>1 DEF DartStreams
    <2>3. DartKeeps
      BY <1>2, <1>4, <2>2, SocketsOfReader DEF DartKeeps, DartInv
    <2> QED BY <1>1, <2>3, DartQuiet
  <1>5. CASE Dart!Begin(object)
    <2>1. DartKeeps
      BY <1>2, <1>5, DartBegin
    <2> QED BY <1>1, <2>1, DartQuiet
  <1> QED BY <1>3, <1>4, <1>5

\* The connector's result is used or dropped.
LEMMA DartConnected ==
  ASSUME OrderInv, DartInv, Dart!Connected
  PROVE  OrderInv' /\ DartInv' /\ Shows
  <1>1. library = "dart" /\ UNCHANGED <<library, published, received>>
    BY DEF Dart!Connected, Dart!At, Dart!wireVars
  <1>2. CASE /\ Dart!Goto("reading") /\ stream' = [stream EXCEPT !.held = TRUE]
             /\ UNCHANGED socket
    <2>1. "reading" \in Pcs
      BY DEF Pcs
    <2>2. reader' \in Readers /\ reader'.revision = reader.revision
      BY <1>2, <2>1, ReaderGoesTo DEF DartInv, Dart!Goto
    <2>3. stream' \in DartStreams /\ stream'.closed = stream.closed
      BY <1>2, DartFields DEF DartInv
    <2> QED BY <1>1, <1>2, <2>2, <2>3, SocketsOfReader, DartQuiet DEF DartKeeps
  <1>3. CASE Dart!Finish
    BY <1>1, <1>3, DartFinish, DartQuiet
  <1> QED BY <1>2, <1>3 DEF Dart!Connected

\* A message: a newer snapshot is shown while the stream is open.
LEMMA DartRead ==
  ASSUME OrderInv, DartInv, Dart!Read
  PROVE  OrderInv' /\ DartInv' /\ Shows
  <1> DEFINE event == Head(socket.inbox)
  <1>1. library = "dart" /\ UNCHANGED <<library, published>> /\ HasMessage
    BY DEF Dart!Read, Dart!At, Dart!wireVars, Dart!HasMessage, HasMessage
  <1>2. /\ UpTo(Consumed, published) /\ event \in Int /\ event <= published
    BY <1>1, ConsumedUpTo DEF OrderInv
  <1>3. CASE (Dart!Retry \/ Dart!Finish) /\ UNCHANGED received
    BY <1>1, <1>3, DartRetry, DartFinish, DartQuiet
  <1>4. CASE Dart!Catch(event = Refusal) /\ UNCHANGED received
    <2>1. (event = Refusal) \in BOOLEAN
      OBVIOUS
    <2> QED BY <1>1, <1>4, <2>1, DartCatch, DartQuiet
  <1>5. CASE socket' = Consumed /\ UNCHANGED <<reader, stream, received>>
    <2>1. DartKeeps
      BY <1>2, <1>5 DEF DartKeeps, DartInv
    <2> QED BY <1>1, <1>5, <2>1, DartQuiet
  <1>6. CASE /\ event > reader.revision /\ ~stream.closed
             /\ reader' = [reader EXCEPT !.revision = event] /\ received' = event
             /\ socket' = Consumed /\ UNCHANGED stream
    <2>1. event \in Nat /\ received < event
      BY <1>2, <1>6 DEF OrderInv
    <2> HIDE DEF event
    <2>2. reader' \in Readers /\ reader'.revision = event
      BY <1>6, <2>1, ReaderAccepts DEF DartInv
    <2>3. OrderInv'
      BY <1>1, <1>2, <1>6, <2>1, <2>2 DEF OrderInv
    <2>4. DartInv'
      BY <1>6, <2>2 DEF DartInv
    <2>5. Shows
      BY <1>1, <1>2, <1>6, <2>1 DEF Shows, Open
    <2> QED BY <2>3, <2>4, <2>5
  <1> HIDE DEF event
  <1>7. \/ (Dart!Retry \/ Dart!Finish) /\ UNCHANGED received
        \/ Dart!Catch(event = Refusal) /\ UNCHANGED received
        \/ socket' = Consumed /\ UNCHANGED <<reader, stream, received>>
        \/ /\ event > reader.revision /\ ~stream.closed
           /\ reader' = [reader EXCEPT !.revision = event] /\ received' = event
           /\ socket' = Consumed /\ UNCHANGED stream
    BY DEF Dart!Read, Dart!IsNewer, Dart!Consumed, Consumed, Dart!Refusal, Refusal, event
  <1> QED BY <1>3, <1>4, <1>5, <1>6, <1>7

\* A socket ends.
LEMMA DartSocketDone ==
  ASSUME OrderInv, DartInv, Dart!SocketDone
  PROVE  OrderInv' /\ DartInv' /\ Shows
  <1>1. library = "dart" /\ UNCHANGED <<library, published, received>>
    BY DEF Dart!SocketDone, Dart!At, Dart!wireVars
  <1>2. FALSE \in BOOLEAN
    OBVIOUS
  <1>3. DartKeeps
    BY <1>2, DartCatch, DartRetry DEF Dart!SocketDone
  <1> QED BY <1>1, <1>3, DartQuiet

\* The delay ends.
LEMMA DartWaitEnds ==
  ASSUME OrderInv, DartInv, Dart!WaitEnds
  PROVE  OrderInv' /\ DartInv' /\ Shows
  <1>1. library = "dart" /\ UNCHANGED <<library, published, received>>
    BY DEF Dart!WaitEnds, Dart!At, Dart!wireVars
  <1>2. CASE Dart!Goto("connecting") /\ socket' = Dial(reader.revision) /\ UNCHANGED stream
    <2>1. "connecting" \in Pcs
      BY DEF Pcs
    <2>2. reader' \in Readers /\ reader'.revision = reader.revision
      BY <1>2, <2>1, ReaderGoesTo DEF DartInv, Dart!Goto
    <2>3. DartKeeps
      BY <1>2, <2>2, SocketsOfReader DEF DartKeeps, DartInv
    <2> QED BY <1>1, <2>3, DartQuiet
  <1>3. CASE Dart!Finish
    BY <1>1, <1>3, DartFinish, DartQuiet
  <1> QED BY <1>2, <1>3 DEF Dart!WaitEnds, Dart!Dial, Dial

\* _pause and close close the socket that the stream holds.
LEMMA DartLeave ==
  ASSUME OrderInv, DartInv, Dart!Pause \/ Dart!CloseCancels
  PROVE  OrderInv' /\ DartInv' /\ Shows
  <1>1. /\ library = "dart" /\ UNCHANGED <<library, published, received, reader>>
        /\ Dart!CloseHeld
    BY DEF Dart!Pause, Dart!CloseCancels, Dart!wireVars
  <1>2. UpTo(socket', published)
    BY <1>1, SocketsOfReader DEF Dart!CloseHeld, Dart!Ended, Ended, Dart!Carrying, Carrying
  <1>3. stream' \in DartStreams /\ (stream.closed => stream'.closed)
    BY DartPaused, DartClosed DEF DartInv, Dart!Pause, Dart!CloseCancels
  <1>4. DartKeeps
    BY <1>1, <1>2, <1>3 DEF DartKeeps, DartInv
  <1> QED BY <1>1, <1>4, DartQuiet

\* A run of _start, and the listener and the client that change it.
LEMMA DartStep ==
  ASSUME FeedInv, Dart!Next
  PROVE  FeedInv' /\ Shows
  <1>1. library = "dart" /\ library' = library
    BY DEF Dart!Next, Dart!Work, Dart!Connected, Dart!Read, Dart!SocketDone, Dart!WaitEnds,
           Dart!Listen, Dart!Pause, Dart!CloseCancels, Dart!At, Dart!wireVars
  <1>2. OrderInv /\ DartInv
    BY <1>1 DEF FeedInv
  <1>3. OrderInv' /\ DartInv' /\ Shows
    BY <1>2, DartConnected, DartRead, DartSocketDone, DartWaitEnds, DartListen, DartLeave
       DEF Dart!Next, Dart!Work
  <1> QED BY <1>1, <1>3 DEF FeedInv

-----------------------------------------------------------------------------
\* The same for a Python stream.
PythonKeeps ==
  /\ reader' \in Readers /\ reader'.revision = reader.revision
  /\ stream' \in PythonStreams /\ (stream.closed => stream'.closed)
  /\ UpTo(socket', published)

\* Nothing is shown, and a closed stream stays closed.
LEMMA PythonQuiet ==
  ASSUME library = "python", OrderInv, PythonInv, PythonKeeps,
         UNCHANGED <<library, published, received>>
  PROVE  OrderInv' /\ PythonInv' /\ Shows
  <1>1. Quiet
    BY DEF Quiet, PythonKeeps
  <1>2. OrderInv'
    BY <1>1, QuietKeepsOrder
  <1>3. stream.closed \in BOOLEAN /\ stream'.closed \in BOOLEAN
    BY DEF PythonInv, PythonKeeps, PythonStreams
  <1>4. PythonInv'
    BY DEF PythonInv, PythonKeeps
  <1>5. Shows
    BY <1>3 DEF Shows, Open, PythonKeeps
  <1> QED BY <1>2, <1>4, <1>5

\* What __anext__ changes of its stream.
LEMMA PythonFields ==
  ASSUME NEW s \in PythonStreams
  PROVE  /\ [s EXCEPT !.failed = TRUE] \in PythonStreams
         /\ [s EXCEPT !.failed = TRUE].closed = s.closed
         /\ \A b \in BOOLEAN : [s EXCEPT !.held = b] \in PythonStreams
                           /\ [s EXCEPT !.held = b].closed = s.closed
  <1>1. [s EXCEPT !.failed = TRUE] \in PythonStreams /\ [s EXCEPT !.failed = TRUE].closed = s.closed
    BY DEF PythonStreams
  <1>2. ASSUME NEW b \in BOOLEAN
        PROVE  [s EXCEPT !.held = b] \in PythonStreams /\ [s EXCEPT !.held = b].closed = s.closed
    BY DEF PythonStreams
  <1> QED BY <1>1, <1>2

\* The top of the loop reads on, connects or ends.
LEMMA PythonLoop ==
  ASSUME OrderInv, PythonInv, NEW failures \in Nat, Python!Loop(failures), UNCHANGED stream
  PROVE  PythonKeeps
  <1> DEFINE pc == IF Python!Closed THEN "done"
                   ELSE IF stream.held THEN "reading" ELSE "connecting"
  <1>1. pc \in Pcs /\ stream.generation \in Nat
    BY DEF Pcs, PythonInv, PythonStreams
  <1>2. /\ reader' = [reader EXCEPT !.pc = pc, !.attempt = failures,
                                    !.generation = stream.generation]
        /\ socket' = socket \/ socket' = Dial(reader.revision)
    BY DEF Python!Loop, Python!Dial, Dial
  <1> HIDE DEF pc
  <1>3. reader' \in Readers /\ reader'.revision = reader.revision
    BY <1>1, <1>2, ReaderBegins DEF PythonInv
  <1>4. UpTo(socket', published)
    BY <1>2, SocketsOfReader
  <1> QED BY <1>3, <1>4 DEF PythonKeeps, PythonInv

\* __anext__ goes on or ends.
LEMMA PythonGoto ==
  ASSUME OrderInv, PythonInv, NEW pc \in Pcs, Python!Goto(pc), UNCHANGED stream,
         UpTo(socket', published)
  PROVE  PythonKeeps
  <1>1. reader' \in Readers /\ reader'.revision = reader.revision
    BY ReaderGoesTo DEF PythonInv, Python!Goto
  <1> QED BY <1>1 DEF PythonKeeps, PythonInv

\* __anext__ raises and leaves the socket.
LEMMA PythonRaise ==
  ASSUME OrderInv, PythonInv, Python!Raise, UpTo(socket', published)
  PROVE  PythonKeeps
  <1>1. "raised" \in Pcs
    BY DEF Pcs
  <1>2. reader' \in Readers /\ reader'.revision = reader.revision
    BY <1>1, ReaderGoesTo DEF PythonInv, Python!Raise, Python!Goto
  <1>3. stream' \in PythonStreams /\ stream'.closed = stream.closed
    BY PythonFields DEF PythonInv, Python!Raise
  <1> QED BY <1>2, <1>3 DEF PythonKeeps

\* A failure is raised or waited for.
LEMMA PythonFailure ==
  ASSUME OrderInv, PythonInv, Python!Failure
  PROVE  PythonKeeps
  <1> DEFINE pc == IF reader.attempt >= MaxRetries THEN "raised" ELSE "waiting"
  <1>1. pc \in Pcs
    BY DEF Pcs
  <1>2. reader' = [reader EXCEPT !.pc = pc]
    BY DEF Python!Failure, Python!Goto
  <1> HIDE DEF pc
  <1>3. reader' \in Readers /\ reader'.revision = reader.revision
    BY <1>1, <1>2, ReaderGoesTo DEF PythonInv
  <1>4. stream' \in PythonStreams /\ stream'.closed = stream.closed
    BY PythonFields DEF PythonInv, Python!Failure
  <1>5. socket' = NoSocket
    BY DEF Python!Failure, Python!NoSocket, NoSocket
  <1> QED BY <1>3, <1>4, <1>5, SocketsOfReader DEF PythonKeeps

\* connect returns a socket that is used or dropped.
LEMMA PythonConnected ==
  ASSUME OrderInv, PythonInv, Python!Connected
  PROVE  OrderInv' /\ PythonInv' /\ Shows
  <1>1. library = "python" /\ UNCHANGED <<library, published, received>>
    BY DEF Python!Connected, Python!At, Python!wireVars
  <1>2. "done" \in Pcs /\ "reading" \in Pcs
    BY DEF Pcs
  <1>3. CASE Python!Goto("done") /\ socket' = NoSocket /\ UNCHANGED stream
    BY <1>1, <1>2, <1>3, PythonGoto, SocketsOfReader, PythonQuiet
  <1>4. CASE /\ Python!Goto("reading") /\ stream' = [stream EXCEPT !.held = TRUE]
             /\ UNCHANGED socket
    <2>1. reader' \in Readers /\ reader'.revision = reader.revision
      BY <1>2, <1>4, ReaderGoesTo DEF PythonInv, Python!Goto
    <2>2. stream' \in PythonStreams /\ stream'.closed = stream.closed
      BY <1>4, PythonFields DEF PythonInv
    <2>3. PythonKeeps
      BY <1>4, <2>1, <2>2, SocketsOfReader DEF PythonKeeps
    <2> QED BY <1>1, <2>3, PythonQuiet
  <1> QED BY <1>3, <1>4 DEF Python!Connected, Python!Stop, Python!NoSocket, NoSocket

\* A frame: a newer snapshot is returned while the stream is open.
LEMMA PythonRead ==
  ASSUME OrderInv, PythonInv, Python!Read
  PROVE  OrderInv' /\ PythonInv' /\ Shows
  <1> DEFINE event == Head(socket.inbox)
  <1>1. /\ library = "python" /\ UNCHANGED <<library, published>> /\ HasMessage
        /\ socket' = Consumed
    BY DEF Python!Read, Python!At, Python!wireVars, Python!HasMessage, HasMessage,
           Python!Consumed, Consumed
  <1>2. UpTo(Consumed, published) /\ event \in Int /\ event <= published /\ "done" \in Pcs
    BY <1>1, ConsumedUpTo DEF OrderInv, Pcs
  <1>3. CASE Python!Goto("done") /\ UNCHANGED <<stream, received>>
    BY <1>1, <1>2, <1>3, PythonGoto, PythonQuiet
  <1>4. CASE Python!Raise /\ UNCHANGED received
    BY <1>1, <1>2, <1>4, PythonRaise, PythonQuiet
  <1>5. CASE UNCHANGED <<reader, stream, received>>
    <2>1. PythonKeeps
      BY <1>1, <1>2, <1>5 DEF PythonKeeps, PythonInv
    <2> QED BY <1>1, <1>5, <2>1, PythonQuiet
  <1>6. CASE /\ event > reader.revision /\ ~stream.closed
             /\ reader' = [reader EXCEPT !.pc = "idle", !.revision = event]
             /\ received' = event /\ UNCHANGED stream
    <2> DEFINE idle == [reader EXCEPT !.pc = "idle"]
    <2>1. event \in Nat /\ received < event /\ "idle" \in Pcs
      BY <1>2, <1>6 DEF OrderInv, Pcs
    <2>2. idle \in Readers
      BY <2>1 DEF PythonInv, Readers
    <2>3. reader' = [idle EXCEPT !.revision = event]
      BY <1>6
    <2> HIDE DEF event, idle
    <2>4. reader' \in Readers /\ reader'.revision = event
      BY <2>1, <2>2, <2>3 DEF Readers
    <2>5. OrderInv'
      BY <1>1, <1>2, <1>6, <2>1, <2>4 DEF OrderInv
    <2>6. PythonInv'
      BY <1>6, <2>4 DEF PythonInv
    <2>7. Shows
      BY <1>1, <1>2, <1>6, <2>1 DEF Shows, Open
    <2> QED BY <2>5, <2>6, <2>7
  <1> HIDE DEF event
  <1>7. \/ Python!Goto("done") /\ UNCHANGED <<stream, received>>
        \/ Python!Raise /\ UNCHANGED received
        \/ UNCHANGED <<reader, stream, received>>
        \/ /\ event > reader.revision /\ ~stream.closed
           /\ reader' = [reader EXCEPT !.pc = "idle", !.revision = event]
           /\ received' = event /\ UNCHANGED stream
    BY DEF Python!Read, Python!Stop, Python!Closed, Python!IsNewer, event
  <1> QED BY <1>3, <1>4, <1>5, <1>6, <1>7

\* The frames end.
LEMMA PythonFramesEnd ==
  ASSUME OrderInv, PythonInv, Python!FramesEnd
  PROVE  OrderInv' /\ PythonInv' /\ Shows
  <1>1. library = "python" /\ UNCHANGED <<library, published, received>> /\ "done" \in Pcs
    BY DEF Python!FramesEnd, Python!At, Python!wireVars, Pcs
  <1>2. CASE Python!Goto("done") /\ socket' = NoSocket /\ UNCHANGED stream
    BY <1>1, <1>2, PythonGoto, SocketsOfReader, PythonQuiet
  <1>3. CASE Python!Failure
    BY <1>1, <1>3, PythonFailure, PythonQuiet
  <1> QED BY <1>2, <1>3 DEF Python!FramesEnd, Python!Stop, Python!NoSocket, NoSocket

\* The delay ends.
LEMMA PythonWaitEnds ==
  ASSUME OrderInv, PythonInv, Python!WaitEnds
  PROVE  OrderInv' /\ PythonInv' /\ Shows
  <1>1. /\ library = "python" /\ UNCHANGED <<library, published, received>>
        /\ reader.attempt + 1 \in Nat
    BY DEF Python!WaitEnds, Python!At, Python!wireVars, PythonInv, Readers
  <1>2. CASE Python!Raise /\ UNCHANGED socket
    BY <1>1, <1>2, PythonRaise, SocketsOfReader, PythonQuiet
  <1>3. CASE Python!Loop(reader.attempt + 1) /\ UNCHANGED stream
    BY <1>1, <1>3, PythonLoop, PythonQuiet
  <1> QED BY <1>2, <1>3 DEF Python!WaitEnds

\* aclose closes the socket the stream holds.
LEMMA PythonAclose ==
  ASSUME OrderInv, PythonInv, Python!Aclose
  PROVE  OrderInv' /\ PythonInv' /\ Shows
  <1> DEFINE closed   == [stream EXCEPT !.closed = TRUE]
             obsolete == [closed EXCEPT !.generation = @ + 1]
  <1>1. /\ library = "python" /\ UNCHANGED <<library, published, received, reader>>
        /\ stream' = [obsolete EXCEPT !.held = FALSE]
        /\ socket' = socket \/ socket' \in Ended(socket) \/ socket' = NoSocket
    BY DEF Python!Aclose, Python!wireVars, Python!Ended, Ended, Python!Carrying, Carrying,
           Python!NoSocket, NoSocket
  <1>2. closed \in PythonStreams /\ closed.closed = TRUE
    BY DEF PythonInv, PythonStreams
  <1> HIDE DEF closed
  <1>3. obsolete \in PythonStreams /\ obsolete.closed = TRUE
    BY <1>2 DEF PythonStreams
  <1> HIDE DEF obsolete
  <1>4. stream' \in PythonStreams /\ stream'.closed = TRUE
    BY <1>1, <1>3, PythonFields
  <1>5. UpTo(socket', published)
    BY <1>1, SocketsOfReader
  <1>6. PythonKeeps
    BY <1>1, <1>4, <1>5 DEF PythonKeeps, PythonInv
  <1> QED BY <1>1, <1>6, PythonQuiet

\* __anext__, cut at its awaits, and aclose between any two of them.
LEMMA PythonStep ==
  ASSUME FeedInv, Python!Next
  PROVE  FeedInv' /\ Shows
  <1>1. library = "python" /\ library' = library
    BY DEF Python!Next, Python!Work, Python!Connected, Python!ConnectFails, Python!Read,
           Python!FramesEnd, Python!WaitEnds, Python!Anext, Python!Aclose, Python!At,
           Python!wireVars
  <1>2. OrderInv /\ PythonInv
    BY <1>1 DEF FeedInv
  <1>3. CASE Python!ConnectFails
    <2>1. UNCHANGED <<library, published, received>> /\ Python!Failure
      BY <1>3 DEF Python!ConnectFails, Python!wireVars
    <2>2. OrderInv' /\ PythonInv' /\ Shows
      BY <1>1, <1>2, <2>1, PythonFailure, PythonQuiet
    <2> QED BY <1>1, <2>2 DEF FeedInv
  <1>4. CASE Python!Anext
    <2>1. UNCHANGED <<library, published, received, stream>> /\ Python!Loop(0) /\ 0 \in Nat
      BY <1>4 DEF Python!Anext, Python!wireVars
    <2>2. OrderInv' /\ PythonInv' /\ Shows
      BY <1>1, <1>2, <2>1, PythonLoop, PythonQuiet
    <2> QED BY <1>1, <2>2 DEF FeedInv
  <1>5. CASE Python!Connected \/ Python!Read \/ Python!FramesEnd \/ Python!WaitEnds \/ Python!Aclose
    <2>1. OrderInv' /\ PythonInv' /\ Shows
      BY <1>2, <1>5, PythonConnected, PythonRead, PythonFramesEnd, PythonWaitEnds, PythonAclose
    <2> QED BY <1>1, <2>1 DEF FeedInv
  <1> QED BY <1>3, <1>4, <1>5 DEF Python!Next, Python!Work

-----------------------------------------------------------------------------
\* The server and the network change only what is published and the socket.
LEMMA WireKeeps ==
  ASSUME FeedInv, UNCHANGED <<library, reader, stream, received>>,
         published' \in Nat, published <= published', UpTo(socket', published')
  PROVE  FeedInv'
  <1>1. OrderInv'
    BY DEF FeedInv, OrderInv
  <1>2. (library = "go" => GoInv') /\ (library = "dart" => DartInv')
          /\ (library = "python" => PythonInv')
    BY DEF FeedInv, GoInv, DartInv, PythonInv
  <1> QED BY <1>1, <1>2 DEF FeedInv

\* The server publishes, whatever becomes of the event.
LEMMA PublishStep ==
  ASSUME FeedInv, Publish
  PROVE  FeedInv' /\ Feed!Publish
  <1>1. /\ published' = published + 1 /\ UNCHANGED <<library, reader, stream, received>>
        /\ published \in Nat /\ UpTo(socket, published)
    BY DEF Publish, streamVars, FeedInv, OrderInv
  <1>2. PICK event \in {published + 1, Unreadable} :
          socket' = [socket EXCEPT !.inbox = Append(@, event)] \/ socket' = socket
    BY DEF Publish
  <1>3. /\ event \in Int /\ event <= published + 1
        /\ published + 1 \in Nat /\ published <= published + 1
    BY <1>1 DEF Unreadable
  <1> DEFINE longer == [socket EXCEPT !.inbox = Append(@, event)]
  <1>4. UpTo(longer, published + 1) /\ UpTo(socket, published + 1)
    BY <1>1, <1>3, AppendUpTo
  <1> HIDE DEF longer
  <1>5. UpTo(socket', published')
    BY <1>1, <1>2, <1>4 DEF longer
  <1>6. FeedInv'
    BY <1>1, <1>3, <1>5, WireKeeps
  <1> QED BY <1>1, <1>6 DEF Feed!Publish

\* What the network does to a socket, and a client that is closed.
LEMMA NetworkStep ==
  ASSUME FeedInv, Repeat \/ Accept \/ Break \/ CloseClient
  PROVE  FeedInv' /\ UNCHANGED <<library, published, reader, stream, received>>
  <1>1. /\ UNCHANGED <<library, published, reader, stream, received>>
        /\ published \in Nat /\ UpTo(socket, published)
    BY DEF Repeat, Accept, Break, CloseClient, wireVars, streamVars, FeedInv, OrderInv
  <1>2. UpTo(socket', published)
    <2>1. CASE Repeat
      <3>1. PICK revision \in 0 .. published : socket' = [socket EXCEPT !.inbox = Append(@, revision)]
        BY <2>1 DEF Repeat
      <3> QED BY <1>1, <3>1, AppendUpTo
    <2>2. CASE Accept
      BY <1>1, <2>2, ReplayUpTo DEF Accept
    <2>3. CASE socket' \in Ended(socket)
      BY <1>1, <2>3, EndedUpTo
    <2>4. CASE socket' = Carrying(socket, "ended", <<Refusal>>)
      <3>1. socket \in Sockets /\ socket.since <= published /\ "ended" \in States
        BY <1>1 DEF UpTo, States
      <3>2. <<Refusal>> \in Seq(Int) /\ Len(<<Refusal>>) = 1 /\ <<Refusal>>[1] = -1
        BY DEF Refusal
      <3>3. Within(<<Refusal>>, published)
        BY <1>1, <3>2 DEF Within
      <3> QED BY <1>1, <2>4, <3>1, <3>3, CarryingUpTo
    <2>5. CASE CloseClient
      BY <1>1, <2>5 DEF CloseClient
    <2> QED BY <2>1, <2>2, <2>3, <2>4, <2>5 DEF Break
  <1> QED BY <1>1, <1>2, WireKeeps

\* A stream that nothing was read from.
LEMMA InitShows == Init => FeedInv /\ Feed!Init
  <1> SUFFICES ASSUME Init PROVE FeedInv /\ Feed!Init
    OBVIOUS
  <1>1. /\ library \in {"go", "dart", "python"}
        /\ published = 0 /\ socket = NoSocket /\ received = 0
    BY DEF Init, Go!Init, Dart!Init, Python!Init, Go!WireInit, Dart!WireInit, Python!WireInit,
           Go!NoSocket, Dart!NoSocket, Python!NoSocket, NoSocket
  <1>2. UpTo(socket, published)
    BY <1>1, UnusedUpTo
  <1>3. CASE library = "go"
    <2>1. /\ reader = [pc |-> "registering", revision |-> 0, attempt |-> 0]
          /\ stream = [closed |-> FALSE, registered |-> FALSE, buffered |-> 0, failed |-> FALSE]
      BY <1>3 DEF Init, Go!Init, Dart!Init, Python!Init, Go!Empty
    <2>2. GoInv /\ reader.revision = 0
      BY <2>1 DEF GoInv, GoReaders, GoStreams, GoPcs
    <2> QED BY <1>1, <1>2, <1>3, <2>1, <2>2 DEF FeedInv, OrderInv, Feed!Init
  <1>4. CASE library = "dart"
    <2>0. Dart!Init
      BY <1>4 DEF Init, Go!Init, Dart!Init, Python!Init
    <2>1. /\ reader = [pc |-> "idle", revision |-> 0, attempt |-> 0, generation |-> 0]
          /\ stream = [closed |-> FALSE, failed |-> FALSE, held |-> FALSE, generation |-> 0,
                       hasListener |-> FALSE, restartRequested |-> FALSE, listens |-> 0]
      BY <2>0 DEF Dart!Init
    <2>2. DartInv /\ reader.revision = 0
      BY <2>1 DEF DartInv, Readers, DartStreams, Pcs
    <2> QED BY <1>1, <1>2, <1>4, <2>1, <2>2 DEF FeedInv, OrderInv, Feed!Init
  <1>5. CASE library = "python"
    <2>1. /\ reader = [pc |-> "idle", revision |-> 0, attempt |-> 0, generation |-> 0]
          /\ stream = [closed |-> FALSE, failed |-> FALSE, held |-> FALSE, generation |-> 0]
      BY <1>5 DEF Init, Go!Init, Dart!Init, Python!Init
    <2>2. PythonInv /\ reader.revision = 0
      BY <2>1 DEF PythonInv, Readers, PythonStreams, Pcs
    <2> QED BY <1>1, <1>2, <1>5, <2>1, <2>2 DEF FeedInv, OrderInv, Feed!Init
  <1> QED BY <1>1, <1>3, <1>4, <1>5

\* Every step keeps the invariant and is a step of the feed, or none of it.
LEMMA StepShows == FeedInv /\ [Next]_vars => FeedInv' /\ [Feed!Next]_(Feed!feedVars)
  <1> SUFFICES ASSUME FeedInv, [Next]_vars
               PROVE  FeedInv' /\ [Feed!Next]_(Feed!feedVars)
    OBVIOUS
  <1>1. CASE Publish
    BY <1>1, PublishStep DEF Feed!Next
  <1>2. CASE Repeat \/ Accept \/ Break \/ CloseClient
    BY <1>2, NetworkStep DEF Feed!feedVars
  <1>3. CASE Go!Next
    BY <1>3, GoStep, ShowsIsFeedStep
  <1>4. CASE Dart!Next
    BY <1>4, DartStep, ShowsIsFeedStep
  <1>5. CASE Python!Next
    BY <1>5, PythonStep, ShowsIsFeedStep
  <1>6. CASE UNCHANGED vars
    <2>1. UNCHANGED <<library, published, socket, reader, stream, received>>
      BY <1>6 DEF vars, wireVars, streamVars
    <2>2. published \in Nat /\ UpTo(socket, published)
      BY DEF FeedInv, OrderInv
    <2>3. FeedInv'
      BY <2>1, <2>2, WireKeeps
    <2> QED BY <2>1, <2>3 DEF Feed!feedVars
  <1> QED BY <1>1, <1>2, <1>3, <1>4, <1>5, <1>6 DEF Next, Wire

\* Every behaviour of a stream, of whichever library, over whatever sockets, is
\* one of a SnapshotFeed: the consumer is shown published snapshots only, ever
\* newer ones, and none once the feed has ended.
THEOREM LibraryStreamsImplementFeed == Spec => ImplementsFeed
  <1>1. Init => FeedInv /\ Feed!Init
    BY InitShows
  <1>2. FeedInv /\ [Next]_vars => FeedInv' /\ [Feed!Next]_(Feed!feedVars)
    BY StepShows
  <1> QED BY <1>1, <1>2, PTL DEF Spec, ImplementsFeed, Feed!Spec
=============================================================================
