# A TLA+ model of QARAA

QARAA follows a recitation of the Quran. A recognizer produces observations
(tokens of phonemes, partial or final); the *core* locates each observation in a
fixed corpus, moves a display position, commits the words that were read and
reports confirmed substitutions. A *server* keeps many such readings as sessions
behind HTTP and WebSocket routes, and *clients* (TypeScript, Python, Go, Dart)
drive a session locally or over the network.

This directory holds the TLA+ modules that model that system, the TLC
configurations that check them on small instances, and TLAPS proofs, for every value of
the constants, of the alignment of phonemes, of the safety of the reading tracker, the session
service, the remote session, the framework adapters and the libraries' calls, and of the promise
the client's stream and those of the Go, Dart and Python libraries make to their consumers.
`PROJECT.json` maps each definition to the lines it models, and lists the runs,
the mutants that show each property can fail, the hazards, the findings and the
theorems. Paths below are relative to `src/`.

    tlc -config MCReadingTracker.cfg MCReadingTracker     # a run
    tlc -config MCLibraryStreams.cfg LibraryStreams
    tlapm ReadingTrackerProofs.tla                        # the proofs
    tlapm SessionServiceProofs.tla

## 1. Inventory

| Component | State | Operations | Hard behaviour | What makes it correct |
|---|---|---|---|---|
| Corpus index `packages/core/src/corpus` | frozen maps: word and ayah ranges, n-gram postings | validate, index | none (pure) | every word is one run of symbols; postings ascend |
| Phoneme alignment `alignment/edit-path.ts` | one reusable workspace | `alignPhonemes` | the direction buffer is reused uncleared; ties | the path aligns exactly its arguments at least cost, whatever ran before |
| Candidate retrieval `alignment/candidates.ts` | none between calls; a budget within one | local windows, n-gram anchors, fill | two limits shared by nested loops | bounded work; a reader who jumped is found |
| Locator `alignment/locate.ts` | none between calls | `locateObservation` | span and candidate ranking, second score | the best candidate and an honest margin |
| Confidence `confidence/score.ts`, `classify.ts` | none | gates, evidence, finding classification | thresholds, missing acoustic evidence | no finding on unstable evidence |
| Reading tracker `tracking/reading-tracker.ts` | cursor, commit, id window, two hypotheses, provisional finding, words, snapshot | `submit`, `reset` | long call sequences: jumps, rereads, partials, repeats | the commit ledger only grows; ids are deduplicated; findings are stable and ahead |
| Session service `packages/server/src/session-service.ts` | live trackers, per-session promise chain, capacity counters, subscribers | create, get, submit, reset, resume, subscribe, delete | awaits of a store that can fail, listeners that throw, sockets that close | exact capacity; record and tracker agree; gapless streams; acknowledgements are true |
| Session store `memory-store.ts`, `store.ts` | records by id | create, get, update, delete | a caller's store may reject before, during or after its effect | the service stays consistent |
| WebSocket streams `websocket.ts` | per socket: subscription, closed flag | open, subscribe, deliver, close | close during subscribe | a closed socket holds nothing |
| HTTP routes `http.ts` | none | one route per command; checks in order; map errors to answers | a store's own errors; the session named in path and body | an answer tells what happened, and only trusted errors go out as they are |
| Protocol validation `packages/protocol`, `corpus/validate.ts` | none | validate a command, an observation | order of times across tokens, limits | what is let through is what the core accepts |
| Remote session `packages/client/src/remote-session.ts` | snapshot, listeners, mutation chain, acknowledged ids, socket, reconnect task, notification queue | submit, reset, subscribe, close, fetch/socket/timer callbacks | retries of requests that may have been applied, responses racing the stream, reset against submissions under way | the client never goes back, what it acknowledges was applied, close is final |
| Local session `local-session.ts` | snapshot, listeners, closed | submit, reset, subscribe, close | callbacks that call back during a publication | every listener ends with the current snapshot |
| Adapter controller `adapter-controller.ts` | state, subscription, lifecycle revision | connect, dispose, submit, reset, close | microtasks that outlive a dispose, overlapping actions | nothing is applied after dispose or close; a connected controller is current |
| Framework adapters `packages/{react,preact,vue,angular,svelte,solid,lit}` | the controller in use, a release function, what is shown | render, mount, replace, unmount | rendering with one controller while another is mounted; remounting; a session closed before connect | one subscription, of the mounted controller; the view is its controller's state |
| SDK streams `sdk/go/qaraa/stream.go`, `sdk/dart/lib/src/snapshot_stream.dart`, `sdk/python/src/qaraa/stream.py` | last revision, socket, attempts, generation, closed, a channel of one (Go) | connect, read, retry, pause, cancel, close | overwriting an unread snapshot; generations that change under an await; close while reading | newer snapshots only, the newest in the end, and close ends everything |
| SDK calls `client.go`, `client.dart`, `client.py`, `async_client.py` | closed | create, get, submit, reset, delete | retries of what may have been applied, late requests, close during a delay | a call takes effect once |
| Sherpa normalizer `packages/sherpa-onnx` | none | `normalizeSherpaResult` | rounding, dropped tokens, unusable arrays | its output is a valid observation |
| Benchmarks, scripts, examples | none | measurement, packaging | – | not modelled |

How they interact. The tracker calls the locator and the confidence functions
synchronously. The service calls the tracker *inside* the mutation it hands to the
store and publishes afterwards; every operation of one session runs behind the
previous one (`#enqueue`), while other sessions, requests and sockets run during its
awaits. A stream is a subscription in the service plus a socket. The remote
client sends one mutation at a time and learns snapshots from both responses and the
stream; either may be first. The other libraries keep calls and streams apart: a call
is answered, a stream shows snapshots. Framework components reach a session only through an
adapter controller, and several controllers may share one session.

The hazards found in this code are listed in `PROJECT.json`, each at its line, with
the properties that would catch it.

## 2. Modules

```
EditPath ── AlignmentWorkspace ── MCAlignmentWorkspace
   │                └─ AlignmentProofs (extends AlignmentWorkspace, Induction)
   └─ Locate ── Locator ── MCLocator          Confidence ── ReadingTracker ── MCReadingTracker
Corpus ── Candidates ─┘  └───────────── INSTANCE ───────────────────────────────────┘  │
                                                                 ReadingTrackerProofs ──┘ (extends ReadingTracker)
SessionService ── MCSessionService
   └─ SessionServiceProofs (extends SessionService)
SnapshotFeed  (abstract: what any stream promises its consumer)
   ├─ implemented by RemoteSession ── MCRemoteSession
   │                    └─ RemoteSessionProofs (extends RemoteSession)
   └─ implemented by LibraryStreams ── INSTANCE GoStream, DartStream, PythonStream
                            │             └── each EXTENDS StreamWire (server, network, socket)
                            └─ LibraryStreamsProofs (extends LibraryStreams)
AdapterController ── FrameworkAdapters ── MCFrameworkAdapters
                            └─ FrameworkAdaptersProofs (extends FrameworkAdapters)
Observation ── HttpRoutes ── ClientCalls ── MCClientCalls
                                └─ ClientCallsProofs (extends ClientCalls, Induction)
Induction  (lemmas: induction on naturals, recursive functions have values)
```

| Module | Models | Correspondence |
|---|---|---|
| `EditPath` | `edit-path.ts` | the dynamic program row by row, the preference at ties, the direction buffer as a function that keeps the cells a call did not write, the traceback and the score |
| `AlignmentWorkspace` | `createAlignmentWorkspace` and its reuse | the buffer is the state, an `alignPhonemes` call is the action |
| `Corpus` | `index-corpus.ts`, the order `validate.ts` guarantees | ranges, word order and postings as operators |
| `Candidates` | `candidates.ts` | local windows as the order the loop offers positions; anchors, posting cursors, displaced starts and the fill as recursive functions that thread candidates and budget |
| `Locate` | `locate.ts` | span selection, global fallback, ranking as a lexicographic key |
| `Locator` | one call of `locateObservation` after another | the corpus and the observation are chosen from the constants |
| `Confidence` | `score.ts`, `classify.ts` | weights and thresholds in exact integers |
| `ReadingTracker` | `reading-tracker.ts` | one variable per closure variable; `Submit` and `Reset` are the whole methods |
| `SessionService` | `session-service.ts`, `memory-store.ts`, `websocket.ts` | an operation is `Store*` (up to and including the store's effect) then `Finish*` (after the await); socket events are actions |
| `RemoteSession` | `remote-session.ts` | mutations, fetch outcomes, socket events, the reconnect timer, microtasks and close are actions; `notify` goes through its copy of the listeners one step at a time, and a listener may call the session back before it returns |
| `SnapshotFeed` | nothing: an abstract specification | the server publishes ever newer snapshots, the consumer is shown some of them, in order, and none after the end |
| `StreamWire` | what the SDK streams share | the server's subscription, the socket as the network has it, faults, the guard against older snapshots |
| `GoStream` | `stream.go` | one action per step of the goroutine between two points where the consumer or a cancellation may come in, the three selects apart |
| `DartStream` | `snapshot_stream.dart` | `_start` cut at its awaits; `_pause`, `close` and `onListen` may run at each of them |
| `PythonStream` | `stream.py` | `__anext__` cut at its awaits; `aclose` may run at each of them |
| `LibraryStreams` | the three of them | one stream of one library against one server |
| `AdapterController` | `adapter-controller.ts`, `local-session.ts` | several controllers and listeners on one local session; `stack` holds the calls suspended in a callback, `jobs` the microtask queue |
| `FrameworkAdapters` | the seven adapters | three lifecycles (`hook`, `service`, `store`) of a component that makes, mounts, replaces and releases controllers, next to the application's own |
| `Observation` | `validate.ts` (observations), `normalize.ts` | predicates and one function; a string is a value or `Blank`, a phoneme list its length, the recognizer's times half milliseconds so that rounding shows |
| `HttpRoutes` | `http.ts`, `trusted-error.ts` | the checks of a route as one operator that returns the refusal, and the mapping of errors to answers |
| `ClientCalls` | `client.go`, `client.dart`, `async_client.py` through the routes | a call is its attempts; requests in the network arrive in any order, also after they were given up; an operation of the service is one step; of a session it keeps the record's and the tracker's window of ids and latest revision |

What is abstracted.

- Phonemes, ids, sessions and payloads are small sets. A snapshot of a session is
  its revision; a location is a position in the corpus.
- Scores are fractions with the denominator `Unit`, and the weighted confidence has
  the denominator `20000 * Unit`, both exact. The code computes with doubles: at an exact tie with a
  threshold rounding may decide differently.
- The locator is a parameter of `ReadingTracker`. `MCReadingTracker` gives it the
  real one (`Locate` on a concrete corpus); the proofs assume only the shape of what
  it returns. On so small a corpus the code's limits never bind, the start next to the best
  one is always evaluated too, and a mistake therefore never leaves the margin that the
  immediate and soft gates want (`docs/confidence.md:35,37`). Two of the payloads are located with
  small limits, as a large corpus would crowd that start out; with them findings of all
  three gates occur.
- A caller's store may fail `before` its effect, at the `write` after the mutation
  ran, or at the `ack` after the write. With the bundled memory store the set of
  faults is empty.
- Corpus resolution, which the embedding application supplies, succeeds or fails.
- `RemoteSession` derives `pendingResetCount` and the table of submissions from its
  chain of operations. It leaves out `socketGeneration`: the code detaches the
  listeners of the old socket before it makes a new one, so an event of an old socket
  cannot arrive. Delay lengths are not modelled, only that a timer may fire.
- In `RemoteSession` a listener may close the session, subscribe, unsubscribe itself or another, submit and
  reset before it returns or throws. `callbacks` is the call stack, which `MaxDepth` bounds; `unheard` is what is
  left of the copy that `notify` goes through. While either is in use the event loop does not turn (`Idle`). A
  request whose fetch failed, a submission or a reset, may arrive at any later time. The server's window of 512
  ids is not reached there: `accepted` keeps them all.
- In `AdapterController` the application may call anything between two jobs and inside
  every callback it is given. The order of jobs is that of the local session, whose
  promises are settled when they are awaited: one turn of the queue each. The
  tracker is a revision that a mutation advances or leaves as it is.
- A store or a corpus resolver that fails in `ClientCalls` throws what it likes: before it did anything,
  between the mutation, which moves the tracker, and the write of the record, or after its write, in which case
  the service does not come to its own bookkeeping. `torn` is history: a write was lost since the last reset.
  One client makes calls one at a time; `OtherRequests` are what others send, well formed or not. An
  `unreadable` body stands for every error of the HTTP framework but invalid JSON (too large, empty, another
  media type): the answer is 500.
- `GoStream`, `DartStream` and `PythonStream` give up after `MaxRetries` reconnects in a
  row. The counter starts again as each library does it: in Go with a new snapshot, in
  Python with a new `__anext__`, in Dart with a new run. An unreadable event ends Go's stream,
  is raised by Python's and retried by Dart's.
- In `FrameworkAdapters` a component that is given another session gets another controller
  on the same one. Two adapter differences are choices of one action: Angular forgets
  its controller when it disconnects and Vue keeps it; React runs effects twice under
  StrictMode, Lit's host may come and go.
- The server of `RemoteSession` handles an operation in one step and queues its
  snapshot for the stream, which is what `SessionService` is shown to do for one
  session with the bundled store. Other clients of the session submit; they do not
  reset it.

## 3. Runs

| Run | Shows | Size |
|---|---|---|
| `alignment_workspace` | every alignment through a reused workspace is a genuine alignment of least cost, and does not depend on earlier calls | three symmetric phonemes, sequences up to three |
| `locator` | a reader who jumped is found by the rarest n-gram of the observation, also where the limits bind; candidate capacity and inspection budget hold | all corpora of five symbols over two phonemes in two layouts of ayat, observations up to four; the code's own limits, and limits of four so that they are reached; 17,664 states |
| `reading_tracker` | ledger, reread mark, id window, finding gates, findings at the reader, monotonic commit | twelve symbols, ten payloads, two of them located with scarce limits; partial and final, three ids with a window of two, revisions up to four |
| `reading_tracker_reread` | *violated*: see finding 1 | same, eight payloads |
| `session_service` | exact capacity, record and tracker agree, gapless streams, truthful acknowledgements | two session ids on one place, two connections on one place, five requests, memory store; 2.3 million states |
| `session_service_faults` | with a store that fails anywhere: exact capacity, revisions never reused and streams that never go back; every queued operation settles; a closed socket's subscription is released for good | two session ids, one connection, four requests; no symmetry; 257,000 states |
| `remote_session_mutations` | a resolved submission was applied after every reset called before it; no reset is applied twice, however late it arrives; every mutation settles; a client that is behind catches up or has no attempt left | one observation, three calls, two attempts, one drop, no listeners; 417,000 states |
| `remote_session_stream` | the client implements `SnapshotFeed`, an idle stream is current, close and unsubscribing are final inside a notification too | two observations, one stale after the other, two calls, one revision of another client, one drop, two listeners that call back to a depth of two; 1.7 million states |
| `remote_session_reuse` | *violated*: see finding 2 | three calls |
| `framework_adapters` | each subscription belongs to the mounted controller, the view is current, a settled action is visible, listeners end up current, nothing is applied after dispose or close | two controllers, two listeners, five calls, the three lifecycles; 4.5 million states |
| `library_streams` | each library implements `SnapshotFeed`; a consumer that is behind catches up unless it was told of a failure; close ends the task and its socket | three snapshots, two retained, one retry, two faults, three listens |
| `client_calls` | a call takes effect once within the window of ids, an answer says what happened unless a write was lost, a failure of a store or resolver stays an internal error, recognizer output is accepted | two session ids on one place, two observation ids and a window of one, two calls, two attempts, two faults, one foreign reset; six recognizer results, twenty foreign requests; 1.2 million states |

Why the bounds are enough. In the locator's run limits of four on five symbols exhaust capacity and budget, which
the code's own limits do only on a corpus of hundreds; the property speaks of both alike. What it does not promise
is a literal occurrence found from *any* cursor: capacity or budget can drop one on a large corpus. The alignment compares phonemes only for equality and
three symbols with lengths up to three give every case of the recurrence, row widths
that grow and shrink between calls included. The tracker's corpus has two ayat with a common
beginning, so a short observation is ambiguous and a long one is not; one long word in
which a mistake is heard several times before it is committed; and short words that partial observations commit.
One mistake in five phonemes passes the immediate gate at its third hearing, and two mistakes in eight the soft one.
Four snapshots are enough for a jump ahead, reading back, a repeat and a reset, and
a window of two with three ids makes the eviction happen. In the service, capacity
one with two sessions and two connections makes every refusal happen; a window of one
id and two snapshots makes every limit bite. In the client, two attempts give one
retry; one drop is a lost socket, or a failed reconnect where the first socket could not be made. Two listeners and a
depth of two give a listener that closes the session or unsubscribes the other while that one waits to be notified,
and a callback inside a callback. The mutations run has no listeners, since what resolves does not depend on them.
In the adapters' run, two listeners are what a re-entrant publication needs to get out of order,
two controllers are what a component replaces, and five calls are enough to mount, mutate
twice, unmount and mount again. In the streams' run, three snapshots of which two are retained give a
snapshot that no resume can replay; two faults give a failed retry; three listens give a restart
requested while a run is ending, and once more. In the calls' run, two attempts and a foreign reset are what a
late first attempt needs to be applied again, a window of one id with an observation of another client in between is
what it needs to be forgotten, two faults give a lost write and then a retry that the tracker ignores, and one place
makes create fail.

`MaxRevision`, `MaxOperations`, `MaxCalls`, `MaxDepth`, `MaxDrops`, `MaxFaults`, `MaxListens` and `MaxResets` bound
counters that are unbounded in the code; the configurations disable the deadlock check because the
system may stop when callers do (and always does at these bounds). The locator and alignment runs check deadlock.

Symmetry is used on phonemes, observation ids, sessions, connections and the listeners of the stream run, which the
code only compares for equality, and in no run that checks liveness. `CommitNeverRegresses`,
`PartialCommitTrailsDisplay`, `CloseIsFinal`, `NothingAfterRelease` and
`AnswersMatchEffects` are action properties, checked on every step; `ImplementsFeed` is a refinement.

## 4. Fairness

- `SessionService!FairSpec`: weak fairness of each session's running operation
  (`Progress`) and of the continuation of a socket's subscription (`StreamReady`).
  A promise that the store settles is run by the event loop, and the chain's tail
  swallows rejections. Nothing is assumed of callers or of peers closing sockets.
- `RemoteSession!FairSpec`: weak fairness of the running mutation (the caller's
  `fetch` settles, a backoff timer fires), of socket opening, of the server's
  subscription, of message and notification delivery, of the reconnect timer, and of the listeners' turns and
  returns: a listener is synchronous code, and one that never returned would stop the whole program. The run that checks
  liveness has no listeners.
  Nothing is assumed of `FetchFails`, `SocketCloses`, late requests, callers or
  `close`, which may happen at any time or never.
- `LibraryStreams!FairSpec`: weak fairness of the server's answer to a connection, of each
  library's task (a goroutine runs, a future completes, a delay's timer fires), of
  Go's consumer taking from its channel and Python's asking for the next snapshot, and of
  the cancellation that close of the client performs on each registered stream. Nothing is assumed of sockets
  failing, of listeners coming or going, or of anyone calling `close`.

## 5. Proofs

### The reading tracker

`ReadingTrackerProofs` proves, for every value of the constants that satisfies
`CorpusAssumption` (words are disjoint ascending ranges, which `validateCorpus`
guarantees), `LocatorAssumption` (a candidate is a position with a score up to 1, a match
or substitution names both its indices, and every index into the reference is a position) and `TrackerAssumption` (limits are
positive, the null id is not an id):

| Theorem | Statement |
|---|---|
| `TrackerIsSafe` | `Spec => []SafetyInv` |
| `TypeCorrectness` | `Spec => []TypeOK` |
| `LedgerCorrectness` | `Spec => []CommitLedger` |
| `RereadCorrectness` | `Spec => []RereadMeansBehindCommit` |
| `WindowCorrectness` | `Spec => []DedupWindow` |
| `FindingsAreStable` | `Spec => []FindingNeedsStableHypothesis` |
| `CommitIsMonotonic` | `Spec => CommitNeverRegresses` |
| `PartialCommitsTrail` | `Spec => PartialCommitTrailsDisplay` |
| `FindingsAtTheReader` | `Spec => []FindingsAreAtTheReader` |

The inductive invariant is `SafetyInv == TypeOK /\ CommitLedger /\
RereadMeansBehindCommit /\ DedupWindow /\ FindingNeedsStableHypothesis`. The ledger is
not inductive alone: that the words committed by one observation are beyond those committed before
needs the types of the ranges and the last word ending at the committed symbol. The
reread mark needs the ledger, since an observation computes the mark and then moves the commit.
The two action properties follow from the invariant and one step. Each action has
a lemma per conjunct it can disturb: the list of supported words ascends and starts
beyond the commit, remembering an id keeps window and order together, a hypothesis heard once
has stability zero and no finding gate passes with it.

`FindingsAtTheReader` relates the finding of a snapshot to where it shows the reader. A finding
is taken from an operation of the same alignment whose end the display follows, and only of an observation that is not a
reread, so that the reader is at or past the mistake; a snapshot that carries over an earlier display carries no finding.

The proofs do not bound revisions by the instance of the runs: `MaxRevision` is an arbitrary constant.

### The alignment

`AlignmentProofs` proves the three invariants of the shared workspace, for any set of phonemes,
sequences of any length within the capacities, and any number of calls. The
assumptions are that capacities are naturals and that `Unit` is positive; a score that is not a multiple of
`1/Unit` is rounded down.

| Theorem | Statement |
|---|---|
| `ReuseIsInvisible` | `Spec => []WorkspaceReuseIsInvisible` |
| `PathsAlignArguments` | `Spec => []PathAlignsArguments` |
| `EditCountsAreMinimal` | `Spec => []EditCountIsMinimal` |

These are inductions over data. `Induction` makes them possible: its lemmas state the hypothesis as a *set* of
numbers instead of an operator, and `RecursionExists` gives a recursive function over
`0..n` its value, so that rows, table and paths satisfy the equations that define them
(`RowIs`, `CostAt`, `TracebackIs`). A traceback is a recursion over cells, each of which leads to one nearer to
the origin (`CellInduction`).

- The inductive invariant is `Reused`: the workspace keeps its size, and the last call returned what
  its arguments alone determine. A call writes every cell its traceback can come through
  (`WrittenTable`), with its own row width, so what other widths left in the buffer is not read.
- `PathsAlign` says of every cell that its path is an alignment of the prefixes that end there, with as many edits
  as the cell costs.
- `CostIsCheapest` says that no pairing of the two prefixes costs less. Where two phonemes are equal the
  code takes the diagonal without comparing: that this is never worse rests on `CostsAreNear`, by which costs
  of neighbouring cells differ by at most one. A pairing is cut down by its last pair or by a last phoneme it leaves
  alone (`CheapestInside`).

### The libraries' streams

`LibraryStreamsProofs` proves `LibraryStreamsImplementFeed == Spec => ImplementsFeed`: for
any number of retries, retained and published snapshots, faults and listeners, each stream
implements `SnapshotFeed`. It rests on `WireAssumption` (bounds are naturals, the server retains
at least one snapshot) only, and not on fairness. The inductive invariant is `FeedInv`. `OrderInv` says that what
was shown is at most what the reading task accepted, which is at most what was published, and that
nothing in a socket, and nothing a socket asks for, is newer than that; duplicates, losses and
replays only have to keep that bound. Dart and Python show what they accept, so that the guard
against older snapshots is all they need. Go needs `GoInv` as well, since its consumer runs between the
three selects: what waits in the channel is newer than what was taken, what is about to be sent is newer
than both, and before the last select the channel is empty. A step is then shown to be a
step of the feed or a stutter: `Shows` says what a step of a library may show, with one lemma
per action, and `ShowsIsFeedStep` turns it into a `Deliver`, an `End` or nothing.

### The session service

`SessionServiceProofs` proves all five invariants of the service, for any number of sessions, connections and
requests and any limits that satisfy `ServiceAssumption` (limits are positive, `None` is not a value of
any other kind). Two hypotheses appear, and each is a fact about a deployment: `StoreFaults = {}`
is the bundled memory store, `ReuseIds = FALSE` is the default `createSessionId`, `randomUUID`.

| Theorem | Statement |
|---|---|
| `Typing` | `Spec => []BaseInv` |
| `Capacity` | `Spec => []CapacityIsExact` |
| `RecordsAgree` | `StoreFaults = {}` implies `Spec => []RecordAgreesWithTracker` |
| `AcknowledgedIsRecorded` | `StoreFaults = {}` implies `Spec => []AcknowledgedMeansRecorded` |
| `NoRevisionTwice` | `ReuseIds = FALSE` implies `Spec => []RevisionsAreNotReused` |
| `StreamsAreGapless` | `StoreFaults = {}` implies `Spec => []StreamIsGapless` |

- `BaseInv` is the types, with what they need: a record's retained snapshots ascend and end with its own
  (`Histories`), a tracker is never behind its record (`BehindInv`; a store that fails at its write
  leaves it ahead), and only the head of a chain has begun, with a record if it succeeded on one (`ChainInv`).
- `CapacityIsExact` adds that the sets it counts are finite, which rests on `MaxOperations` (no chain is longer
  than what was issued, `QueueBound`), and `StreamsInv`: a waiting subscription belongs to the socket whose stream
  is pending and waits once, and a registered one to a stream that was granted. Without the second, a socket that closes
  could release a subscriber it never had. Chains are counted by shifting indices when one gets shorter and by adding one
  when it gets longer.
- `RecordInv` says record and tracker agree at every step except inside a create and a delete, whose
  store call comes before the service's own bookkeeping. It is what a store that fails breaks.
- `RevisionsAreNotReused` needs `FreshInv`, by which a session that is not created yet has no record and no stream
  and is created once (with an id given twice it is false), and `OrderInv`, by which a peer has nothing that the tracker
  has yet to give. `StreamIsGapless` needs `GaplessInv`: what a peer has ends at the revision that was published last,
  which is one behind the record while a change waits for its continuation. Both use `OutcomeInv`:
  what a continuation will deliver is still the session's record, since its chain holds back every other operation.

Every step is first reduced to what it does to one session: nothing (`Same`), a call of the store
(`Calls`), or a continuation (`Continues`), by `SessionSteps`. The invariants of
single sessions are proved about those three.

### The remote session

`RemoteSessionProofs` proves every safety property of the client and its refinement of `SnapshotFeed`, for any
observations, listeners, nesting of their callbacks, attempts, retention and schedule of failures. The only assumption is
`RemoteAssumption` (limits are positive, source revisions are naturals).

| Theorem | Statement |
|---|---|
| `Typing` | `Spec => []StreamInv` |
| `StreamCatchesUp` | `Spec => []StreamIsCurrent` |
| `CloseEndsSession` | `Spec => CloseIsFinal` |
| `RemoteSessionImplementsFeed` | `Spec => ImplementsFeed` |
| `SubmissionsApplied` | `Spec => []SubmitMeansApplied` |
| `ResetsAppliedOnce` | `Spec => []ResetsApplyOnce` |

`StreamInv` is the types with four facts. Only the first operation of the chain has been started (`HeadInv`), a
closed session has neither socket nor listener (`ClosedInv`), nothing the client holds is newer than the
server and a socket asks for nothing newer than the snapshot (`BoundsInv`), and the server's newest
snapshot is shown, or in the socket, or in the notification queue (`FlowInv`). The last one is why an idle
stream is current: the filter of `enqueue` may drop the newest snapshot only if a response showed it first.

`SubmitMeansApplied` is not inductive. `MutationInv` adds: resets confirmed, and one more while the
answer of a reset is on its way, are at most those the server made (`ConfirmInv`); while the two counts are
equal, a submission that the server answered is still accepted (`HandledInv`), since only a reset of the chain or
one that arrived late could have cleared it, and so are the acknowledged ids (`AcknowledgedInv`); and the chain is in
the order of its reset sequences, strictly before a reset (`OrderInv`). Finding 2 is the state in which the counts
differ. `ResetsApplyOnce` counts the resets that the server made, those that are called and not handled and those that
may still arrive although their fetch failed: a reset whose fetch fails moves from the second to the third, and
since it is not sent again the sum is at most the resets called.

`CloseIsFinal` covers `notify` in steps: a listener may close the session or unsubscribe another while that one is
still in the copy (`unheard`), and the loop passes over whoever is not subscribed any more (`MayHear`). It needs only
`ClosedInv`.

Each action is reduced to what it does to the chain (`MutationStep`: it rests, one mutation is called, the first settles
or progresses) and to the stream (`StreamStep`), and the invariants are proved about those.

### The framework adapters

`FrameworkAdaptersProofs` proves all that the run of the adapters checks, for any number of
controllers, listeners and calls, so for publications nested in callbacks to any depth. The only
assumption is `ControllerAssumption` (controllers and listeners are different things, `None` is not a controller).

| Theorem | Statement |
|---|---|
| `Invariance` | `ComponentSpec => []AdaptersInv` |
| `SubscriptionsHaveOwners` | `ComponentSpec => []SubscriptionsAreOwned` |
| `ComponentsShowTheCurrent` | `ComponentSpec => []ViewIsCurrent` |
| `ResultsComeAfterSnapshots` | `ComponentSpec => []SettledIsVisible` |
| `ListenersHearTheLast` | `ComponentSpec => []ListenersAreCurrent` |
| `ReleasedIsReleased` | `ComponentSpec => NothingAfterRelease` |

Each property speaks of the moment between two jobs, and holds there because of what is on the stack
and in the queue before. `AdaptersInv` says it at every moment:

- Someone who is not current is still before the newest publication of the stack (`Pending`), or, if a
  controller, has the snapshot in the queue (`HeardInv`, `CurrentInv`). A publication that is suspended while a callback
  begins another one may be late for its own snapshot, but `publish` hands out the current one.
- When a publication returns, nobody before an outer one waits for the newest snapshot, since publications are nested
  from newer to older (`NestingInv`). So the result joins the queue behind the snapshot it stands for, and
  since the queue is first in, first out it stays behind (`SettledInv`).
- A job or a frame that carries the lifecycle revision a controller still has finds it connected (`LifecycleInv`): dispose
  and close raise the revision, and nothing else ends a connection that is counted. This is why a snapshot
  accepted before a dispose is not applied after the next connect.
- Of a component's controllers only the mounted one is connected, it is the one in use except in a hook
  whose effects are pending, and what is shown is its state (`ComponentInv`). That a new controller may be mounted needs
  this invariant of the old one.

Each action is shown once to be `Sound`: it keeps the types and the roster of listeners, and it changes stack,
queue and controllers in the few ways that `StackStep`, `JobStep`, `ControllerStep` and `ToldStep` name. The
other invariants of the session and its controllers are proved about those.

### The libraries' calls

`ClientCallsProofs` proves the four safety properties of calls, routes and recognizer output, for any
sessions, attempts, faults, recognizer results and foreign requests.

| Theorem | Statement |
|---|---|
| `OneEffectPerCall` | `Spec => []CallsTakeEffectOnce` |
| `AnswersMatch` | `Spec => AnswersMatchEffects` |
| `FailuresStayInternal` | `Spec => []InternalFailuresStayInternal` |
| `NormalizedResultsAreTaken` | `Spec => []NormalizedIsAccepted` |

It assumes that the markers for a blank string and for an absent value are no numbers and no error
(`MarkersAssumption`), that limits are positive (`ObservationLimitsAssumption`, `CallsAssumption`), and, of
what is put in, that recognizer results are the arrays of tokens, times and probabilities the normalizer's types
declare, under options that it accepts, that a path names a session, and that a parsed submission has a field
for its observation with one of the ids, whatever else is in it (`InputsAssumption`). TLC evaluates all of them for the run's inputs.

`IInv` is the inductive invariant. Its core is `EffectsInv`: whatever of a call may still arrive is
`Covered` by each effect the call has had, that is, it is a submission whose id the session's tracker still
`Recalls`, unless the session was reset or deleted since. A tracker that took an observation as its `n`th has the id at
the place that its count of observations gives, until `ObservationIdLimit` others have followed (`RecallKept`, which
rests on what appending does to a bounded window, `Windows`). So a second effect of a call needs a reset or a whole
window of other observations in between, and the counts of resets and of observations tell the two `Apart`. It is the
tracker and not the record that decides: a lost write leaves the record behind. `AnswersMatch` needs that record and
tracker are the same as long as no write was lost (`IsSession`); after one, the tracker knows an observation that the
record lacks, and the code answers a further attempt with the record as it is. `AnswerInv` says what the client may conclude: a request that is not retried and not sent yet has
changed nothing; an answer of success to one has its effect; and after a refusal it has none and nothing of it
is under way. It needs `NetworkInv`, by which the attempts of one call are the same
request, and `SessionsInv`, by which an id that was not given out yet names no session.
`NormalizedIsAccepted` is about data: the tokens that the normalizer keeps are in the order of the recognizer's, and
rounding to milliseconds keeps the order of times (`KeptAscends`, `KeptTimes`), so every observation that it
returns is one the server takes (`ValidObservation`).

### What is not proved

Only model-checked:

- `RareOccurrenceIsFound` and `WorkIsBounded` of the `Locator`. `Candidates` counts and searches with `RECURSIVE`
  operators, which the prover does not reason about in any module that reaches them.
- That the normalizer, the routes and the locator get the inputs their assumptions describe: TLC evaluates these on
  the runs' constants.
- All liveness, which depends on fairness and on ENABLED: `OperationsDrain`, `DisconnectedIsReleased`,
  `MutationsSettle`, `BehindCatchesUp`, `ConsumerCatchesUp` and `CloseStopsStreams`.

The induction theorems of the standard proof library take an operator as a parameter and cannot be instantiated
by the provers used here; inductions over data rest on `Induction` instead.

## 6. Findings

1. **Backward display movement is not always a reread.** `docs/confidence.md:43` says
   "Backward display movement is marked `isReread`". The tracker compares the display
   with the *committed* symbol (`reading-tracker.ts:418`), so a move back over words
   that were displayed and not committed is not marked. Run `reading_tracker_reread`.
2. **A reset whose response is lost keeps the client's acknowledged ids.**
   `docs/protocol-v1.md:62` says a successful reset clears retained ids on the remote
   client's path. The client clears them when the response arrives
   (`remote-session.ts:499`); when the server reset and the response was lost, a submission that
   reuses an id resolves without a request, even after the stream showed the reset. Run
   `remote_session_reuse`.

## 7. Not modelled

- The JSON Schemas and the codecs of the libraries: a message is well formed or it is not.
  Wording, close codes, request ids, delay lengths, URL building, logging and metrics.
- `validateCorpus` beyond the order it guarantees.
- Double rounding of scores.
- A socket that Dart's stream forgets after an unreadable event, or Go's goroutine leaves behind when it returns
  from its last select, is not followed: when the operating system or the peer ends it is not
  decided by this code.
- A caller's store that deletes a record and then rejects leaves the tracker and its capacity behind
  (`session-service.ts:564`). The model does the same; `RecordAgreesWithTracker` is therefore
  checked with the bundled store only.
- A submission that arrives after a reset under an id it had before the reset is applied again, to the new reading, and
  so is one that arrives after its id has left the window of 512 remembered ids, if no newer source
  revision stands in the way. Nothing in the protocol can tell; `CallsTakeEffectOnce` says that these are the only cases.
- After a write of the record failed, the tracker already has the observation. A further attempt is answered 200 with
  a record that lacks it (`session-service.ts:483`). The next observation that is written brings the record's
  snapshot up to date, but its ids only a reset.
  `AnswersMatchEffects` allows this after a lost write and nowhere else; `AcknowledgedMeansRecorded` is checked with
  the bundled store, whose writes do not fail.
- The window of 512 ids is not reached in `RemoteSession`, whose server keeps every id it accepted. A client whose
  chain holds that many observations of one source revision between two attempts of a submission is out of its scope.
- Benchmarks, scripts and examples hold no state of the system.

## 8. Plan

Done, in order of importance: alignment, candidates and locator; confidence and the reading
tracker over the real locator, with its proofs; the session service with store, faults and
streams; the remote session against an unreliable network; the adapter controller and the
frameworks' components on one local session; the streams of the Go, Dart and Python libraries;
recognizer output, routes and calls; the snapshot feed as the abstract specification of every
stream.

Every safety property that a run checks is a theorem, but for the two of the `Locator`, as are the
refinements of the snapshot feed.

Left: the two of the `Locator`, for which the binary search over postings and the fill of spare candidates
would be written as recursive functions; several components of a framework on different sessions.
