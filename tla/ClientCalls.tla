----------------------------- MODULE ClientCalls ----------------------------
(***************************************************************************)
(* The calls of the client libraries, sdk/go/qaraa/client.go,              *)
(* sdk/dart/lib/src/client.dart and sdk/python/src/qaraa/async_client.py   *)
(* (client.py is the same without promises), against the REST routes and a *)
(* service whose store may be a caller's.  One client makes calls one at a *)
(* time, the observations it submits come from a recognizer through        *)
(* normalizeSherpaResult, and other clients send what they like.  Requests *)
(* and answers are lost, an attempt that was given up may still arrive,    *)
(* and the client may be closed at any time.                               *)
(*                                                                         *)
(* SessionService has the service's inside; here an operation is one step, *)
(* which the promise chain of its session makes it.                        *)
(***************************************************************************)
EXTENDS HttpRoutes

CONSTANTS
  SessionIds, FirstSession,
  ObservationIds,
  MaxSessions,       \* the service's capacity
  ObservationIdLimit, \* ids that the record and the tracker remember, 512 in the code
  MaxAttempts,       \* attempts of a call that is retried
  Recognized,        \* recognizer results, each with the options it is normalized under
  OtherRequests,     \* what other clients send
  MaxCalls, MaxResets, MaxFaults   \* bounds: calls, resets by others, and what goes wrong

ASSUME CallsAssumption ==
  /\ FirstSession \in SessionIds
  /\ {MaxSessions, ObservationIdLimit, MaxAttempts, MaxCalls, MaxResets, MaxFaults} \subseteq Nat \ {0}
  /\ Absent \notin [trusted : BOOLEAN, code : ErrorCodes, retryable : BOOLEAN]

\* Results are normalized under options that are valid, a path names a session,
\* and what the server could parse has a field for an observation.
ASSUME InputsAssumption ==
  /\ \A heard \in Recognized :
       /\ heard.result \in RecognizerResults /\ ValidOptions(heard.options)
       /\ heard.options.observationId \in ObservationIds
  /\ \A request \in OtherRequests :
       /\ request.route # "create" => request.session \in SessionIds
       /\ request.route = "observations" =>
            /\ "observation" \in DOMAIN request.body <=> request.body.format \notin {"unreadable", "garbled"}
            /\ "observation" \in DOMAIN request.body =>
                 request.body.observation.observationId \in ObservationIds

VARIABLES
  clientClosed,
  call,              \* the client's call
  network,           \* the attempts that may still arrive
  sessions,          \* what the service keeps of each session
  usedIds,           \* ids that createSessionId returned
  faults,
  handled,           \* history: the request the server handled in this step and its answer
  effects            \* history: what changed a session, with its counts before

vars == <<clientClosed, call, network, sessions, usedIds, faults, handled, effects>>

-----------------------------------------------------------------------------
\* The service.  A session is stored with its record and running with its
\* tracker, and each of the two keeps the last ids and the latest revision that
\* it took.  The rest is history: how often the tracker was reset, how many
\* observations it took, and whether a write failed, since the last reset that
\* was written, after the tracker had moved.
Nothing == [ids |-> <<>>, latest |-> -1]

Unborn == [stored |-> FALSE, record |-> Nothing, running |-> FALSE, tracker |-> Nothing,
           resets |-> 0, hearings |-> 0, torn |-> FALSE]

NewSession == [Unborn EXCEPT !.stored = TRUE, !.running = TRUE]

\* The record's and the tracker's view of an observation.
Remembers(log, o) == \E i \in DOMAIN log.ids : log.ids[i] = o.observationId
Outdated(log, o)  == o.sourceRevision < log.latest

\* slice(-n).
LastOf(s, n) == IF Len(s) > n THEN SubSeq(s, Len(s) - n + 1, Len(s)) ELSE s

Taken(log, o) == [ids |-> LastOf(Append(log.ids, o.observationId), ObservationIdLimit),
                  latest |-> o.sourceRevision]

\* An outcome: the session it is about, what becomes of it and the error.
Done(s, next)    == [session |-> s, next |-> next, error |-> Absent]
Failed(s, error) == [session |-> s, next |-> sessions[s], error |-> error]

Trusted(code, retryable) == [trusted |-> TRUE, code |-> code, retryable |-> retryable]
NotFound(s)              == Failed(s, Trusted("SESSION_NOT_FOUND", FALSE))

Running == {s \in SessionIds : sessions[s].running}
Full    == Cardinality(Running) >= MaxSessions

CreateOutcome(command, s) ==
  IF Full THEN Failed(s, Trusted("INTERNAL_ERROR", TRUE))
  ELSE IF ~command.known THEN Failed(s, Trusted("INVALID_CORPUS", FALSE))
  ELSE Done(s, NewSession)

ReadOutcome(s) == IF sessions[s].stored THEN Done(s, sessions[s]) ELSE NotFound(s)

ResetOutcome(s) ==
  IF s \in Running /\ sessions[s].stored
  THEN Done(s, [sessions[s] EXCEPT !.record = Nothing, !.tracker = Nothing, !.resets = @ + 1, !.torn = FALSE])
  ELSE NotFound(s)

\* What the record knows is answered with it, and so is what only the tracker
\* knows or finds outdated: then the tracker's revision stays and the record too.
SubmitOutcome(command, s) ==
  LET o   == command.observation
      old == sessions[s]
  IN  IF ~old.stored THEN NotFound(s)
      ELSE IF Remembers(old.record, o) THEN Done(s, old)
      ELSE IF Outdated(old.record, o) THEN Failed(s, Trusted("STALE_REVISION", FALSE))
      ELSE IF ~old.running THEN NotFound(s)
      ELSE IF Remembers(old.tracker, o) \/ Outdated(old.tracker, o) THEN Done(s, old)
      ELSE Done(s, [old EXCEPT !.record = Taken(@, o), !.tracker = Taken(@, o), !.hearings = @ + 1])

DeleteOutcome(s) ==
  IF sessions[s].stored
  THEN Done(s, [Unborn EXCEPT !.resets = sessions[s].resets, !.hearings = sessions[s].hearings])
  ELSE NotFound(s)

Outcome(route, command, fresh) ==
  CASE route = "create"             -> CreateOutcome(command, fresh)
    [] route \in {"get", "resume"}  -> ReadOutcome(command.session)
    [] route = "reset"              -> ResetOutcome(command.session)
    [] route = "observations"       -> SubmitOutcome(command, command.session)
    [] route = "delete"             -> DeleteOutcome(command.session)

\* A store, or a corpus resolver, that is the caller's throws what it likes.
Thrown == [trusted |-> FALSE, code |-> "STALE_REVISION", retryable |-> TRUE]

\* Where it may fail: before it did anything, if the service comes to calling it;
\* in update, between the mutation, which moves the tracker, and the write of the
\* record; and after the write.
MayFail(route, outcome, failure) ==
  LET Writes == outcome.error = Absent /\ outcome.next # sessions[outcome.session]
  IN  CASE failure = "none"   -> TRUE
        [] failure = "before" -> /\ route = "create" => ~Full
                                 /\ route = "reset"  => outcome.session \in Running
        [] failure = "write"  -> Writes /\ route \in {"reset", "observations"}
        [] failure = "after"  -> Writes

\* What becomes of the session: after a failure the service does not come to its
\* own bookkeeping.
Left(route, outcome, failure) ==
  LET old  == sessions[outcome.session]
      next == outcome.next
  IN  CASE failure = "none"   -> next
        [] failure = "before" -> old
        [] failure = "write"  -> [next EXCEPT !.record = old.record, !.torn = TRUE]
        [] failure = "after"  ->
             CASE route = "create" -> [next EXCEPT !.running = FALSE]
               [] route = "delete" -> [next EXCEPT !.running = old.running, !.tracker = old.tracker]
               [] OTHER            -> next

\* Whose observation a request is about: part of the history.
ObservationOf(request) ==
  IF request.route = "observations" /\ "observation" \in DOMAIN request.body
  THEN request.body.observation.observationId ELSE Absent

\* What the server does with a request that arrives: nothing if the route
\* refuses it, otherwise one operation of the service.
Handle(request, tag, failure) ==
  LET refusal == Refusal(request)
      Answer(answer) ==
        handled' = [turn |-> 1 - handled.turn, route |-> request.route, session |-> request.session,
                    observation |-> ObservationOf(request), failure |-> failure, answer |-> answer]
      Change(s, next) ==
        /\ sessions' = [sessions EXCEPT ![s] = next]
        /\ effects' = IF next = sessions[s] \/ tag = 0 THEN effects
                      ELSE effects \cup {[tag |-> tag, route |-> request.route,
                                          session |-> s, resets |-> sessions[s].resets,
                                          hearings |-> sessions[s].hearings]}
  IN  IF refusal.code # Absent
      THEN /\ failure = "none"
           /\ Answer(ErrorAnswer(refusal))
           /\ UNCHANGED <<sessions, usedIds, effects>>
      ELSE \E fresh \in IF request.route = "create" THEN SessionIds \ usedIds ELSE {FirstSession} :
             LET outcome == Outcome(request.route, Command(request), fresh)
                 error   == IF failure = "none" THEN outcome.error ELSE Thrown
             IN  /\ MayFail(request.route, outcome, failure)
                 /\ usedIds' = IF request.route = "create" THEN usedIds \cup {fresh} ELSE usedIds
                 /\ Answer(IF error = Absent THEN Success(request.route)
                           ELSE ErrorAnswer(SafeError(error)))
                 /\ Change(outcome.session, Left(request.route, outcome, failure))

-----------------------------------------------------------------------------
\* What the client asks for.
Query(route, s) ==
  [route |-> route, session |-> s, body |-> [format |-> "json", version |-> PROTOCOL_VERSION]]

Post(route, s) ==
  [route |-> route, session |-> s,
   body |-> [format |-> "json", version |-> PROTOCOL_VERSION, type |-> CommandType[route],
             session |-> s, observation |-> Absent, known |-> Absent]]

Create(known) == [Post("create", Absent) EXCEPT !.body.known = known]
Submit(s, observation) == [Post("observations", s) EXCEPT !.body.observation = observation]

PlainRequests ==
  {Query(route, s) : route \in {"get", "delete"}, s \in SessionIds}
  \cup {Post("reset", s) : s \in SessionIds} \cup {Create(known) : known \in BOOLEAN}

\* What a step of the client records of the server.
Quiet == [turn |-> 0, route |-> Absent, session |-> Absent, observation |-> Absent,
          failure |-> "none", answer |-> Absent]

NoCall == [stage |-> "ended", tag |-> 0, request |-> Absent, attempt |-> 0, heard |-> Absent,
           answer |-> Absent, read |-> FALSE, result |-> Absent]

Init ==
  /\ clientClosed = FALSE
  /\ call = NoCall
  /\ network = {}
  /\ sessions = [s \in SessionIds |-> IF s = FirstSession THEN NewSession ELSE Unborn]
  /\ usedIds = {FirstSession}
  /\ faults = 0
  /\ handled = Quiet
  /\ effects = {}

MayCall     == call.stage = "ended" /\ call.tag < MaxCalls /\ ~clientClosed
Ended(result) == [call EXCEPT !.stage = "ended", !.attempt = 0, !.answer = Absent, !.result = result]
NextCall == [NoCall EXCEPT !.stage = "ready", !.tag = call.tag + 1, !.attempt = 1]

Call ==
  /\ MayCall
  /\ \E request \in PlainRequests : call' = [NextCall EXCEPT !.request = request]
  /\ UNCHANGED <<clientClosed, network, sessions, usedIds, faults, effects>> /\ handled' = Quiet

\* The application normalizes a result and submits what comes of it.
Recognize ==
  /\ MayCall
  /\ \E heard \in Recognized :
       LET normalized == NormalizeSherpaResult(heard.result, heard.options)
           next       == [NextCall EXCEPT !.heard = heard]
       IN  call' = IF normalized.error # Absent
                   THEN [call EXCEPT !.heard = heard, !.result = normalized.error]
                   ELSE [next EXCEPT !.request = Submit(FirstSession, normalized.observation)]
  /\ UNCHANGED <<clientClosed, network, sessions, usedIds, faults, effects>> /\ handled' = Quiet

\* The top of the attempt loop.
Send ==
  /\ call.stage = "ready"
  /\ IF clientClosed THEN call' = Ended("closed") /\ UNCHANGED network
     ELSE /\ call' = [call EXCEPT !.stage = "sent"]
          /\ network' = network \cup
               {[tag |-> call.tag, attempt |-> call.attempt, request |-> call.request]}
  /\ UNCHANGED <<clientClosed, sessions, usedIds, faults, effects>> /\ handled' = Quiet

\* An attempt reaches the server, while the client waits or after it gave up.
Arrive ==
  \E m \in network, failure \in {"none", "before", "write", "after"} :
    /\ failure # "none" => faults < MaxFaults
    /\ faults' = IF failure = "none" THEN faults ELSE faults + 1
    /\ Handle(m.request, m.tag, failure)
    /\ network' = network \ {m}
    /\ call' = IF call.stage = "sent" /\ m.tag = call.tag /\ m.attempt = call.attempt
               THEN [call EXCEPT !.stage = "answered", !.answer = handled'.answer]
               ELSE call
    /\ UNCHANGED <<clientClosed>>

\* Mutation: resets are retried too.
Retries_Resets == call.request.route \in {"get", "observations", "reset"} /\ call.attempt < MaxAttempts

\* Reads and submissions are retried, but not after the last attempt.
Retries == call.request.route \in {"get", "observations"} /\ call.attempt < MaxAttempts

\* The transport fails, wherever the request or its answer was.
TransportFails ==
  /\ call.stage \in {"sent", "answered"} /\ faults < MaxFaults
  /\ faults' = faults + 1
  /\ call' = IF Retries THEN [call EXCEPT !.stage = "waiting"] ELSE Ended("transport")
  /\ UNCHANGED <<clientClosed, network, sessions, usedIds, effects>> /\ handled' = Quiet

\* An answer that cannot be decoded is reported; Dart retries it unless its
\* own checks refused it.
Undecodable ==
  /\ call.stage = "answered" /\ faults < MaxFaults
  /\ faults' = faults + 1
  /\ \/ call' = Ended("transport")
     \/ Retries /\ call' = [call EXCEPT !.stage = "waiting"]
  /\ UNCHANGED <<clientClosed, network, sessions, usedIds, effects>> /\ handled' = Quiet

Receive ==
  /\ call.stage = "answered"
  /\ call' = IF call.answer.code = Absent THEN [Ended("ok") EXCEPT !.read = TRUE]
             ELSE IF call.answer.retryable /\ Retries
                  THEN [call EXCEPT !.stage = "waiting", !.read = TRUE]
             ELSE [Ended(call.answer.code) EXCEPT !.read = TRUE]
  /\ UNCHANGED <<clientClosed, network, sessions, usedIds, faults, effects>> /\ handled' = Quiet

\* The delay before the next attempt ends, at once if the client is closed.
DelayEnds ==
  /\ call.stage = "waiting"
  /\ call' = IF clientClosed THEN Ended("closed")
             ELSE [call EXCEPT !.stage = "ready", !.attempt = @ + 1, !.answer = Absent]
  /\ UNCHANGED <<clientClosed, network, sessions, usedIds, faults, effects>> /\ handled' = Quiet

Close ==
  /\ ~clientClosed
  /\ clientClosed' = TRUE
  /\ UNCHANGED <<call, network, sessions, usedIds, faults, effects>> /\ handled' = Quiet

\* Another client's request, handled as it comes.  What the client cannot
\* notice is not explored: anything after its last call, and after its first
\* call a read or what the routes refuse.
Changing == {request \in OtherRequests : request.route # "resume" /\ Refusal(request).code = Absent}

Other ==
  /\ MayCall \/ call.stage # "ended" \/ network # {}
  /\ \E request \in IF call.tag = 0 THEN OtherRequests ELSE Changing :
       /\ request.route = "reset" /\ request \in Changing => sessions[request.session].resets < MaxResets
       /\ Handle(request, 0, "none")
  /\ UNCHANGED <<clientClosed, call, network, faults>>

Next == \/ Call \/ Recognize \/ Send \/ Arrive \/ TransportFails \/ Undecodable \/ Receive
        \/ DelayEnds \/ Close \/ Other

Spec == Init /\ [][Next]_vars

-----------------------------------------------------------------------------
EffectsOf(tag) == {e \in effects : e.tag = tag}

\* A call changes a session once.  A retried submission does so twice only when
\* the session was reset in between, or when so many other observations came in
\* between that the tracker has forgotten its id.  A reset, a delete or a create
\* that returned did what it says, and one that was refused did nothing.
CallsTakeEffectOnce ==
  /\ \A e, f \in effects :
       e.tag = f.tag /\ e # f =>
         /\ e.route = "observations"
         /\ \/ e.resets # f.resets
            \/ e.hearings + ObservationIdLimit < f.hearings \/ f.hearings + ObservationIdLimit < e.hearings
  /\ call.stage = "ended" /\ call.request # Absent
       /\ call.request.route \in {"reset", "delete", "create"} =>
       /\ call.result = "ok" => EffectsOf(call.tag) # {}
       /\ call.result \in {"SESSION_NOT_FOUND", "INVALID_CORPUS"} => EffectsOf(call.tag) = {}

\* The route's checks and the service agree: a request changes no session but
\* the one in its path, none at all when it is told that it was mistaken, and
\* one that succeeds leaves the session as its route says.  A submission that
\* succeeds has its id in the record; only when a write has failed after the
\* tracker took an observation may it be answered with the record as it is.
AnswersMatchEffects ==
  [][handled' # Quiet /\ handled' # handled =>
       LET route  == handled'.route
           status == handled'.answer.status
           s      == handled'.session
           Recorded == \E i \in DOMAIN sessions'[s].record.ids :
                         sessions'[s].record.ids[i] = handled'.observation
       IN  /\ \A t \in SessionIds \ {s} : route # "create" => sessions'[t] = sessions[t]
           /\ status \in 400..499 => sessions' = sessions
           /\ status = 200 =>
                CASE route = "reset" -> /\ sessions'[s].resets = sessions[s].resets + 1
                                        /\ sessions'[s].record = Nothing /\ sessions'[s].tracker = Nothing
                  [] route = "observations" -> Recorded \/ (sessions[s].torn /\ sessions' = sessions)
                  [] route = "delete" -> ~sessions'[s].stored /\ ~sessions'[s].running
                  [] OTHER -> sessions' = sessions]_vars

\* Whatever a store or a corpus resolver throws, and wherever, the answer is an
\* internal error that no library tries again; the only answer that invites
\* another attempt is that of a creation at the capacity; and since no library
\* retries a creation, an answer that was read is the last of its call.
InternalFailuresStayInternal ==
  /\ handled.failure # "none" =>
       handled.answer = [status |-> 500, code |-> "INTERNAL_ERROR", retryable |-> FALSE]
  /\ handled.answer # Absent =>
       (handled.answer.code # Absent /\ handled.answer.retryable =>
          handled.route = "create" /\ handled.answer.status = 503)
  /\ call.read => call.stage = "ended"

\* What the recognizer heard becomes an observation that the server takes, in
\* whatever order and precision its times and probabilities come: the
\* normalizer refuses only an unknown token, a partial result with nothing in
\* it and what is over the limits.
NormalizedIsAccepted ==
  call.heard # Absent =>
    /\ call.result = "INVALID_RESULT" =>
         LET kept == Kept(call.heard.result)
         IN  \/ kept = <<>> /\ ~call.heard.options.isFinal
             \/ Len(kept) > MaxTokens
             \/ PhonemeCount([k \in DOMAIN kept |-> call.heard.result.tokens[kept[k]]]) > MaxPhonemes
    /\ call.result # "INVALID_OBSERVATION"
=============================================================================
