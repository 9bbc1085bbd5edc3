----------------------------- MODULE HttpRoutes -----------------------------
(***************************************************************************)
(* The REST routes of packages/server/src/http.ts: which service call a    *)
(* request becomes, in the order of the checks, and the answer it gets.  A *)
(* request is [route, session, body]: the route it matched, the session of *)
(* its path, and its body or query as a command.                           *)
(***************************************************************************)
EXTENDS Observation

PROTOCOL_VERSION == 1

\* The routes with the type of command each of them takes.
CommandType ==
  [create |-> "session.create", get |-> "session.get", reset |-> "session.reset",
   observations |-> "observation.submit", resume |-> "session.resume", delete |-> "session.delete"]

\* The command of get and delete is made from path and query, where a version
\* that is not a number is none of the versions; a body is read all the same.
Command(request) ==
  IF request.route \in {"get", "delete"}
  THEN [format |-> request.body.format,
        version |-> IF request.body.version = Absent THEN PROTOCOL_VERSION ELSE request.body.version,
        type |-> CommandType[request.route], session |-> request.session]
  ELSE request.body

Refuse(code) == [code |-> code, retryable |-> FALSE]

\* bodyValidationCode, and the code of a command that fails validation.
InvalidCode(route) == IF route = "observations" THEN "INVALID_OBSERVATION" ELSE "INVALID_CORPUS"

\* Mutation: the session of the path is not compared with the body's.
PathMatches_Unchecked(request, command) == TRUE

PathMatches(request, command) ==
  command.type = "session.create" \/ command.session = request.session

\* The route's checks: what fastify does with the body ("garbled" is not valid
\* JSON; "unreadable" is any other error of fastify's, such as a body that is too
\* large, empty or of another media type), assertCommand (the version, the schema
\* and the type, the observation's own rules), the path.
Checks(request) ==
  LET command == Command(request)
      type    == CommandType[request.route]
  IN  IF command.format = "unreadable" THEN Refuse("INTERNAL_ERROR")
      ELSE IF command.format = "garbled" THEN Refuse(InvalidCode(request.route))
      ELSE IF command.version \notin {PROTOCOL_VERSION, Absent} THEN Refuse("UNSUPPORTED_PROTOCOL")
      ELSE IF \/ command.version = Absent \/ command.type # type
              \/ type = "observation.submit" /\ ~ValidObservation(command.observation)
           THEN Refuse(InvalidCode(request.route))
      ELSE IF ~PathMatches(request, command) THEN Refuse("SESSION_NOT_FOUND")
      ELSE [code |-> Absent]

\* The answer before the service is called; Absent lets the call through.
Refusal(request) ==
  IF request.route \in DOMAIN CommandType THEN Checks(request) ELSE Refuse("SESSION_NOT_FOUND")

\* errorStatus.
ErrorStatus(error) ==
  CASE error.code = "SESSION_NOT_FOUND" -> 404
    [] error.code = "STALE_REVISION"    -> 409
    [] error.code = "INTERNAL_ERROR"    -> IF error.retryable THEN 503 ELSE 500
    [] OTHER                            -> 400

\* Mutation: whatever protocol error a store throws goes out as it is.
SafeError_Forwards(error) == [code |-> error.code, retryable |-> error.retryable]

\* respond's catch: what is not a TrustedProtocolError becomes an internal one.
SafeError(error) ==
  IF error.trusted THEN [code |-> error.code, retryable |-> error.retryable]
  ELSE Refuse("INTERNAL_ERROR")

\* An error as it is sent, and the answer to what succeeded.
ErrorAnswer(error)  == [status |-> ErrorStatus(error), code |-> error.code, retryable |-> error.retryable]
Success(route) == [status |-> IF route = "create" THEN 201 ELSE 200, code |-> Absent]
=============================================================================
