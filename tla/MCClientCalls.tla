--------------------------- MODULE MCClientCalls ----------------------------
(* Recognizer results and foreign requests for ClientCalls. *)
EXTENDS ClientCalls

CONSTANTS s1, s2, o1, o2

MCSessionIds == {s1, s2}
MCObservationIds == {o1, o2}

Heard(tokens, timestamps, probabilities, id, revision, isFinal) ==
  [result  |-> [tokens |-> tokens, timestamps |-> timestamps, probabilities |-> probabilities],
   options |-> [observationId |-> id, sourceRevision |-> revision, isFinal |-> isFinal]]

\* Equal times between two milliseconds, a dropped token, times and
\* probabilities that cannot be used, and results that make no observation.
MCRecognized ==
  {Heard(<<1, Dropped, 2>>, <<1, 1, 3>>, <<100, 0, 0>>, o1, 0, TRUE),
   Heard(<<1, 1>>, <<3, 1>>, <<120, 50>>, o2, 2, FALSE),
   Heard(<<Dropped, Dropped>>, <<0, 1>>, <<>>, o2, 0, FALSE),
   Heard(<<1, Unknown>>, <<>>, <<>>, o1, 1, FALSE),
   Heard(<<3, 2>>, <<0, 1>>, <<>>, o1, 1, TRUE),
   Heard(<<1, 1, 1, 1>>, <<1, 1, 1, 1>>, <<>>, o1, 1, TRUE)}

Token(id, startMs, endMs) ==
  [id |-> id, phonemes |-> 1, startMs |-> startMs, endMs |-> endMs, confidence |-> Absent]
Observed(tokens) ==
  Submit(s1, [observationId |-> o2, sourceRevision |-> 0, isFinal |-> FALSE, tokens |-> tokens])

Plain == Observed(<<Token(1, Absent, Absent)>>)
With(request, field, value) == [request EXCEPT !.body = (field :> value) @@ @]
Body(route, body) == [route |-> route, session |-> s1, body |-> body]

\* Requests in order, from a client of another make, and broken ones.
MCOtherRequests ==
  {Post("reset", s1), Plain, Post("resume", s1),
   With(Plain, "session", s2), [Plain EXCEPT !.session = s2],
   With(Plain, "version", 2), With(Plain, "version", Absent), With(Plain, "type", "session.reset"),
   Body("elsewhere", [format |-> "json"]), Body("observations", [format |-> "garbled"]),
   Body("reset", [format |-> "garbled"]), Body("observations", [format |-> "unreadable"]),
   Body("get", [format |-> "json", version |-> 2]), Body("delete", [format |-> "json", version |-> Absent]),
   Body("delete", [format |-> "unreadable", version |-> Absent])}
  \cup {Observed(tokens) :
          tokens \in {<<>>, <<Token(Blank, Absent, Absent)>>, <<Token(1, 2, 1)>>,
                      <<Token(1, 1, 3), Token(2, 2, Absent)>>, <<Token(1, 1, 2), Token(1, 2, 2)>>}}
=============================================================================
