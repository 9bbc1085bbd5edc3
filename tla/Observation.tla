---------------------------- MODULE Observation -----------------------------
(***************************************************************************)
(* What makes an observation valid, packages/core/src/corpus/validate.ts,  *)
(* and how recognizer output becomes one,                                  *)
(* packages/sherpa-onnx/src/normalize.ts.  Strings are what the rules tell *)
(* apart of them: an id is a value or Blank, a list of phonemes is its     *)
(* length.  Times of an observation are in milliseconds, the recognizer's  *)
(* in half milliseconds, so that rounding shows.                           *)
(***************************************************************************)
EXTENDS Integers, Sequences, FiniteSetsExt, SequencesExt

CONSTANTS
  Blank,             \* an empty or blank id
  Absent,            \* the code's undefined
  MaxTokens,         \* OBSERVATION_LIMITS.maxTokens
  MaxPhonemes        \* OBSERVATION_LIMITS.maxPhonemes

ASSUME ObservationLimitsAssumption == {MaxTokens, MaxPhonemes} \subseteq Nat \ {0}

\* The codes of the normalizer's errors and of the protocol's.
ErrorCodes ==
  {"UNKNOWN_TOKEN", "INVALID_RESULT", "INVALID_CORPUS", "INVALID_OBSERVATION", "SESSION_NOT_FOUND",
   "STALE_REVISION", "UNSUPPORTED_PROTOCOL", "INTERNAL_ERROR"}

\* No number is blank or absent, and no error is the absence of one.
ASSUME MarkersAssumption ==
  Blank \notin Int /\ Absent \notin Int /\ Absent \notin ErrorCodes

NonDecreasing(s) == \A i, j \in DOMAIN s : i <= j => s[i] <= s[j]

\* validateObservationToken, but for the order of its times.
ValidToken(token) ==
  /\ token.id # Blank
  /\ token.confidence = Absent \/ token.confidence \in 0..100

\* The times of a token that are there, in the order they are compared.
Present(t)   == IF t = Absent THEN <<>> ELSE <<t>>
Times(token) == Present(token.startMs) \o Present(token.endMs)

\* phonemeCount at the end of the loop over the tokens.
PhonemeCount(phonemes) == MapThenSumSet(LAMBDA k : phonemes[k], DOMAIN phonemes)

\* validateObservation: ids differ, the limits hold, and no time is negative
\* or less than one before it, in its token or in an earlier one.
ValidObservation(o) ==
  LET times == FlattenSeq([k \in DOMAIN o.tokens |-> Times(o.tokens[k])])
  IN  /\ o.observationId # Blank
      /\ o.sourceRevision >= 0
      /\ Len(o.tokens) <= MaxTokens
      /\ o.isFinal \/ o.tokens # <<>>
      /\ \A k \in DOMAIN o.tokens : ValidToken(o.tokens[k])
      /\ \A j, k \in DOMAIN o.tokens : o.tokens[j].id = o.tokens[k].id => j = k
      /\ ~(PhonemeCount([k \in DOMAIN o.tokens |-> o.tokens[k].phonemes]) > MaxPhonemes)
      /\ NonDecreasing(times) /\ \A i \in DOMAIN times : times[i] >= 0

-----------------------------------------------------------------------------
\* Math.round(timestamp * 1_000), of half milliseconds.
Rounded(halves) == (halves + 1) \div 2

\* validTimestampArray: the starts of all tokens, or nothing at all.
TimestampStarts(result) ==
  IF /\ Len(result.timestamps) = Len(result.tokens)
     /\ \A i \in DOMAIN result.timestamps : result.timestamps[i] >= 0
     /\ NonDecreasing(result.timestamps)
  THEN [i \in DOMAIN result.timestamps |-> Rounded(result.timestamps[i])]
  ELSE <<>>

\* validProbabilityArray, likewise.
Probabilities(result) ==
  IF /\ Len(result.probabilities) = Len(result.tokens)
     /\ \A i \in DOMAIN result.probabilities : result.probabilities[i] \in 0..100
  THEN result.probabilities ELSE <<>>

ElementOr(s, i) == IF i \in DOMAIN s THEN s[i] ELSE Absent

\* Mutation: the end of a token is the next start as the recognizer gave it.
TokenAt_TruncatesEnd(result, i) ==
  LET starts == TimestampStarts(result)
  IN  [id |-> i, phonemes |-> result.tokens[i], startMs |-> ElementOr(starts, i),
       endMs |-> IF i + 1 \in DOMAIN starts THEN result.timestamps[i + 1] \div 2 ELSE Absent,
       confidence |-> ElementOr(Probabilities(result), i)]

\* The observation token for the recognizer's token i: it keeps its index, and
\* ends where the token after it starts, even one that the mapper drops.
TokenAt(result, i) ==
  LET starts == TimestampStarts(result)
  IN  [id |-> i, phonemes |-> result.tokens[i], startMs |-> ElementOr(starts, i),
       endMs |-> ElementOr(starts, i + 1), confidence |-> ElementOr(Probabilities(result), i)]

\* What tokenMapper makes of a token: a number of phonemes, or one of these.
Dropped == -1      \* null
Unknown == -2      \* undefined

\* What a recognizer may give, and the options that requireOptions accepts.
RecognizerResults ==
  [tokens : Seq(Nat \cup {Dropped, Unknown}), timestamps : Seq(Int), probabilities : Seq(Int)]

ValidOptions(options) ==
  options.observationId # Blank /\ options.sourceRevision \in Nat /\ options.isFinal \in BOOLEAN

\* The indices of the tokens that the loop does not skip.
Kept(result) ==
  LET kept[n \in 0..Len(result.tokens)] ==
        IF n = 0 THEN <<>>
        ELSE IF result.tokens[n] = Dropped THEN kept[n - 1] ELSE Append(kept[n - 1], n)
  IN  kept[Len(result.tokens)]

\* normalizeSherpaResult on options that are valid.
NormalizeSherpaResult(result, options) ==
  LET kept        == Kept(result)
      observation == [observationId  |-> options.observationId,
                      sourceRevision |-> options.sourceRevision,
                      isFinal        |-> options.isFinal,
                      tokens         |-> [k \in DOMAIN kept |-> TokenAt(result, kept[k])]]
  IN  IF \E i \in DOMAIN result.tokens : result.tokens[i] = Unknown
      THEN [error |-> "UNKNOWN_TOKEN"]
      ELSE IF ~ValidObservation(observation) THEN [error |-> "INVALID_RESULT"]
      ELSE [error |-> Absent, observation |-> observation]
=============================================================================
