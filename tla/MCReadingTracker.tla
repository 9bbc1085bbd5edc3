-------------------------- MODULE MCReadingTracker --------------------------
(***************************************************************************)
(* The reading tracker over the real locator: a corpus in which the last   *)
(* two phonemes of one ayah are the first two of the next, so that a short *)
(* observation is ambiguous and a long one is not.  The first ayah is one  *)
(* long word, in which a mistake can be heard several times before the     *)
(* word is committed; the second has short words, which partial            *)
(* observations commit as they go.                                         *)
(***************************************************************************)
EXTENDS ReadingTracker, TLC

CONSTANT MCPayloadNames      \* which of the payloads below a run submits

\* e f g h i j a b   and   a b | c | d
MCSymbols ==
  LET Symbols(ayah, word, phonemes) ==
        [i \in DOMAIN phonemes |-> [phoneme |-> phonemes[i], ayah |-> ayah, word |-> word]]
  IN  Symbols(1, 1, <<"e", "f", "g", "h", "i", "j", "a", "b">>)
        \o Symbols(2, 1, <<"a", "b">>) \o Symbols(2, 2, <<"c">>) \o Symbols(2, 3, <<"d">>)

L(limits) ==
  INSTANCE Locate WITH
    MaxAlignmentCandidates <- limits.candidates, MaxLocalCandidates <- limits.local,
    ForwardPhonemeCount <- 3, MaxNgramQueries <- limits.queries,
    MaxPostingInspections <- limits.inspections, MaxAnchorDisplacement <- limits.displacement

CodeLimits == [candidates |-> 64, local |-> 48, queries |-> 48, inspections |-> 128, displacement |-> 3]

\* In a large corpus other candidates can use up the capacity before the starts
\* next to the best one; a small corpus needs small limits for that.
CrowdedLimits == [candidates |-> 3, local |-> 2, queries |-> 6, inspections |-> 8, displacement |-> 1]

MCSymbolCount == Len(MCSymbols)
WordTable     == L(CodeLimits)!OrderedWordRanges(MCSymbols)
MCWords       == WordTable

MCUnit == 27720      \* divisible by every length compared here, up to twelve

\* The phonemes of each payload; "x" and "y" are phonemes the corpus does not
\* have.  One mistake in five phonemes can pass the immediate gate; two in
\* eight, the first of them near the beginning, only the soft one.
AllSpoken ==
  [silence  |-> <<>>,                       noise |-> <<"x">>,
   word     |-> <<"a", "b">>,               long  |-> <<"e", "f", "g", "h", "i">>,
   middle   |-> <<"b", "c", "d">>,          wrong |-> <<"e", "f", "x", "h", "i">>,
   verse    |-> <<"a", "b", "c", "d">>,     crossing |-> <<"i", "j", "a", "b">>,
   mistake  |-> <<"f", "g", "x", "i", "j">>,
   mistakes |-> <<"e", "x", "g", "h", "y", "j", "a", "b">>]

CrowdedPayloads == {"mistake", "mistakes"}

MCSpoken == [p \in MCPayloadNames |-> AllSpoken[p]]

\* Recognizer confidence accompanies the longer payloads only.
MCAcoustic ==
  [p \in MCPayloadNames |-> IF Len(AllSpoken[p]) >= 5 THEN MCUnit ELSE NoAcoustic]

EvaluationTable == [p \in MCPayloadNames |-> L(CodeLimits)!Evaluations(MCSymbols, AllSpoken[p])]

\* What the tracker reads of the candidates that locateObservation returns.
Result(found) ==
  [best |-> IF found.best = L(CodeLimits)!NoCandidate THEN NoCandidate
            ELSE [symbolIndex |-> found.best.symbolIndex, score |-> found.best.score,
                  matchedLookaheadCount |-> found.best.alignment.matchedLookaheadCount,
                  operations |-> found.best.alignment.operations],
   secondScore |-> IF found.second = L(CodeLimits)!NoCandidate THEN 0 ELSE found.second.score]

Locating(p, cursor) ==
  LET actual == AllSpoken[p]
      limits == IF p \in CrowdedPayloads THEN CrowdedLimits ELSE CodeLimits
      found  == L(limits)!EvaluatePositions(MCSymbols, actual, cursor, EvaluationTable[p])
  IN  Result(L(CodeLimits)!LocateObservation(IF actual = <<>> THEN {} ELSE found.candidates,
                                 cursor, EvaluationTable[p]))

LocatedTable == [p \in MCPayloadNames |-> [c \in Positions |-> Locating(p, c)]]
MCLocated    == LocatedTable

IdSymmetry == Permutations(ObservationIds)
=============================================================================
