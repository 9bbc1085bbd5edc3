------------------------------- MODULE Locate -------------------------------
(***************************************************************************)
(* locateObservation of packages/core/src/alignment/locate.ts: align the   *)
(* observation at every local candidate, look globally when no local       *)
(* candidate is good enough, and rank what was evaluated.                  *)
(***************************************************************************)
EXTENDS EditPath, Candidates

MaxReferenceLengthVariation == 3

\* localBestScore < 0.72.
BelowGlobalFallback(score) == 100 * score < 72 * Unit

\* leadingContinuity without its division by the length of the observation,
\* which is the same for all candidates of one observation.
LeadingContinuity(alignment) == MatchRunAfter(alignment.operations, 0)

-----------------------------------------------------------------------------
\* currentWins: a better score, then fewer edits, then more matched lookahead.
CurrentWins(current, alignment) ==
  \/ current.score > alignment.score
  \/ /\ current.score = alignment.score
     /\ \/ current.editCount < alignment.editCount
        \/ /\ current.editCount = alignment.editCount
           /\ current.matchedLookaheadCount > alignment.matchedLookaheadCount

\* One span of evaluateCandidate.  A new winner makes the old winner's score
\* the second best even when an earlier loser had scored higher.
NextSpan(st, current) ==
  IF CurrentWins(current, st.alignment)
  THEN [alignment |-> current, second |-> st.alignment.score]
  ELSE [st EXCEPT !.second = Larger(@, current.score)]

Reference(symbols, p, length) == [k \in 1..length |-> symbols[p + k].phoneme]

BestSpan(symbols, actual, p, minimum, maximum) ==
  LET Span(length) == AlignPhonemes(actual, Reference(symbols, p, length))
      best[length \in minimum..maximum] ==
        IF length = minimum THEN [alignment |-> Span(length), second |-> 0]
        ELSE NextSpan(best[length - 1], Span(length))
  IN  best[maximum]

CandidateAt(p, best, singleSpan) ==
  [symbolIndex |-> p,
   alignment   |-> best.alignment,
   score       |-> best.alignment.score,
   scoreMargin |-> IF singleSpan THEN 0 ELSE Larger(0, best.alignment.score - best.second),
   continuity  |-> LeadingContinuity(best.alignment)]

\* evaluateCandidate: the best reference span starting at position p.
EvaluateCandidate(symbols, actual, p) ==
  LET available == Len(symbols) - p
      minimum   == Smaller(available, Larger(1, Len(actual) - MaxReferenceLengthVariation))
      maximum   == Smaller(available, Len(actual) + MaxReferenceLengthVariation)
  IN  CandidateAt(p, BestSpan(symbols, actual, p, minimum, maximum), minimum = maximum)

-----------------------------------------------------------------------------
\* compareCandidates(left, right) < 0, as the list of its keys, smallest first.
RankKey(c, cursor) ==
  <<-c.score, -c.scoreMargin, Distance(c.symbolIndex, cursor), -c.continuity,
    Larger(0, c.symbolIndex - cursor), c.symbolIndex>>

RanksBefore(left, right, cursor) ==
  LET l == RankKey(left, cursor)  r == RankKey(right, cursor)
  IN  \E k \in DOMAIN l : l[k] < r[k] /\ \A j \in 1 .. k - 1 : l[j] = r[j]

BestOf(S, cursor) == CHOOSE c \in S : \A d \in S \ {c} : RanksBefore(c, d, cursor)

NoCandidate == [symbolIndex |-> None]

\* What one call evaluates: the local candidates and, when all of them are
\* below the threshold, the global ones; the posting reads left over.
EvaluatePositions(symbols, actual, cursor, evaluation) ==
  LET local  == RetrieveCandidatePositions(symbols, actual, cursor, FALSE)
      global == RetrieveCandidatePositions(symbols, actual, cursor, TRUE)
  IN  IF \A p \in local.candidates : BelowGlobalFallback(evaluation[p].score)
      THEN [global EXCEPT !.candidates = @ \cup local.candidates]
      ELSE local

\* locateObservation: the best and the second of the evaluated candidates.
LocateObservation(positions, cursor, evaluation) ==
  LET evaluated == {evaluation[p] : p \in positions}
      best      == BestOf(evaluated, cursor)
  IN  [best   |-> IF evaluated = {} THEN NoCandidate ELSE best,
       second |-> IF Cardinality(evaluated) < 2 THEN NoCandidate
                  ELSE BestOf(evaluated \ {best}, cursor)]

Evaluations(symbols, actual) ==
  [p \in Positions(symbols) |-> EvaluateCandidate(symbols, actual, p)]
=============================================================================
