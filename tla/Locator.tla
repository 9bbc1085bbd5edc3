------------------------------ MODULE Locator -------------------------------
(***************************************************************************)
(* A locator in use: one indexed corpus, and one locateObservation call    *)
(* after another with whatever cursor the tracker holds at the time.  The  *)
(* work a call does is what AlignmentMetricsSink observes of it.  A small  *)
(* corpus never reaches the code's limits, so the same locator also runs   *)
(* with scarce ones.                                                       *)
(***************************************************************************)
EXTENDS Locate

CONSTANTS
  Corpora,        \* the corpora to index
  Observed        \* the phoneme sequences an observation may carry

Scarce ==
  INSTANCE Locate WITH MaxAlignmentCandidates <- 4, MaxLocalCandidates <- 2,
    ForwardPhonemeCount <- 3, MaxNgramQueries <- 4, MaxPostingInspections <- 4,
    MaxAnchorDisplacement <- 1

ASSUME CorporaAssumption == \A c \in Corpora : ValidCorpus(c) /\ c # <<>>

VARIABLES
  scarce,         \* whether the limits are the scarce ones
  symbols,        \* the indexed corpus
  actual,         \* observationPhonemes of the call, <<>> between calls
  cursor,         \* context.cursorSymbol of the call
  evaluated,      \* the starts it aligned
  budget,         \* the posting inspections it left
  located         \* what it returned

vars == <<scarce, symbols, actual, cursor, evaluated, budget, located>>

Nothing == [best |-> NoCandidate, second |-> NoCandidate]

CandidateLimit  == IF scarce THEN 4 ELSE MaxAlignmentCandidates
InspectionLimit == IF scarce THEN 4 ELSE MaxPostingInspections

Init ==
  /\ scarce \in BOOLEAN
  /\ symbols \in Corpora
  /\ actual = <<>>
  /\ cursor = 0
  /\ evaluated = {}
  /\ budget = InspectionLimit
  /\ located = Nothing

\* One locateObservation call on a non-empty observation.
LocateCall(a, c) ==
  /\ actual = <<>>
  /\ a # <<>>
  /\ LET evaluation == Evaluations(symbols, a)
         positions  == IF scarce THEN Scarce!EvaluatePositions(symbols, a, c, evaluation)
                       ELSE EvaluatePositions(symbols, a, c, evaluation)
     IN  /\ evaluated' = positions.candidates
         /\ budget' = positions.budget
         /\ located' = LocateObservation(positions.candidates, c, evaluation)
  /\ actual' = a
  /\ cursor' = c
  /\ UNCHANGED <<scarce, symbols>>

\* The caller takes the result; nothing is kept for the next call.
Return ==
  /\ actual # <<>>
  /\ actual' = <<>>
  /\ cursor' = 0
  /\ evaluated' = {}
  /\ budget' = InspectionLimit
  /\ located' = Nothing
  /\ UNCHANGED <<scarce, symbols>>

Next ==
  \/ \E a \in Observed, c \in Positions(symbols) : LocateCall(a, c)
  \/ Return

Spec == Init /\ [][Next]_vars

-----------------------------------------------------------------------------
\* However the posting lists are shaped, one call aligns at most
\* MaxAlignmentCandidates starts, all of them positions of the corpus, and
\* never spends more than MaxPostingInspections reads of posting lists.
WorkIsBounded ==
  /\ Cardinality(evaluated) <= CandidateLimit
  /\ evaluated \subseteq Positions(symbols)
  /\ budget \in 0..InspectionLimit

OccursAt(p) ==
  /\ p + Len(actual) <= Len(symbols)
  /\ \A k \in 1..Len(actual) : symbols[p + k].phoneme = actual[k]

\* The reads that a binary search of a list of length n may take.
Probes[n \in Nat] == IF n = 0 THEN 0 ELSE 1 + Probes[n \div 2]

Anchors == IF scarce THEN Scarce!QueryAnchors(symbols, actual) ELSE QueryAnchors(symbols, actual)

\* Where the observation starts if its rarest n-gram is the one nearest to
\* the cursor.
NearestStart ==
  LET starts == {p - Anchors[1].offset : p \in ToSet(Anchors[1].postings)}
  IN  CHOOSE p \in starts : \A q \in starts : NotAfterAround(p, q, cursor)

\* However scarce candidates and inspections are, a reader who jumped is found
\* by the rarest n-gram of the observation: if its posting list can be searched
\* within the budget, the start that its occurrence nearest to the cursor gives
\* is evaluated, and when the observation stands there literally it is located
\* with a perfect score at a literal occurrence.  Only local candidates that
\* are good enough may keep the posting lists from being consulted
\* (candidates.ts:251-262, locate.ts:153-157).
RareOccurrenceIsFound ==
  actual # <<>> /\ Anchors # <<>> =>
    \/ Probes[Len(Anchors[1].postings)] + 2 > InspectionLimit
    \/ NearestStart \notin Positions(symbols)
    \/ budget = InspectionLimit /\ ~BelowGlobalFallback(located.best.score)
    \/ /\ NearestStart \in evaluated
       /\ OccursAt(NearestStart) =>
            located.best.score = Unit /\ OccursAt(located.best.symbolIndex)
=============================================================================
