----------------------------- MODULE Candidates -----------------------------
(***************************************************************************)
(* Bounded candidate retrieval, packages/core/src/alignment/candidates.ts: *)
(* the start positions at which an observation is aligned.  Local          *)
(* retrieval looks around the cursor; global retrieval reads the posting   *)
(* lists of the observation's n-grams under a budget of inspections.       *)
(***************************************************************************)
EXTENDS Corpus

CONSTANTS
  MaxAlignmentCandidates,  \* MAX_ALIGNMENT_CANDIDATES
  MaxLocalCandidates,      \* MAX_LOCAL_CANDIDATES
  ForwardPhonemeCount,     \* FORWARD_PHONEME_COUNT
  MaxNgramQueries,         \* MAX_NGRAM_QUERIES
  MaxPostingInspections,   \* MAX_POSTING_INSPECTIONS
  MaxAnchorDisplacement    \* MAX_ANCHOR_DISPLACEMENT

ASSUME LimitsAssumption ==
  /\ {MaxAlignmentCandidates, MaxLocalCandidates, ForwardPhonemeCount,
      MaxNgramQueries, MaxPostingInspections, MaxAnchorDisplacement} \subseteq Nat \ {0}
  /\ MaxLocalCandidates <= MaxAlignmentCandidates
  /\ ForwardPhonemeCount <= MaxNgramQueries

None == -1      \* the code's undefined

Distance(p, q) == IF p < q THEN q - p ELSE p - q

\* compareAroundCursor(left, right) <= 0: nearer first, then the one behind.
NotAfterAround(left, right, cursor) ==
  \/ Distance(left, cursor) < Distance(right, cursor)
  \/ Distance(left, cursor) = Distance(right, cursor) /\ left <= right

-----------------------------------------------------------------------------
\* localPositions: the cursor, the last symbol of the previous ayah, the first
\* symbols after the active ayah, then the active ayah outwards from the cursor
\* in turn with the previous ayah backwards.  LocalOrder is the turn in which
\* the loop offers a position; the first MaxLocalCandidates are kept.
LocalOrder(active, previous, cursor, p) ==
  LET nearer == {q \in active.start .. active.end - 1 :
                   q # cursor /\ q # p /\ NotAfterAround(q, p, cursor)}
  IN  IF p = cursor THEN 0
      ELSE IF p = active.start - 1 THEN 1
      ELSE IF p >= active.end THEN 2 + p - active.end
      ELSE IF p >= active.start THEN 2 + ForwardPhonemeCount + 2 * Cardinality(nearer)
      ELSE 3 + ForwardPhonemeCount + 2 * (previous.end - 2 - p)

FirstInOrder(offered, active, previous, cursor) ==
  LET Order(p) == LocalOrder(active, previous, cursor, p)
  IN  {p \in offered : Cardinality({q \in offered : Order(q) < Order(p)}) < MaxLocalCandidates}

\* Without a previous ayah the offered positions begin at the active one.
LocalPositions(symbols, cursor) ==
  LET active   == AyahRange(symbols, cursor)
      previous == IF active.start = 0 THEN active ELSE AyahRange(symbols, active.start - 1)
      offered  == {p \in Positions(symbols) :
                     previous.start <= p /\ p < active.end + ForwardPhonemeCount}
  IN  FirstInOrder(offered, active, previous, cursor)

-----------------------------------------------------------------------------
\* sampledOffsets: every offset, or an even sample of them.
SampledOffsets(count, budget) ==
  IF count <= budget THEN 0 .. count - 1
  ELSE IF budget = 1 THEN {0}
  ELSE {(sample * (count - 1)) \div (budget - 1) : sample \in 0 .. budget - 1}

AnchorsOf(symbols, actual, length, budget) ==
  {[length |-> length, offset |-> o,
    postings |-> Postings(symbols, SubSeq(actual, o + 1, o + length))] :
      o \in SampledOffsets(Len(actual) - length + 1, budget)}

\* Shorter posting lists first, then longer n-grams, then earlier offsets.
RarerAnchor(a, b) ==
  \/ Len(a.postings) < Len(b.postings)
  \/ /\ Len(a.postings) = Len(b.postings)
     /\ a.length > b.length \/ (a.length = b.length /\ a.offset < b.offset)

\* queryAnchors: the observation's n-grams that occur in the corpus, rarest
\* first.  Each length gets an equal share of the queries, so the cap on the
\* number of queries is never what stops the loop.
QueryAnchors(symbols, actual) ==
  LET maximumLength == IF Len(actual) < ForwardPhonemeCount THEN Len(actual) ELSE ForwardPhonemeCount
      anchors == UNION {AnchorsOf(symbols, actual, length, MaxNgramQueries \div maximumLength) :
                          length \in 1..maximumLength}
  IN  SortedSeq({a \in anchors : a.postings # <<>>}, RarerAnchor)

\* lowerBound: binary search that spends one inspection per probe and gives
\* up when none is left.
RECURSIVE LowerBound(_, _, _, _, _)
LowerBound(values, target, low, high, budget) ==
  IF low >= high THEN [at |-> low, budget |-> budget]
  ELSE IF budget = 0 THEN [at |-> None, budget |-> 0]
  ELSE LET middle == low + (high - low) \div 2
       IN  IF values[middle + 1] < target
           THEN LowerBound(values, target, middle + 1, high, budget - 1)
           ELSE LowerBound(values, target, low, middle, budget - 1)

\* Mutation: the posting behind the cursor is taken while there is one.
TakesLeft_First(pc, cursor) == pc.left >= 0

\* Of the postings on both sides of the cursor, the one behind is the nearer.
TakesLeft(pc, cursor) ==
  LET StartOf(k) == pc.anchor.postings[k + 1] - pc.anchor.offset
  IN  \/ pc.right >= Len(pc.anchor.postings)
      \/ pc.left >= 0 /\ NotAfterAround(StartOf(pc.left), StartOf(pc.right), cursor)

\* takeNearestPosting: inspect the postings on both sides of the cursor and
\* take the nearer; without the budget for both nothing is taken.
TakeNearestPosting(pc, cursor, budget) ==
  LET postings == pc.anchor.postings
      needed   == (IF pc.left >= 0 THEN 1 ELSE 0) + (IF pc.right < Len(postings) THEN 1 ELSE 0)
  IN  IF needed = 0 THEN [posting |-> None, cursor |-> pc, budget |-> budget]
      ELSE IF budget < needed THEN [posting |-> None, cursor |-> pc, budget |-> 0]
      ELSE IF TakesLeft(pc, cursor)
      THEN [posting |-> postings[pc.left + 1], cursor |-> [pc EXCEPT !.left = @ - 1],
            budget |-> budget - needed]
      ELSE [posting |-> postings[pc.right + 1], cursor |-> [pc EXCEPT !.right = @ + 1],
            budget |-> budget - needed]

-----------------------------------------------------------------------------
Full(candidates) == Cardinality(candidates) >= MaxAlignmentCandidates

\* Mutation: the capacity check is dropped.
AddStart_NoCap(candidates, symbols, start) ==
  IF start \in Positions(symbols) THEN candidates \cup {start} ELSE candidates

\* addStart: in range and only while there is capacity.
AddStart(candidates, symbols, start) ==
  IF ~Full(candidates) /\ start \in Positions(symbols) THEN candidates \cup {start} ELSE candidates

\* addDisplacedStarts: one to MaxAnchorDisplacement after, then before, the base.
AddDisplacedStarts(candidates, symbols, base) ==
  LET Shift(k) == IF k % 2 = 1 THEN (k + 1) \div 2 ELSE -(k \div 2)
      added[k \in 0 .. 2 * MaxAnchorDisplacement] ==
        IF k = 0 THEN candidates ELSE AddStart(added[k - 1], symbols, base + Shift(k))
  IN  added[2 * MaxAnchorDisplacement]

\* The nearest posting of an anchor, taken, gives one exact-offset start.
PlaceStart(st, symbols, anchor, taken) ==
  LET start == taken.posting - anchor.offset
  IN  [candidates |-> IF taken.posting = None THEN st.candidates
                      ELSE AddStart(st.candidates, symbols, start),
       budget  |-> taken.budget,
       cursors |-> Append(st.cursors, taken.cursor),
       nearest |-> IF taken.posting = None THEN st.nearest ELSE Append(st.nearest, start)]

\* One anchor of the first loop: its cursor is placed at the anchor's image of
\* the reading cursor.
PlaceAnchor(st, symbols, cursor, anchor) ==
  IF Full(st.candidates) \/ st.budget = 0 THEN st
  ELSE LET found == LowerBound(anchor.postings, cursor + anchor.offset, 0,
                               Len(anchor.postings), st.budget)
       IN  IF found.at = None THEN [st EXCEPT !.budget = 0]
           ELSE PlaceStart(st, symbols, anchor,
                           TakeNearestPosting([anchor |-> anchor, left |-> found.at - 1,
                                               right |-> found.at], cursor, found.budget))

PlaceAnchors(st, symbols, cursor, anchors) ==
  LET placed[k \in 0..Len(anchors)] ==
        IF k = 0 THEN st ELSE PlaceAnchor(placed[k - 1], symbols, cursor, anchors[k])
  IN  placed[Len(anchors)]

\* The second loop: displaced starts around every start of the first.
DisplaceNearest(st, symbols) ==
  LET displaced[k \in 0..Len(st.nearest)] ==
        IF k = 0 THEN st.candidates
        ELSE AddDisplacedStarts(displaced[k - 1], symbols, st.nearest[k])
  IN  [st EXCEPT !.candidates = displaced[Len(st.nearest)]]

\* One cursor of a round of the last loop.
FillWith(st, symbols, k, taken) ==
  LET base == taken.posting - st.cursors[k].anchor.offset
  IN  [st EXCEPT !.budget = taken.budget,
                 !.cursors[k] = taken.cursor,
                 !.candidates = IF taken.posting = None THEN @
                                ELSE AddDisplacedStarts(AddStart(@, symbols, base), symbols, base)]

FillFrom(st, symbols, cursor, k) ==
  IF Full(st.candidates) \/ st.budget = 0 THEN st
  ELSE FillWith(st, symbols, k, TakeNearestPosting(st.cursors[k], cursor, st.budget))

FillRound(st, symbols, cursor) ==
  LET visited[k \in 0..Len(st.cursors)] ==
        IF k = 0 THEN st ELSE FillFrom(visited[k - 1], symbols, cursor, k)
  IN  visited[Len(st.cursors)]

\* The last loop: rounds over the posting lists until the candidates or the
\* budget are used up or a round inspects nothing.
RECURSIVE FillSpareCapacity(_, _, _)
FillSpareCapacity(st, symbols, cursor) ==
  IF Full(st.candidates) \/ st.budget = 0 THEN st
  ELSE LET round == FillRound(st, symbols, cursor)
       IN  IF round.budget = st.budget THEN round ELSE FillSpareCapacity(round, symbols, cursor)

Untouched(local) ==
  [candidates |-> local, budget |-> MaxPostingInspections, cursors |-> <<>>, nearest |-> <<>>]

\* addGlobalCandidates, with what is left of the inspection budget.
AddGlobalCandidates(local, symbols, actual, cursor) ==
  FillSpareCapacity(
    DisplaceNearest(
      PlaceAnchors(Untouched(local), symbols, cursor, QueryAnchors(symbols, actual)), symbols),
    symbols, cursor)

\* retrieveCandidatePositions, with the inspections it leaves unspent.
RetrieveCandidatePositions(symbols, actual, cursor, includeGlobal) ==
  IF includeGlobal /\ actual # <<>>
  THEN AddGlobalCandidates(LocalPositions(symbols, cursor), symbols, actual, cursor)
  ELSE Untouched(LocalPositions(symbols, cursor))
=============================================================================
