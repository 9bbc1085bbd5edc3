------------------------ MODULE ReadingTrackerProofs ------------------------
(***************************************************************************)
(* Proofs about the reading tracker, for every corpus, every locator of    *)
(* the assumed shape, every set of observations and every limit.           *)
(***************************************************************************)
EXTENDS ReadingTracker, FiniteSetTheorems, SequenceTheorems, TLAPS

-----------------------------------------------------------------------------
\* The words are disjoint ranges of positions in ascending order.
LEMMA WordRanges ==
  /\ \A w \in WordIds : /\ w \in Nat \ {0}
                        /\ Words[w].start \in Nat /\ Words[w].end \in Nat
                        /\ Words[w].start < Words[w].end
                        /\ Words[w].end <= SymbolCount
                        /\ Words[w].end - 1 \in Positions
  /\ \A v, w \in WordIds : v < w => Words[v].end - 1 < Words[w].end - 1
<1> DEFINE Ranges == [start : Positions, end : 1..SymbolCount]
<1>0. /\ Words \in Seq(Ranges)
      /\ WordIds = 1 .. Len(Words) /\ Len(Words) \in Nat
  BY CorpusAssumption DEF WordIds
<1>1. ASSUME NEW w \in WordIds PROVE w \in Nat \ {0} /\ Words[w] \in Ranges
  <2>1. w \in 1 .. Len(Words)
    BY <1>0
  <2>2. Words[w] \in Ranges
    BY ONLY <2>1, <1>0, ElementOfSeq
  <2> QED
    BY <2>1, <2>2, <1>0
<1>2. \A w \in WordIds : Words[w].start \in 0 .. SymbolCount - 1 /\ Words[w].end \in 1..SymbolCount
  BY <1>1 DEF Positions
<1> QED
  BY <1>1, <1>2, CorpusAssumption, SMTT(30) DEF Positions

\* Any set of words is finite, so its ascending list is a sequence of words.
LEMMA AscendingListType ==
  ASSUME NEW S \in SUBSET WordIds, NEW list \in AscendingLists(S)
  PROVE  /\ list \in Seq(WordIds)
         /\ Entries(list) = S
         /\ \A i \in DOMAIN list : list[i] \in S
         /\ \A i, j \in DOMAIN list : i < j => list[i] < list[j]
<1>1. WordIds = 1 .. Len(Words) /\ Len(Words) \in Nat
  BY CorpusAssumption DEF WordIds
<1>2. IsFiniteSet(WordIds)
  BY <1>1, FS_Interval
<1>3. Cardinality(S) \in Nat
  BY <1>2, FS_Subset, FS_CardinalityType
<1>4. list \in [1 .. Cardinality(S) -> WordIds]
  BY DEF AscendingLists
<1> QED
  BY <1>3, <1>4, IsASeq DEF AscendingLists

\* What the locator returns is a candidate in the corpus, and the offset the
\* tracker takes from it is a natural number.
LEMMA LocatedCandidate ==
  ASSUME NEW p \in Payloads, cursorSymbol \in Positions,
         NEW best, best = Located[p][cursorSymbol].best, best # NoCandidate,
         NEW offset, IsMaximum(offset, AlignedOffsets(best))
  PROVE  /\ best \in CandidateRecords
         /\ offset \in Nat
         /\ ActiveSymbol(best, offset) \in Positions
<1>1. best \in CandidateRecords
  BY LocatorAssumption
<1>2. \A i \in DOMAIN best.operations : best.operations[i] \in AlignmentOperations
  BY <1>1 DEF CandidateRecords
<1>3. offset \in Nat
  <2>1. \A i \in AlignedOperations(best) : best.operations[i].referenceIndex \in Nat
    BY <1>2 DEF AlignedOperations, AlignmentOperations, NoIndex
  <2>2. AlignedOffsets(best) \subseteq Nat
    BY <2>1 DEF AlignedOffsets
  <2> QED
    BY <2>2 DEF IsMaximum
<1>4. best.symbolIndex \in Positions
  BY <1>1 DEF CandidateRecords
<1>5. ActiveSymbol(best, offset) \in Positions
  <2>1. SymbolCount \in Nat \ {0}
    BY CorpusAssumption
  <2>2. best.symbolIndex \in 0 .. SymbolCount - 1
    BY <1>4 DEF Positions
  <2> QED
    BY <1>3, <2>1, <2>2 DEF ActiveSymbol, Smaller, Positions
<1> QED
  BY <1>1, <1>3, <1>5

\* Every consumed position is at or before the display's new symbol.
LEMMA ConsumedUpToActive ==
  ASSUME NEW c \in CandidateRecords, NEW offset \in Nat,
         IsMaximum(offset, AlignedOffsets(c)),
         NEW x \in Consumed(c), x < SymbolCount
  PROVE  x <= ActiveSymbol(c, offset)
<1>1. PICK i \in AlignedOperations(c) : x = c.symbolIndex + c.operations[i].referenceIndex
  BY DEF Consumed
<1>2. c.operations[i] \in AlignmentOperations /\ c.symbolIndex \in Positions
  BY DEF CandidateRecords, AlignedOperations
<1>3. c.operations[i].referenceIndex \in Int
  BY <1>2 DEF AlignmentOperations, NoIndex
<1>4. c.operations[i].referenceIndex <= offset
  BY DEF IsMaximum, AlignedOffsets
<1> QED
  BY <1>1, <1>2, <1>3, <1>4, CorpusAssumption DEF ActiveSymbol, Smaller, Positions

-----------------------------------------------------------------------------
\* commitSupportedWords extends the ledger: the new words follow the old ones,
\* the last one ends at the committed symbol, and the committed symbol stays or
\* is raised no further than the display's new symbol.
LEMMA CommitExtendsLedger ==
  ASSUME NEW c \in CandidateRecords, NEW offset \in Nat,
         IsMaximum(offset, AlignedOffsets(c)), NEW isFinal,
         initialSymbol \in Positions, committedSymbol \in Positions,
         completedWordIds \in Seq(WordIds), CommitLedger,
         CommitSupportedWords(c, isFinal), UNCHANGED initialSymbol
  PROVE  /\ committedSymbol' \in Positions
         /\ completedWordIds' \in Seq(WordIds)
         /\ CommitLedger'
         /\ committedSymbol' >= committedSymbol
         /\ committedSymbol' # committedSymbol => committedSymbol' <= ActiveSymbol(c, offset)
         /\ Len(completedWordIds') >= Len(completedWordIds)
         /\ \A i \in DOMAIN completedWordIds : completedWordIds'[i] = completedWordIds[i]
<1> DEFINE supported == SupportedWords(c, isFinal)
           old       == completedWordIds
           new       == supported \ Entries(old)
           ends      == {Words[w].end - 1 : w \in supported}
<1>1. PICK list \in AscendingLists(new) : completedWordIds' = old \o list
  BY DEF CommitSupportedWords
<1>2. IsMaximum(committedSymbol', {committedSymbol} \cup ends)
  BY DEF CommitSupportedWords
<1>3. \A w \in supported : /\ w \in WordIds
                           /\ Words[w].end - 1 >= committedSymbol
                           /\ SymbolsOf(w) \subseteq Consumed(c)
  BY DEF SupportedWords
<1>4. /\ list \in Seq(WordIds) /\ Entries(list) = new
      /\ \A i \in DOMAIN list : list[i] \in new
      /\ \A i, j \in DOMAIN list : i < j => list[i] < list[j]
  BY <1>3, AscendingListType
<1>5. \A w \in supported : Words[w].end - 1 \in Positions /\ Words[w].end - 1 \in Consumed(c)
  <2> SUFFICES ASSUME NEW w \in supported
               PROVE  Words[w].end - 1 \in Positions /\ Words[w].end - 1 \in SymbolsOf(w)
    BY <1>3
  <2> QED
    BY <1>3, WordRanges DEF SymbolsOf
<1> HIDE DEF supported
<1>6. committedSymbol' \in Positions /\ committedSymbol' >= committedSymbol
  BY <1>2, <1>5 DEF IsMaximum, Positions
<1>7. ASSUME committedSymbol' # committedSymbol
      PROVE  committedSymbol' <= ActiveSymbol(c, offset)
  <2>1. PICK w \in supported : committedSymbol' = Words[w].end - 1
    BY <1>2, <1>7 DEF IsMaximum
  <2> QED
    BY <2>1, <1>5, ConsumedUpToActive, CorpusAssumption, SMTT(30) DEF Positions
<1>8. /\ old \o list \in Seq(WordIds)
      /\ Len(old \o list) = Len(old) + Len(list)
      /\ Len(old) \in Nat /\ Len(list) \in Nat
      /\ DOMAIN old = 1 .. Len(old) /\ DOMAIN list = 1 .. Len(list)
      /\ \A i \in 1 .. Len(old) : (old \o list)[i] = old[i]
      /\ \A i \in 1 .. Len(list) : (old \o list)[Len(old) + i] = list[i]
  BY <1>4, ConcatProperties, LenProperties
<1>9. ASSUME NEW w \in new, NEW i \in 1 .. Len(old)
      PROVE  old[i] < w
  <2> DEFINE last == old[Len(old)]
  <2>1. /\ Len(old) \in 1 .. Len(old) /\ Len(old) \in DOMAIN old /\ i \in DOMAIN old
        /\ old # <<>>
    BY <1>8
  <2>2. old[i] \in WordIds /\ last \in WordIds /\ w \in WordIds
    BY <2>1, <1>3, ElementOfSeq
  <2>3. committedSymbol = Words[last].end - 1
    BY <2>1 DEF CommitLedger
  <2>4. i = Len(old) \/ old[i] < last
    BY <2>1, <1>8 DEF CommitLedger
  <2>5. w # last
    BY <2>1 DEF Entries
  <2>6. ASSUME w < last PROVE FALSE
    <3>1. Words[w].end - 1 < committedSymbol
      BY <2>2, <2>3, <2>6, WordRanges
    <3>2. Words[w].end - 1 >= committedSymbol
      BY <1>3
    <3> QED
      BY <3>1, <3>2, <2>2, WordRanges, SMTT(30) DEF Positions
  <2>7. last < w
    BY <2>2, <2>5, <2>6, WordRanges
  <2> QED
    BY <2>2, <2>4, <2>7, WordRanges
<1>10. \A i, j \in DOMAIN completedWordIds' :
         i < j => completedWordIds'[i] < completedWordIds'[j]
  <2> SUFFICES ASSUME NEW i \in 1 .. Len(old) + Len(list), NEW j \in 1 .. Len(old) + Len(list), i < j
               PROVE  (old \o list)[i] < (old \o list)[j]
    BY <1>1, <1>8, LenProperties
  <2>1. CASE j <= Len(old)
    BY <2>1, <1>8, SMTT(30) DEF CommitLedger
  <2>2. CASE i <= Len(old) /\ j > Len(old)
    <3>1. j - Len(old) \in 1 .. Len(list) /\ (old \o list)[j] = list[j - Len(old)]
      BY <2>2, <1>8
    <3> QED
      BY <2>2, <3>1, <1>4, <1>8, <1>9
  <2>3. CASE i > Len(old)
    <3>1. /\ i - Len(old) \in 1 .. Len(list) /\ (old \o list)[i] = list[i - Len(old)]
          /\ j - Len(old) \in 1 .. Len(list) /\ (old \o list)[j] = list[j - Len(old)]
          /\ i - Len(old) < j - Len(old)
      BY <2>3, <1>8
    <3>2. list[i - Len(old)] < list[j - Len(old)]
      BY <3>1, <1>4, <1>8
    <3> QED
      BY <3>1, <3>2
  <2> QED
    BY <2>1, <2>2, <2>3, <1>8
<1>11. CASE list = <<>>
  <2>1. completedWordIds' = old
    BY <1>1, <1>11, ConcatEmptySeq
  <2>2. ASSUME NEW w \in supported PROVE Words[w].end - 1 = committedSymbol
    <3>1. PICK i \in DOMAIN old : w = old[i]
      BY <1>4, <1>11 DEF Entries
    <3> DEFINE last == old[Len(old)]
    <3>2. old # <<>> /\ Len(old) \in DOMAIN old
      BY <1>8, <3>1
    <3>3. last \in WordIds /\ committedSymbol = Words[last].end - 1
      BY <3>2, <1>8, ElementOfSeq DEF CommitLedger
    <3>4. w = last \/ w < last
      BY <3>1, <3>2, <1>8 DEF CommitLedger
    <3>5. ASSUME w < last PROVE FALSE
      <4>1. Words[w].end - 1 < committedSymbol
        BY <3>3, <3>5, <1>3, WordRanges
      <4> QED
        BY <4>1, <1>3, WordRanges DEF Positions
    <3> QED
      BY <3>3, <3>4, <3>5
  <2>3. committedSymbol' = committedSymbol
    BY <2>2, <1>2 DEF IsMaximum
  <2> QED
    BY <2>1, <2>3, <1>6, <1>7, <1>8, <1>10 DEF CommitLedger
<1>12. CASE list # <<>>
  <2> DEFINE top == list[Len(list)]
  <2>1. Len(list) \in 1 .. Len(list) /\ Len(list) \in DOMAIN list
    BY <1>8, <1>12, <1>4, EmptySeq
  <2>2. top \in supported /\ top \in WordIds
    BY <2>1, <1>4, <1>3
  <2>3. ASSUME NEW w \in supported PROVE Words[w].end - 1 <= Words[top].end - 1
    <3>1. CASE w \in new
      <4>1. PICK i \in DOMAIN list : w = list[i]
        BY <1>4, <3>1 DEF Entries
      <4>2. w = top \/ w < top
        BY <4>1, <2>1, <1>4, <1>8
      <4>3. w \in WordIds /\ Words[w].end - 1 \in Int /\ Words[top].end - 1 \in Int
        BY <2>2, <1>3, <1>5 DEF Positions
      <4> QED
        BY <4>2, <4>3, <2>2, WordRanges, SMTT(30)
    <3>2. CASE w \in Entries(old)
      <4>1. PICK i \in DOMAIN old : w = old[i]
        BY <3>2 DEF Entries
      <4>2. w < top
        BY <4>1, <2>1, <1>4, <1>8, <1>9
      <4>3. w \in WordIds /\ Words[w].end - 1 \in Int /\ Words[top].end - 1 \in Int
        BY <2>2, <1>3, <1>5 DEF Positions
      <4>4. Words[w].end - 1 < Words[top].end - 1
        BY ONLY <4>2, <4>3, <2>2, WordRanges
      <4> QED
        BY <4>3, <4>4
    <3> QED
      BY <3>1, <3>2
  <2>4. committedSymbol <= Words[top].end - 1
    BY <2>2, <1>3
  <2>5. committedSymbol' = Words[top].end - 1
    <3>1. Words[top].end - 1 \in ends /\ Words[top].end - 1 \in Int
      BY <2>2, <1>5 DEF Positions
    <3>2. committedSymbol' >= Words[top].end - 1
      BY <3>1, <1>2 DEF IsMaximum
    <3>3. committedSymbol' <= Words[top].end - 1
      BY <2>3, <2>4, <1>2 DEF IsMaximum
    <3> QED
      BY <3>1, <3>2, <3>3, <1>6 DEF Positions
  <2>6. completedWordIds' # <<>> /\ completedWordIds'[Len(completedWordIds')] = top
    BY <1>1, <1>8, <2>1
  <2> QED
    BY <2>5, <2>6, <1>1, <1>6, <1>7, <1>8, <1>10 DEF CommitLedger
<1> QED
  BY <1>11, <1>12

-----------------------------------------------------------------------------
\* rememberObservationId keeps the set and the order in step.
LEMMA RememberKeepsWindow ==
  ASSUME NEW o \in Observations, o.observationId \notin observationIds,
         observationIdOrder \in Seq(ObservationIds), DedupWindow,
         RememberObservation(o)
  PROVE  /\ observationIds' \subseteq ObservationIds
         /\ observationIdOrder' \in Seq(ObservationIds)
         /\ latestSourceRevision' \in SourceRevisions
         /\ DedupWindow'
<1> DEFINE id    == o.observationId
           order == Append(observationIdOrder, id)
           n     == Len(observationIdOrder)
<1>1. id \in ObservationIds /\ o.sourceRevision \in SourceRevisions
  BY DEF Observations
<1>2. /\ n \in Nat /\ DOMAIN observationIdOrder = 1 .. n
      /\ \A i \in 1 .. n : observationIdOrder[i] \in ObservationIds
  BY LenProperties, ElementOfSeq
<1>3. /\ order \in Seq(ObservationIds) /\ Len(order) = n + 1
      /\ DOMAIN order = 1 .. n + 1
      /\ \A i \in 1 .. n : order[i] = observationIdOrder[i]
      /\ order[n + 1] = id
  BY <1>1, <1>2, AppendProperties, LenProperties
<1>4. Entries(order) = observationIds \cup {id}
  <2>1. \A x : x \in Entries(order) <=> \E i \in 1 .. n + 1 : x = order[i]
    BY <1>3 DEF Entries
  <2>2. \A x : x \in observationIds <=> \E i \in 1 .. n : x = observationIdOrder[i]
    BY <1>2 DEF Entries, DedupWindow
  <2>3. \A i \in 1 .. n + 1 : i \in 1 .. n \/ i = n + 1
    BY <1>2
  <2>4. 1 .. n \subseteq 1 .. n + 1 /\ n + 1 \in 1 .. n + 1
    BY <1>2
  <2> QED
    BY <2>1, <2>2, <2>3, <2>4, <1>3
<1>5. \A i, j \in DOMAIN order : order[i] = order[j] => i = j
  <2>1. \A i \in 1 .. n : observationIdOrder[i] # id
    BY <1>2 DEF DedupWindow, Entries
  <2> QED
    BY <2>1, <1>2, <1>3 DEF DedupWindow
<1> HIDE DEF order, n, id
<1>6. CASE Len(order) > ObservationIdLimit
  <2>1. observationIdOrder' = Tail(order) /\ observationIds' = (observationIds \cup {id}) \ {Head(order)}
    BY <1>6 DEF RememberObservation, order, id
  <2>2. /\ Tail(order) \in Seq(ObservationIds) /\ Len(Tail(order)) = n
        /\ DOMAIN Tail(order) = 1 .. n
        /\ \A i \in 1 .. n : Tail(order)[i] = order[i + 1]
        /\ Head(order) = order[1]
    BY <1>2, <1>3, HeadTailProperties, LenProperties
  <2>3. \A i, j \in DOMAIN Tail(order) : Tail(order)[i] = Tail(order)[j] => i = j
    BY <2>2, <1>2, <1>3, <1>5
  <2>4. Entries(Tail(order)) = Entries(order) \ {Head(order)}
    <3>1. \A x \in Entries(Tail(order)) : x \in Entries(order) /\ x # Head(order)
      BY <2>2, <1>2, <1>3, <1>5 DEF Entries
    <3>2. ASSUME NEW x \in Entries(order), x # Head(order)
          PROVE  x \in Entries(Tail(order))
      <4>1. PICK i \in 1 .. n + 1 : x = order[i]
        BY <1>3 DEF Entries
      <4>2. i - 1 \in 1 .. n /\ x = Tail(order)[i - 1]
        BY <4>1, <3>2, <2>2, <1>2
      <4> QED
        BY <4>2, <2>2 DEF Entries
    <3> QED
      BY <3>1, <3>2
  <2>5. n <= ObservationIdLimit
    BY DEF DedupWindow, n
  <2>6. latestSourceRevision' \in SourceRevisions
    BY <1>1 DEF RememberObservation
  <2>7. observationIds' \subseteq ObservationIds /\ observationIds' = Entries(Tail(order))
    <3>1. observationIds' = Entries(Tail(order))
      BY <2>1, <2>4, <1>4
    <3>2. \A i \in 1 .. n : Tail(order)[i] \in ObservationIds
      BY <2>2, ElementOfSeq
    <3> QED
      BY <3>1, <3>2, <2>2 DEF Entries
  <2> QED
    BY <2>1, <2>2, <2>3, <2>5, <2>6, <2>7 DEF DedupWindow, Entries
<1>7. CASE ~(Len(order) > ObservationIdLimit)
  <2>1. observationIdOrder' = order /\ observationIds' = observationIds \cup {id}
    BY <1>7 DEF RememberObservation, order, id
  <2>2. Len(order) <= ObservationIdLimit
    BY <1>2, <1>3, <1>7, TrackerAssumption
  <2>3. observationIds \subseteq ObservationIds
    BY <1>2 DEF DedupWindow, Entries, n
  <2>4. latestSourceRevision' \in SourceRevisions
    BY <1>1 DEF RememberObservation
  <2>5. id \in ObservationIds
    BY <1>1 DEF id
  <2> QED
    BY <2>1, <2>2, <2>3, <2>4, <2>5, <1>3, <1>4, <1>5 DEF DedupWindow, Entries
<1> QED
  BY <1>6, <1>7

\* The stability of a hypothesis is the number of its occurrences among the
\* last two, so at most two.
LEMMA StabilityRange ==
  ASSUME hypothesisHistory \in Seq(Positions \X Nat),
         Len(hypothesisHistory) <= StabilityHistoryLimit, NEW fingerprint
  PROVE  StabilityFor(fingerprint) \in 0..2
<1> DEFINE n == Len(hypothesisHistory)
           S == {i \in DOMAIN hypothesisHistory : hypothesisHistory[i] = fingerprint}
<1>1. n \in Nat /\ n <= 2 /\ DOMAIN hypothesisHistory = 1 .. n
  BY LenProperties DEF StabilityHistoryLimit
<1> HIDE DEF n
<1>2. IsFiniteSet(1 .. n) /\ Cardinality(1 .. n) = n
  <2>1. IsFiniteSet(1 .. n) /\ Cardinality(1 .. n) = (IF 1 > n THEN 0 ELSE n - 1 + 1)
    BY <1>1, FS_Interval
  <2> QED
    BY <2>1, <1>1
<1>3. S \subseteq 1 .. n
  BY <1>1
<1>4. Cardinality(S) \in Nat /\ Cardinality(S) <= n
  BY <1>2, <1>3, FS_Subset, FS_CardinalityType
<1> QED
  BY <1>1, <1>4 DEF StabilityFor, n

\* The history never holds more than two hypotheses.
LEMMA HistoryType ==
  ASSUME hypothesisHistory \in Seq(Positions \X Nat),
         Len(hypothesisHistory) <= StabilityHistoryLimit, NEW fingerprint \in Positions \X Nat
  PROVE  /\ RememberHypothesis(fingerprint) \in Seq(Positions \X Nat)
         /\ Len(RememberHypothesis(fingerprint)) <= StabilityHistoryLimit
<1> DEFINE history == Append(hypothesisHistory, fingerprint)
<1>1. history \in Seq(Positions \X Nat) /\ Len(history) = Len(hypothesisHistory) + 1
  BY AppendProperties
<1>2. Len(hypothesisHistory) \in Nat
  BY LenProperties
<1>3. history # <<>>
  BY <1>1, <1>2, EmptySeq
<1>4. Tail(history) \in Seq(Positions \X Nat) /\ Len(Tail(history)) = Len(history) - 1
  BY ONLY <1>1, <1>3, HeadTailProperties
<1> QED
  BY <1>1, <1>2, <1>4 DEF RememberHypothesis, StabilityHistoryLimit

-----------------------------------------------------------------------------
\* The weights: however well the rest of the evidence scores, a hypothesis
\* without a recurrence stays below 0.82 and one without two below 0.90, also
\* after the substitution's own lookahead replaces the alignment's.
Recombined(a, s, l, m, acoustic, after) ==
  Combined(a, s, l, m, acoustic)
    + (after - l) * (IF acoustic = NoAcoustic THEN 2000 ELSE 1700) * Unit

LEMMA CombinedBound ==
  ASSUME NEW a \in 0..Unit, NEW m \in 0..Unit, NEW acoustic \in 0..Unit \cup {NoAcoustic},
         NEW s \in 0..2, NEW l \in 0..2, NEW after \in 0..2
  PROVE  /\ s = 0 => Recombined(a, s, l, m, acoustic, after) < 16400 * Unit
         /\ s # 2 => Recombined(a, s, l, m, acoustic, after) < 18000 * Unit
<1> DEFINE sum == Recombined(a, s, l, m, acoustic, after)
<1> SUFFICES /\ s = 0 => sum < 16400 * Unit
             /\ s # 2 => sum < 18000 * Unit
  OBVIOUS
<1>1. Unit \in Nat \ {0}
  BY UnitAssumption
<1>2. CASE acoustic = NoAcoustic
  <2>1. sum = 8000 * a + 2500 * Unit * s + 2000 * Unit * l + 3000 * m + (after - l) * 2000 * Unit
    BY <1>2 DEF Combined, Recombined
  <2> HIDE DEF sum
  <2>2. CASE l = 0
    BY <2>1, <2>2, <1>1
  <2>3. CASE l = 1
    BY <2>1, <2>3, <1>1
  <2>4. CASE l = 2
    BY <2>1, <2>4, <1>1
  <2> QED
    BY <2>2, <2>3, <2>4
<1>3. CASE acoustic # NoAcoustic
  <2>1. /\ acoustic \in 0..Unit
        /\ sum = 6800 * a + 2125 * Unit * s + 1700 * Unit * l + 2550 * m + 3000 * acoustic
                   + (after - l) * 1700 * Unit
    BY <1>3 DEF Combined, Recombined
  <2> HIDE DEF sum
  <2>2. CASE l = 0
    BY <2>1, <2>2, <1>1
  <2>3. CASE l = 1
    BY <2>1, <2>3, <1>1
  <2>4. CASE l = 2
    BY <2>1, <2>4, <1>1
  <2> QED
    BY <2>2, <2>3, <2>4
<1> QED
  BY <1>2, <1>3

\* The evidence scoreConfidence can produce.
ScoredEvidence ==
  {ScoreConfidence(score, stability, count, margin, acoustic) :
     score \in 0..Unit, stability \in 0..2, count \in Nat, margin \in Int,
     acoustic \in 0..Unit \cup {NoAcoustic}}

\* The evidence a finding is judged by keeps the hypothesis's stability, so a
\* mode other than "none" bounds the stability from below.
LEMMA ModeNeedsStability ==
  ASSUME NEW confidence \in ScoredEvidence, NEW o, NEW c, NEW confirmations
  PROVE  /\ ClassifyFinding(o, c, confidence, confirmations) # NoFinding =>
              confidence.stability >= 1
         /\ ClassifyFinding(o, c, confidence, confirmations).confirmation = "immediate" =>
              confidence.stability = 2
<1>0. PICK score \in 0..Unit, stability \in 0..2, count \in Nat, margin \in Int,
           acoustic \in 0..Unit \cup {NoAcoustic} :
        confidence = ScoreConfidence(score, stability, count, margin, acoustic)
  BY DEF ScoredEvidence
<1> DEFINE finding  == ClassifyFinding(o, c, confidence, confirmations)
<1> DEFINE evidence == SubstitutionEvidence(c.operations, confidence)
           mode     == ConfirmationMode(evidence, o.isFinal, confirmations, ContextIn(c))
           after    == LookaheadOf(MatchRunAfter(c.operations, FirstSubstitution(c.operations)))
           l        == LookaheadOf(count)
<1>1. after \in 0..2 /\ l \in 0..2
  BY DEF LookaheadOf
<1>2. Clamp(score) \in 0..Unit /\ Clamp(margin) \in 0..Unit
  BY UnitAssumption DEF Clamp
<1>3. /\ confidence.stability = stability /\ confidence.acoustic = acoustic
      /\ confidence.lookahead = l
      /\ confidence.combined = Combined(Clamp(score), stability, l, Clamp(margin), acoustic)
  BY <1>0 DEF ScoreConfidence
<1>4. evidence.combined = confidence.combined
        + (after - l) * (IF acoustic = NoAcoustic THEN 2000 ELSE 1700) * Unit
  BY <1>0, <1>3 DEF SubstitutionEvidence, ScoreConfidence
<1>5. /\ stability = 0 => evidence.combined < 16400 * Unit
      /\ stability # 2 => evidence.combined < 18000 * Unit
  <2> DEFINE a == Clamp(score)
             m == Clamp(margin)
  <2>1. evidence.combined = Recombined(a, stability, l, m, acoustic, after)
    BY <1>3, <1>4 DEF Recombined
  <2>2. a \in 0..Unit /\ m \in 0..Unit
    BY <1>2
  <2> HIDE DEF evidence, a, m, l, after
  <2> QED
    BY <2>1, <2>2, <1>1, CombinedBound
<1>6. finding # NoFinding => mode # "none"
  BY DEF ClassifyFinding
<1>7. finding.confirmation = "immediate" => mode = "immediate"
  BY DEF ClassifyFinding, NoFinding
<1>8. mode # "none" => \/ CombinedAtLeast(evidence, 90) \/ CombinedAtLeast(evidence, 82)
                       \/ CombinedAtLeast(evidence, 88)
  BY DEF ConfirmationMode, PassesImmediateFindingGate, PassesFinalFindingGate, PassesSoftFindingGate
<1>9. mode = "immediate" => CombinedAtLeast(evidence, 90)
  BY DEF ConfirmationMode, PassesImmediateFindingGate
<1>10. evidence.combined \in Int
  <2>1. confidence.combined \in Int
    BY <1>1, <1>2, <1>3, UnitAssumption DEF Combined, NoAcoustic
  <2> QED
    BY <2>1, <1>1, <1>4, UnitAssumption
<1> HIDE DEF evidence, mode
<1>11. mode # "none" => evidence.combined >= 16400 * Unit
  BY <1>8, <1>10, UnitAssumption DEF CombinedAtLeast
<1>12. mode = "immediate" => evidence.combined >= 18000 * Unit
  BY <1>9 DEF CombinedAtLeast
<1>13. finding # NoFinding => stability # 0
  BY <1>5, <1>6, <1>10, <1>11, UnitAssumption
<1>14. finding.confirmation = "immediate" => stability = 2
  BY <1>5, <1>7, <1>10, <1>12, UnitAssumption
<1> QED
  BY <1>3, <1>13, <1>14

-----------------------------------------------------------------------------
\* The inductive invariant.  The ledger needs the types; the reread mark needs
\* the ledger's bound on the committed symbol; the window and the findings
\* stand on their own.
SafetyInv ==
  /\ TypeOK
  /\ CommitLedger
  /\ RereadMeansBehindCommit
  /\ DedupWindow
  /\ FindingNeedsStableHypothesis

\* A new tracker satisfies the invariant.
LEMMA InitEstablishes == Init => SafetyInv
<1> SUFFICES ASSUME Init PROVE SafetyInv
  OBVIOUS
<1>1. PICK p \in Positions :
        /\ initialSymbol = p /\ cursorSymbol = p /\ committedSymbol = p
        /\ latestSourceRevision = -1 /\ observationIds = {} /\ observationIdOrder = <<>>
        /\ hypothesisHistory = <<>> /\ provisionalFinding = NoProvisional
        /\ completedWordIds = <<>> /\ snapshot = InitialSnapshot(0, p)
  BY DEF Init
<1>2. TypeOK
  <2>1. /\ snapshot.revision = 0 /\ snapshot.display.symbol = p
        /\ snapshot.display.isReread = FALSE /\ snapshot.committed = p
        /\ snapshot.completedWordIds = <<>> /\ provisionalFinding.confirmations = 0
    BY <1>1 DEF InitialSnapshot, DisplayAt, NoProvisional
  <2>2. snapshot.display.isReread \in BOOLEAN
    BY <2>1, Zenon
  <2>3. /\ observationIdOrder \in Seq(ObservationIds) /\ completedWordIds \in Seq(WordIds)
        /\ hypothesisHistory \in Seq(Positions \X Nat) /\ Len(hypothesisHistory) <= 2
    BY <1>1
  <2> QED
    BY <1>1, <2>1, <2>2, <2>3 DEF TypeOK, StabilityHistoryLimit
<1>3. CommitLedger
  BY <1>1 DEF CommitLedger
<1>4. RereadMeansBehindCommit
  BY <1>1 DEF RereadMeansBehindCommit, InitialSnapshot, DisplayAt, Positions
<1>5. DedupWindow
  BY <1>1, TrackerAssumption DEF DedupWindow, Entries
<1>6. FindingNeedsStableHypothesis
  BY <1>1 DEF FindingNeedsStableHypothesis, InitialSnapshot, NoFinding
<1> QED
  BY <1>2, <1>3, <1>4, <1>5, <1>6 DEF SafetyInv

\* reset re-establishes it, at the location it is given.
LEMMA ResetPreserves ==
  ASSUME SafetyInv, NEW p \in Positions, Reset(p)
  PROVE  SafetyInv'
<1>1. TypeOK'
  <2>1. /\ snapshot'.revision = snapshot.revision + 1 /\ snapshot'.display.symbol = p
        /\ snapshot'.display.isReread = FALSE /\ snapshot'.committed = p
        /\ snapshot'.completedWordIds = <<>> /\ provisionalFinding'.confirmations = 0
    BY DEF Reset, InitialSnapshot, DisplayAt, NoProvisional
  <2>2. snapshot'.revision \in Nat
    BY <2>1 DEF SafetyInv, TypeOK
  <2>3. /\ initialSymbol' = p /\ cursorSymbol' = p /\ committedSymbol' = p
        /\ latestSourceRevision' = -1 /\ observationIds' = {} /\ observationIdOrder' = <<>>
        /\ hypothesisHistory' = <<>> /\ completedWordIds' = <<>>
    BY DEF Reset
  <2>4. snapshot'.display.isReread \in BOOLEAN
    BY <2>1, Zenon
  <2>5. /\ observationIdOrder' \in Seq(ObservationIds) /\ completedWordIds' \in Seq(WordIds)
        /\ hypothesisHistory' \in Seq(Positions \X Nat) /\ Len(hypothesisHistory') <= 2
    BY <2>3
  <2> QED
    BY <2>1, <2>2, <2>3, <2>4, <2>5 DEF TypeOK, StabilityHistoryLimit
<1>2. CommitLedger'
  BY DEF Reset, CommitLedger
<1>3. RereadMeansBehindCommit'
  BY DEF Reset, RereadMeansBehindCommit, InitialSnapshot, DisplayAt, Positions
<1>4. DedupWindow'
  BY TrackerAssumption DEF Reset, DedupWindow, Entries
<1>5. FindingNeedsStableHypothesis'
  BY DEF Reset, FindingNeedsStableHypothesis, InitialSnapshot, NoFinding
<1> QED
  BY <1>1, <1>2, <1>3, <1>4, <1>5 DEF SafetyInv

\* submit without a candidate touches only the window and the snapshot.
LEMMA AcceptUnlocatedPreserves ==
  ASSUME SafetyInv, NEW o \in Observations, ~Ignored(o), AcceptUnlocated(o)
  PROVE  SafetyInv'
<1>1. /\ observationIds' \subseteq ObservationIds
      /\ observationIdOrder' \in Seq(ObservationIds)
      /\ latestSourceRevision' \in SourceRevisions
      /\ DedupWindow'
  BY RememberKeepsWindow DEF SafetyInv, TypeOK, Ignored, AcceptUnlocated
<1>2. TypeOK'
  BY <1>1 DEF SafetyInv, TypeOK, AcceptUnlocated, NoProvisional
<1>3. CommitLedger'
  BY DEF SafetyInv, AcceptUnlocated, CommitLedger
<1>4. RereadMeansBehindCommit'
  BY DEF SafetyInv, AcceptUnlocated, RereadMeansBehindCommit
<1>5. FindingNeedsStableHypothesis'
  BY DEF AcceptUnlocated, FindingNeedsStableHypothesis, NoFinding
<1> QED
  BY <1>1, <1>2, <1>3, <1>4, <1>5 DEF SafetyInv

\* What an accepted, located observation does to the position, in one place.
LEMMA MovePositionEffect ==
  ASSUME SafetyInv, NEW o \in Observations, NEW c \in CandidateRecords, NEW offset \in Nat,
         IsMaximum(offset, AlignedOffsets(c)), ActiveSymbol(c, offset) \in Positions,
         NEW confidence, MovePosition(o, c, offset, confidence), UNCHANGED initialSymbol
  PROVE  /\ cursorSymbol' \in Positions /\ committedSymbol' \in Positions
         /\ completedWordIds' \in Seq(WordIds)
         /\ CommitLedger'
         /\ DisplayAfter(c, offset, confidence).symbol \in Positions
         /\ DisplayAfter(c, offset, confidence).isReread \in BOOLEAN
         /\ DisplayAfter(c, offset, confidence).isReread
              <=> DisplayAfter(c, offset, confidence).symbol < committedSymbol'
         /\ committedSymbol' >= committedSymbol
         /\ Len(completedWordIds') >= Len(completedWordIds)
         /\ \A i \in DOMAIN completedWordIds : completedWordIds'[i] = completedWordIds[i]
<1>0. /\ initialSymbol \in Positions /\ committedSymbol \in Positions
      /\ cursorSymbol \in Positions /\ completedWordIds \in Seq(WordIds) /\ CommitLedger
      /\ snapshot.display.symbol \in Positions /\ snapshot.display.isReread \in BOOLEAN
      /\ snapshot.display.isReread <=> snapshot.display.symbol < committedSymbol
  BY DEF SafetyInv, TypeOK, RereadMeansBehindCommit
<1>1. CASE PassesPositionGate(confidence)
  <2>1. cursorSymbol' = ActiveSymbol(c, offset) /\ CommitSupportedWords(c, o.isFinal)
    BY <1>1 DEF MovePosition
  <2>2. /\ committedSymbol' \in Positions
        /\ completedWordIds' \in Seq(WordIds)
        /\ CommitLedger'
        /\ committedSymbol' >= committedSymbol
        /\ committedSymbol' # committedSymbol => committedSymbol' <= ActiveSymbol(c, offset)
        /\ Len(completedWordIds') >= Len(completedWordIds)
        /\ \A i \in DOMAIN completedWordIds : completedWordIds'[i] = completedWordIds[i]
    BY <2>1, <1>0, CommitExtendsLedger
  <2>3. /\ DisplayAfter(c, offset, confidence).symbol = ActiveSymbol(c, offset)
        /\ DisplayAfter(c, offset, confidence).isReread = (ActiveSymbol(c, offset) < committedSymbol)
    BY <1>1 DEF DisplayAfter
  <2>4. ActiveSymbol(c, offset) < committedSymbol <=> ActiveSymbol(c, offset) < committedSymbol'
    BY <2>2, <1>0 DEF Positions
  <2>5. DisplayAfter(c, offset, confidence).isReread \in BOOLEAN
    <3>1. (ActiveSymbol(c, offset) < committedSymbol) \in BOOLEAN
      BY <1>0, SMT DEF Positions
    <3> QED
      BY <2>3, <3>1, Zenon
  <2>6. DisplayAfter(c, offset, confidence).isReread
          <=> DisplayAfter(c, offset, confidence).symbol < committedSymbol'
    BY <2>3, <2>4, Zenon
  <2>7. cursorSymbol' \in Positions /\ DisplayAfter(c, offset, confidence).symbol \in Positions
    BY <2>1, <2>3
  <2> QED
    BY <2>2, <2>5, <2>6, <2>7, Zenon
<1>2. CASE ~PassesPositionGate(confidence)
  <2>1. /\ UNCHANGED <<cursorSymbol, committedSymbol, completedWordIds>>
        /\ DisplayAfter(c, offset, confidence) = snapshot.display
    BY <1>2 DEF MovePosition, DisplayAfter
  <2>2. CommitLedger'
    BY <2>1, <1>0 DEF CommitLedger
  <2>3. committedSymbol \in Int /\ Len(completedWordIds) \in Nat
    BY <1>0, LenProperties DEF Positions
  <2> QED
    BY <2>1, <2>2, <2>3, <1>0
<1> QED
  BY <1>1, <1>2

\* submit with a candidate preserves every part of the invariant.
LEMMA AcceptLocatedPreserves ==
  ASSUME SafetyInv, NEW o \in Observations, ~Ignored(o),
         NEW best, best = Located[o.payload][cursorSymbol].best, best # NoCandidate,
         NEW offset, IsMaximum(offset, AlignedOffsets(best)), AcceptLocated(o, offset)
  PROVE  SafetyInv'
<1> DEFINE located     == Located[o.payload][cursorSymbol]
           fingerprint == <<best.symbolIndex, offset>>
           confidence  == ConfidenceIn(o, located, fingerprint)
           display     == DisplayAfter(best, offset, confidence)
<1>1. /\ cursorSymbol \in Positions /\ o.payload \in Payloads
      /\ hypothesisHistory \in Seq(Positions \X Nat)
      /\ Len(hypothesisHistory) <= StabilityHistoryLimit
      /\ snapshot.revision \in Nat /\ initialSymbol \in Positions
      /\ provisionalFinding.confirmations \in Nat
  BY DEF SafetyInv, TypeOK, Observations
<1>2. best \in CandidateRecords /\ offset \in Nat /\ ActiveSymbol(best, offset) \in Positions
  BY <1>1, LocatedCandidate
<1>3. /\ RememberObservation(o)
      /\ hypothesisHistory' = RememberHypothesis(fingerprint)
      /\ MovePosition(o, best, offset, confidence)
      /\ provisionalFinding' = AdvanceProvisionalFinding(o, best, confidence)
      /\ UNCHANGED initialSymbol
  BY DEF AcceptLocated
<1>4. /\ snapshot'.revision = snapshot.revision + 1
      /\ snapshot'.display = display
      /\ snapshot'.committed = committedSymbol'
      /\ snapshot'.completedWordIds = completedWordIds'
      /\ snapshot'.confidence = confidence
      /\ snapshot'.finding = ClassifyFinding(o, best, confidence, provisionalFinding'.confirmations)
  BY DEF AcceptLocated
<1>5. /\ observationIds' \subseteq ObservationIds
      /\ observationIdOrder' \in Seq(ObservationIds)
      /\ latestSourceRevision' \in SourceRevisions
      /\ DedupWindow'
  BY <1>3, RememberKeepsWindow DEF SafetyInv, TypeOK, Ignored
<1> HIDE DEF confidence
<1>6. /\ cursorSymbol' \in Positions /\ committedSymbol' \in Positions
      /\ completedWordIds' \in Seq(WordIds)
      /\ CommitLedger'
      /\ display.symbol \in Positions /\ display.isReread \in BOOLEAN
      /\ display.isReread <=> display.symbol < committedSymbol'
  BY <1>2, <1>3, MovePositionEffect
<1>7. fingerprint \in Positions \X Nat
  BY <1>2 DEF CandidateRecords
<1>8. /\ hypothesisHistory' \in Seq(Positions \X Nat)
      /\ Len(hypothesisHistory') <= StabilityHistoryLimit
  BY <1>1, <1>3, <1>7, HistoryType
<1>9. provisionalFinding'.confirmations \in Nat
  BY <1>1, <1>3 DEF AdvanceProvisionalFinding, NoProvisional
<1>10. FindingNeedsStableHypothesis'
  <2> DEFINE score     == best.score
             stability == StabilityFor(fingerprint)
             count     == best.matchedLookaheadCount
             margin    == Larger(0, best.score - located.secondScore)
             acoustic  == Acoustic[o.payload]
  <2>1. /\ score \in 0..Unit /\ count \in Nat
        /\ located.secondScore \in 0..Unit /\ acoustic \in 0..Unit \cup {NoAcoustic}
    BY <1>1, <1>2, LocatorAssumption DEF CandidateRecords
  <2>2. margin \in Int
    BY <2>1, UnitAssumption DEF Larger
  <2>3. stability \in 0..2
    BY <1>1, StabilityRange
  <2>4. confidence = ScoreConfidence(score, stability, count, margin, acoustic)
    BY DEF confidence, ConfidenceIn
  <2> HIDE DEF score, stability, count, margin, acoustic
  <2>5. confidence \in ScoredEvidence
    BY <2>1, <2>2, <2>3, <2>4 DEF ScoredEvidence
  <2> QED
    BY <2>5, <1>4, ModeNeedsStability DEF FindingNeedsStableHypothesis
<1> HIDE DEF display
<1>11. RereadMeansBehindCommit'
  BY <1>4, <1>6 DEF RereadMeansBehindCommit
<1>12. TypeOK'
  <2>1. snapshot'.revision \in Nat /\ initialSymbol' \in Positions
    BY <1>1, <1>3, <1>4
  <2>2. snapshot'.display.symbol \in Positions /\ snapshot'.display.isReread \in BOOLEAN
    BY <1>4, <1>6, Zenon
  <2> QED
    BY <2>1, <2>2, <1>4, <1>5, <1>6, <1>8, <1>9 DEF TypeOK
<1> QED
  BY <1>5, <1>6, <1>10, <1>11, <1>12 DEF SafetyInv

\* Both ways submit can go.
LEMMA SubmitPreserves ==
  ASSUME SafetyInv, NEW o \in Observations, Submit(o)
  PROVE  SafetyInv'
<1> DEFINE best == Located[o.payload][cursorSymbol].best
<1>1. ~Ignored(o)
  BY DEF Submit
<1>2. CASE AcceptUnlocated(o)
  BY <1>1, <1>2, AcceptUnlocatedPreserves
<1>3. CASE /\ best # NoCandidate
           /\ \E offset \in AlignedOffsets(best) :
                IsMaximum(offset, AlignedOffsets(best)) /\ AcceptLocated(o, offset)
  BY <1>1, <1>3, AcceptLocatedPreserves
<1> QED
  BY <1>2, <1>3 DEF Submit

\* Steps that change nothing.
LEMMA StutterPreserves == SafetyInv /\ UNCHANGED vars => SafetyInv'
  BY DEF SafetyInv, TypeOK, CommitLedger, RereadMeansBehindCommit, DedupWindow,
         FindingNeedsStableHypothesis, vars

\* Every reachable state of the tracker satisfies the type invariant, the
\* commit ledger, the reread mark, the deduplication window and the stability
\* that findings rest on: for every corpus, locator, observation and limit.
THEOREM TrackerIsSafe == Spec => []SafetyInv
<1>1. Init => SafetyInv
  BY InitEstablishes
<1>2. SafetyInv /\ [Next]_vars => SafetyInv'
  BY SubmitPreserves, ResetPreserves, StutterPreserves DEF Next
<1> QED
  BY <1>1, <1>2, PTL DEF Spec

\* The tracker's state stays well typed and its snapshot publishes exactly the
\* committed progress it holds (createReadingTracker).
THEOREM TypeCorrectness == Spec => []TypeOK
  BY TrackerIsSafe, PTL DEF SafetyInv

\* The completed words are an ascending ledger that ends at the committed
\* symbol (commitSupportedWords).
THEOREM LedgerCorrectness == Spec => []CommitLedger
  BY TrackerIsSafe, PTL DEF SafetyInv

\* The reread mark of the display says that it is behind the commit (submit).
THEOREM RereadCorrectness == Spec => []RereadMeansBehindCommit
  BY TrackerIsSafe, PTL DEF SafetyInv

\* The retained ids are a bounded window of the latest accepted ones
\* (rememberObservationId).
THEOREM WindowCorrectness == Spec => []DedupWindow
  BY TrackerIsSafe, PTL DEF SafetyInv

\* No finding rests on a hypothesis heard for the first time (scoreConfidence
\* and the finding gates).
THEOREM FindingsAreStable == Spec => []FindingNeedsStableHypothesis
  BY TrackerIsSafe, PTL DEF SafetyInv

-----------------------------------------------------------------------------
\* What submit does to the committed progress, whichever way it goes.
LEMMA SubmitExtendsCommit ==
  ASSUME SafetyInv, NEW o \in Observations, Submit(o)
  PROVE  /\ committedSymbol' >= committedSymbol
         /\ Len(completedWordIds') >= Len(completedWordIds)
         /\ \A i \in DOMAIN completedWordIds : completedWordIds'[i] = completedWordIds[i]
<1> DEFINE best == Located[o.payload][cursorSymbol].best
<1>0. /\ cursorSymbol \in Positions /\ o.payload \in Payloads
      /\ committedSymbol \in Int /\ Len(completedWordIds) \in Nat
  BY LenProperties DEF SafetyInv, TypeOK, Observations, Positions
<1>1. CASE AcceptUnlocated(o)
  BY <1>0, <1>1 DEF AcceptUnlocated
<1>2. ASSUME best # NoCandidate, NEW offset, IsMaximum(offset, AlignedOffsets(best)),
             AcceptLocated(o, offset)
      PROVE  /\ committedSymbol' >= committedSymbol
             /\ Len(completedWordIds') >= Len(completedWordIds)
             /\ \A i \in DOMAIN completedWordIds : completedWordIds'[i] = completedWordIds[i]
  <2> DEFINE confidence == ConfidenceIn(o, Located[o.payload][cursorSymbol],
                                        <<best.symbolIndex, offset>>)
  <2>1. best \in CandidateRecords /\ offset \in Nat /\ ActiveSymbol(best, offset) \in Positions
    BY <1>0, <1>2, LocatedCandidate
  <2>2. MovePosition(o, best, offset, confidence) /\ UNCHANGED initialSymbol
    BY <1>2 DEF AcceptLocated
  <2> QED
    BY <2>1, <2>2, <1>2, MovePositionEffect
<1> QED
  BY <1>1, <1>2 DEF Submit

\* Between resets progress is never taken back: no observation, in whatever
\* order, shortens or rewrites the completed words or lowers the committed
\* symbol (submit and commitSupportedWords).
THEOREM CommitIsMonotonic == Spec => CommitNeverRegresses
<1> DEFINE Keeps == snapshot'.observationId # NoObservation =>
                      /\ committedSymbol' >= committedSymbol
                      /\ Len(completedWordIds') >= Len(completedWordIds)
                      /\ \A i \in DOMAIN completedWordIds :
                           completedWordIds'[i] = completedWordIds[i]
<1>1. SafetyInv /\ [Next]_vars => [Keeps]_vars
  <2>1. ASSUME SafetyInv, NEW o \in Observations, Submit(o) PROVE Keeps
    BY <2>1, SubmitExtendsCommit
  <2>2. ASSUME NEW p \in Positions, Reset(p) PROVE Keeps
    BY <2>2 DEF Reset, InitialSnapshot
  <2> QED
    BY <2>1, <2>2 DEF Next
<1> QED
  BY <1>1, TrackerIsSafe, PTL DEF Spec, CommitNeverRegresses

-----------------------------------------------------------------------------
\* A path with a substitution has a first one.
LEMMA FirstSubstitutionExists ==
  ASSUME NEW operations \in Seq(AlignmentOperations), Substitutions(operations) # {}
  PROVE  FirstSubstitution(operations) \in Substitutions(operations)
<1> DEFINE T == Substitutions(operations)
<1>1. T \subseteq Nat
  BY LenProperties DEF Substitutions
<1> DEFINE Less == {ss \in Nat \X Nat : ss[1] < ss[2]}
<1>2. IsWellFoundedOn(Less, Nat)
  BY NatLessThanWellFounded, Zenon DEF OpToRel
<1> HIDE DEF Less
<1>3. PICK x \in T : \A y \in T : ~(<<y, x>> \in Less)
  BY <1>1, <1>2, WFMin
<1>4. ASSUME NEW y \in T PROVE x <= y
  <2>1. x \in Nat /\ y \in Nat /\ <<y, x>> \in Nat \X Nat
    BY <1>1
  <2>2. ~(y < x)
    BY <1>3, <2>1 DEF Less
  <2> QED
    BY <2>1, <2>2
<1> QED
  BY <1>4 DEF FirstSubstitution

\* The evidence a finding is judged by keeps the alignment and the margin, so
\* what passes a finding gate has passed the position gate.
LEMMA FindingPassesPosition ==
  ASSUME NEW operations, NEW score, NEW stability, NEW count, NEW margin, NEW acoustic,
         NEW isFinal, NEW confirmations, NEW context,
         ConfirmationMode(SubstitutionEvidence(operations,
                            ScoreConfidence(score, stability, count, margin, acoustic)),
                          isFinal, confirmations, context) # "none"
  PROVE  PassesPositionGate(ScoreConfidence(score, stability, count, margin, acoustic))
<1> DEFINE confidence == ScoreConfidence(score, stability, count, margin, acoustic)
           evidence   == SubstitutionEvidence(operations, confidence)
<1>1. evidence.alignment = confidence.alignment /\ evidence.margin = confidence.margin
  BY DEF SubstitutionEvidence, ScoreConfidence
<1>2. PassesPositionGate(evidence)
  <2> HIDE DEF evidence
  <2> QED
    BY DEF ConfirmationMode, evidence
<1> HIDE DEF evidence, confidence
<1>3. PassesPositionGate(confidence)
  BY <1>1, <1>2 DEF PassesPositionGate, MarginAtLeast
<1> QED
  BY <1>3 DEF confidence

\* A finding's symbol is a consumed one of a candidate that is not behind the
\* commit, and the display moves to the last consumed one.
LEMMA AcceptFindsAtReader ==
  ASSUME SafetyInv, NEW o \in Observations, NEW offset,
         Located[o.payload][cursorSymbol].best # NoCandidate,
         IsMaximum(offset, AlignedOffsets(Located[o.payload][cursorSymbol].best)),
         AcceptLocated(o, offset), snapshot'.finding # NoFinding
  PROVE  snapshot'.finding.symbol <= snapshot'.display.symbol /\ ~snapshot'.display.isReread
<1> DEFINE located     == Located[o.payload][cursorSymbol]
           best        == located.best
           confidence  == ConfidenceIn(o, located, <<best.symbolIndex, offset>>)
<1>0. cursorSymbol \in Positions /\ o.payload \in Payloads /\ committedSymbol \in Positions
  BY DEF SafetyInv, TypeOK, Observations
<1>1. best \in CandidateRecords /\ offset \in Nat
  BY <1>0, LocatedCandidate
<1>2. best.operations \in Seq(AlignmentOperations) /\ best.symbolIndex \in Positions
  BY <1>1 DEF CandidateRecords
<1>3. /\ snapshot'.finding = ClassifyFinding(o, best, confidence, provisionalFinding'.confirmations)
      /\ snapshot'.display = DisplayAfter(best, offset, confidence)
  BY DEF AcceptLocated
<1>4. /\ MayFind(best)
      /\ ConfirmationMode(SubstitutionEvidence(best.operations, confidence), o.isFinal,
                          provisionalFinding'.confirmations, ContextIn(best)) # "none"
      /\ snapshot'.finding.symbol = best.symbolIndex + SubstitutionIn(best).referenceIndex
  BY <1>3 DEF ClassifyFinding, FindingFingerprint
<1>5. PassesPositionGate(confidence)
  BY <1>4, FindingPassesPosition DEF ConfidenceIn
<1>6. /\ snapshot'.display.symbol = ActiveSymbol(best, offset)
      /\ snapshot'.display.isReread = (ActiveSymbol(best, offset) < committedSymbol)
  BY <1>3, <1>5 DEF DisplayAfter
<1>7. FirstSubstitution(best.operations) \in Substitutions(best.operations)
  BY <1>2, <1>4, FirstSubstitutionExists DEF MayFind
<1>8. /\ FirstSubstitution(best.operations) \in DOMAIN best.operations
      /\ SubstitutionIn(best).kind = "substitution"
      /\ SubstitutionIn(best) \in AlignmentOperations
  BY <1>2, <1>7 DEF Substitutions, SubstitutionIn
<1>9. /\ SubstitutionIn(best).actualIndex # NoIndex
      /\ SubstitutionIn(best).referenceIndex # NoIndex
  BY <1>0, <1>8, LocatorAssumption DEF SubstitutionIn
<1>10. snapshot'.finding.symbol \in Consumed(best)
  <2>1. FirstSubstitution(best.operations) \in AlignedOperations(best)
    BY <1>8, <1>9 DEF AlignedOperations, SubstitutionIn
  <2> QED
    BY <1>4, <2>1 DEF Consumed, SubstitutionIn
<1>11. SubstitutionIn(best).referenceIndex \in Nat
  BY <1>8, <1>9 DEF AlignmentOperations
<1>12. /\ snapshot'.finding.symbol \in Nat /\ committedSymbol \in Nat
       /\ snapshot'.finding.symbol >= committedSymbol
  BY <1>0, <1>2, <1>4, <1>11 DEF MayFind, Positions
<1>13. snapshot'.finding.symbol < SymbolCount
  <2>1. best.symbolIndex + SubstitutionIn(best).referenceIndex \in Positions
    BY <1>0, <1>8, <1>9, LocatorAssumption DEF SubstitutionIn
  <2> QED
    BY <1>4, <1>12, <2>1, CorpusAssumption DEF Positions
<1>14. snapshot'.finding.symbol <= ActiveSymbol(best, offset)
  BY <1>1, <1>10, <1>12, <1>13, ConsumedUpToActive
<1>15. ActiveSymbol(best, offset) \in Int
  BY <1>1, <1>2, CorpusAssumption DEF ActiveSymbol, Smaller, Positions
<1>16. ~(ActiveSymbol(best, offset) < committedSymbol)
  BY <1>12, <1>14, <1>15
<1> QED
  BY <1>6, <1>14, <1>16

\* A snapshot that reports a mistake shows the reader at or past it and not
\* rereading, whatever the locator returns (submit and confirmationMode).
THEOREM FindingsAtTheReader == Spec => []FindingsAreAtTheReader
<1>1. Init => FindingsAreAtTheReader
  BY DEF Init, InitialSnapshot, FindingsAreAtTheReader
<1>2. SafetyInv /\ FindingsAreAtTheReader /\ [Next]_vars => FindingsAreAtTheReader'
  <2> SUFFICES ASSUME SafetyInv, FindingsAreAtTheReader, [Next]_vars
               PROVE  FindingsAreAtTheReader'
    OBVIOUS
  <2>1. ASSUME NEW o \in Observations, Submit(o) PROVE FindingsAreAtTheReader'
    <3>1. CASE AcceptUnlocated(o)
      BY <3>1 DEF AcceptUnlocated, FindingsAreAtTheReader
    <3>2. CASE ~AcceptUnlocated(o)
      BY <2>1, <3>2, AcceptFindsAtReader DEF Submit, FindingsAreAtTheReader
    <3> QED
      BY <3>1, <3>2
  <2>2. ASSUME NEW p \in Positions, Reset(p) PROVE FindingsAreAtTheReader'
    BY <2>2 DEF Reset, InitialSnapshot, FindingsAreAtTheReader
  <2>3. CASE UNCHANGED vars
    BY <2>3 DEF vars, FindingsAreAtTheReader
  <2> QED
    BY <2>1, <2>2, <2>3 DEF Next
<1> QED
  BY <1>1, <1>2, TrackerIsSafe, PTL DEF Spec

-----------------------------------------------------------------------------
\* What a partial observation completes ends two matched symbols before the
\* active one, all of them symbols of the corpus.
LEMMA PartialCommitTrails ==
  ASSUME SafetyInv, NEW p \in Payloads,
         NEW c, c = Located[p][cursorSymbol].best, c # NoCandidate,
         NEW offset, IsMaximum(offset, AlignedOffsets(c)),
         CommitSupportedWords(c, FALSE), completedWordIds' # completedWordIds
  PROVE  ActiveSymbol(c, offset) >= committedSymbol' + PartialCommitLookahead
<1> DEFINE supported == SupportedWords(c, FALSE)
<1>1. cursorSymbol \in Positions /\ committedSymbol \in Positions /\ completedWordIds \in Seq(WordIds)
  BY DEF SafetyInv, TypeOK
<1>2. c \in CandidateRecords /\ offset \in Nat
  BY <1>1, LocatedCandidate
<1>3. supported # {}
  <2>1. PICK list \in AscendingLists(supported \ Entries(completedWordIds)) :
          completedWordIds' = completedWordIds \o list
    BY DEF CommitSupportedWords
  <2>2. supported \subseteq WordIds
    BY DEF SupportedWords
  <2>3. list \in Seq(WordIds) /\ \A i \in DOMAIN list : list[i] \in supported \ Entries(completedWordIds)
    BY <2>1, <2>2, AscendingListType
  <2>4. list # <<>>
    BY <1>1, <2>1, ConcatEmptySeq
  <2>5. 1 \in DOMAIN list
    BY <2>3, <2>4, EmptySeq, LenProperties
  <2> QED
    BY <2>3, <2>5
<1>4. PICK w \in supported : committedSymbol' = Words[w].end - 1
  <2>1. IsMaximum(committedSymbol', {committedSymbol} \cup {Words[w].end - 1 : w \in supported})
    BY DEF CommitSupportedWords
  <2>2. \A w \in supported : w \in WordIds /\ Words[w].end - 1 >= committedSymbol
    BY DEF SupportedWords
  <2>3. CASE committedSymbol' = committedSymbol
    <3>1. PICK w \in supported : Words[w].end - 1 <= committedSymbol
      BY <1>3, <2>1, <2>3 DEF IsMaximum
    <3>2. Words[w].end - 1 = committedSymbol
      <4>1. Words[w].end - 1 >= committedSymbol /\ Words[w].end \in Nat /\ committedSymbol \in Int
        <5>1. w \in WordIds /\ Words[w].end - 1 >= committedSymbol
          BY <2>2
        <5>2. Words[w].end \in Nat
          BY <5>1, WordRanges
        <5> QED
          BY <1>1, <5>1, <5>2, CorpusAssumption DEF Positions
      <4> QED
        BY <3>1, <4>1
    <3> QED
      BY <2>3, <3>2
  <2>4. CASE committedSymbol' # committedSymbol
    BY <2>1, <2>4 DEF IsMaximum
  <2> QED
    BY <2>3, <2>4
<1>5. Words[w].end \in Nat /\ Words[w].end + 1 \in Matched(c)
  <2>1. w \in WordIds /\ HasLookahead(c, w, FALSE)
    BY DEF SupportedWords
  <2>2. 1 \in 0 .. PartialCommitLookahead - 1
    BY DEF PartialCommitLookahead
  <2> QED
    BY <2>1, <2>2, WordRanges DEF HasLookahead
<1>6. PICK i \in DOMAIN c.operations : /\ IsMatch(c.operations[i])
                                       /\ Words[w].end + 1 = c.symbolIndex + c.operations[i].referenceIndex
  BY <1>5 DEF Matched
<1>7. /\ c.operations[i].actualIndex # NoIndex /\ c.operations[i].referenceIndex # NoIndex
      /\ c.symbolIndex + c.operations[i].referenceIndex \in Positions
  BY <1>1, <1>6, LocatorAssumption DEF IsMatch
<1>8. Words[w].end + 1 \in Consumed(c) /\ Words[w].end + 1 < SymbolCount
  <2>1. i \in AlignedOperations(c)
    BY <1>7 DEF AlignedOperations
  <2>2. Words[w].end + 1 \in Consumed(c)
    BY <1>6, <2>1 DEF Consumed
  <2>3. Words[w].end + 1 \in 0 .. SymbolCount - 1
    BY <1>6, <1>7 DEF Positions
  <2> QED
    BY <1>5, <2>2, <2>3, CorpusAssumption
<1>9. Words[w].end + 1 <= ActiveSymbol(c, offset)
  BY <1>2, <1>8, ConsumedUpToActive
<1>10. ActiveSymbol(c, offset) \in Int
  <2>1. c.symbolIndex \in Positions /\ SymbolCount \in Nat
    BY <1>2, CorpusAssumption DEF CandidateRecords
  <2> QED
    BY <1>2, <2>1 DEF ActiveSymbol, Smaller, Positions
<1> QED
  BY <1>4, <1>5, <1>9, <1>10 DEF PartialCommitLookahead

\* The words a partial observation completes end two symbols before the display
\* it shows, so that what the recognizer may still revise stays open
\* (commitSupportedWords and PARTIAL_COMMIT_LOOKAHEAD).
THEOREM PartialCommitsTrail == Spec => PartialCommitTrailsDisplay
<1> DEFINE Trails == completedWordIds' # completedWordIds =>
                       \A p \in Payloads : Submit(PartialObservation(p)) =>
                         cursorSymbol' >= committedSymbol' + PartialCommitLookahead
<1>1. SafetyInv => [Trails]_vars
  <2> SUFFICES ASSUME SafetyInv, completedWordIds' # completedWordIds, NEW p \in Payloads,
                      Submit(PartialObservation(p))
               PROVE  cursorSymbol' >= committedSymbol' + PartialCommitLookahead
    OBVIOUS
  <2> DEFINE o == PartialObservation(p)
  <2>1. o.payload = p /\ o.isFinal = FALSE
    BY DEF PartialObservation
  <2> HIDE DEF o
  <2>2. Submit(o)
    BY DEF o
  <2>3. ~AcceptUnlocated(o)
    BY DEF AcceptUnlocated
  <2>4. PICK offset : /\ Located[p][cursorSymbol].best # NoCandidate
                      /\ IsMaximum(offset, AlignedOffsets(Located[p][cursorSymbol].best))
                      /\ AcceptLocated(o, offset)
    BY <2>1, <2>2, <2>3 DEF Submit
  <2> DEFINE c == Located[p][cursorSymbol].best
  <2>5. PICK confidence : MovePosition(o, c, offset, confidence)
    BY <2>1, <2>4 DEF AcceptLocated
  <2>6. cursorSymbol' = ActiveSymbol(c, offset) /\ CommitSupportedWords(c, FALSE)
    BY <2>1, <2>5 DEF MovePosition
  <2> QED
    BY <2>4, <2>6, PartialCommitTrails
<1> QED
  BY <1>1, TrackerIsSafe, PTL DEF Spec, PartialCommitTrailsDisplay

=============================================================================
