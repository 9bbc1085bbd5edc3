--------------------------- MODULE ReadingTracker ---------------------------
(***************************************************************************)
(* The reading tracker of packages/core/src/tracking/reading-tracker.ts:   *)
(* the synchronous state machine that turns located observations into      *)
(* display movement, committed words and confirmed findings.               *)
(*                                                                         *)
(* The locator is a parameter: Located says what locateObservation returns *)
(* for a payload and a cursor.  A payload stands for an observation's      *)
(* tokens; Spoken and Acoustic are its phonemes and their mean confidence. *)
(* Locations are positions 0..SymbolCount-1 and words are numbered in the  *)
(* order of their ranges.                                                  *)
(***************************************************************************)
EXTENDS Confidence

CONSTANTS
  SymbolCount,          \* corpus.symbols.length
  Words,                \* the ordered words' ranges, [start, end)
  Payloads, Spoken, Acoustic,
  Located,              \* [Payloads -> [positions -> [best, second]]]
  ObservationIds,
  SourceRevisions,
  FindingMode,
  ObservationIdLimit,   \* OBSERVATION_ID_LIMIT
  MaxRevision,          \* bound on snapshot revisions explored
  NoObservation         \* the code's null observation id

Positions == 0 .. SymbolCount - 1
WordIds   == DOMAIN Words

StabilityHistoryLimit  == 2
PartialCommitLookahead == 2

NoCandidate == [symbolIndex |-> -1]

CandidateRecords ==
  [symbolIndex : Positions, score : 0..Unit, matchedLookaheadCount : Nat,
   operations : Seq(AlignmentOperations)]

ASSUME CorpusAssumption ==
  /\ SymbolCount \in Nat \ {0}
  /\ Words \in Seq([start : Positions, end : 1..SymbolCount])
  /\ \A w \in WordIds : Words[w].start < Words[w].end
  /\ \A v, w \in WordIds : v < w => Words[v].end <= Words[w].start

\* The operations of a candidate align symbols of the corpus.
ASSUME LocatorAssumption ==
  \A p \in Payloads, c \in Positions :
    /\ Located[p][c].best \in CandidateRecords \cup {NoCandidate}
    /\ Located[p][c].best # NoCandidate =>
         \A i \in DOMAIN Located[p][c].best.operations :
           /\ Located[p][c].best.operations[i].kind \in {"match", "substitution"} =>
                /\ Located[p][c].best.operations[i].actualIndex # NoIndex
                /\ Located[p][c].best.operations[i].referenceIndex # NoIndex
           /\ Located[p][c].best.operations[i].referenceIndex # NoIndex =>
                Located[p][c].best.symbolIndex + Located[p][c].best.operations[i].referenceIndex
                  \in Positions
    /\ Located[p][c].secondScore \in 0..Unit
    /\ Acoustic[p] \in 0..Unit \cup {NoAcoustic}

ASSUME TrackerAssumption ==
  /\ SourceRevisions \subseteq Nat
  /\ FindingMode \in {"off", "substitutions"}
  /\ ObservationIdLimit \in Nat \ {0}
  /\ NoObservation \notin ObservationIds

Observations ==
  [observationId : ObservationIds, sourceRevision : SourceRevisions, isFinal : BOOLEAN,
   payload : Payloads]

VARIABLES
  initialSymbol, cursorSymbol, committedSymbol,
  latestSourceRevision,
  observationIds, observationIdOrder,   \* the retained ids and their eviction order
  hypothesisHistory,
  provisionalFinding,
  completedWordIds,
  snapshot

vars == <<initialSymbol, cursorSymbol, committedSymbol, latestSourceRevision, observationIds,
          observationIdOrder, hypothesisHistory, provisionalFinding, completedWordIds, snapshot>>

NoFinding     == [confirmation |-> "none"]
NoProvisional == [fingerprint |-> <<>>, confirmations |-> 0]

IsMaximum(m, S) == m \in S /\ \A x \in S : x <= m
Entries(s)      == {s[i] : i \in DOMAIN s}

-----------------------------------------------------------------------------
\* The display a fresh or reset tracker shows, and its snapshot.
DisplayAt(p) == [symbol |-> p, isReread |-> FALSE, activeWordId |-> 0]

InitialSnapshot(revision, p) ==
  [revision |-> revision, observationId |-> NoObservation, display |-> DisplayAt(p),
   committed |-> p, completedWordIds |-> <<>>, confidence |-> NoEvidence, finding |-> NoFinding]

Init ==
  \E p \in Positions :
    /\ initialSymbol = p
    /\ cursorSymbol = p
    /\ committedSymbol = p
    /\ latestSourceRevision = -1
    /\ observationIds = {}
    /\ observationIdOrder = <<>>
    /\ hypothesisHistory = <<>>
    /\ provisionalFinding = NoProvisional
    /\ completedWordIds = <<>>
    /\ snapshot = InitialSnapshot(0, p)

\* reset, to a location of the corpus.
Reset(p) ==
  /\ snapshot.revision < MaxRevision
  /\ initialSymbol' = p
  /\ cursorSymbol' = p
  /\ committedSymbol' = p
  /\ latestSourceRevision' = -1
  /\ observationIds' = {}
  /\ observationIdOrder' = <<>>
  /\ hypothesisHistory' = <<>>
  /\ provisionalFinding' = NoProvisional
  /\ completedWordIds' = <<>>
  /\ snapshot' = InitialSnapshot(snapshot.revision + 1, p)

-----------------------------------------------------------------------------
\* submit returns the current snapshot for a retained id or a stale revision.
Ignored(o) ==
  o.observationId \in observationIds \/ o.sourceRevision < latestSourceRevision

\* Mutation: eviction shortens the order and forgets the set.
RememberObservation_KeepsEvicted(o) ==
  LET order == Append(observationIdOrder, o.observationId)
  IN  /\ latestSourceRevision' = o.sourceRevision
      /\ observationIdOrder' = IF Len(order) > ObservationIdLimit THEN Tail(order) ELSE order
      /\ observationIds' = observationIds \cup {o.observationId}

\* rememberObservationId and the assignment of latestSourceRevision.
RememberObservation(o) ==
  LET order == Append(observationIdOrder, o.observationId)
  IN  /\ latestSourceRevision' = o.sourceRevision
      /\ IF Len(order) > ObservationIdLimit
         THEN /\ observationIdOrder' = Tail(order)
              /\ observationIds' = (observationIds \cup {o.observationId}) \ {Head(order)}
         ELSE /\ observationIdOrder' = order
              /\ observationIds' = observationIds \cup {o.observationId}

\* The reference offsets that both sequences reach; activeReferenceOffset is
\* the largest of them, 0 when there is none.
AlignedOperations(c) ==
  {i \in DOMAIN c.operations : /\ c.operations[i].actualIndex # NoIndex
                               /\ c.operations[i].referenceIndex # NoIndex}
AlignedOffsets(c) == {0} \cup {c.operations[i].referenceIndex : i \in AlignedOperations(c)}

\* stabilityFor, in halves.
StabilityFor(fingerprint) ==
  Cardinality({i \in DOMAIN hypothesisHistory : hypothesisHistory[i] = fingerprint})

\* rememberHypothesis.
RememberHypothesis(fingerprint) ==
  LET history == Append(hypothesisHistory, fingerprint)
  IN  IF Len(history) > StabilityHistoryLimit THEN Tail(history) ELSE history

ConfidenceIn(o, located, fingerprint) ==
  ScoreConfidence(located.best.score, StabilityFor(fingerprint),
                  located.best.matchedLookaheadCount,
                  Larger(0, located.best.score - located.secondScore), Acoustic[o.payload])

-----------------------------------------------------------------------------
\* commitSupportedWords.  A word all of whose symbols are consumed is touched,
\* so collectTouchedWordIds only bounds the work; the touched words are visited
\* in ascending order, so the committed symbol raised by one never excludes a
\* later one.
Consumed(c) == {c.symbolIndex + c.operations[i].referenceIndex : i \in AlignedOperations(c)}
Matched(c)  == {c.symbolIndex + c.operations[i].referenceIndex :
                  i \in {j \in DOMAIN c.operations : IsMatch(c.operations[j])}}

SymbolsOf(w) == Words[w].start .. Words[w].end - 1

\* Mutation: one matched position after the word is enough.
HasLookahead_One(c, w, isFinal) == isFinal \/ Words[w].end \in Matched(c)

\* A final observation, or two matched positions after the word.
HasLookahead(c, w, isFinal) ==
  isFinal \/ \A offset \in 0 .. PartialCommitLookahead - 1 : Words[w].end + offset \in Matched(c)

\* Mutation: words behind the committed symbol are not skipped.
SupportedWords_Behind(c, isFinal) ==
  {w \in WordIds : /\ Words[w].start >= c.symbolIndex
                   /\ SymbolsOf(w) \subseteq Consumed(c)
                   /\ HasLookahead(c, w, isFinal)}

\* The words that one observation completes.
SupportedWords(c, isFinal) ==
  {w \in WordIds : /\ Words[w].end - 1 >= committedSymbol
                   /\ Words[w].start >= c.symbolIndex
                   /\ SymbolsOf(w) \subseteq Consumed(c)
                   /\ HasLookahead(c, w, isFinal)}

\* The one list of the members of S in ascending order.
AscendingLists(S) ==
  {list \in [1..Cardinality(S) -> S] :
     Entries(list) = S /\ \A i, j \in DOMAIN list : i < j => list[i] < list[j]}

\* Mutation: newly completed words replace the earlier ones.
CommitSupportedWords_Replaces(c, isFinal) ==
  LET supported == SupportedWords(c, isFinal)
  IN  /\ \E list \in AscendingLists(supported \ Entries(completedWordIds)) :
           completedWordIds' = IF list = <<>> THEN completedWordIds ELSE list
      /\ \E high \in {committedSymbol} \cup {Words[w].end - 1 : w \in supported} :
           /\ IsMaximum(high, {committedSymbol} \cup {Words[w].end - 1 : w \in supported})
           /\ committedSymbol' = high

\* Each supported word is pushed once and raises the committed symbol.
CommitSupportedWords(c, isFinal) ==
  LET supported == SupportedWords(c, isFinal)
  IN  /\ \E list \in AscendingLists(supported \ Entries(completedWordIds)) :
           completedWordIds' = completedWordIds \o list
      /\ \E high \in {committedSymbol} \cup {Words[w].end - 1 : w \in supported} :
           /\ IsMaximum(high, {committedSymbol} \cup {Words[w].end - 1 : w \in supported})
           /\ committedSymbol' = high

WordAt(p) == IF \E w \in WordIds : p \in SymbolsOf(w)
             THEN CHOOSE w \in WordIds : p \in SymbolsOf(w) ELSE 0

\* The branch behind the position gate: the display moves to the active symbol
\* and the words the alignment supports are committed; otherwise neither moves.
ActiveSymbol(c, offset) == Smaller(SymbolCount - 1, c.symbolIndex + offset)

MovePosition(o, c, offset, confidence) ==
  IF PassesPositionGate(confidence)
  THEN cursorSymbol' = ActiveSymbol(c, offset) /\ CommitSupportedWords(c, o.isFinal)
  ELSE UNCHANGED <<cursorSymbol, committedSymbol, completedWordIds>>

\* Mutation: a hypothesis that starts behind the commit counts as a reread.
DisplayAfter_ByStart(c, offset, confidence) ==
  LET active == ActiveSymbol(c, offset)
  IN  IF PassesPositionGate(confidence)
      THEN [symbol |-> active, isReread |-> c.symbolIndex < committedSymbol,
            activeWordId |-> WordAt(active)]
      ELSE snapshot.display

DisplayAfter(c, offset, confidence) ==
  LET active == ActiveSymbol(c, offset)
  IN  IF PassesPositionGate(confidence)
      THEN [symbol |-> active, isReread |-> active < committedSymbol, activeWordId |-> WordAt(active)]
      ELSE snapshot.display

-----------------------------------------------------------------------------
\* Mutation: a reread may produce findings.
MayFind_OnReread(c) ==
  FindingMode = "substitutions" /\ Substitutions(c.operations) # {}

\* Findings come from the first substitution of a candidate that does not
\* start behind the committed symbol.
MayFind(c) ==
  /\ FindingMode = "substitutions"
  /\ c.symbolIndex >= committedSymbol
  /\ Substitutions(c.operations) # {}

SubstitutionIn(c) == c.operations[FirstSubstitution(c.operations)]
ContextIn(c)      == CountFindingContextPhonemes(c.operations, FirstSubstitution(c.operations))

\* findingFingerprint: the reference symbol and the phoneme heard instead.
FindingFingerprint(o, c) ==
  <<c.symbolIndex + SubstitutionIn(c).referenceIndex,
    Spoken[o.payload][SubstitutionIn(c).actualIndex + 1]>>

\* updateProvisionalFinding and advanceProvisionalFinding.
AdvanceProvisionalFinding(o, c, confidence) ==
  LET fingerprint == FindingFingerprint(o, c)
  IN  IF MayFind(c) /\ PassesSoftFindingGate(SubstitutionEvidence(c.operations, confidence), 2,
                                             ContextIn(c))
      THEN [fingerprint |-> fingerprint,
            confirmations |-> IF provisionalFinding.fingerprint = fingerprint
                              THEN provisionalFinding.confirmations + 1 ELSE 1]
      ELSE NoProvisional

\* classifyFindingWithEvidence, given the provisional confirmations.
ClassifyFinding(o, c, confidence, confirmations) ==
  LET evidence == SubstitutionEvidence(c.operations, confidence)
      mode     == ConfirmationMode(evidence, o.isFinal, confirmations, ContextIn(c))
  IN  IF ~MayFind(c) \/ mode = "none" THEN NoFinding
      ELSE [confirmation |-> mode, symbol |-> FindingFingerprint(o, c)[1],
            actualPhoneme |-> FindingFingerprint(o, c)[2],
            confirmations |-> IF mode = "soft" THEN confirmations ELSE 1]

-----------------------------------------------------------------------------
\* submit when the locator finds nothing to align with.
AcceptUnlocated(o) ==
  /\ Located[o.payload][cursorSymbol].best = NoCandidate
  /\ RememberObservation(o)
  /\ provisionalFinding' = NoProvisional
  /\ snapshot' =
       [revision |-> snapshot.revision + 1, observationId |-> o.observationId,
        display |-> snapshot.display, committed |-> committedSymbol,
        completedWordIds |-> completedWordIds, confidence |-> NoEvidence,
        finding |-> NoFinding]
  /\ UNCHANGED <<initialSymbol, cursorSymbol, committedSymbol, hypothesisHistory, completedWordIds>>

\* submit with a best candidate, whose largest aligned offset is offset.
AcceptLocated(o, offset) ==
  LET located     == Located[o.payload][cursorSymbol]
      c           == located.best
      fingerprint == <<c.symbolIndex, offset>>
      confidence  == ConfidenceIn(o, located, fingerprint)
  IN  /\ RememberObservation(o)
      /\ hypothesisHistory' = RememberHypothesis(fingerprint)
      /\ MovePosition(o, c, offset, confidence)
      /\ provisionalFinding' = AdvanceProvisionalFinding(o, c, confidence)
      /\ snapshot' =
           [revision |-> snapshot.revision + 1, observationId |-> o.observationId,
            display |-> DisplayAfter(c, offset, confidence),
            committed |-> committedSymbol', completedWordIds |-> completedWordIds',
            confidence |-> confidence,
            finding |-> ClassifyFinding(o, c, confidence, provisionalFinding'.confirmations)]
      /\ UNCHANGED initialSymbol

Submit(o) ==
  /\ snapshot.revision < MaxRevision
  /\ ~Ignored(o)
  /\ \/ AcceptUnlocated(o)
     \/ LET best == Located[o.payload][cursorSymbol].best
        IN  /\ best # NoCandidate
            /\ \E offset \in AlignedOffsets(best) :
                 IsMaximum(offset, AlignedOffsets(best)) /\ AcceptLocated(o, offset)

Next ==
  \/ \E o \in Observations : Submit(o)
  \/ \E p \in Positions : Reset(p)

Spec == Init /\ [][Next]_vars

-----------------------------------------------------------------------------
\* The tracker's variables have the types of their declarations, the stability
\* history keeps at most two hypotheses, and the snapshot publishes the
\* committed progress held inside (createReadingTracker's closure state).
TypeOK ==
  /\ initialSymbol \in Positions
  /\ cursorSymbol \in Positions
  /\ committedSymbol \in Positions
  /\ latestSourceRevision \in SourceRevisions \cup {-1}
  /\ observationIds \subseteq ObservationIds
  /\ observationIdOrder \in Seq(ObservationIds)
  /\ hypothesisHistory \in Seq(Positions \X Nat)
  /\ Len(hypothesisHistory) <= StabilityHistoryLimit
  /\ provisionalFinding.confirmations \in Nat
  /\ completedWordIds \in Seq(WordIds)
  /\ snapshot.revision \in Nat
  /\ snapshot.display.symbol \in Positions
  /\ snapshot.display.isReread \in BOOLEAN
  /\ snapshot.committed = committedSymbol
  /\ snapshot.completedWordIds = completedWordIds

\* The completed words are a ledger in reading order: strictly ascending, so
\* none is entered twice, the last entry ends at the committed symbol, and
\* with no entry the committed symbol is still the initial one.  Skipping
\* ahead and reading back never enters an earlier word (commitSupportedWords).
CommitLedger ==
  /\ \A i, j \in DOMAIN completedWordIds : i < j => completedWordIds[i] < completedWordIds[j]
  /\ IF completedWordIds = <<>> THEN committedSymbol = initialSymbol
     ELSE committedSymbol = Words[completedWordIds[Len(completedWordIds)]].end - 1

\* Between resets no observation takes back a completed word or moves the
\* committed symbol backwards, whatever order observations arrive in.
CommitNeverRegresses ==
  [][snapshot'.observationId # NoObservation =>
       /\ committedSymbol' >= committedSymbol
       /\ Len(completedWordIds') >= Len(completedWordIds)
       /\ \A i \in DOMAIN completedWordIds : completedWordIds'[i] = completedWordIds[i]]_vars

\* The display is marked as a reread exactly when it is behind the committed
\* symbol, although the flag is computed before the same observation's commits
\* and survives, unrecomputed, the observations that do not pass the gate.
RereadMeansBehindCommit ==
  snapshot.display.isReread <=> snapshot.display.symbol < committedSymbol

\* A partial observation commits a word only when the display it shows is two
\* symbols past the word's end (PARTIAL_COMMIT_LOOKAHEAD), so the last words of
\* a partial hypothesis, which the recognizer may still revise, stay open.
PartialObservation(p) ==
  [observationId |-> snapshot'.observationId, sourceRevision |-> latestSourceRevision',
   isFinal |-> FALSE, payload |-> p]

PartialCommitTrailsDisplay ==
  [][completedWordIds' # completedWordIds =>
       \A p \in Payloads : Submit(PartialObservation(p)) =>
         cursorSymbol' >= committedSymbol' + PartialCommitLookahead]_vars

\* The retained ids are exactly the ones in the eviction order, each once and
\* at most OBSERVATION_ID_LIMIT of them: eviction never leaves an id that is
\* ignored for ever, nor drops one that is still in the window.
DedupWindow ==
  /\ observationIds = Entries(observationIdOrder)
  /\ \A i, j \in DOMAIN observationIdOrder :
       observationIdOrder[i] = observationIdOrder[j] => i = j
  /\ Len(observationIdOrder) <= ObservationIdLimit

\* A snapshot that reports a mistake shows the reader at or past it, and not
\* rereading: what decides about the display is the evidence before that of
\* the substitution replaces its lookahead, and the commit before this
\* observation's words (reading-tracker.ts:409-450, classify.ts:41-75).
FindingsAreAtTheReader ==
  snapshot.finding # NoFinding =>
    snapshot.finding.symbol <= snapshot.display.symbol /\ ~snapshot.display.isReread

\* No finding rests on a hypothesis heard for the first time, and an immediate
\* one needs a hypothesis already heard twice: the weights leave the combined
\* score below the final gate (0.82) without one recurrence and below the
\* immediate gate (0.90) without two (scoreConfidence and the finding gates).
FindingNeedsStableHypothesis ==
  /\ snapshot.finding # NoFinding => snapshot.confidence.stability >= 1
  /\ snapshot.finding.confirmation = "immediate" => snapshot.confidence.stability = 2

\* Refuted: what docs/confidence.md says of the reread mark.  The code compares
\* the display with the committed symbol and not with the previous display, so
\* moving back over words that are not committed yet goes unmarked.
BackwardDisplayIsReread ==
  [][snapshot'.observationId # NoObservation /\ snapshot'.display.symbol < snapshot.display.symbol
       => snapshot'.display.isReread]_vars
=============================================================================
