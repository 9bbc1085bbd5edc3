----------------------------- MODULE Confidence -----------------------------
(***************************************************************************)
(* Confidence evidence, its gates and the substitution findings they       *)
(* confirm: packages/core/src/confidence/score.ts and findings/classify.ts.*)
(*                                                                         *)
(* Alignment, margin and acoustic confidence count in 1/Unit.  Stability   *)
(* and lookahead are halves, 0..2.  Combined scores count in               *)
(* 1/(20000*Unit), which makes the weights 0.4, 0.25, 0.2, 0.15 and 0.34,  *)
(* 0.2125, 0.17, 0.1275, 0.15 integers; the gates compare exactly.         *)
(***************************************************************************)
EXTENDS EditPath

NoAcoustic == -1
NoEvidence == [combined |-> -1]

Evidence ==
  [alignment : 0..Unit, stability : 0..2, lookahead : 0..2, matchedLookaheadCount : Nat,
   margin : 0..Unit, acoustic : 0..Unit \cup {NoAcoustic}, combined : Int]

\* clampUnit.
Clamp(x) == IF x < 0 THEN 0 ELSE IF x > Unit THEN Unit ELSE x

\* min(1, matchedLookaheadCount / 2), in halves.
LookaheadOf(count) == IF count >= 2 THEN 2 ELSE IF count = 1 THEN 1 ELSE 0

\* The weighted sum of scoreConfidence.
Combined(alignment, stability, lookahead, margin, acoustic) ==
  IF acoustic = NoAcoustic
  THEN 8000 * alignment + 2500 * Unit * stability + 2000 * Unit * lookahead + 3000 * margin
  ELSE 6800 * alignment + 2125 * Unit * stability + 1700 * Unit * lookahead + 2550 * margin
         + 3000 * acoustic

ScoreConfidence(score, stability, matchedLookaheadCount, margin, acoustic) ==
  LET lookahead == LookaheadOf(matchedLookaheadCount)
  IN  [alignment |-> Clamp(score), stability |-> stability, lookahead |-> lookahead,
       matchedLookaheadCount |-> matchedLookaheadCount, margin |-> Clamp(margin),
       acoustic |-> acoustic,
       combined |-> Combined(Clamp(score), stability, lookahead, Clamp(margin), acoustic)]

-----------------------------------------------------------------------------
\* combined >= percent / 100.
CombinedAtLeast(evidence, percent) == evidence.combined >= 200 * percent * Unit
MarginAtLeast(evidence, percent)   == 100 * evidence.margin >= percent * Unit

PassesPositionGate(evidence) ==
  100 * evidence.alignment >= 72 * Unit /\ MarginAtLeast(evidence, 8)

PassesImmediateFindingGate(evidence) ==
  /\ CombinedAtLeast(evidence, 90)
  /\ MarginAtLeast(evidence, 15)
  /\ evidence.matchedLookaheadCount >= 2

\* Mutation: the final gate looks at the margin alone.
PassesFinalFindingGate_MarginOnly(evidence) == MarginAtLeast(evidence, 10)

PassesFinalFindingGate(evidence) ==
  CombinedAtLeast(evidence, 82) /\ MarginAtLeast(evidence, 10)

PassesSoftFindingGate(evidence, confirmations, context) ==
  CombinedAtLeast(evidence, 88) /\ confirmations >= 2 /\ context \in 2..3

-----------------------------------------------------------------------------
Substitutions(operations) == {i \in DOMAIN operations : operations[i].kind = "substitution"}

\* substitutionOperation: the position of the first substitution.
FirstSubstitution(operations) ==
  CHOOSE i \in Substitutions(operations) : \A s \in Substitutions(operations) : i <= s

\* How many matches lead up to position k without a gap.
MatchRunBefore(operations, k) ==
  LET breaks == {i \in 1 .. k - 1 : ~IsMatch(operations[i])}
  IN  IF breaks = {} THEN k - 1
      ELSE k - 1 - (CHOOSE i \in breaks : \A b \in breaks : i >= b)

\* countFindingContextPhonemes: adjacent matches, four standing for more.
CountFindingContextPhonemes(operations, k) ==
  Smaller(4, MatchRunBefore(operations, k) + MatchRunAfter(operations, k))

\* deriveSubstitutionEvidence: the lookahead after the substitution itself
\* replaces the lookahead after the first edit.
SubstitutionEvidence(operations, evidence) ==
  LET count     == MatchRunAfter(operations, FirstSubstitution(operations))
      lookahead == LookaheadOf(count)
      weight    == IF evidence.acoustic = NoAcoustic THEN 2000 ELSE 1700
  IN  [evidence EXCEPT !.lookahead = lookahead, !.matchedLookaheadCount = count,
                       !.combined = @ + (lookahead - evidence.lookahead) * weight * Unit]

\* confirmationMode.
ConfirmationMode(evidence, isFinal, confirmations, context) ==
  IF ~PassesPositionGate(evidence) THEN "none"
  ELSE IF PassesImmediateFindingGate(evidence) THEN "immediate"
  ELSE IF isFinal /\ PassesFinalFindingGate(evidence) THEN "final"
  ELSE IF PassesSoftFindingGate(evidence, confirmations, context) THEN "soft"
  ELSE "none"
=============================================================================
