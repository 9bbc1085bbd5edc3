------------------------------ MODULE EditPath ------------------------------
(***************************************************************************)
(* The deterministic phoneme alignment of                                  *)
(* packages/core/src/alignment/edit-path.ts: a dynamic program over edit   *)
(* costs in which equal phonemes always take the diagonal, a table of      *)
(* directions with the tie order substitution, deletion, insertion, and a  *)
(* traceback from the last cell.                                           *)
(*                                                                         *)
(* Sequences are indexed from 1; an operation keeps the code's zero-based  *)
(* actualIndex and referenceIndex, with NoIndex for the code's null.       *)
(* Scores are exact multiples of 1/Unit instead of floating point numbers. *)
(***************************************************************************)
EXTENDS Integers, Sequences, FiniteSets

CONSTANT Unit     \* the integer that stands for the score 1.0

ASSUME UnitAssumption == Unit \in Nat \ {0}

NoIndex == -1

Kinds == {"match", "substitution", "deletion", "insertion"}

AlignmentOperations ==
  [kind : Kinds, actualIndex : Nat \cup {NoIndex}, referenceIndex : Nat \cup {NoIndex}]

Smaller(x, y) == IF x < y THEN x ELSE y
Larger(x, y)  == IF x > y THEN x ELSE y

-----------------------------------------------------------------------------
\* Mutation: the minimum forgets the insertion above the cell.
NextRow_NoInsertion(previous, actualIndex, actual, reference) ==
  LET row[j \in 0..Len(reference)] ==
        IF j = 0 THEN actualIndex
        ELSE IF actual[actualIndex] = reference[j] THEN previous[j - 1]
        ELSE 1 + Smaller(previous[j - 1], row[j - 1])
  IN  [j \in 0..Len(reference) |-> row[j]]

\* The costs of one row, from the row above it (the loop over referenceIndex).
\* The comparison makes TLC compute a row once and not again at every use.
NextRow(previous, actualIndex, actual, reference) ==
  LET row[j \in 0..Len(reference)] ==
        IF j = 0 THEN actualIndex
        ELSE IF actual[actualIndex] = reference[j] THEN previous[j - 1]
        ELSE 1 + Smaller(previous[j - 1], Smaller(row[j - 1], previous[j]))
      computed == [j \in 0..Len(reference) |-> row[j]]
  IN  CHOOSE next \in {computed} : next = computed

\* Every row of the dynamic program; the code keeps only the last two.
Costs(actual, reference) ==
  LET rows[i \in 0..Len(actual)] ==
        IF i = 0 THEN [j \in 0..Len(reference) |-> j]
        ELSE NextRow(rows[i - 1], i, actual, reference)
  IN  [i \in 0..Len(actual) |-> rows[i]]

\* The direction recorded for a cell: a match always wins, then the first of
\* substitution, deletion and insertion that attains the minimum.
Direction(costs, i, j, actual, reference) ==
  IF i = 0 THEN "deletion"
  ELSE IF j = 0 THEN "insertion"
  ELSE IF actual[i] = reference[j] THEN "match"
  ELSE IF costs[i][j] = costs[i - 1][j - 1] + 1 THEN "substitution"
  ELSE IF costs[i][j] = costs[i][j - 1] + 1 THEN "deletion"
  ELSE "insertion"

-----------------------------------------------------------------------------
\* Mutation: a tie keeps the insertion that the cell already holds.
WriteDirections_KeepsTie(directions, actual, reference) ==
  LET rowWidth == Len(reference) + 1
      costs    == Costs(actual, reference)
      Keeps(offset, i, j) ==
        /\ directions[offset] = "insertion" /\ i > 0 /\ j > 0
        /\ actual[i] # reference[j] /\ costs[i][j] = costs[i - 1][j] + 1
  IN  [offset \in DOMAIN directions |->
         IF \/ offset \notin 1 .. (Len(actual) + 1) * rowWidth - 1
            \/ Keeps(offset, offset \div rowWidth, offset % rowWidth)
         THEN directions[offset]
         ELSE Direction(costs, offset \div rowWidth, offset % rowWidth, actual, reference)]

\* The direction workspace is one flat array that successive alignments share;
\* a call with rowWidth = Len(reference) + 1 overwrites the cells it computes
\* and leaves whatever an earlier call wrote in the others.
WriteDirections(directions, actual, reference) ==
  LET rowWidth == Len(reference) + 1
      costs    == Costs(actual, reference)
      written  == 1 .. (Len(actual) + 1) * rowWidth - 1
  IN  [offset \in DOMAIN directions |->
         IF offset \in written
         THEN Direction(costs, offset \div rowWidth, offset % rowWidth, actual, reference)
         ELSE directions[offset]]

\* Mutation: the reference index is read before it is decremented.
OperationAt_ReferenceTooLate(direction, i, j) ==
  [kind           |-> direction,
   actualIndex    |-> IF direction = "deletion" THEN NoIndex ELSE i - 1,
   referenceIndex |-> IF direction = "insertion" THEN NoIndex ELSE j]

\* The operation pushed for one step of the traceback.
OperationAt(direction, i, j) ==
  [kind           |-> direction,
   actualIndex    |-> IF direction = "deletion" THEN NoIndex ELSE i - 1,
   referenceIndex |-> IF direction = "insertion" THEN NoIndex ELSE j - 1]

\* The cell that a direction leads back to.
Before(direction, i, j) ==
  <<IF direction = "deletion" THEN i ELSE i - 1, IF direction = "insertion" THEN j ELSE j - 1>>

\* The traceback from the last cell to the origin, already in forward order.
Traceback(directions, actual, reference) ==
  LET rowWidth == Len(reference) + 1
      path[cell \in (0..Len(actual)) \X (0..Len(reference))] ==
        IF cell = <<0, 0>> THEN <<>>
        ELSE LET direction == directions[cell[1] * rowWidth + cell[2]]
             IN  Append(path[Before(direction, cell[1], cell[2])],
                        OperationAt(direction, cell[1], cell[2]))
  IN  path[<<Len(actual), Len(reference)>>]

-----------------------------------------------------------------------------
IsMatch(operation) == operation.kind = "match"

\* How many matches follow position k of operations without a gap.
MatchRunAfter(operations, k) ==
  LET breaks == {i \in (k + 1)..Len(operations) : ~IsMatch(operations[i])}
  IN  IF breaks = {} THEN Len(operations) - k
      ELSE (CHOOSE i \in breaks : \A b \in breaks : i <= b) - k - 1

Edits(operations) == {i \in DOMAIN operations : ~IsMatch(operations[i])}

FirstEdit(operations) ==
  CHOOSE i \in Edits(operations) : \A e \in Edits(operations) : i <= e

ScoreOf(editCount, normalizer) ==
  IF normalizer = 0 THEN Unit ELSE ((normalizer - editCount) * Unit) \div normalizer

\* The AlignmentPath built from a traceback.
PathFrom(operations, actual, reference) ==
  LET editCount == Cardinality(Edits(operations))
  IN  [score      |-> ScoreOf(editCount, Larger(Len(actual), Len(reference))),
       editCount  |-> editCount,
       matchedLookaheadCount |->
         IF editCount = 0 THEN 0 ELSE MatchRunAfter(operations, FirstEdit(operations)),
       operations |-> operations]

\* A workspace just created; its zero cells are no direction at all.
FreshDirections(actualCapacity, referenceCapacity) ==
  [offset \in 0 .. (actualCapacity + 1) * (referenceCapacity + 1) - 1 |-> "unset"]

AlignPhonemes(actual, reference) ==
  LET fresh == FreshDirections(Len(actual), Len(reference))
  IN  PathFrom(Traceback(WriteDirections(fresh, actual, reference), actual, reference),
               actual, reference)
=============================================================================
