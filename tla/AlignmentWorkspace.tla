------------------------- MODULE AlignmentWorkspace -------------------------
(***************************************************************************)
(* One alignment workspace used for a sequence of alignments, the way      *)
(* locateObservation hands a single createAlignmentWorkspace result to     *)
(* every span of every candidate of one observation: the actual phonemes   *)
(* stay the same, alignPhonemesWithWorkspace never clears the workspace,   *)
(* and each call lays its cells out with its own row width.                *)
(***************************************************************************)
EXTENDS EditPath

CONSTANTS
  Phonemes,            \* the phonemes that occur
  ActualCapacity,      \* capacities given to createAlignmentWorkspace
  ReferenceCapacity

ASSUME CapacityAssumption == ActualCapacity \in Nat /\ ReferenceCapacity \in Nat

VARIABLES
  directions,          \* AlignmentWorkspace.directions
  actual,              \* the phonemes of the observation being located
  reference,           \* the reference span of the last call
  result               \* the AlignmentPath it returned

vars == <<directions, actual, reference, result>>

Strings(capacity) == UNION {[1..n -> Phonemes] : n \in 0..capacity}

Init ==
  /\ actual \in Strings(ActualCapacity)
  /\ directions = FreshDirections(Len(actual), ReferenceCapacity)
  /\ reference = <<>>
  /\ result = AlignPhonemes(actual, <<>>)

\* alignPhonemesWithWorkspace: within capacity, write the cells, trace back.
AlignPhonemesWithWorkspace(r) ==
  /\ Len(r) <= ReferenceCapacity
  /\ reference' = r
  /\ directions' = WriteDirections(directions, actual, r)
  /\ result' = PathFrom(Traceback(directions', actual, r), actual, r)
  /\ UNCHANGED actual

Next == \E r \in Strings(ReferenceCapacity) : AlignPhonemesWithWorkspace(r)

Spec == Init /\ [][Next]_vars

-----------------------------------------------------------------------------
\* The operations the traceback reads out of a workspace full of an earlier
\* call's directions are an alignment of exactly this call's sequences: they
\* consume every actual and every reference phoneme once and in order, and a
\* match or substitution is labelled by whether the phonemes are equal.
Consumes(indices, length) ==
  /\ {indices[k] : k \in DOMAIN indices} \ {NoIndex} = 0 .. length - 1
  /\ \A k, l \in DOMAIN indices :
       k < l /\ indices[k] # NoIndex /\ indices[l] # NoIndex => indices[k] < indices[l]

PathAlignsArguments ==
  LET ops == result.operations
  IN  /\ Consumes([k \in DOMAIN ops |-> ops[k].actualIndex], Len(actual))
      /\ Consumes([k \in DOMAIN ops |-> ops[k].referenceIndex], Len(reference))
      /\ \A k \in DOMAIN ops :
           LET o == ops[k]
           IN  o.actualIndex # NoIndex /\ o.referenceIndex # NoIndex =>
                 IsMatch(o) = (actual[o.actualIndex + 1] = reference[o.referenceIndex + 1])

\* A reference for the edit distance that shares nothing with the dynamic
\* program: choose which actual and which reference phonemes are paired, pair
\* them in order, and count the unequal pairs and everything left unpaired.
Pairings ==
  {p \in (SUBSET (1..Len(actual))) \X (SUBSET (1..Len(reference))) :
     Cardinality(p[1]) = Cardinality(p[2])}

Rank(S, x) == Cardinality({y \in S : y <= x})

PairingCost(p) ==
  LET unequal == {a \in p[1] : \E r \in p[2] : /\ Rank(p[2], r) = Rank(p[1], a)
                                               /\ actual[a] # reference[r]}
  IN  Cardinality(unequal) + Len(actual) + Len(reference) - 2 * Cardinality(p[1])

\* editCount is the least cost of any pairing, although the code takes the
\* diagonal on every equal pair without comparing it with the other moves; so
\* the score never leaves the interval from 0 to 1.
EditCountIsMinimal ==
  /\ result.score \in 0..Unit
  /\ \E p \in Pairings : PairingCost(p) = result.editCount
  /\ \A p \in Pairings : PairingCost(p) >= result.editCount

\* What a reused workspace returns is what a fresh one would: no cell that an
\* earlier call with another row width wrote is ever read.
WorkspaceReuseIsInvisible == result = AlignPhonemes(actual, reference)

=============================================================================
