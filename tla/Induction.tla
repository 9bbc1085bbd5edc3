----------------------------- MODULE Induction ------------------------------
(***************************************************************************)
(* Induction over numbers, and what it says of recursive functions.        *)
(***************************************************************************)
EXTENDS Integers, SequencesExt, WellFoundedInduction, TLAPS

\* A set with 0 and the successor of each of its numbers has every number.  The
\* induction theorems of the library take the induction hypothesis as an operator;
\* here it is a set, and the proof is that the naturals are well-founded.
LEMMA SetInduction ==
  ASSUME NEW S, 0 \in S, \A n \in Nat : n \in S => n + 1 \in S
  PROVE  \A n \in Nat : n \in S
<1> DEFINE R == OpToRel(<, Nat)
           T == {n \in Nat : n \notin S}
<1> SUFFICES ASSUME T # {} PROVE FALSE
  OBVIOUS
<1>1. IsWellFoundedOn(R, Nat)
  BY NatLessThanWellFounded
<1>2. \A x, y \in Nat : <<y, x>> \in R <=> y < x
  BY DEF OpToRel
<1>3. PICK x \in T : \A y \in T : ~(<<y, x>> \in R)
  <2> HIDE DEF R
  <2>1. T \subseteq Nat
    OBVIOUS
  <2> HIDE DEF T
  <2> QED BY <1>1, <2>1, WFMin
<1>4. x # 0 /\ x - 1 \in Nat /\ x - 1 < x
  OBVIOUS
<1>5. x - 1 \in S
  BY <1>2, <1>3, <1>4
<1> QED BY <1>4, <1>5

\* Induction up to n.
LEMMA UpTo ==
  ASSUME NEW n \in Nat, NEW S, 0 \in S, \A i \in 1..n : i - 1 \in S => i \in S
  PROVE  \A i \in 0..n : i \in S
<1> DEFINE T == {m \in Nat : m \in 0..n => m \in S}
<1>1. 0 \in T
  OBVIOUS
<1>2. ASSUME NEW m \in Nat, m \in T PROVE m + 1 \in T
  <2>1. m + 1 \in 0..n => m + 1 \in 1..n /\ m + 1 - 1 = m /\ m \in 0..n
    OBVIOUS
  <2> QED BY <1>2, <2>1
<1> HIDE DEF T
<1>3. \A m \in Nat : m \in T
  BY <1>1, <1>2, SetInduction
<1> QED BY <1>3 DEF T

\* Induction from 1 up to n.
LEMMA FromOneUpTo ==
  ASSUME NEW n \in Nat, NEW S, 1 \in S, \A i \in 2..n : i - 1 \in S => i \in S
  PROVE  \A i \in 1..n : i \in S
<1> DEFINE T == {m \in Nat : m = 0 \/ m \in S}
<1>1. 0 \in T
  OBVIOUS
<1>2. \A i \in 1..n : i - 1 \in T => i \in T
  <2> SUFFICES ASSUME NEW i \in 1..n, i - 1 \in T PROVE i \in T
    OBVIOUS
  <2>1. CASE i = 1
    BY <2>1
  <2>2. CASE i # 1
    <3>1. i \in 2..n /\ i - 1 # 0 /\ i \in Nat
      BY <2>2
    <3> QED BY <3>1
  <2> QED BY <2>1, <2>2
<1> HIDE DEF T
<1>3. \A m \in 0..n : m \in T
  BY <1>1, <1>2, UpTo
<1>4. \A i \in 1..n : i \in 0..n /\ i # 0
  OBVIOUS
<1> QED BY <1>3, <1>4 DEF T

\* A recursion over 0..n has a value, so that a recursive function is what its
\* definition says.
LEMMA RecursionExists ==
  ASSUME NEW S, NEW c \in S, NEW n \in Nat, NEW G \in [1..n -> [S -> S]]
  PROVE  \E h \in [0..n -> S] : h[0] = c /\ \A i \in 1..n : h[i] = G[i][h[i - 1]]
<1> DEFINE Ok(m, h) == h[0] = c /\ \A i \in 1..m : h[i] = G[i][h[i - 1]]
           T == {m \in Nat : m <= n => \E h \in [0..m -> S] : Ok(m, h)}
<1>1. 0 \in T
  <2> DEFINE h == [i \in 0..0 |-> c]
  <2>1. h \in [0..0 -> S] /\ Ok(0, h)
    OBVIOUS
  <2> QED BY <2>1
<1>2. ASSUME NEW m \in Nat, m \in T PROVE m + 1 \in T
  <2> SUFFICES ASSUME m + 1 <= n PROVE \E h \in [0..m + 1 -> S] : Ok(m + 1, h)
    OBVIOUS
  <2>1. PICK h \in [0..m -> S] : Ok(m, h)
    BY <1>2
  <2> DEFINE g == [i \in 0..m + 1 |-> IF i = m + 1 THEN G[m + 1][h[m]] ELSE h[i]]
  <2>2. g \in [0..m + 1 -> S]
    OBVIOUS
  <2>3. \A i \in 1..m : g[i] = h[i] /\ g[i - 1] = h[i - 1]
    OBVIOUS
  <2>4. g[m + 1] = G[m + 1][g[m]] /\ g[0] = c
    BY <2>1
  <2>5. Ok(m + 1, g)
    <3> HIDE DEF g
    <3>1. \A i \in 1..m + 1 : i \in 1..m \/ i = m + 1
      OBVIOUS
    <3> QED BY <2>1, <2>3, <2>4, <3>1
  <2> QED BY <2>2, <2>5
<1> HIDE DEF T
<1>3. \A m \in Nat : m \in T
  BY <1>1, <1>2, SetInduction
<1> QED BY <1>3 DEF T

\* FlattenSeq of the community modules, concatenation by concatenation.
LEMMA FlattenExists ==
  ASSUME NEW A, NEW ss, ss \in Seq(Seq(A)), ss # <<>>
  PROVE  \E f \in [1..Len(ss) -> Seq(A)] :
           /\ FlattenSeq(ss) = f[Len(ss)]
           /\ f[1] = ss[1]
           /\ \A i \in 2..Len(ss) : f[i] = f[i - 1] \o ss[i]
<1> DEFINE T == Seq(A)
           c == ss[1]
           n == Len(ss) - 1
           G == [i \in 1..n |-> [s \in T |-> s \o ss[i + 1]]]
<1>1. n \in Nat
  OBVIOUS
<1>0. c \in T
  OBVIOUS
<1>2. \A i \in 1..n : ss[i + 1] \in T
  OBVIOUS
<1>3. G \in [1..n -> [T -> T]]
  BY <1>2
<1>4. PICK h \in [0..n -> T] : h[0] = c /\ \A i \in 1..n : h[i] = G[i][h[i - 1]]
  <2> HIDE DEF G, T, n, c
  <2> QED BY ONLY <1>0, <1>1, <1>3, RecursionExists
<1>5. ASSUME NEW i \in 1..n PROVE h[i] = h[i - 1] \o ss[i + 1]
  <2>1. h[i - 1] \in T
    <3> HIDE DEF n, T
    <3> QED BY <1>1
  <2> HIDE DEF T
  <2> QED BY <1>1, <1>4, <2>1
<1> DEFINE g == [i \in 1..Len(ss) |-> h[i - 1]]
<1>6. ASSUME NEW i \in 2..Len(ss) PROVE g[i] = g[i - 1] \o ss[i]
  <2>1. i - 1 \in 1..n
    BY <1>1
  <2>2. h[i - 1] = h[i - 1 - 1] \o ss[i]
    <3>1. \A k \in 1..n : h[k] = h[k - 1] \o ss[k + 1]
      BY <1>5
    <3>2. i - 1 + 1 = i
      OBVIOUS
    <3> HIDE DEF n, T
    <3> QED BY <2>1, <3>1, <3>2
  <2>3. g[i] = h[i - 1] /\ g[i - 1] = h[i - 1 - 1]
    BY <2>1
  <2> QED BY <2>2, <2>3
<1>7. g[1] = ss[1]
  BY <1>1, <1>4
<1> DEFINE flatten[i \in 1..Len(ss)] == IF i = 1 THEN ss[i] ELSE flatten[i - 1] \o ss[i]
<1>8. g \in [1..Len(ss) -> T]
  BY <1>1
<1>9. g = [i \in 1..Len(ss) |-> IF i = 1 THEN ss[i] ELSE g[i - 1] \o ss[i]]
  <2>1. g = [i \in 1..Len(ss) |-> g[i]]
    OBVIOUS
  <2> HIDE DEF g, T
  <2>2. \A i \in 1..Len(ss) : i = 1 \/ i \in 2..Len(ss)
    OBVIOUS
  <2>3. \A i \in 1..Len(ss) : g[i] = IF i = 1 THEN ss[i] ELSE g[i - 1] \o ss[i]
    BY <1>6, <1>7, <2>2
  <2> QED BY <2>1, <2>3
<1>10. flatten = [i \in 1..Len(ss) |-> IF i = 1 THEN ss[i] ELSE flatten[i - 1] \o ss[i]]
  <2> HIDE DEF g
  <2> QED BY <1>9
<1>11. FlattenSeq(ss) = flatten[Len(ss)]
  BY DEF FlattenSeq
<1>12. \A i \in 1..Len(ss) : flatten[i] = g[i]
  <2> DEFINE Same == {i \in Nat : flatten[i + 1] = g[i + 1]}
  <2> HIDE DEF flatten, g
  <2>1. 0 \in Same
    <3>1. flatten[1] = ss[1]
      BY <1>1, <1>10
    <3> QED BY <1>7, <3>1
  <2>2. ASSUME NEW i \in 1..n, i - 1 \in Same PROVE i \in Same
    <3>1. /\ i + 1 \in 2..Len(ss) /\ i + 1 \in 1..Len(ss) /\ i + 1 # 1
          /\ i + 1 - 1 = i /\ i - 1 + 1 = i
      OBVIOUS
    <3> DEFINE k == i + 1
    <3> HIDE DEF k
    <3>2. flatten[k] = flatten[k - 1] \o ss[k]
      BY <1>10, <3>1 DEF k
    <3>3. g[k] = g[k - 1] \o ss[k]
      BY <1>6, <3>1 DEF k
    <3>4. flatten[k - 1] = g[k - 1]
      BY <2>2, <3>1 DEF k, Same
    <3>5. flatten[k] = g[k]
      BY ONLY <3>2, <3>3, <3>4
    <3> QED BY <3>1, <3>5 DEF k, Same
  <2> HIDE DEF Same
  <2>3. \A i \in 0..n : i \in Same
    <3>1. \A i \in 1..n : i - 1 \in Same => i \in Same
      BY <2>2
    <3> HIDE DEF n
    <3> QED BY ONLY <1>1, <2>1, <3>1, UpTo
  <2>4. \A i \in 1..Len(ss) : i - 1 \in 0..n /\ i - 1 + 1 = i
    OBVIOUS
  <2> HIDE DEF n
  <2> QED BY <2>3, <2>4 DEF Same
<1> QED
  <2> HIDE DEF flatten, g, T
  <2>1. Len(ss) \in 1..Len(ss)
    OBVIOUS
  <2> QED BY <1>6, <1>7, <1>8, <1>11, <1>12, <2>1 DEF T
=============================================================================
