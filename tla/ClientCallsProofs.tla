--------------------------- MODULE ClientCallsProofs --------------------------
(***************************************************************************)
(* What the calls of the client libraries do, for every number of          *)
(* sessions, attempts, requests and recognizer results: a call changes a   *)
(* session once, its result says what it did, a store's failure stays      *)
(* internal, and the server takes what the normalizer makes.               *)
(***************************************************************************)
EXTENDS ClientCalls, Induction

-----------------------------------------------------------------------------
\* The normalizer.

\* The loop of normalizeSherpaResult over the tokens, step by step: Kept is
\* defined by recursion, and a recursion over 0..n has a value.
LEMMA KeptExists ==
  ASSUME NEW result, result \in RecognizerResults
  PROVE  \E kept \in [0..Len(result.tokens) -> Seq(Nat)] :
           /\ Kept(result) = kept[Len(result.tokens)]
           /\ kept[0] = <<>>
           /\ \A n \in 1..Len(result.tokens) :
                kept[n] = IF result.tokens[n] = Dropped THEN kept[n - 1] ELSE Append(kept[n - 1], n)
<1> DEFINE S == Seq(Nat)
           c == <<>>
           N == Len(result.tokens)
           Then(n, s) == IF result.tokens[n] = Dropped THEN s ELSE Append(s, n)
           G == [n \in 1..N |-> [s \in S |-> Then(n, s)]]
<1>1. N \in Nat
  BY DEF RecognizerResults
<1>2. c \in S
  OBVIOUS
<1>3. G \in [1..N -> [S -> S]]
  OBVIOUS
<1>4. PICK h \in [0..N -> S] : h[0] = c /\ \A n \in 1..N : h[n] = G[n][h[n - 1]]
  <2> HIDE DEF G, N, S, c
  <2> QED BY ONLY <1>1, <1>2, <1>3, RecursionExists
<1>5. ASSUME NEW n \in 1..N PROVE h[n] = Then(n, h[n - 1])
  <2>1. h[n - 1] \in S
    BY <1>1, <1>4
  <2> HIDE DEF Then
  <2> QED BY <1>1, <1>4, <2>1
<1> DEFINE kept[n \in 0..Len(result.tokens)] ==
             IF n = 0 THEN <<>>
             ELSE IF result.tokens[n] = Dropped THEN kept[n - 1] ELSE Append(kept[n - 1], n)
<1>6. h = [n \in 0..N |-> IF n = 0 THEN <<>> ELSE Then(n, h[n - 1])]
  <2> HIDE DEF G, Then, N
  <2> QED BY <1>1, <1>4, <1>5
<1>7. kept = [n \in 0..N |-> IF n = 0 THEN <<>> ELSE Then(n, kept[n - 1])]
  BY <1>6
<1>8. kept[N] = Kept(result)
  BY DEF Kept
<1>9. \A n \in 0..N : kept[n] = h[n]
  <2> HIDE DEF kept, N, Then
  <2> DEFINE Same == {n \in 0..N : kept[n] = h[n]}
  <2>1. 0 \in Same
    BY <1>1, <1>6, <1>7
  <2>2. ASSUME NEW n \in 1..N, n - 1 \in Same PROVE n \in Same
    <3>1. kept[n] = Then(n, kept[n - 1])
      BY <1>1, <1>7
    <3>2. h[n] = Then(n, h[n - 1])
      BY <1>5
    <3> QED BY <1>1, <2>2, <3>1, <3>2
  <2> HIDE DEF Same
  <2>3. \A n \in 0..N : n \in Same
    BY <1>1, <2>1, <2>2, UpTo
  <2> QED BY <2>3 DEF Same
<1> QED
  <2> HIDE DEF G, kept
  <2>1. h[N] = Kept(result)
    BY <1>1, <1>8, <1>9
  <2> QED BY <1>1, <1>4, <1>5, <2>1

\* s lists indices of the first n tokens, in order, none of them dropped.
Ascends(result, s, n) ==
  \A k \in DOMAIN s : /\ s[k] \in 1..n /\ result.tokens[s[k]] # Dropped
                      /\ \A j \in DOMAIN s : j < k => s[j] < s[k]

\* What is at index k after an append.
LEMMA AppendAt ==
  ASSUME NEW s, s \in Seq(Nat), NEW e, e \in Nat, NEW k \in DOMAIN Append(s, e)
  PROVE  \/ k \in DOMAIN s /\ k \in Nat /\ k <= Len(s) /\ Append(s, e)[k] = s[k]
         \/ k = Len(s) + 1 /\ Append(s, e)[k] = e
<1>1. Len(Append(s, e)) = Len(s) + 1 /\ k \in 1..Len(s) + 1
  OBVIOUS
<1>2. CASE k = Len(s) + 1
  BY <1>2
<1>3. CASE k # Len(s) + 1
  <2>1. k \in 1..Len(s)
    BY <1>1, <1>3
  <2> QED BY <2>1
<1> QED BY <1>2, <1>3

\* The normalizer keeps tokens in the order the recognizer gave them.
LEMMA KeptAscends ==
  ASSUME NEW result, result \in RecognizerResults
  PROVE  /\ Kept(result) \in Seq(Nat)
         /\ Ascends(result, Kept(result), Len(result.tokens))
<1> DEFINE N == Len(result.tokens)
<1>1. PICK kept \in [0..N -> Seq(Nat)] :
         /\ Kept(result) = kept[N]
         /\ kept[0] = <<>>
         /\ \A n \in 1..N :
              kept[n] = IF result.tokens[n] = Dropped THEN kept[n - 1] ELSE Append(kept[n - 1], n)
  BY KeptExists
<1>2. N \in Nat
  BY DEF RecognizerResults
<1> DEFINE Good == {n \in 0..N : Ascends(result, kept[n], n)}
<1>3. 0 \in Good
  BY <1>1, <1>2 DEF Ascends
<1>4. ASSUME NEW n \in 1..N, n - 1 \in Good PROVE n \in Good
  <2> DEFINE s == kept[n - 1]
  <2>1. s \in Seq(Nat) /\ Ascends(result, s, n - 1)
    BY <1>1, <1>2, <1>4
  <2> HIDE DEF s
  <2>2. CASE result.tokens[n] = Dropped
    <3>1. kept[n] = s
      BY <1>1, <2>2 DEF s
    <3>2. Ascends(result, s, n)
      BY <1>2, <2>1 DEF Ascends
    <3> QED BY <1>2, <3>1, <3>2
  <2>3. CASE result.tokens[n] # Dropped
    <3>1. kept[n] = Append(s, n)
      BY <1>1, <2>3 DEF s
    <3>2. Ascends(result, Append(s, n), n)
      <4>1. \A k \in DOMAIN Append(s, n) : \/ k \in DOMAIN s /\ k \in Nat /\ k <= Len(s) /\ Append(s, n)[k] = s[k]
                                           \/ k = Len(s) + 1 /\ Append(s, n)[k] = n
        <5>1. s \in Seq(Nat) /\ n \in Nat
          BY <1>2, <2>1
        <5>2. ASSUME NEW k, k \in DOMAIN Append(s, n)
              PROVE  \/ k \in DOMAIN s /\ k \in Nat /\ k <= Len(s) /\ Append(s, n)[k] = s[k]
                     \/ k = Len(s) + 1 /\ Append(s, n)[k] = n
          BY ONLY <5>1, <5>2, AppendAt
        <5> QED BY ONLY <5>2
      <4>2. Len(s) \in Nat /\ \A k \in DOMAIN s : k \in Nat /\ k <= Len(s)
        BY <2>1
      <4>3. n \in Nat /\ n \in 1..n /\ \A x \in 1..n - 1 : x \in 1..n /\ x < n
        BY <1>2
      <4>4. \A k \in DOMAIN s : s[k] \in 1..n /\ s[k] < n /\ result.tokens[s[k]] # Dropped
        BY <2>1, <4>3 DEF Ascends
      <4>5. \A k \in DOMAIN s : \A j \in DOMAIN s : j < k => s[j] < s[k]
        BY <2>1 DEF Ascends
      <4> SUFFICES ASSUME NEW k \in DOMAIN Append(s, n)
                   PROVE  /\ Append(s, n)[k] \in 1..n /\ result.tokens[Append(s, n)[k]] # Dropped
                          /\ \A j \in DOMAIN Append(s, n) : j < k => Append(s, n)[j] < Append(s, n)[k]
        BY DEF Ascends
      <4> DEFINE d == Append(s, n)
      <4>6. d[k] \in 1..n /\ result.tokens[d[k]] # Dropped
        BY <2>3, <4>1, <4>3, <4>4
      <4>7. ASSUME NEW j \in DOMAIN d, j < k PROVE d[j] < d[k]
        <5>1. CASE k \in DOMAIN s
          <6>1. j \in DOMAIN s /\ d[j] = s[j] /\ d[k] = s[k]
            <7> HIDE DEF d
            <7> QED BY <4>1, <4>2, <4>7, <5>1 DEF d
          <6> HIDE DEF d
          <6> QED BY <4>5, <4>7, <5>1, <6>1
        <5>2. CASE k = Len(s) + 1
          <6>1. j \in DOMAIN s /\ d[j] = s[j] /\ d[k] = n
            <7>1. k \notin DOMAIN s /\ j # Len(s) + 1
              BY <4>2, <4>7, <5>2
            <7>2. j \in DOMAIN s /\ d[j] = s[j]
              <8> HIDE DEF d
              <8> QED BY <4>1, <4>7, <7>1 DEF d
            <7>3. d[k] = n
              <8> HIDE DEF d
              <8> QED BY <4>1, <7>1 DEF d
            <7> QED BY <7>2, <7>3
          <6> HIDE DEF d
          <6> QED BY <4>4, <6>1
        <5>3. k \in DOMAIN s \/ k = Len(s) + 1
          BY <4>1
        <5> HIDE DEF d
        <5> QED BY ONLY <5>1, <5>2, <5>3
      <4> QED BY <4>6, <4>7
    <3>3. Ascends(result, kept[n], n)
      BY ONLY <3>1, <3>2
    <3>4. n \in 0..N
      BY <1>2
    <3> QED BY <3>3, <3>4
  <2> QED BY <2>2, <2>3
<1> HIDE DEF Good
<1>5. \A n \in 0..N : n \in Good
  <2>1. \A n \in 1..N : n - 1 \in Good => n \in Good
    BY <1>4
  <2> HIDE DEF N
  <2> QED BY ONLY <1>2, <1>3, <2>1, UpTo
<1>6. N \in 0..N
  BY <1>2
<1> QED BY <1>1, <1>5, <1>6 DEF Good

\* What is at index i of a concatenation.
LEMMA ConcatenationAt ==
  ASSUME NEW s, s \in Seq(Nat), NEW t, t \in Seq(Nat), NEW i \in DOMAIN (s \o t)
  PROVE  /\ i \in Nat
         /\ \/ i \in DOMAIN s /\ i <= Len(s) /\ (s \o t)[i] = s[i]
            \/ i - Len(s) \in DOMAIN t /\ (s \o t)[i] = t[i - Len(s)] /\ i > Len(s)
<1>1. CASE i <= Len(s)
  BY <1>1
<1>2. CASE ~(i <= Len(s))
  <2>1. Len(s \o t) = Len(s) + Len(t)
    OBVIOUS
  <2> QED BY <1>2, <2>1
<1> QED BY <1>1, <1>2

\* Two ordered sequences make one if no element of the second is less than one
\* of the first.
LEMMA ConcatenationIsOrdered ==
  ASSUME NEW s, s \in Seq(Nat), NEW t, t \in Seq(Nat), NonDecreasing(s), NonDecreasing(t),
         \A i \in DOMAIN s, j \in DOMAIN t : s[i] <= t[j]
  PROVE  NonDecreasing(s \o t)
<1> SUFFICES ASSUME NEW i \in DOMAIN (s \o t), NEW j \in DOMAIN (s \o t), i <= j
             PROVE  (s \o t)[i] <= (s \o t)[j]
  BY DEF NonDecreasing
<1>1. i \in Nat /\ j \in Nat /\ Len(s) \in Nat
  BY ConcatenationAt
<1>2. \/ i \in DOMAIN s /\ i <= Len(s) /\ (s \o t)[i] = s[i]
      \/ i - Len(s) \in DOMAIN t /\ (s \o t)[i] = t[i - Len(s)] /\ i > Len(s)
  BY ConcatenationAt
<1>3. \/ j \in DOMAIN s /\ j <= Len(s) /\ (s \o t)[j] = s[j]
      \/ j - Len(s) \in DOMAIN t /\ (s \o t)[j] = t[j - Len(s)] /\ j > Len(s)
  BY ConcatenationAt
<1>4. i - Len(s) <= j - Len(s)
  BY <1>1
<1> QED BY <1>1, <1>2, <1>3, <1>4 DEF NonDecreasing

\* Likewise for any number of them.
LEMMA FlattenIsOrdered ==
  ASSUME NEW ss, ss \in Seq(Seq(Nat)), \A i \in DOMAIN ss : NonDecreasing(ss[i]),
         \A i, j \in DOMAIN ss : i < j => \A x \in DOMAIN ss[i], y \in DOMAIN ss[j] : ss[i][x] <= ss[j][y]
  PROVE  FlattenSeq(ss) \in Seq(Nat) /\ NonDecreasing(FlattenSeq(ss))
<1>1. CASE ss = <<>>
  <2>1. FlattenSeq(ss) = <<>>
    BY <1>1 DEF FlattenSeq
  <2> QED BY <2>1 DEF NonDecreasing
<1>2. CASE ss # <<>>
  <2> DEFINE n == Len(ss)
  <2>1. PICK f \in [1..n -> Seq(Nat)] : /\ FlattenSeq(ss) = f[n] /\ f[1] = ss[1]
                                        /\ \A i \in 2..n : f[i] = f[i - 1] \o ss[i]
    BY <1>2, FlattenExists
  <2>2. n \in Nat /\ 1 \in 1..n /\ n \in 1..n /\ DOMAIN ss = 1..n
    BY <1>2
  <2> DEFINE Before(s, j) == \A x \in DOMAIN s, y \in DOMAIN ss[j] : s[x] <= ss[j][y]
             Good == {i \in 1..n : NonDecreasing(f[i]) /\ \A j \in 1..n : j > i => Before(f[i], j)}
  <2>3. 1 \in Good
    BY <2>1, <2>2
  <2>4. ASSUME NEW i \in 2..n, i - 1 \in Good PROVE i \in Good
    <3> DEFINE s == f[i - 1]
               t == ss[i]
    <3>1. i \in 1..n /\ i - 1 \in 1..n /\ i > i - 1 /\ i \in Nat
      OBVIOUS
    <3>2. s \in Seq(Nat) /\ t \in Seq(Nat) /\ f[i] = s \o t
      <4>1. s \in Seq(Nat)
        <5> HIDE DEF n
        <5> QED BY <2>1, <3>1
      <4>2. t \in Seq(Nat)
        BY <2>2, <3>1
      <4> QED BY <2>1, <4>1, <4>2
    <3>3. NonDecreasing(s) /\ NonDecreasing(t) /\ Before(s, i)
      BY <2>2, <2>4, <3>1
    <3>4. NonDecreasing(s \o t)
      <4>1. \A x \in DOMAIN s, y \in DOMAIN t : s[x] <= t[y]
        BY <3>3
      <4> HIDE DEF s, t, Before
      <4> QED BY ONLY <3>2, <3>3, <4>1, ConcatenationIsOrdered
    <3>5. ASSUME NEW j \in 1..n, j > i PROVE Before(s \o t, j)
      <4>1. Before(s, j)
        <5>1. j > i - 1
          BY <3>1, <3>5
        <5> QED BY <2>4, <5>1
      <4>2. Before(t, j)
        <5>1. j \in DOMAIN ss /\ i \in DOMAIN ss /\ i < j
          BY <2>2, <3>1, <3>5
        <5> QED BY <5>1
      <4>3. \A x \in DOMAIN (s \o t) : \/ x \in DOMAIN s /\ (s \o t)[x] = s[x]
                                       \/ x - Len(s) \in DOMAIN t /\ (s \o t)[x] = t[x - Len(s)]
        <5> HIDE DEF s, t
        <5> QED BY ONLY <3>2, ConcatenationAt
      <4> HIDE DEF s, t, n
      <4> QED BY <4>1, <4>2, <4>3
    <3>6. NonDecreasing(f[i])
      BY <3>2, <3>4
    <3>7. ASSUME NEW j \in 1..n, j > i PROVE Before(f[i], j)
      <4>1. Before(s \o t, j)
        BY <3>5, <3>7
      <4>2. f[i] = s \o t
        BY <3>2
      <4> HIDE DEF s, t
      <4> QED BY ONLY <4>1, <4>2
    <3>8. \A j \in 1..n : j > i => Before(f[i], j)
      BY <3>7
    <3>9. i \in 1..n
      BY <3>1
    <3> HIDE DEF s, t, Before, n
    <3> QED BY ONLY <3>6, <3>8, <3>9 DEF Good
  <2> HIDE DEF Good
  <2>5. \A i \in 1..n : i \in Good
    <3>1. \A i \in 2..n : i - 1 \in Good => i \in Good
      BY <2>4
    <3> HIDE DEF n
    <3> QED BY ONLY <2>2, <2>3, <3>1, FromOneUpTo
  <2>6. f[n] \in Seq(Nat)
    BY <2>2
  <2> QED BY <2>1, <2>2, <2>5, <2>6 DEF Good
<1> QED BY <1>1, <1>2

\* The starts of a result's tokens are times in order, one for each token, or
\* there are none.
LEMMA StartsAscend ==
  ASSUME NEW result, result \in RecognizerResults
  PROVE  /\ TimestampStarts(result) \in Seq(Nat)
         /\ NonDecreasing(TimestampStarts(result))
         /\ Len(TimestampStarts(result)) \in {0, Len(result.tokens)}
<1> DEFINE stamps == result.timestamps
           starts == [i \in DOMAIN stamps |-> Rounded(stamps[i])]
<1>1. stamps \in Seq(Int)
  BY DEF RecognizerResults
<1>2. CASE TimestampStarts(result) = <<>>
  BY <1>2 DEF NonDecreasing
<1>3. CASE /\ Len(stamps) = Len(result.tokens) /\ \A i \in DOMAIN stamps : stamps[i] >= 0
           /\ NonDecreasing(stamps) /\ TimestampStarts(result) = starts
  <2>1. \A i \in DOMAIN stamps : stamps[i] \in Nat
    BY <1>1, <1>3
  <2>2. \A x, y \in Nat : Rounded(x) \in Nat /\ (x <= y => Rounded(x) <= Rounded(y))
    BY DEF Rounded
  <2>3. starts \in Seq(Nat) /\ Len(starts) = Len(stamps) /\ DOMAIN starts = DOMAIN stamps
    <3> HIDE DEF stamps
    <3>1. \A i \in DOMAIN stamps : Rounded(stamps[i]) \in Nat
      BY <2>1, <2>2
    <3>2. DOMAIN stamps = 1..Len(stamps) /\ Len(stamps) \in Nat
      BY <1>1
    <3> QED BY ONLY <3>1, <3>2
  <2>4. NonDecreasing(starts)
    <3> HIDE DEF stamps
    <3> QED BY <1>3, <2>1, <2>2, <2>3 DEF NonDecreasing
  <2> HIDE DEF starts, stamps
  <2> QED BY <1>3, <2>3, <2>4
<1> QED BY <1>2, <1>3 DEF TimestampStarts

\* Short concatenations, as tuples.
LEMMA ShortConcatenations ==
  ASSUME NEW a, a \in Nat, NEW b, b \in Nat
  PROVE  <<a>> \o <<>> = <<a>> /\ <<a>> \o <<b>> = <<a, b>>
<1>1. <<a>> \o <<>> = <<a>>
  OBVIOUS
<1>2. <<a>> \o <<b>> = <<a, b>>
  <2> DEFINE s == <<a>> \o <<b>>
  <2>1. s \in Seq(Nat) /\ Len(s) = 2
    OBVIOUS
  <2>2. s[1] = a /\ s[2] = b
    OBVIOUS
  <2> HIDE DEF s
  <2>3. s = <<a, b>>
    BY <2>1, <2>2
  <2> QED BY <2>3 DEF s
<1> QED BY <1>1, <1>2

\* The times of the token made of a result's token i: its start and the next
\* one's, if there are starts.
LEMMA TimesFollow ==
  ASSUME NEW result, result \in RecognizerResults, NEW i, i \in 1..Len(result.tokens)
  PROVE  LET starts == TimestampStarts(result)
             times  == Times(TokenAt(result, i))
         IN  /\ times \in Seq(Nat) /\ NonDecreasing(times)
             /\ \A x \in DOMAIN times : \E k \in {i, i + 1} : k \in DOMAIN starts /\ times[x] = starts[k]
<1> DEFINE starts == TimestampStarts(result)
           n == Len(result.tokens)
<1>1. /\ starts \in Seq(Nat) /\ NonDecreasing(starts) /\ Len(starts) \in {0, n}
  BY StartsAscend
<1>2. n \in Nat /\ i \in Nat
  BY DEF RecognizerResults
<1> HIDE DEF starts
<1>3. Times(TokenAt(result, i)) = Present(ElementOr(starts, i)) \o Present(ElementOr(starts, i + 1))
  BY DEF Times, TokenAt, starts
<1> DEFINE t == Times(TokenAt(result, i))
<1>4. \A k \in Int : ElementOr(starts, k) = IF k \in DOMAIN starts THEN starts[k] ELSE Absent
  BY DEF ElementOr
<1>5. \A k \in DOMAIN starts : starts[k] \in Nat /\ starts[k] # Absent
  BY <1>1, MarkersAssumption
<1>6. CASE i \notin DOMAIN starts
  <2>1. i + 1 \notin DOMAIN starts
    BY <1>1, <1>2, <1>6
  <2>2. t = <<>> \o <<>>
    BY <1>2, <1>3, <1>4, <1>6, <2>1 DEF Present
  <2> HIDE DEF t
  <2> QED BY <2>2 DEF NonDecreasing, t
<1>7. CASE i \in DOMAIN starts /\ i + 1 \notin DOMAIN starts
  <2>1. t = <<starts[i]>> \o <<>>
    <3>1. ElementOr(starts, i) = starts[i] /\ ElementOr(starts, i + 1) = Absent
      BY <1>2, <1>4, <1>7
    <3> QED BY <1>3, <1>5, <1>7, <3>1 DEF Present
  <2>2. t = <<starts[i]>>
    BY <1>5, <1>7, <2>1, ShortConcatenations
  <2> HIDE DEF t
  <2> QED BY <1>5, <1>7, <2>2 DEF NonDecreasing, t, starts
<1>8. CASE i \in DOMAIN starts /\ i + 1 \in DOMAIN starts
  <2>1. t = <<starts[i]>> \o <<starts[i + 1]>>
    BY <1>2, <1>3, <1>4, <1>5, <1>8 DEF Present
  <2>2. t = <<starts[i], starts[i + 1]>>
    BY <1>5, <1>8, <2>1, ShortConcatenations
  <2>3. starts[i] <= starts[i + 1] /\ starts[i] \in Nat /\ starts[i + 1] \in Nat
    BY <1>1, <1>2, <1>5, <1>8 DEF NonDecreasing
  <2> HIDE DEF t
  <2> QED BY <1>8, <2>2, <2>3 DEF NonDecreasing, t, starts
<1> QED BY <1>6, <1>7, <1>8

\* The times of the tokens that are kept, one token after the other.
LEMMA KeptTimes ==
  ASSUME NEW result, result \in RecognizerResults, NEW kept, kept \in Seq(Nat),
         Ascends(result, kept, Len(result.tokens))
  PROVE  LET times == FlattenSeq([k \in DOMAIN kept |-> Times(TokenAt(result, kept[k]))])
         IN  times \in Seq(Nat) /\ NonDecreasing(times)
<1> DEFINE n == Len(result.tokens)
           starts == TimestampStarts(result)
           T(k) == Times(TokenAt(result, kept[k]))
           ss == [k \in DOMAIN kept |-> T(k)]
<1>1. n \in Nat /\ starts \in Seq(Nat) /\ NonDecreasing(starts)
  BY StartsAscend DEF RecognizerResults
<1>2. \A k \in DOMAIN kept : kept[k] \in 1..n /\ \A j \in DOMAIN kept : j < k => kept[j] < kept[k]
  BY DEF Ascends
<1>3. ASSUME NEW k, k \in DOMAIN kept
      PROVE  /\ T(k) \in Seq(Nat) /\ NonDecreasing(T(k))
             /\ \A x \in DOMAIN T(k) : \E l \in {kept[k], kept[k] + 1} : l \in DOMAIN starts /\ T(k)[x] = starts[l]
  <2> DEFINE i == kept[k]
  <2>1. i \in 1..n
    BY <1>2, <1>3
  <2> HIDE DEF i
  <2>2. /\ Times(TokenAt(result, i)) \in Seq(Nat) /\ NonDecreasing(Times(TokenAt(result, i)))
        /\ \A x \in DOMAIN Times(TokenAt(result, i)) :
             \E l \in {i, i + 1} : l \in DOMAIN starts /\ Times(TokenAt(result, i))[x] = starts[l]
    BY <2>1, TimesFollow
  <2> QED BY ONLY <2>2 DEF i
<1> HIDE DEF starts, T, n
<1>4. ss \in Seq(Seq(Nat)) /\ DOMAIN ss = DOMAIN kept
  <2>1. \A k \in DOMAIN kept : T(k) \in Seq(Nat)
    BY <1>3
  <2>2. DOMAIN kept = 1..Len(kept) /\ Len(kept) \in Nat
    OBVIOUS
  <2> QED BY <2>1, <2>2
<1>5. \A k \in DOMAIN ss : NonDecreasing(ss[k])
  BY <1>3, <1>4
<1>6. ASSUME NEW i, i \in DOMAIN ss, NEW j, j \in DOMAIN ss, i < j,
             NEW x, x \in DOMAIN ss[i], NEW y, y \in DOMAIN ss[j]
      PROVE  ss[i][x] <= ss[j][y]
  <2>1. i \in DOMAIN kept /\ j \in DOMAIN kept /\ ss[i] = T(i) /\ ss[j] = T(j)
    BY <1>4, <1>6
  <2>2. PICK l \in {kept[i], kept[i] + 1} : l \in DOMAIN starts /\ T(i)[x] = starts[l]
    BY <1>3, <1>6, <2>1
  <2>3. PICK m \in {kept[j], kept[j] + 1} : m \in DOMAIN starts /\ T(j)[y] = starts[m]
    BY <1>3, <1>6, <2>1
  <2>4. kept[i] < kept[j] /\ kept[i] \in Nat /\ kept[j] \in Nat
    BY <1>2, <1>6, <2>1
  <2>5. l <= m
    BY <2>2, <2>3, <2>4
  <2> HIDE DEF ss
  <2> QED BY <1>1, <2>1, <2>2, <2>3, <2>5 DEF NonDecreasing
<1>7. FlattenSeq(ss) \in Seq(Nat) /\ NonDecreasing(FlattenSeq(ss))
  <2>1. \A i, j \in DOMAIN ss : i < j => \A x \in DOMAIN ss[i], y \in DOMAIN ss[j] : ss[i][x] <= ss[j][y]
    BY <1>6
  <2>2. ss \in Seq(Seq(Nat))
    BY <1>4
  <2> HIDE DEF ss
  <2> QED BY ONLY <1>5, <2>1, <2>2, FlattenIsOrdered
<1> QED BY <1>7 DEF T

\* What the normalizer refuses a result for, and what it makes of the others.
LEMMA NormalizerAccepts ==
  ASSUME NEW result, result \in RecognizerResults, NEW options, ValidOptions(options)
  PROVE  LET normalized == NormalizeSherpaResult(result, options)
             kept == Kept(result)
         IN  /\ normalized.error \in {Absent, "UNKNOWN_TOKEN", "INVALID_RESULT"}
             /\ normalized.error = Absent =>
                  /\ ValidObservation(normalized.observation)
                  /\ normalized.observation.observationId = options.observationId
             /\ normalized.error = "INVALID_RESULT" =>
                  \/ kept = <<>> /\ ~options.isFinal
                  \/ Len(kept) > MaxTokens
                  \/ PhonemeCount([k \in DOMAIN kept |-> result.tokens[kept[k]]]) > MaxPhonemes
<1> DEFINE kept == Kept(result)
           o == [observationId  |-> options.observationId, sourceRevision |-> options.sourceRevision,
                 isFinal |-> options.isFinal,
                 tokens  |-> [k \in DOMAIN kept |-> TokenAt(result, kept[k])]]
           phonemes == [k \in DOMAIN kept |-> result.tokens[kept[k]]]
           normalized == NormalizeSherpaResult(result, options)
<1>1. kept \in Seq(Nat) /\ Ascends(result, kept, Len(result.tokens))
  BY KeptAscends
<1> HIDE DEF kept
<1>2. normalized = IF \E i \in DOMAIN result.tokens : result.tokens[i] = Unknown
                   THEN [error |-> "UNKNOWN_TOKEN"]
                   ELSE IF ~ValidObservation(o) THEN [error |-> "INVALID_RESULT"]
                   ELSE [error |-> Absent, observation |-> o]
  BY DEF NormalizeSherpaResult, kept
<1>3. ASSUME kept # <<>> \/ options.isFinal, ~(Len(kept) > MaxTokens), ~(PhonemeCount(phonemes) > MaxPhonemes)
      PROVE  ValidObservation(o)
  <2>0. Len(kept) \in Nat /\ DOMAIN kept = 1..Len(kept)
    BY <1>1
  <2>1. DOMAIN o.tokens = DOMAIN kept /\ \A k \in DOMAIN kept : o.tokens[k] = TokenAt(result, kept[k])
    OBVIOUS
  <2>2. o.observationId # Blank /\ o.sourceRevision >= 0
    BY DEF ValidOptions
  <2>3. Len(o.tokens) <= MaxTokens
    <3>1. Len(o.tokens) = Len(kept)
      BY <2>0
    <3> QED BY <1>3, <2>0, <3>1, ObservationLimitsAssumption
  <2>4. o.isFinal \/ o.tokens # <<>>
    BY <1>1, <1>3, <2>0, <2>1
  <2>5. ASSUME NEW k, k \in DOMAIN kept PROVE ValidToken(TokenAt(result, kept[k]))
    <3> DEFINE p == Probabilities(result)
    <3>1. \A i \in DOMAIN p : p[i] \in 0..100
      BY DEF Probabilities
    <3> HIDE DEF p
    <3>2. kept[k] # Blank
      BY <1>1, <2>5, MarkersAssumption
    <3>3. TokenAt(result, kept[k]).id = kept[k] /\ TokenAt(result, kept[k]).confidence = ElementOr(p, kept[k])
      BY DEF TokenAt, p
    <3> QED BY <3>1, <3>2, <3>3 DEF ValidToken, ElementOr
  <2>6. \A j, k \in DOMAIN kept : TokenAt(result, kept[j]).id = TokenAt(result, kept[k]).id => j = k
    <3>1. \A k \in DOMAIN kept : TokenAt(result, kept[k]).id = kept[k] /\ kept[k] \in Nat /\ k \in Nat
      BY <1>1, <2>0 DEF TokenAt
    <3>2. \A j, k \in DOMAIN kept : j < k => kept[j] < kept[k]
      BY <1>1 DEF Ascends
    <3>3. \A j, k \in DOMAIN kept : kept[j] = kept[k] => j = k
      BY <3>1, <3>2
    <3> QED BY <3>1, <3>3
  <2>7. [k \in DOMAIN o.tokens |-> o.tokens[k].phonemes] = phonemes
    <3>1. \A k \in DOMAIN kept : o.tokens[k].phonemes = result.tokens[kept[k]]
      BY DEF TokenAt
    <3> HIDE DEF o
    <3> QED BY <2>1, <3>1
  <2>8. ~(PhonemeCount(phonemes) > MaxPhonemes)
    BY <1>3
  <2>9. [k \in DOMAIN o.tokens |-> Times(o.tokens[k])] = [k \in DOMAIN kept |-> Times(TokenAt(result, kept[k]))]
    <3> HIDE DEF o
    <3> QED BY <2>1
  <2> DEFINE times == FlattenSeq([k \in DOMAIN kept |-> Times(TokenAt(result, kept[k]))])
  <2>10. times \in Seq(Nat) /\ NonDecreasing(times)
    BY <1>1, KeptTimes
  <2>11. \A i \in DOMAIN times : times[i] >= 0
    <3> HIDE DEF times
    <3> QED BY <2>10
  <2> HIDE DEF o, phonemes, times
  <2> QED BY <2>1, <2>2, <2>3, <2>4, <2>5, <2>6, <2>7, <2>8, <2>9, <2>10, <2>11 DEF ValidObservation, times
<1>8. o.observationId = options.observationId
  OBVIOUS
<1> HIDE DEF o, phonemes
<1> HIDE DEF normalized
<1>4. Absent # "UNKNOWN_TOKEN" /\ Absent # "INVALID_RESULT"
  BY MarkersAssumption DEF ErrorCodes
<1>5. CASE normalized = [error |-> "UNKNOWN_TOKEN"]
  BY <1>4, <1>5 DEF normalized
<1>6. CASE normalized = [error |-> "INVALID_RESULT"] /\ ~ValidObservation(o)
  BY <1>3, <1>4, <1>6 DEF normalized, kept, phonemes
<1>7. CASE normalized = [error |-> Absent, observation |-> o] /\ ValidObservation(o)
  BY <1>4, <1>7, <1>8 DEF normalized
<1> QED BY <1>2, <1>5, <1>6, <1>7

-----------------------------------------------------------------------------
\* The invariant.

\* The routes whose requests are tried again, the codes the service answers to
\* requests that the routes let pass, and those that say nothing was done.
Retried == {"get", "observations"}
Answers == {"SESSION_NOT_FOUND", "STALE_REVISION", "INTERNAL_ERROR", "INVALID_CORPUS"}
Refused == {"SESSION_NOT_FOUND", "INVALID_CORPUS"}

\* A request of the client's own: observations only that the normalizer made.
IsRequest(r) ==
  \/ r \in PlainRequests
  \/ /\ r = Submit(FirstSession, r.body.observation) /\ ValidObservation(r.body.observation)
     /\ r.body.observation.observationId \in ObservationIds

\* What a record or a tracker keeps of observations.
IsLog(log) == log.ids \in Seq(ObservationIds)

\* A session as the service may keep it: unless a write failed, the record of a
\* session that runs is in step with its tracker.
IsSession(x) ==
  /\ x \in [stored : BOOLEAN, record : {x.record}, running : BOOLEAN, tracker : {x.tracker},
            resets : Nat, hearings : Nat, torn : BOOLEAN]
  /\ IsLog(x.record) /\ IsLog(x.tracker)
  /\ x.stored /\ x.running /\ ~x.torn => x.record = x.tracker

\* Ids that createSessionId has not returned name no session.
SessionsInv ==
  /\ sessions = [s \in SessionIds |-> sessions[s]] /\ \A s \in SessionIds : IsSession(sessions[s])
  /\ FirstSession \in usedIds /\ usedIds \subseteq SessionIds
  /\ \A s \in SessionIds \ usedIds : sessions[s] = Unborn

\* A call carries one of the client's own requests; one that is not retried is
\* never at a second attempt, and an answer that was read ends its call.
CallInv ==
  /\ call \in [stage : {"ended", "ready", "sent", "waiting", "answered"}, tag : Nat, read : BOOLEAN,
               request : {call.request}, attempt : {call.attempt}, heard : {call.heard},
               answer : {call.answer}, result : {call.result}]
  /\ IF call.tag = 0 THEN call.stage = "ended" /\ call.request = Absent ELSE IsRequest(call.request)
  /\ call.stage # "ended" => ~call.read
  /\ call.stage # "ended" /\ call.request.route \notin Retried => call.attempt = 1 /\ call.stage # "waiting"

\* Attempts under way belong to calls that were made, and those of one call are
\* the same request.
NetworkInv ==
  /\ \A m \in network :
       /\ m = [tag |-> m.tag, attempt |-> m.attempt, request |-> m.request]
       /\ m.tag \in 1..call.tag /\ IsRequest(m.request)
       /\ m.request.route \notin Retried => m.attempt = 1
       /\ m.tag = call.tag => m.request = call.request
  /\ \A m, n \in network : m.tag = n.tag => m.request = n.request

\* The session x took an observation with this id when it had taken n: its tracker
\* still has the id, in its place, unless that is out of the window by now.
Recalls(x, id, n) ==
  /\ n < x.hearings
  /\ x.hearings - n <= ObservationIdLimit =>
       /\ x.hearings - n <= Len(x.tracker.ids)
       /\ x.tracker.ids[Len(x.tracker.ids) - (x.hearings - n) + 1] = id

\* The effect e covers the request r: it was a submission to the session that r
\* names, and unless that session was reset or deleted since, its tracker recalls
\* the observation, so that r changes nothing before the id is out of the window.
Covered(kept, e, r) ==
  /\ e.route = "observations" /\ r.route = "observations" /\ e.session = r.session
  /\ kept[e.session].resets = e.resets /\ kept[e.session].stored /\ kept[e.session].running =>
       Recalls(kept[e.session], r.body.observation.observationId, e.hearings)

\* Two effects far enough apart for the second to be no mistake of the tracker's.
Apart(e, f) ==
  \/ e.resets # f.resets
  \/ e.hearings + ObservationIdLimit < f.hearings \/ f.hearings + ObservationIdLimit < e.hearings

\* Every effect is of a call that was made; two of one call are submissions that
\* are far apart; and whatever of a call may still arrive is covered by each
\* effect the call has had.
EffectsInv ==
  /\ \A e \in effects : /\ e.tag \in 1..call.tag /\ e.session \in usedIds
                        /\ e.resets \in Nat /\ e.resets <= sessions[e.session].resets
                        /\ e.hearings \in Nat
  /\ \A e, f \in effects : e.tag = f.tag /\ e # f => e.route = "observations" /\ Apart(e, f)
  /\ \A e \in effects, m \in network : e.tag = m.tag => Covered(sessions, e, m.request)
  /\ \A e \in effects : e.tag = call.tag /\ call.stage # "ended" /\ call.request.route \in Retried =>
                          Covered(sessions, e, call.request)

\* The call has changed nothing and nothing of it will arrive.
Untouched == EffectsOf(call.tag) = {} /\ \A m \in network : m.tag # call.tag

\* What the client holds or has reported tells what its request did.  An answer to
\* a retried request is never retryable.
AnswerInv ==
  /\ call.stage = "ready" /\ call.request.route \notin Retried => Untouched
  /\ call.stage = "answered" =>
       /\ call.answer.code \in Answers \cup {Absent}
       /\ call.answer.code # Absent /\ call.request.route \in Retried => call.answer.retryable = FALSE
       /\ call.request.route \notin Retried =>
            /\ call.answer.code = Absent => EffectsOf(call.tag) # {}
            /\ call.answer.code \in Refused => Untouched
  /\ call.stage = "ended" /\ call.tag # 0 /\ call.request.route \notin Retried =>
       /\ call.result = "ok" => EffectsOf(call.tag) # {}
       /\ call.result \in Refused => Untouched

\* The results of calls, and what the normalizer said of what was heard.
HeardInv ==
  /\ call.result \in Answers \cup {Absent, "ok", "closed", "transport", "UNKNOWN_TOKEN", "INVALID_RESULT"}
  /\ call.heard # Absent =>
       /\ call.heard \in Recognized
       /\ call.result = "INVALID_RESULT" =>
            NormalizeSherpaResult(call.heard.result, call.heard.options).error = "INVALID_RESULT"

\* The server's answers to failures: InternalFailuresStayInternal but for its
\* last part.
HandledInv ==
  /\ handled.failure # "none" =>
       handled.answer = [status |-> 500, code |-> "INTERNAL_ERROR", retryable |-> FALSE]
  /\ handled.answer # Absent =>
       (handled.answer.code # Absent /\ handled.answer.retryable =>
          handled.route = "create" /\ handled.answer.status = 503)

\* The inductive invariant.
IInv == /\ SessionsInv /\ CallInv /\ NetworkInv /\ EffectsInv /\ AnswerInv /\ HeardInv /\ HandledInv

-----------------------------------------------------------------------------
\* Markers and what they are not.
LEMMA AbsentIsNoCode == \A code \in ErrorCodes : code # Absent
  BY MarkersAssumption

\* What the routes make of the client's own requests: they refuse none.
LEMMA OwnRequests ==
  ASSUME NEW r, IsRequest(r)
  PROVE  /\ r.route \in {"create", "get", "reset", "observations", "delete"}
         /\ Refusal(r).code = Absent
         /\ r.route # "create" => r.session \in SessionIds /\ Command(r).session = r.session
         /\ r.route = "observations" =>
              /\ r.session = FirstSession /\ "observation" \in DOMAIN r.body
              /\ Command(r) = r.body /\ ObservationOf(r) \in ObservationIds
<1>1. CASE \E s \in SessionIds : r = Query("get", s) \/ r = Query("delete", s)
  BY <1>1, MarkersAssumption DEF Query, Refusal, Checks, Command, CommandType, PathMatches, PROTOCOL_VERSION
<1>2. CASE \E s \in SessionIds : r = Post("reset", s)
  BY <1>2, MarkersAssumption DEF Post, Refusal, Checks, Command, CommandType, PathMatches, PROTOCOL_VERSION
<1>3. CASE \E known \in BOOLEAN : r = Create(known)
  BY <1>3, MarkersAssumption
     DEF Create, Post, Refusal, Checks, Command, CommandType, PathMatches, PROTOCOL_VERSION
<1>4. CASE /\ r = Submit(FirstSession, r.body.observation) /\ ValidObservation(r.body.observation)
           /\ r.body.observation.observationId \in ObservationIds
  <2> DEFINE o == r.body.observation
  <2>1. /\ r.route = "observations" /\ r.session = FirstSession
        /\ r.body = [format |-> "json", version |-> 1, type |-> "observation.submit",
                     session |-> FirstSession, observation |-> o, known |-> Absent]
    <3> HIDE DEF o
    <3>1. r = Submit(FirstSession, o)
      BY <1>4 DEF o
    <3> QED BY <3>1 DEF Submit, Post, CommandType, PROTOCOL_VERSION
  <2> HIDE DEF o
  <2>2. ValidObservation(r.body.observation)
    BY <1>4
  <2>3. 1 # Absent
    BY MarkersAssumption
  <2>4. Command(r) = r.body
    BY <2>1 DEF Command
  <2>5. Checks(r) = [code |-> Absent]
    BY <2>1, <2>2, <2>3, <2>4 DEF Checks, CommandType, PROTOCOL_VERSION, PathMatches
  <2>6. ObservationOf(r) \in ObservationIds
    BY <1>4, <2>1 DEF ObservationOf
  <2> QED BY <2>1, <2>4, <2>5, <2>6, CallsAssumption DEF Refusal, CommandType
<1> QED BY <1>1, <1>2, <1>3, <1>4 DEF IsRequest, PlainRequests

\* What arrives at the routes, from whomever.
Arriving(request) ==
  /\ request.route # "create" => request.session \in SessionIds
  /\ request.route = "observations" =>
       /\ "observation" \in DOMAIN request.body <=> request.body.format \notin {"unreadable", "garbled"}
       /\ "observation" \in DOMAIN request.body => request.body.observation.observationId \in ObservationIds

\* The client's own requests are such requests.
LEMMA OwnRequestsArrive ==
  ASSUME NEW r, IsRequest(r)
  PROVE  Arriving(r)
<1>1. CASE r \in PlainRequests
  BY <1>1 DEF PlainRequests, Query, Post, Create, Arriving
<1>2. CASE r = Submit(FirstSession, r.body.observation) /\ r.body.observation.observationId \in ObservationIds
  <2> DEFINE o == r.body.observation
  <2>0. r.body.observation.observationId \in ObservationIds
    BY <1>2
  <2> HIDE DEF o
  <2>1. r = Submit(FirstSession, o)
    BY <1>2 DEF o
  <2>2. r.route = "observations" /\ r.session = FirstSession /\ r.body.format = "json"
        /\ "observation" \in DOMAIN r.body
    BY <2>1 DEF Submit, Post
  <2> QED BY <2>0, <2>2, CallsAssumption DEF Arriving
<1> QED BY <1>1, <1>2 DEF IsRequest

\* The codes with which the routes refuse a request.
LEMMA RefusedRequests ==
  ASSUME NEW r, Arriving(r), Refusal(r).code # Absent
  PROVE  /\ Refusal(r) = Refuse(Refusal(r).code)
         /\ Refusal(r).code \in ErrorCodes \ {"STALE_REVISION"}
<1>1. CASE r.route \notin DOMAIN CommandType
  BY <1>1 DEF Refusal, Refuse, ErrorCodes
<1>2. CASE r.route \in DOMAIN CommandType
  <2>1. Refusal(r) = Checks(r)
    BY <1>2 DEF Refusal
  <2>2. InvalidCode(r.route) \in {"INVALID_OBSERVATION", "INVALID_CORPUS"}
    BY DEF InvalidCode
  <2>3. \A code : Refuse(code).code = code
    BY DEF Refuse
  <2>4. \/ Refusal(r) = Refuse("INTERNAL_ERROR")
        \/ Refusal(r) = Refuse(InvalidCode(r.route))
        \/ Refusal(r) = Refuse("UNSUPPORTED_PROTOCOL")
        \/ Refusal(r) = Refuse("SESSION_NOT_FOUND")
    BY <2>1, AbsentIsNoCode DEF Checks
  <2> HIDE DEF Refuse, InvalidCode
  <2> QED BY <2>2, <2>3, <2>4 DEF ErrorCodes
<1> QED BY <1>1, <1>2

\* What the routes let pass names the session in its path.
LEMMA PassedRequests ==
  ASSUME NEW r, Arriving(r), Refusal(r).code = Absent
  PROVE  /\ r.route \in {"create", "get", "reset", "observations", "resume", "delete"}
         /\ r.route # "create" => r.session \in SessionIds /\ Command(r).session = r.session
         /\ r.route = "observations" =>
              ObservationOf(r) = Command(r).observation.observationId /\ ObservationOf(r) \in ObservationIds
<1>1. \A code \in ErrorCodes : Refuse(code).code # Absent
  BY AbsentIsNoCode DEF Refuse
<1>2. r.route \in {"create", "get", "reset", "observations", "resume", "delete"} /\ Refusal(r) = Checks(r)
  BY <1>1 DEF Refusal, CommandType, ErrorCodes
<1>3. InvalidCode(r.route) \in ErrorCodes /\ "INTERNAL_ERROR" \in ErrorCodes
      /\ "UNSUPPORTED_PROTOCOL" \in ErrorCodes /\ "SESSION_NOT_FOUND" \in ErrorCodes
  BY DEF InvalidCode, ErrorCodes
<1>4. /\ Command(r).format \notin {"unreadable", "garbled"}
      /\ Command(r).type = CommandType[r.route]
      /\ PathMatches(r, Command(r))
      /\ CommandType[r.route] = "observation.submit" => ValidObservation(Command(r).observation)
  <2> HIDE DEF Refuse, InvalidCode, ErrorCodes, Command, PathMatches, CommandType
  <2> QED BY <1>1, <1>2, <1>3 DEF Checks
<1>5. r.route # "create" => CommandType[r.route] # "session.create"
  BY <1>2 DEF CommandType
<1>6. r.route # "create" => Command(r).session = r.session
  BY <1>4, <1>5 DEF PathMatches
<1>7. r.route = "observations" =>
        ObservationOf(r) = Command(r).observation.observationId /\ ObservationOf(r) \in ObservationIds
  BY <1>4 DEF Arriving, ObservationOf, Command
<1> QED BY <1>2, <1>6, <1>7 DEF Arriving

-----------------------------------------------------------------------------
\* The errors of an operation.
OutcomeError(route, error) ==
  \/ error = Trusted("SESSION_NOT_FOUND", FALSE)
  \/ route = "create" /\ error \in {Trusted("INTERNAL_ERROR", TRUE), Trusted("INVALID_CORPUS", FALSE)}
  \/ route = "observations" /\ error = Trusted("STALE_REVISION", FALSE)

\* The ids that are remembered when another comes.
Pushed(ids, id) == LastOf(Append(ids, id), ObservationIdLimit)

\* The session old took an observation with this id.
Takes(old, next, id) ==
  /\ old.stored /\ old.running /\ next.stored /\ next.running /\ next.resets = old.resets
  /\ id \in ObservationIds /\ \A i \in DOMAIN old.tracker.ids : old.tracker.ids[i] # id
  /\ next.hearings = old.hearings + 1
  /\ next.tracker.ids = Pushed(old.tracker.ids, id)

\* What a write of the store leaves of session s, whether or not it came about and
\* the service came to its own bookkeeping after it.
Written(r, s, next) ==
  LET old == sessions[s]
  IN  /\ IsSession(next) /\ next.resets >= old.resets
      /\ r.route \in {"get", "resume"} => next = old
      /\ r.route \in {"create", "reset", "delete"} => next # old
      /\ r.route # "create" => old.stored /\ (next.running => old.running)
      /\ r.route = "reset"  => next.resets = old.resets + 1
      /\ r.route = "delete" => ~next.stored
      /\ r.route = "observations" => next = old \/ Takes(old, next, ObservationOf(r))

\* What an operation that succeeds promises.
Promised(r, s, next) ==
  /\ r.route = "reset"  => next.record = Nothing /\ next.tracker = Nothing
  /\ r.route = "delete" => ~next.stored /\ ~next.running
  /\ r.route = "observations" =>
       \/ \E i \in DOMAIN next.record.ids : next.record.ids[i] = ObservationOf(r)
       \/ sessions[s].torn /\ next = sessions[s]

\* What the window keeps of its ids when another comes.
LEMMA Windows ==
  \A ids \in Seq(ObservationIds), id \in ObservationIds :
    LET next == Pushed(ids, id)
    IN  /\ next \in Seq(ObservationIds) /\ Len(next) \in Nat \ {0} /\ next[Len(next)] = id
        /\ \A k \in 1..Len(ids) :
             k < ObservationIdLimit => k + 1 <= Len(next) /\ next[Len(next) - k] = ids[Len(ids) - k + 1]
<1> SUFFICES
      ASSUME NEW ids \in Seq(ObservationIds), NEW id \in ObservationIds, NEW next, next = Pushed(ids, id)
      PROVE  /\ next \in Seq(ObservationIds) /\ Len(next) \in Nat \ {0} /\ next[Len(next)] = id
             /\ \A k \in 1..Len(ids) :
                  k < ObservationIdLimit => k + 1 <= Len(next) /\ next[Len(next) - k] = ids[Len(ids) - k + 1]
  OBVIOUS
<1> DEFINE longer == Append(ids, id)
           n == ObservationIdLimit
<1>1. /\ longer \in Seq(ObservationIds) /\ Len(longer) = Len(ids) + 1 /\ Len(ids) \in Nat
      /\ longer[Len(ids) + 1] = id /\ \A i \in 1..Len(ids) : longer[i] = ids[i]
  OBVIOUS
<1>2. next = LastOf(longer, n) /\ n \in Nat \ {0}
  BY CallsAssumption DEF Pushed
<1> SUFFICES /\ next \in Seq(ObservationIds) /\ Len(next) \in Nat \ {0} /\ next[Len(next)] = id
             /\ \A k \in 1..Len(ids) :
                  k < n => k + 1 <= Len(next) /\ next[Len(next) - k] = ids[Len(ids) - k + 1]
  OBVIOUS
<1> HIDE DEF longer, n
<1>3. CASE Len(longer) <= n
  <2>1. next = longer
    <3>1. Len(longer) \in Nat /\ ~(Len(longer) > n)
      BY <1>1, <1>2, <1>3
    <3> QED BY ONLY <1>2, <3>1 DEF LastOf
  <2>2. ASSUME NEW k \in 1..Len(ids) PROVE next[Len(next) - k] = ids[Len(ids) - k + 1] /\ k + 1 <= Len(next)
    <3>1. Len(next) - k = Len(ids) - k + 1 /\ Len(ids) - k + 1 \in 1..Len(ids)
      BY <1>1, <2>1
    <3> QED BY <1>1, <2>1, <3>1
  <2> QED BY <1>1, <2>1, <2>2
<1>4. CASE Len(longer) > n
  <2> DEFINE m == Len(longer) - n
  <2>1. next = SubSeq(longer, m + 1, Len(longer)) /\ m \in Nat /\ m + 1 <= Len(longer)
    <3>1. next = SubSeq(longer, m + 1, Len(longer))
      BY ONLY <1>2, <1>4 DEF LastOf
    <3> QED BY <1>1, <1>2, <1>4, <3>1
  <2>2. /\ next \in Seq(ObservationIds) /\ Len(next) = Len(longer) - m
        /\ \A i \in 1..Len(next) : next[i] = longer[m + i]
    <3> HIDE DEF m
    <3>1. /\ SubSeq(longer, m + 1, Len(longer)) \in Seq(ObservationIds)
          /\ Len(SubSeq(longer, m + 1, Len(longer))) = Len(longer) - m
          /\ \A i \in 1..(Len(longer) - m) : SubSeq(longer, m + 1, Len(longer))[i] = longer[m + i]
      BY <1>1, <2>1
    <3> QED BY <2>1, <3>1
  <2>3. Len(next) = n
    BY <1>1, <1>2, <1>4, <2>2
  <2>4. next[Len(next)] = id
    <3>1. n \in 1..Len(next) /\ m + n = Len(ids) + 1
      BY <1>1, <1>2, <2>3
    <3> QED BY <1>1, <2>2, <2>3, <3>1
  <2>5. ASSUME NEW k \in 1..Len(ids), k < n
        PROVE  next[Len(next) - k] = ids[Len(ids) - k + 1] /\ k + 1 <= Len(next)
    <3>1. n - k \in 1..Len(next) /\ m + (n - k) = Len(ids) - k + 1 /\ Len(ids) - k + 1 \in 1..Len(ids)
          /\ k + 1 <= n
      BY <1>1, <1>2, <2>3, <2>5
    <3>2. next[n - k] = longer[m + (n - k)]
      BY <2>2, <3>1
    <3> QED BY <1>1, <2>3, <3>1, <3>2
  <2> QED BY <1>2, <2>2, <2>3, <2>4, <2>5
<1> QED BY <1>1, <1>2, <1>3, <1>4

\* What a log's ids become when it takes an observation.
LEMMA TakenIds ==
  ASSUME NEW log, NEW o
  PROVE  Taken(log, o).ids = Pushed(log.ids, o.observationId)
  BY DEF Taken, Pushed

\* Nothing is a log.
LEMMA EmptyLog == IsLog(Nothing)
  BY DEF IsLog, Nothing

\* What is recalled goes on being recalled when another observation is taken.
LEMMA RecallKept ==
  ASSUME NEW x, NEW y, IsSession(x), IsSession(y), NEW id, NEW n \in Nat, Recalls(x, id, n),
         NEW other, Takes(x, y, other)
  PROVE  Recalls(y, id, n)
<1> DEFINE ids == x.tracker.ids
           next == y.tracker.ids
           k == x.hearings - n
<1>1. /\ ids \in Seq(ObservationIds) /\ other \in ObservationIds /\ ObservationIdLimit \in Nat \ {0}
      /\ next = Pushed(ids, other)
      /\ x.hearings \in Nat /\ y.hearings = x.hearings + 1 /\ n < x.hearings
  BY CallsAssumption DEF Takes, IsSession, IsLog, Recalls
<1>2. k \in Nat \ {0} /\ y.hearings - n = k + 1 /\ n < y.hearings
  BY <1>1
<1>3. k <= ObservationIdLimit => k <= Len(ids) /\ ids[Len(ids) - k + 1] = id
  BY DEF Recalls
<1>4. /\ Len(next) \in Nat \ {0}
      /\ \A j \in 1..Len(ids) :
           j < ObservationIdLimit => j + 1 <= Len(next) /\ next[Len(next) - j] = ids[Len(ids) - j + 1]
  <2>1. ids \in Seq(ObservationIds) /\ other \in ObservationIds
    BY <1>1
  <2>2. next = Pushed(ids, other)
    BY <1>1
  <2> HIDE DEF ids, next
  <2> QED BY ONLY <2>1, <2>2, Windows, Zenon
<1> HIDE DEF ids, next, k
<1>5. k + 1 <= ObservationIdLimit => k + 1 <= Len(next) /\ next[Len(next) - (k + 1) + 1] = id
  <2> SUFFICES ASSUME k + 1 <= ObservationIdLimit PROVE k + 1 <= Len(next) /\ next[Len(next) - (k + 1) + 1] = id
    OBVIOUS
  <2>1. k \in 1..Len(ids) /\ k < ObservationIdLimit /\ k <= ObservationIdLimit
    BY <1>1, <1>2, <1>3
  <2>2. Len(next) - (k + 1) + 1 = Len(next) - k
    BY <1>2, <1>4
  <2>3. k + 1 <= Len(next) /\ next[Len(next) - k] = ids[Len(ids) - k + 1]
    BY ONLY <1>4, <2>1
  <2> QED BY <1>3, <2>1, <2>2, <2>3
<1> QED BY <1>2, <1>5 DEF Recalls, next

\* The session that takes an observation recalls it.
LEMMA TakenIsRecalled ==
  ASSUME NEW x, NEW y, IsSession(x), IsSession(y), NEW id, Takes(x, y, id)
  PROVE  Recalls(y, id, x.hearings)
<1> DEFINE next == y.tracker.ids
<1>1. /\ x.tracker.ids \in Seq(ObservationIds) /\ id \in ObservationIds /\ ObservationIdLimit \in Nat \ {0}
      /\ next = Pushed(x.tracker.ids, id)
      /\ x.hearings \in Nat /\ y.hearings = x.hearings + 1
  BY CallsAssumption DEF Takes, IsSession, IsLog
<1>2. Len(next) \in Nat \ {0} /\ next[Len(next)] = id
  <2>1. x.tracker.ids \in Seq(ObservationIds) /\ id \in ObservationIds
    BY <1>1
  <2>2. next = Pushed(x.tracker.ids, id)
    BY <1>1
  <2> HIDE DEF next
  <2> QED BY ONLY <2>1, <2>2, Windows, Zenon
<1> HIDE DEF next
<1>3. y.hearings - x.hearings = 1 /\ Len(next) - 1 + 1 = Len(next)
  BY <1>1, <1>2
<1> QED BY <1>1, <1>2, <1>3 DEF Recalls, next

\* What a session recalls, it does not take again within the window.
LEMMA RecalledIsNotTaken ==
  ASSUME NEW x, NEW y, IsSession(x), NEW id, NEW n \in Nat, Recalls(x, id, n), Takes(x, y, id)
  PROVE  n + ObservationIdLimit < x.hearings
<1> DEFINE ids == x.tracker.ids
           k == x.hearings - n
<1>1. /\ ids \in Seq(ObservationIds) /\ ObservationIdLimit \in Nat /\ x.hearings \in Nat /\ n < x.hearings
      /\ \A i \in DOMAIN ids : ids[i] # id
      /\ k <= ObservationIdLimit => k <= Len(ids) /\ ids[Len(ids) - k + 1] = id
  BY CallsAssumption DEF Takes, IsSession, IsLog, Recalls
<1> SUFFICES ASSUME k <= ObservationIdLimit PROVE FALSE
  BY <1>1
<1>2. Len(ids) - k + 1 \in DOMAIN ids
  BY <1>1
<1> QED BY <1>1, <1>2

\* What a reset and a deletion make of a session.
LEMMA ResetSessions ==
  ASSUME NEW x, IsSession(x)
  PROVE  LET reset == [x EXCEPT !.record = Nothing, !.tracker = Nothing, !.resets = @ + 1, !.torn = FALSE]
             deleted == [Unborn EXCEPT !.resets = x.resets, !.hearings = x.hearings]
         IN  /\ IsSession(reset) /\ reset.resets = x.resets + 1 /\ reset.record = Nothing /\ reset.tracker = Nothing
             /\ reset.stored = x.stored /\ reset.running = x.running
             /\ IsSession(deleted) /\ ~deleted.stored /\ ~deleted.running /\ deleted.resets = x.resets
<1>1. ASSUME NEW y, y = [x EXCEPT !.record = Nothing, !.tracker = Nothing, !.resets = @ + 1, !.torn = FALSE]
      PROVE  /\ IsSession(y) /\ y.resets = x.resets + 1 /\ y.record = Nothing /\ y.tracker = Nothing
             /\ y.stored = x.stored /\ y.running = x.running
  <2> DEFINE n == x.resets + 1
  <2>1. n \in Nat
    BY DEF IsSession
  <2>2. y = [x EXCEPT !.record = Nothing, !.tracker = Nothing, !.resets = n, !.torn = FALSE]
    BY <1>1
  <2> HIDE DEF n
  <2>4. /\ IsSession(y) /\ y.resets = n /\ y.record = Nothing /\ y.tracker = Nothing
        /\ y.stored = x.stored /\ y.running = x.running
    BY <2>1, <2>2, EmptyLog DEF IsSession
  <2> QED BY <2>4 DEF n
<1>2. x.resets \in Nat /\ x.hearings \in Nat
  BY DEF IsSession
<1>3. ASSUME NEW y, y = [Unborn EXCEPT !.resets = x.resets, !.hearings = x.hearings]
      PROVE  IsSession(y) /\ ~y.stored /\ ~y.running /\ y.resets = x.resets
  <2>1. y = [Unborn EXCEPT !.resets = x.resets, !.hearings = x.hearings]
    BY <1>3
  <2> QED BY <1>2, <2>1, EmptyLog DEF IsSession, Unborn
<1> QED BY <1>1, <1>3

\* What an observation that is taken makes of it.
LEMMA SessionChanges ==
  ASSUME NEW x, IsSession(x), NEW o, o.observationId \in ObservationIds
  PROVE  LET took == [x EXCEPT !.record = Taken(@, o), !.tracker = Taken(@, o), !.hearings = @ + 1]
         IN  /\ IsSession(took) /\ took.resets = x.resets /\ took.hearings = x.hearings + 1
             /\ took.tracker = Taken(x.tracker, o) /\ took.record = Taken(x.record, o)
             /\ took.stored = x.stored /\ took.running = x.running
<1>1. \A log : IsLog(log) => IsLog(Taken(log, o))
  <2> SUFFICES ASSUME NEW log, log.ids \in Seq(ObservationIds)
               PROVE  Pushed(log.ids, o.observationId) \in Seq(ObservationIds)
    BY TakenIds DEF IsLog
  <2> QED BY Windows
<1>2. ASSUME NEW y, y = [x EXCEPT !.record = Taken(@, o), !.tracker = Taken(@, o), !.hearings = @ + 1]
      PROVE  /\ IsSession(y) /\ y.resets = x.resets /\ y.hearings = x.hearings + 1
             /\ y.tracker = Taken(x.tracker, o) /\ y.record = Taken(x.record, o)
             /\ y.stored = x.stored /\ y.running = x.running
  <2> DEFINE n == x.hearings + 1
             record == Taken(x.record, o)
             tracker == Taken(x.tracker, o)
  <2>1. n \in Nat
    BY DEF IsSession
  <2>2. y = [x EXCEPT !.record = record, !.tracker = tracker, !.hearings = n]
    BY <1>2
  <2>3. IsLog(record) /\ IsLog(tracker)
    BY <1>1 DEF IsSession
  <2>4. x.record = x.tracker => record = tracker
    OBVIOUS
  <2> HIDE DEF n, record, tracker
  <2>5. /\ IsSession(y) /\ y.resets = x.resets /\ y.hearings = n /\ y.tracker = tracker /\ y.record = record
        /\ y.stored = x.stored /\ y.running = x.running
    BY <2>1, <2>2, <2>3, <2>4 DEF IsSession
  <2> QED BY <2>5 DEF n, record, tracker
<1> QED BY <1>2

\* What failures leave of them: one between the mutation and the write, and one
\* after the write of a deletion and of a creation.
LEMMA TornSessions ==
  ASSUME NEW x, IsSession(x), NEW y, IsSession(y)
  PROVE  LET torn == [y EXCEPT !.record = x.record, !.torn = TRUE]
         IN  /\ IsSession(torn) /\ torn.stored = y.stored /\ torn.running = y.running
             /\ torn.resets = y.resets /\ torn.hearings = y.hearings /\ torn.tracker = y.tracker
<1> SUFFICES ASSUME NEW z, z = [y EXCEPT !.record = x.record, !.torn = TRUE]
             PROVE  /\ IsSession(z) /\ z.stored = y.stored /\ z.running = y.running
                    /\ z.resets = y.resets /\ z.hearings = y.hearings /\ z.tracker = y.tracker
  OBVIOUS
<1> QED BY DEF IsSession

LEMMA LeftSessions ==
  ASSUME NEW x, IsSession(x), NEW y, IsSession(y), ~y.stored
  PROVE  LET left == [y EXCEPT !.running = x.running, !.tracker = x.tracker]
         IN  IsSession(left) /\ left.stored = y.stored /\ left.resets = y.resets /\ left.running = x.running
<1> SUFFICES ASSUME NEW z, z = [y EXCEPT !.running = x.running, !.tracker = x.tracker]
             PROVE  IsSession(z) /\ z.stored = y.stored /\ z.resets = y.resets /\ z.running = x.running
  OBVIOUS
<1> QED BY DEF IsSession

LEMMA StoppedSessions ==
  ASSUME NEW y, IsSession(y)
  PROVE  LET stopped == [y EXCEPT !.running = FALSE]
         IN  IsSession(stopped) /\ stopped.stored = y.stored /\ stopped.resets = y.resets
<1> SUFFICES ASSUME NEW z, z = [y EXCEPT !.running = FALSE]
             PROVE  IsSession(z) /\ z.stored = y.stored /\ z.resets = y.resets
  OBVIOUS
<1> QED BY DEF IsSession

\* What a creation leaves.
LEMMA NewSessions ==
  /\ IsSession(Unborn) /\ IsSession(NewSession) /\ NewSession.stored /\ ~Unborn.stored
  /\ NewSession.resets = 0 /\ Unborn.resets = 0
  BY EmptyLog DEF NewSession, Unborn, IsSession

\* Every outcome of an operation: it failed with one of its errors and the session
\* is what it was, or it is done and the session is what the operation promises,
\* whatever a failure of the store leaves of it.
LEMMA Outcomes ==
  ASSUME SessionsInv, NEW r, Arriving(r), Refusal(r).code = Absent,
         NEW fresh, fresh \in IF r.route = "create" THEN SessionIds \ usedIds ELSE {FirstSession},
         NEW s, s = IF r.route = "create" THEN fresh ELSE r.session,
         NEW outcome, outcome = Outcome(r.route, Command(r), fresh)
  PROVE  /\ s \in SessionIds /\ outcome.session = s
         /\ \/ outcome.next = sessions[s] /\ OutcomeError(r.route, outcome.error) /\ outcome.error # Absent
            \/ /\ outcome.error = Absent
               /\ Written(r, s, outcome.next) /\ Promised(r, s, outcome.next)
               /\ MayFail(r.route, outcome, "write") => Written(r, s, Left(r.route, outcome, "write"))
               /\ MayFail(r.route, outcome, "after") => Written(r, s, Left(r.route, outcome, "after"))
<1> DEFINE old == sessions[s]
           Fails(e) == outcome = Failed(s, e)
           Goes(next) == outcome = Done(s, next)
           Tears == MayFail(r.route, outcome, "write") => Written(r, s, Left(r.route, outcome, "write"))
           Leaves == MayFail(r.route, outcome, "after") => Written(r, s, Left(r.route, outcome, "after"))
           Good == /\ s \in SessionIds /\ outcome.session = s
                   /\ \/ outcome.next = old /\ OutcomeError(r.route, outcome.error) /\ outcome.error # Absent
                      \/ /\ outcome.error = Absent
                         /\ Written(r, s, outcome.next) /\ Promised(r, s, outcome.next)
                         /\ Tears /\ Leaves
<1> SUFFICES Good
  OBVIOUS
<1>1. /\ r.route \in {"create", "get", "reset", "observations", "resume", "delete"}
      /\ r.route # "create" => r.session \in SessionIds /\ Command(r).session = r.session
      /\ r.route = "observations" =>
           ObservationOf(r) = Command(r).observation.observationId /\ ObservationOf(r) \in ObservationIds
  BY PassedRequests
<1>2. s \in SessionIds /\ IsSession(old) /\ old.resets \in Nat /\ old.hearings \in Nat
  BY <1>1 DEF SessionsInv, IsSession
<1>3. ASSUME NEW e, Fails(e), OutcomeError(r.route, e) PROVE Good
  <2>1. e # Absent
    <3> DEFINE Errors == [trusted : BOOLEAN, code : ErrorCodes, retryable : BOOLEAN]
    <3>1. Trusted("SESSION_NOT_FOUND", FALSE) \in Errors /\ Trusted("STALE_REVISION", FALSE) \in Errors
      BY DEF Trusted, ErrorCodes
    <3>2. Trusted("INTERNAL_ERROR", TRUE) \in Errors /\ Trusted("INVALID_CORPUS", FALSE) \in Errors
      BY DEF Trusted, ErrorCodes
    <3> HIDE DEF Errors
    <3>3. e \in Errors
      BY <1>3, <3>1, <3>2 DEF OutcomeError
    <3> QED BY <3>3, CallsAssumption DEF Errors
  <2>2. outcome.session = s /\ outcome.next = old /\ outcome.error = e
    BY <1>3 DEF Failed
  <2> QED BY <1>2, <1>3, <2>1, <2>2
<1>4. ASSUME NEW next, Goes(next), Written(r, s, next), Promised(r, s, next), Tears, Leaves
      PROVE  Good
  <2>1. outcome.session = s /\ outcome.next = next /\ outcome.error = Absent
    BY <1>4 DEF Done
  <2> QED BY <1>2, <1>4, <2>1
<1> HIDE DEF Good
\* What a failure leaves of an operation that is done.
<1>5. ASSUME NEW next, Goes(next)
      PROVE  /\ outcome.session = s /\ outcome.next = next
             /\ Left(r.route, outcome, "write") = [next EXCEPT !.record = old.record, !.torn = TRUE]
             /\ Left(r.route, outcome, "after") =
                  IF r.route = "create" THEN [next EXCEPT !.running = FALSE]
                  ELSE IF r.route = "delete" THEN [next EXCEPT !.running = old.running, !.tracker = old.tracker]
                  ELSE next
             /\ MayFail(r.route, outcome, "write") => r.route \in {"reset", "observations"} /\ next # old
             /\ MayFail(r.route, outcome, "after") => next # old
  <2>1. outcome.session = s /\ outcome.next = next /\ outcome.error = Absent
    BY <1>5 DEF Done
  <2> HIDE DEF Goes
  <2> QED BY <2>1 DEF Left, MayFail
<1>6. OutcomeError(r.route, Trusted("SESSION_NOT_FOUND", FALSE))
  BY DEF OutcomeError
<1>7. CASE r.route = "create"
  <2>1. s = fresh /\ old = Unborn
    BY <1>7 DEF SessionsInv
  <2>2. outcome = CreateOutcome(Command(r), s)
    BY <1>7, <2>1 DEF Outcome
  <2>3. \/ Fails(Trusted("INTERNAL_ERROR", TRUE)) \/ Fails(Trusted("INVALID_CORPUS", FALSE))
        \/ Goes(NewSession)
    BY <2>2 DEF CreateOutcome
  <2>4. CASE Goes(NewSession)
    <3> DEFINE stopped == [NewSession EXCEPT !.running = FALSE]
    <3>1. IsSession(stopped) /\ stopped.stored /\ stopped.resets = 0
      BY NewSessions, StoppedSessions
    <3>2. ASSUME NEW next, IsSession(next), next.stored, next.resets = 0 PROVE Written(r, s, next)
      BY <1>7, <2>1, <3>2, NewSessions DEF Written
    <3>3. Left(r.route, outcome, "after") = stopped
      BY <1>5, <1>7, <2>4
    <3> HIDE DEF stopped
    <3>4. Leaves
      BY <3>1, <3>2, <3>3
    <3>5. Tears
      BY <1>5, <1>7, <2>4
    <3>6. Written(r, s, NewSession) /\ Promised(r, s, NewSession)
      BY <1>7, <3>2, NewSessions DEF Promised
    <3> QED BY <1>4, <2>4, <3>4, <3>5, <3>6
  <2>5. OutcomeError(r.route, Trusted("INTERNAL_ERROR", TRUE))
        /\ OutcomeError(r.route, Trusted("INVALID_CORPUS", FALSE))
    BY <1>7 DEF OutcomeError
  <2> QED BY <1>3, <2>3, <2>4, <2>5
<1>8. CASE r.route \in {"get", "resume"}
  <2>1. outcome = ReadOutcome(s)
    BY <1>1, <1>8 DEF Outcome
  <2>2. (Goes(old) /\ old.stored) \/ Fails(Trusted("SESSION_NOT_FOUND", FALSE))
    BY <2>1 DEF ReadOutcome, NotFound
  <2>3. CASE Goes(old) /\ old.stored
    <3>1. Written(r, s, old) /\ Promised(r, s, old)
      BY <1>2, <1>8, <2>3 DEF Written, Promised
    <3>2. Tears /\ Leaves
      BY <1>5, <2>3
    <3> QED BY <1>4, <2>3, <3>1, <3>2
  <2> QED BY <1>3, <1>6, <2>2, <2>3
<1>9. CASE r.route = "reset"
  <2> DEFINE next == [old EXCEPT !.record = Nothing, !.tracker = Nothing, !.resets = @ + 1, !.torn = FALSE]
             torn == [next EXCEPT !.record = old.record, !.torn = TRUE]
  <2>1. outcome = ResetOutcome(s)
    BY <1>1, <1>9 DEF Outcome
  <2>2. (Goes(next) /\ old.stored /\ old.running) \/ Fails(Trusted("SESSION_NOT_FOUND", FALSE))
    BY <2>1 DEF ResetOutcome, NotFound, Running
  <2>3. /\ IsSession(next) /\ next.resets = old.resets + 1 /\ next.record = Nothing /\ next.tracker = Nothing
        /\ next.stored = old.stored /\ next.running = old.running
    <3> HIDE DEF old
    <3> QED BY ONLY <1>2, ResetSessions
  <2> HIDE DEF next
  <2>4. IsSession(torn) /\ torn.resets = next.resets /\ torn.stored = next.stored /\ torn.running = next.running
    <3> HIDE DEF old
    <3> QED BY ONLY <1>2, <2>3, TornSessions
  <2>5. CASE Goes(next) /\ old.stored /\ old.running
    <3>1. Left(r.route, outcome, "after") = next /\ Left(r.route, outcome, "write") = torn
      BY <1>5, <1>9, <2>5
    <3> HIDE DEF torn
    <3>2. Written(r, s, next) /\ Written(r, s, torn)
      BY <1>2, <1>9, <2>3, <2>4, <2>5 DEF Written
    <3>3. Promised(r, s, next)
      BY <1>9, <2>3 DEF Promised
    <3> QED BY <1>4, <2>5, <3>1, <3>2, <3>3
  <2> QED BY <1>3, <1>6, <2>2, <2>5
<1>10. CASE r.route = "observations"
  <2> DEFINE o == Command(r).observation
             id == ObservationOf(r)
             next == [old EXCEPT !.record = Taken(@, o), !.tracker = Taken(@, o), !.hearings = @ + 1]
             torn == [next EXCEPT !.record = old.record, !.torn = TRUE]
  <2>1. outcome = SubmitOutcome(Command(r), s) /\ o.observationId = id /\ id \in ObservationIds
    BY <1>1, <1>10 DEF Outcome
  <2>2. \/ Goes(old) /\ old.stored /\ Remembers(old.record, o)
        \/ /\ Goes(old) /\ old.stored /\ old.running /\ ~Remembers(old.record, o) /\ ~Outdated(old.record, o)
           /\ Remembers(old.tracker, o) \/ Outdated(old.tracker, o)
        \/ Goes(next) /\ old.stored /\ old.running /\ ~Remembers(old.tracker, o)
        \/ Fails(Trusted("SESSION_NOT_FOUND", FALSE)) \/ Fails(Trusted("STALE_REVISION", FALSE))
    BY <2>1 DEF SubmitOutcome, NotFound
  <2>3. /\ IsSession(next) /\ next.resets = old.resets /\ next.hearings = old.hearings + 1
        /\ next.tracker = Taken(old.tracker, o) /\ next.record = Taken(old.record, o)
        /\ next.stored = old.stored /\ next.running = old.running
    <3>1. o.observationId \in ObservationIds
      BY <2>1
    <3> HIDE DEF old, o
    <3> QED BY ONLY <1>2, <3>1, SessionChanges
  <2>4. CASE Goes(old) /\ old.stored /\ Promised(r, s, old)
    <3>1. Written(r, s, old)
      BY <1>2, <1>10, <2>4 DEF Written
    <3>2. Tears /\ Leaves
      BY <1>5, <2>4
    <3> QED BY <1>4, <2>4, <3>1, <3>2
  <2>5. CASE Goes(old) /\ old.stored /\ Remembers(old.record, o)
    <3>1. Promised(r, s, old)
      BY <1>10, <2>1, <2>5 DEF Promised, Remembers
    <3> QED BY <2>4, <2>5, <3>1
  <2>6. CASE /\ Goes(old) /\ old.stored /\ old.running /\ ~Remembers(old.record, o) /\ ~Outdated(old.record, o)
             /\ Remembers(old.tracker, o) \/ Outdated(old.tracker, o)
    <3>1. old.torn
      <4>1. old.record # old.tracker
        BY <2>6
      <4> QED BY <1>2, <2>6, <4>1 DEF IsSession
    <3>2. Promised(r, s, old)
      BY <1>10, <3>1 DEF Promised
    <3> QED BY <2>4, <2>6, <3>2
  <2>7. CASE Goes(next) /\ old.stored /\ old.running /\ ~Remembers(old.tracker, o)
    <3>1. Left(r.route, outcome, "after") = next /\ Left(r.route, outcome, "write") = torn
      BY <1>5, <1>10, <2>7
    <3> HIDE DEF next
    <3>2. /\ IsSession(torn) /\ torn.stored = next.stored /\ torn.running = next.running
          /\ torn.resets = next.resets /\ torn.hearings = next.hearings /\ torn.tracker = next.tracker
      <4> HIDE DEF old
      <4> QED BY ONLY <1>2, <2>3, TornSessions
    <3> HIDE DEF torn, o, id
    <3>3. \A i \in DOMAIN old.tracker.ids : old.tracker.ids[i] # id
      BY <2>1, <2>7 DEF Remembers
    <3>4. next.tracker.ids = Pushed(old.tracker.ids, id) /\ next.record.ids = Pushed(old.record.ids, id)
      BY <2>1, <2>3, TakenIds
    <3>5. Takes(old, next, id) /\ Takes(old, torn, id)
      BY <2>1, <2>3, <2>7, <3>2, <3>3, <3>4 DEF Takes
    <3>6. Written(r, s, next) /\ Written(r, s, torn)
      BY <1>2, <1>10, <2>3, <2>7, <3>2, <3>5 DEF Written, id
    <3>7. Promised(r, s, next)
      <4> DEFINE ids == next.record.ids
      <4>1. old.record.ids \in Seq(ObservationIds)
        BY <1>2 DEF IsSession, IsLog
      <4>2. ids \in Seq(ObservationIds) /\ Len(ids) \in Nat \ {0} /\ ids[Len(ids)] = id
        <5> HIDE DEF ids
        <5>1. ids = Pushed(old.record.ids, id)
          BY <3>4 DEF ids
        <5> HIDE DEF old
        <5> QED BY ONLY <2>1, <4>1, <5>1, Windows, Zenon
      <4> HIDE DEF ids
      <4>3. \E i \in DOMAIN ids : ids[i] = id
        BY <4>2
      <4> QED BY <1>10, <4>3 DEF Promised, ids, id
    <3> QED BY <1>4, <2>7, <3>1, <3>6, <3>7
  <2>8. OutcomeError(r.route, Trusted("STALE_REVISION", FALSE))
    BY <1>10 DEF OutcomeError
  <2> QED BY <1>3, <1>6, <2>2, <2>5, <2>6, <2>7, <2>8
<1>11. CASE r.route = "delete"
  <2> DEFINE next == [Unborn EXCEPT !.resets = old.resets, !.hearings = old.hearings]
             left == [next EXCEPT !.running = old.running, !.tracker = old.tracker]
  <2>1. outcome = DeleteOutcome(s)
    BY <1>1, <1>11 DEF Outcome
  <2>2. (Goes(next) /\ old.stored) \/ Fails(Trusted("SESSION_NOT_FOUND", FALSE))
    BY <2>1 DEF DeleteOutcome, NotFound
  <2>3. IsSession(next) /\ ~next.stored /\ ~next.running /\ next.resets = old.resets
    <3> HIDE DEF old
    <3> QED BY ONLY <1>2, ResetSessions
  <2> HIDE DEF next
  <2>4. IsSession(left) /\ ~left.stored /\ left.resets = old.resets /\ left.running = old.running
    <3> HIDE DEF old
    <3> QED BY ONLY <1>2, <2>3, LeftSessions
  <2>5. CASE Goes(next) /\ old.stored
    <3>1. Left(r.route, outcome, "after") = left
      BY <1>5, <1>11, <2>5
    <3>2. Tears
      BY <1>5, <1>11, <2>5
    <3> HIDE DEF left
    <3>3. Written(r, s, next) /\ Written(r, s, left)
      BY <1>2, <1>11, <2>3, <2>4, <2>5 DEF Written
    <3>4. Promised(r, s, next)
      BY <1>11, <2>3 DEF Promised
    <3> QED BY <1>4, <2>5, <3>1, <3>2, <3>3, <3>4
  <2> QED BY <1>3, <1>6, <2>2, <2>5
<1> QED BY <1>1, <1>7, <1>8, <1>9, <1>10, <1>11

-----------------------------------------------------------------------------
\* What the server does with a request.

\* The answer to a failure.
Internal == [status |-> 500, code |-> "INTERNAL_ERROR", retryable |-> FALSE]

\* Whatever is thrown, respond makes it an internal error.
LEMMA InternalAnswer == ErrorAnswer(SafeError(Thrown)) = Internal /\ Thrown # Absent
<1>1. ErrorAnswer(SafeError(Thrown)) = Internal
  BY DEF ErrorAnswer, SafeError, Thrown, ErrorStatus, Refuse, Internal
<1>2. Thrown \in [trusted : BOOLEAN, code : ErrorCodes, retryable : BOOLEAN]
  BY DEF Thrown, ErrorCodes
<1> QED BY <1>1, <1>2, CallsAssumption

\* The answers to the errors of operations.
LEMMA OutcomeAnswers ==
  \A route, error : OutcomeError(route, error) =>
    LET answer == ErrorAnswer(SafeError(error))
    IN  /\ answer.code \in Answers /\ answer.status \in {400, 404, 409, 503}
        /\ answer.retryable \in BOOLEAN
        /\ answer.retryable => route = "create" /\ answer.status = 503
<1> SUFFICES ASSUME NEW route, NEW error, OutcomeError(route, error)
             PROVE  LET answer == ErrorAnswer(SafeError(error))
                    IN  /\ answer.code \in Answers /\ answer.status \in {400, 404, 409, 503}
                        /\ answer.retryable \in BOOLEAN
                        /\ answer.retryable => route = "create" /\ answer.status = 503
  OBVIOUS
<1>1. CASE error = Trusted("SESSION_NOT_FOUND", FALSE)
  BY <1>1 DEF Trusted, ErrorAnswer, SafeError, ErrorStatus, Answers
<1>2. CASE route = "create" /\ error = Trusted("INTERNAL_ERROR", TRUE)
  BY <1>2 DEF Trusted, ErrorAnswer, SafeError, ErrorStatus, Answers, Retried
<1>3. CASE route = "create" /\ error = Trusted("INVALID_CORPUS", FALSE)
  BY <1>3 DEF Trusted, ErrorAnswer, SafeError, ErrorStatus, Answers
<1>4. CASE route = "observations" /\ error = Trusted("STALE_REVISION", FALSE)
  BY <1>4 DEF Trusted, ErrorAnswer, SafeError, ErrorStatus, Answers
<1> QED BY <1>1, <1>2, <1>3, <1>4 DEF OutcomeError

\* The answers to what the routes refuse.
LEMMA RefusalAnswers ==
  \A code \in ErrorCodes \ {"STALE_REVISION"} :
    LET answer == ErrorAnswer(Refuse(code))
    IN  /\ answer.status \in {400, 404, 500} /\ answer.retryable = FALSE
        /\ answer.status = 500 => code = "INTERNAL_ERROR"
  BY DEF ErrorAnswer, Refuse, ErrorStatus, ErrorCodes

\* The session that a request is about: a fresh one, or the one in its path.
Target(r, s) ==
  /\ s \in SessionIds
  /\ IF r.route = "create" THEN s \notin usedIds /\ usedIds' = usedIds \cup {s}
     ELSE s = r.session /\ usedIds' = usedIds

\* What the history keeps of a change.
Effect(r, tag, s) ==
  [tag |-> tag, route |-> r.route, session |-> s, resets |-> sessions[s].resets,
   hearings |-> sessions[s].hearings]

\* The three ways a request ends: the routes refuse it, it does nothing, or it
\* is written.
RouteRefuses(r, failure) ==
  /\ failure = "none" /\ Refusal(r).code # Absent
  /\ handled'.answer = ErrorAnswer(Refusal(r))
  /\ UNCHANGED <<sessions, usedIds, effects>>

NothingWritten(r, failure) ==
  /\ Refusal(r).code = Absent
  /\ \E s : Target(r, s)
  /\ UNCHANGED <<sessions, effects>>
  /\ \/ failure = "none" /\ \E error : OutcomeError(r.route, error) /\ handled'.answer = ErrorAnswer(SafeError(error))
     \/ failure = "before" /\ handled'.answer = Internal

SessionWritten(r, tag, failure) ==
  /\ Refusal(r).code = Absent
  /\ \E s, next :
       /\ Target(r, s) /\ Written(r, s, next)
       /\ sessions' = [sessions EXCEPT ![s] = next]
       /\ effects' = IF next = sessions[s] \/ tag = 0 THEN effects ELSE effects \cup {Effect(r, tag, s)}
       /\ \/ failure = "none" /\ handled'.answer = Success(r.route) /\ Promised(r, s, next)
          \/ failure # "none" /\ handled'.answer = Internal

\* There is no other way, wherever the store fails.
LEMMA Handling ==
  ASSUME SessionsInv, NEW r, Arriving(r), NEW tag,
         NEW failure \in {"none", "before", "write", "after"}, Handle(r, tag, failure)
  PROVE  /\ handled'.route = r.route /\ handled'.session = r.session
         /\ handled'.observation = ObservationOf(r) /\ handled'.failure = failure
         /\ \/ RouteRefuses(r, failure)
            \/ NothingWritten(r, failure)
            \/ SessionWritten(r, tag, failure)
<1> DEFINE Answered(answer) ==
             handled' = [turn |-> 1 - handled.turn, route |-> r.route, session |-> r.session,
                         observation |-> ObservationOf(r), failure |-> failure, answer |-> answer]
<1>1. ASSUME NEW answer, Answered(answer)
      PROVE  /\ handled'.route = r.route /\ handled'.session = r.session
             /\ handled'.observation = ObservationOf(r) /\ handled'.failure = failure
             /\ handled'.answer = answer
  BY <1>1
<1>2. CASE Refusal(r).code # Absent
  <2>1. Answered(ErrorAnswer(Refusal(r))) /\ failure = "none" /\ UNCHANGED <<sessions, usedIds, effects>>
    BY <1>2 DEF Handle
  <2> HIDE DEF Answered
  <2> QED BY <1>1, <1>2, <2>1 DEF RouteRefuses
<1>3. CASE Refusal(r).code = Absent
  <2> DEFINE Change(s, next) ==
               /\ sessions' = [sessions EXCEPT ![s] = next]
               /\ effects' = IF next = sessions[s] \/ tag = 0 THEN effects
                             ELSE effects \cup {Effect(r, tag, s)}
  <2>1. PICK fresh \in IF r.route = "create" THEN SessionIds \ usedIds ELSE {FirstSession} :
          LET outcome == Outcome(r.route, Command(r), fresh)
              error   == IF failure = "none" THEN outcome.error ELSE Thrown
          IN  /\ MayFail(r.route, outcome, failure)
              /\ usedIds' = IF r.route = "create" THEN usedIds \cup {fresh} ELSE usedIds
              /\ Answered(IF error = Absent THEN Success(r.route) ELSE ErrorAnswer(SafeError(error)))
              /\ Change(outcome.session, Left(r.route, outcome, failure))
    BY <1>3 DEF Handle, Effect
  <2> DEFINE outcome == Outcome(r.route, Command(r), fresh)
             s == IF r.route = "create" THEN fresh ELSE r.session
             next == Left(r.route, outcome, failure)
  <2>2. /\ s \in SessionIds /\ outcome.session = s
        /\ \/ outcome.next = sessions[s] /\ OutcomeError(r.route, outcome.error) /\ outcome.error # Absent
           \/ /\ outcome.error = Absent
              /\ Written(r, s, outcome.next) /\ Promised(r, s, outcome.next)
              /\ MayFail(r.route, outcome, "write") => Written(r, s, Left(r.route, outcome, "write"))
              /\ MayFail(r.route, outcome, "after") => Written(r, s, Left(r.route, outcome, "after"))
    BY <1>3, <2>1, Outcomes
  <2>3. usedIds' = IF r.route = "create" THEN usedIds \cup {fresh} ELSE usedIds
    BY <2>1
  <2>4. Target(r, s)
    BY <2>1, <2>2, <2>3 DEF Target
  <2>5. MayFail(r.route, outcome, failure) /\ Change(s, next)
    BY <2>1, <2>2
  <2>6. Answered(IF (IF failure = "none" THEN outcome.error ELSE Thrown) = Absent THEN Success(r.route)
                 ELSE ErrorAnswer(SafeError(IF failure = "none" THEN outcome.error ELSE Thrown)))
    BY <2>1
  <2> HIDE DEF outcome, s, Answered, next
  <2>7. CASE failure = "none"
    <3>1. next = outcome.next
      BY <2>7 DEF next, Left
    <3>2. CASE outcome.error # Absent
      <4>1. Answered(ErrorAnswer(SafeError(outcome.error))) /\ OutcomeError(r.route, outcome.error)
            /\ outcome.next = sessions[s]
        BY <2>2, <2>6, <2>7, <3>2
      <4>2. sessions' = sessions /\ effects' = effects
        BY <2>5, <3>1, <4>1 DEF SessionsInv
      <4> QED BY <1>1, <1>3, <2>4, <2>7, <4>1, <4>2 DEF NothingWritten
    <3>3. CASE outcome.error = Absent
      <4>1. Answered(Success(r.route)) /\ Written(r, s, next) /\ Promised(r, s, next)
        BY <2>2, <2>6, <2>7, <3>1, <3>3
      <4>2. SessionWritten(r, tag, failure)
        BY <1>1, <1>3, <2>4, <2>5, <2>7, <4>1 DEF SessionWritten
      <4> QED BY <1>1, <4>1, <4>2
    <3> QED BY <3>2, <3>3
  <2>8. failure # "none" => Answered(Internal)
    BY <2>6, InternalAnswer
  <2>9. CASE failure = "before"
    <3>1. next = sessions[s]
      BY <2>2, <2>9 DEF next, Left
    <3>2. sessions' = sessions /\ effects' = effects
      BY <2>5, <3>1 DEF SessionsInv
    <3> QED BY <1>1, <1>3, <2>4, <2>8, <2>9, <3>2 DEF NothingWritten
  <2>10. CASE failure \in {"write", "after"}
    <3>1. outcome.error = Absent
      BY <2>5, <2>10 DEF MayFail
    <3>2. Written(r, s, next)
      BY <2>2, <2>5, <2>10, <3>1 DEF next
    <3>3. SessionWritten(r, tag, failure)
      BY <1>1, <1>3, <2>4, <2>5, <2>8, <2>10, <3>2 DEF SessionWritten
    <3> QED BY <1>1, <2>8, <2>10, <3>3
  <2> QED BY <2>7, <2>9, <2>10
<1> QED BY <1>2, <1>3

-----------------------------------------------------------------------------
\* What a request changes, and its answer.

\* A session that exists keeps its resets, is not stored or run again, and unless it
\* is reset or deleted it takes an observation or stays as it is.
Continues(s) ==
  /\ s \in usedIds' /\ sessions'[s].resets >= sessions[s].resets
  /\ sessions'[s].stored /\ sessions'[s].running => sessions[s].stored /\ sessions[s].running
  /\ sessions'[s].stored /\ sessions'[s].running /\ sessions'[s].resets = sessions[s].resets =>
       sessions'[s] = sessions[s] \/ \E id : Takes(sessions[s], sessions'[s], id)

\* No request makes a session anything else.
LEMMA SessionsContinue ==
  ASSUME SessionsInv, NEW r, Arriving(r), NEW tag,
         NEW failure \in {"none", "before", "write", "after"}, Handle(r, tag, failure)
  PROVE  SessionsInv' /\ \A s \in usedIds : Continues(s)
<1>1. \A s \in SessionIds : sessions[s].resets \in Nat
  BY DEF SessionsInv, IsSession
<1>2. CASE RouteRefuses(r, failure)
  BY <1>1, <1>2 DEF RouteRefuses, SessionsInv, Continues
<1>3. CASE NothingWritten(r, failure)
  BY <1>1, <1>3 DEF NothingWritten, Target, SessionsInv, Continues
<1>4. CASE SessionWritten(r, tag, failure)
  <2>1. PICK s, next : /\ Target(r, s) /\ Written(r, s, next)
                       /\ sessions' = [sessions EXCEPT ![s] = next]
    BY <1>4 DEF SessionWritten
  <2>2. /\ s \in SessionIds /\ sessions' = [t \in SessionIds |-> sessions'[t]]
        /\ sessions'[s] = next /\ \A t \in SessionIds : t # s => sessions'[t] = sessions[t]
    BY <2>1 DEF SessionsInv, Target
  <2>3. \A t \in SessionIds : IsSession(sessions'[t])
    BY <2>1, <2>2 DEF SessionsInv, Written
  <2>4. /\ FirstSession \in usedIds' /\ usedIds' \subseteq SessionIds
        /\ \A t \in SessionIds \ usedIds' : sessions'[t] = Unborn
    <3>1. s \in usedIds'
      BY <2>1, NewSessions DEF Target, Written, SessionsInv
    <3> QED BY <2>1, <2>2, <3>1 DEF Target, SessionsInv
  <2>5. ASSUME NEW t \in usedIds PROVE Continues(t)
    <3>1. t \in SessionIds /\ t \in usedIds'
      BY <2>1 DEF SessionsInv, Target
    <3>2. CASE t # s
      BY <1>1, <2>2, <3>1, <3>2 DEF Continues
    <3>3. CASE t = s
      <4>1. r.route # "create"
        BY <2>1, <3>3 DEF Target
      <4>2. r.route \in {"get", "reset", "observations", "resume", "delete"}
        BY <1>4, <4>1, PassedRequests DEF SessionWritten
      <4>3. /\ sessions[s].stored /\ (next.running => sessions[s].running) /\ next.resets >= sessions[s].resets
            /\ next.stored /\ next.resets = sessions[s].resets =>
                 next = sessions[s] \/ \E id : Takes(sessions[s], next, id)
        <5>1. sessions[s].resets \in Nat
          BY <1>1, <3>1, <3>3
        <5> QED BY <2>1, <4>1, <4>2, <5>1 DEF Written
      <4> QED BY <2>2, <3>1, <3>3, <4>3 DEF Continues
    <3> QED BY <3>2, <3>3
  <2> QED BY <2>2, <2>3, <2>4, <2>5 DEF SessionsInv
<1> QED BY <1>2, <1>3, <1>4, Handling

\* What a step of the server adds to the history of effects.
NewEffect(r, tag, s) ==
  /\ effects' = effects \cup {Effect(r, tag, s)}
  /\ tag # 0 /\ s \in usedIds' /\ sessions[s].resets \in Nat /\ sessions[s].resets <= sessions'[s].resets
  /\ sessions[s].hearings \in Nat
  /\ r.route \notin {"get", "resume"}
  /\ r.route = "observations" => s = r.session /\ Takes(sessions[s], sessions'[s], ObservationOf(r))

\* A request adds one effect at most, and a submission only when the session takes
\* its observation.
LEMMA EffectsGrow ==
  ASSUME SessionsInv, NEW r, Arriving(r), NEW tag,
         NEW failure \in {"none", "before", "write", "after"}, Handle(r, tag, failure)
  PROVE  effects' = effects \/ \E s : NewEffect(r, tag, s)
<1>1. CASE RouteRefuses(r, failure) \/ NothingWritten(r, failure)
  BY <1>1 DEF RouteRefuses, NothingWritten
<1>2. CASE SessionWritten(r, tag, failure)
  <2>1. PICK s, next : /\ Target(r, s) /\ Written(r, s, next)
                       /\ sessions' = [sessions EXCEPT ![s] = next]
                       /\ effects' = IF next = sessions[s] \/ tag = 0 THEN effects
                                     ELSE effects \cup {Effect(r, tag, s)}
    BY <1>2 DEF SessionWritten
  <2>2. sessions'[s] = next /\ s \in SessionIds /\ sessions[s].resets \in Nat /\ next.resets \in Nat
        /\ sessions[s].hearings \in Nat
    BY <2>1 DEF SessionsInv, Target, IsSession, Written
  <2>3. s \in usedIds'
    BY <2>1, NewSessions DEF Target, Written, SessionsInv
  <2>4. CASE next # sessions[s] /\ tag # 0
    <3>1. NewEffect(r, tag, s)
      BY <2>1, <2>2, <2>3, <2>4 DEF NewEffect, Written, Target
    <3> QED BY <3>1
  <2> QED BY <2>1, <2>4
<1> QED BY <1>1, <1>2, Handling

\* What the server answers to the client's own requests.
LEMMA OwnAnswers ==
  ASSUME SessionsInv, NEW r, Arriving(r), Refusal(r).code = Absent, NEW tag, tag # 0,
         NEW failure \in {"none", "before", "write", "after"}, Handle(r, tag, failure)
  PROVE  /\ handled'.answer.code \in Answers \cup {Absent}
         /\ handled'.answer.code # Absent /\ r.route \in Retried => handled'.answer.retryable = FALSE
         /\ r.route \in {"create", "reset", "delete"} =>
              /\ handled'.answer.code = Absent => \E e \in effects' : e.tag = tag
              /\ handled'.answer.code \in Refused => effects' = effects
<1>1. Absent \notin Answers
  BY MarkersAssumption DEF Answers, ErrorCodes
<1>2. /\ Internal.code \in Answers /\ Internal.code \notin Refused /\ Internal.retryable = FALSE
      /\ Internal.code # Absent
  BY <1>1 DEF Internal, Answers, Refused
<1>3. CASE NothingWritten(r, failure)
  <2>1. CASE handled'.answer = Internal
    BY <1>2, <2>1
  <2>2. CASE \E error : OutcomeError(r.route, error) /\ handled'.answer = ErrorAnswer(SafeError(error))
    <3>1. PICK error : OutcomeError(r.route, error) /\ handled'.answer = ErrorAnswer(SafeError(error))
      BY <2>2
    <3>2. /\ handled'.answer.code \in Answers /\ handled'.answer.retryable \in BOOLEAN
          /\ handled'.answer.retryable => r.route = "create"
      BY ONLY <3>1, OutcomeAnswers
    <3> QED BY <1>1, <1>3, <3>2 DEF NothingWritten, Retried
  <2> QED BY <1>3, <2>1, <2>2 DEF NothingWritten
<1>4. CASE SessionWritten(r, tag, failure)
  <2>1. PICK s, next :
          /\ Written(r, s, next)
          /\ effects' = IF next = sessions[s] \/ tag = 0 THEN effects
                        ELSE effects \cup {Effect(r, tag, s)}
          /\ handled'.answer = Success(r.route) \/ handled'.answer = Internal
    BY <1>4 DEF SessionWritten
  <2>2. r.route \in {"create", "reset", "delete"} => \E e \in effects' : e.tag = tag
    <3> SUFFICES ASSUME r.route \in {"create", "reset", "delete"} PROVE \E e \in effects' : e.tag = tag
      OBVIOUS
    <3>1. effects' = effects \cup {Effect(r, tag, s)}
      BY <2>1 DEF Written
    <3>2. Effect(r, tag, s).tag = tag
      BY DEF Effect
    <3> QED BY <3>1, <3>2
  <2>3. CASE handled'.answer = Internal
    BY <1>2, <2>3
  <2>4. CASE handled'.answer = Success(r.route)
    <3>1. handled'.answer.code = Absent
      BY <2>4 DEF Success
    <3> QED BY <1>1, <2>2, <3>1 DEF Answers, Refused
  <2> QED BY <2>1, <2>3, <2>4
<1>5. ~RouteRefuses(r, failure)
  BY DEF RouteRefuses
<1> QED BY <1>3, <1>4, <1>5, Handling

\* Failures are answered as internal errors, whatever the request was.
LEMMA HandledAnswers ==
  ASSUME SessionsInv, NEW r, Arriving(r), NEW tag,
         NEW failure \in {"none", "before", "write", "after"}, Handle(r, tag, failure)
  PROVE  HandledInv'
<1>1. handled'.failure = failure /\ handled'.route = r.route /\ handled'.observation = ObservationOf(r)
  BY Handling
<1>2. CASE RouteRefuses(r, failure)
  <2> DEFINE code == Refusal(r).code
  <2>1. Refusal(r) = Refuse(code) /\ code \in ErrorCodes \ {"STALE_REVISION"}
    BY <1>2, RefusedRequests DEF RouteRefuses
  <2>2. handled'.answer = ErrorAnswer(Refuse(code)) /\ failure = "none"
    BY <1>2, <2>1 DEF RouteRefuses
  <2>3. handled'.answer.retryable = FALSE
    <3> HIDE DEF code
    <3> QED BY ONLY <2>1, <2>2, RefusalAnswers
  <2> QED BY <1>1, <2>1, <2>2, <2>3 DEF HandledInv
<1>3. CASE failure = "none" /\ \E error : OutcomeError(r.route, error) /\ handled'.answer = ErrorAnswer(SafeError(error))
  <2>1. handled'.answer.retryable => r.route = "create" /\ handled'.answer.status = 503
    <3>1. PICK error : OutcomeError(r.route, error) /\ handled'.answer = ErrorAnswer(SafeError(error))
      BY <1>3
    <3> QED BY ONLY <3>1, OutcomeAnswers
  <2> QED BY <1>1, <1>3, <2>1 DEF HandledInv
<1>4. CASE failure = "none" /\ handled'.answer = Success(r.route)
  <2>1. handled'.answer.code = Absent
    BY <1>4 DEF Success
  <2> QED BY <1>1, <1>4, <2>1 DEF HandledInv
<1>5. CASE failure # "none" /\ handled'.answer = Internal
  BY <1>1, <1>5 DEF HandledInv, Internal
<1> QED BY <1>2, <1>3, <1>4, <1>5, Handling DEF NothingWritten, SessionWritten

\* The body of the action property.
AnswerMatches ==
  LET route  == handled'.route
      status == handled'.answer.status
      s      == handled'.session
      Recorded == \E i \in DOMAIN sessions'[s].record.ids :
                    sessions'[s].record.ids[i] = handled'.observation
  IN  /\ \A t \in SessionIds \ {s} : route # "create" => sessions'[t] = sessions[t]
      /\ status \in 400..499 => sessions' = sessions
      /\ status = 200 =>
           CASE route = "reset" -> /\ sessions'[s].resets = sessions[s].resets + 1
                                   /\ sessions'[s].record = Nothing /\ sessions'[s].tracker = Nothing
             [] route = "observations" -> Recorded \/ (sessions[s].torn /\ sessions' = sessions)
             [] route = "delete" -> ~sessions'[s].stored /\ ~sessions'[s].running
             [] OTHER -> sessions' = sessions

\* Every request that is handled is answered by what it did.
LEMMA HandlingMatches ==
  ASSUME SessionsInv, NEW r, Arriving(r), NEW tag,
         NEW failure \in {"none", "before", "write", "after"}, Handle(r, tag, failure)
  PROVE  AnswerMatches
<1>1. handled'.route = r.route /\ handled'.session = r.session /\ handled'.observation = ObservationOf(r)
  BY Handling
<1>2. CASE RouteRefuses(r, failure)
  <2>1. PICK code \in ErrorCodes \ {"STALE_REVISION"} : Refusal(r) = Refuse(code)
    BY <1>2, RefusedRequests DEF RouteRefuses
  <2>2. handled'.answer.status \in {400, 404, 500} /\ sessions' = sessions
    <3>1. handled'.answer = ErrorAnswer(Refuse(code)) /\ sessions' = sessions
      BY <1>2, <2>1 DEF RouteRefuses
    <3>2. code \in ErrorCodes \ {"STALE_REVISION"}
      BY <2>1
    <3> QED BY ONLY <3>1, <3>2, RefusalAnswers
  <2> QED BY <2>2 DEF AnswerMatches
<1>3. CASE NothingWritten(r, failure)
  <2>1. sessions' = sessions
    BY <1>3 DEF NothingWritten
  <2>2. handled'.answer.status \in {400, 404, 409, 500, 503}
    <3>1. CASE handled'.answer = Internal
      BY <3>1 DEF Internal
    <3>2. CASE \E error : OutcomeError(r.route, error) /\ handled'.answer = ErrorAnswer(SafeError(error))
      <4>1. PICK error : OutcomeError(r.route, error) /\ handled'.answer = ErrorAnswer(SafeError(error))
        BY <3>2
      <4>2. handled'.answer.status \in {400, 404, 409, 503}
        BY ONLY <4>1, OutcomeAnswers
      <4> QED BY <4>2
    <3> QED BY <1>3, <3>1, <3>2 DEF NothingWritten
  <2> QED BY <2>1, <2>2 DEF AnswerMatches
<1>4. CASE SessionWritten(r, tag, failure)
  <2>1. PICK s, next :
          /\ Target(r, s) /\ Written(r, s, next) /\ sessions' = [sessions EXCEPT ![s] = next]
          /\ \/ failure = "none" /\ handled'.answer = Success(r.route) /\ Promised(r, s, next)
             \/ failure # "none" /\ handled'.answer = Internal
    BY <1>4 DEF SessionWritten
  <2>2. sessions'[s] = next /\ \A t \in SessionIds : t # s => sessions'[t] = sessions[t]
    BY <2>1 DEF SessionsInv, Target
  <2>3. r.route # "create" => s = r.session
    BY <2>1 DEF Target
  <2>4. CASE handled'.answer = Internal
    <3>1. handled'.answer.status = 500
      BY <2>4 DEF Internal
    <3> QED BY <1>1, <2>2, <2>3, <3>1 DEF AnswerMatches
  <2>5. CASE handled'.answer = Success(r.route) /\ Promised(r, s, next)
    <3>1. handled'.answer.status = IF r.route = "create" THEN 201 ELSE 200
      BY <2>5 DEF Success
    <3>2. r.route \in {"get", "resume"} => sessions' = sessions
      BY <2>1 DEF Written, SessionsInv
    <3>3. r.route \in {"create", "get", "reset", "observations", "resume", "delete"}
      <4>1. Refusal(r).code = Absent
        BY <1>4 DEF SessionWritten
      <4> QED BY <4>1, PassedRequests
    <3>4. next = sessions[s] => sessions' = sessions
      BY <2>1 DEF SessionsInv
    <3>5. r.route = "create" => AnswerMatches
      BY <1>1, <2>5, <3>1 DEF AnswerMatches
    <3>6. r.route # "create" => \A t \in SessionIds \ {r.session} : sessions'[t] = sessions[t]
      BY <2>2, <2>3
    <3>7. r.route \in {"get", "resume"} => AnswerMatches
      BY <1>1, <3>1, <3>2, <3>6 DEF AnswerMatches
    <3>8. r.route = "reset" => AnswerMatches
      BY <1>1, <2>1, <2>2, <2>3, <2>5, <3>1, <3>6 DEF AnswerMatches, Written, Promised
    <3>9. r.route = "observations" => AnswerMatches
      BY <1>1, <2>2, <2>3, <2>5, <3>1, <3>4, <3>6 DEF AnswerMatches, Promised
    <3>10. r.route = "delete" => AnswerMatches
      BY <1>1, <2>2, <2>3, <2>5, <3>1, <3>6 DEF AnswerMatches, Promised
    <3> QED BY <3>3, <3>5, <3>7, <3>8, <3>9, <3>10
  <2> QED BY <2>1, <2>4, <2>5
<1> QED BY <1>2, <1>3, <1>4, Handling

-----------------------------------------------------------------------------
\* The client's steps.

\* The steps of the client leave the service alone.
ServiceUnchanged == UNCHANGED <<sessions, usedIds, effects>>

\* They answer nothing.
LEMMA QuietIsHandled == handled' = Quiet => HandledInv'
  BY DEF Quiet, HandledInv

\* The initial state.
LEMMA InitInv == Init => IInv
<1> SUFFICES ASSUME Init PROVE IInv
  OBVIOUS
<1>1. SessionsInv
  BY NewSessions, CallsAssumption DEF Init, SessionsInv
<1>2. CallInv
  BY DEF Init, CallInv, NoCall
<1>3. NetworkInv /\ EffectsInv /\ HandledInv
  BY DEF Init, NetworkInv, EffectsInv, HandledInv, Quiet
<1>4. AnswerInv /\ HeardInv
  BY MarkersAssumption DEF Init, AnswerInv, HeardInv, NoCall, Answers, ErrorCodes
<1> QED BY <1>1, <1>2, <1>3, <1>4 DEF IInv

\* A step of the client within its call leaves what is known of the network and
\* of the effects.
LEMMA WithinCall ==
  ASSUME NetworkInv, EffectsInv, ServiceUnchanged, network' = network,
         call'.tag = call.tag, call'.request = call.request, call'.stage # "ended" => call.stage # "ended"
  PROVE  NetworkInv' /\ EffectsInv'
<1>1. NetworkInv'
  BY DEF NetworkInv, IsRequest
<1>2. EffectsInv'
  BY DEF EffectsInv, ServiceUnchanged, Covered
<1> QED BY <1>1, <1>2

\* Nothing happens to the sessions.
LEMMA SessionsKept ==
  ASSUME SessionsInv, ServiceUnchanged
  PROVE  SessionsInv'
  BY DEF SessionsInv, ServiceUnchanged

\* The first attempt of a new call.
LEMMA NewCall ==
  ASSUME IInv, ServiceUnchanged, network' = network, NEW request, IsRequest(request),
         NEW heard, heard = Absent \/ heard \in Recognized,
         call' \in [stage : {"ready"}, tag : {call.tag + 1}, read : {FALSE}, request : {request}, attempt : {1},
                    heard : {heard}, answer : {Absent}, result : {Absent}]
  PROVE  CallInv' /\ NetworkInv' /\ EffectsInv' /\ AnswerInv' /\ HeardInv'
<1> DEFINE tag == call.tag + 1
<1>1. call.tag \in Nat /\ tag \in Nat /\ tag > call.tag /\ tag # 0 /\ 1..call.tag \subseteq 1..tag /\ tag \notin 1..call.tag
  BY DEF IInv, CallInv
<1> HIDE DEF tag
<1>2. call' \in [stage : {"ready"}, tag : {tag}, read : {FALSE}, request : {request}, attempt : {1},
                 heard : {heard}, answer : {Absent}, result : {Absent}]
  BY DEF tag
<1>3. /\ call'.stage = "ready" /\ call'.tag = tag /\ call'.request = request /\ ~call'.read
      /\ call'.attempt = 1 /\ call'.heard = heard /\ call'.result = Absent
  BY <1>2
<1>4. CallInv'
  <2>1. call' \in [stage : {"ended", "ready", "sent", "waiting", "answered"}, tag : Nat, read : BOOLEAN,
                   request : {call'.request}, attempt : {call'.attempt}, heard : {call'.heard},
                   answer : {call'.answer}, result : {call'.result}]
    BY <1>1, <1>2
  <2> QED BY <1>1, <1>3, <2>1 DEF CallInv, IsRequest
<1>5. NetworkInv'
  BY <1>1, <1>3 DEF IInv, NetworkInv, IsRequest
<1>6. \A e \in effects : e.tag \in 1..call.tag
  BY DEF IInv, EffectsInv
<1>7. EffectsInv'
  BY <1>1, <1>3, <1>6 DEF IInv, EffectsInv, ServiceUnchanged, Covered
<1>8. AnswerInv'
  <2>1. Untouched'
    BY <1>1, <1>3, <1>6 DEF IInv, Untouched, EffectsOf, NetworkInv, ServiceUnchanged
  <2> QED BY <1>3, <2>1 DEF AnswerInv
<1>9. HeardInv'
  BY <1>3, MarkersAssumption DEF HeardInv, ErrorCodes
<1> QED BY <1>4, <1>5, <1>7, <1>8, <1>9

\* The client's steps, one lemma for each action.
LEMMA CallStep == ASSUME IInv, Call PROVE IInv'
<1>1. PICK request \in PlainRequests : call' = [NextCall EXCEPT !.request = request]
  BY DEF Call
<1>2. call' \in [stage : {"ready"}, tag : {call.tag + 1}, read : {FALSE}, request : {request}, attempt : {1},
                 heard : {Absent}, answer : {Absent}, result : {Absent}]
  BY <1>1 DEF NextCall, NoCall
<1>3. ServiceUnchanged /\ network' = network /\ handled' = Quiet
  BY DEF Call, ServiceUnchanged
<1>4. IsRequest(request)
  BY DEF IsRequest
<1> QED BY <1>2, <1>3, <1>4, NewCall, SessionsKept, QuietIsHandled DEF IInv

\* A call for what was recognized carries a valid observation.
LEMMA RecognizeStep == ASSUME IInv, Recognize PROVE IInv'
<1>1. PICK heard \in Recognized :
        LET normalized == NormalizeSherpaResult(heard.result, heard.options)
            next       == [NextCall EXCEPT !.heard = heard]
        IN  call' = IF normalized.error # Absent
                    THEN [call EXCEPT !.heard = heard, !.result = normalized.error]
                    ELSE [next EXCEPT !.request = Submit(FirstSession, normalized.observation)]
  BY DEF Recognize
<1>2. ServiceUnchanged /\ network' = network /\ handled' = Quiet /\ call.stage = "ended"
  BY DEF Recognize, ServiceUnchanged, MayCall
<1> DEFINE normalized == NormalizeSherpaResult(heard.result, heard.options)
<1>3. /\ normalized.error \in {Absent, "UNKNOWN_TOKEN", "INVALID_RESULT"}
      /\ normalized.error = Absent =>
           /\ ValidObservation(normalized.observation)
           /\ normalized.observation.observationId = heard.options.observationId
  BY NormalizerAccepts, InputsAssumption
<1>4. CASE normalized.error # Absent
  <2> DEFINE error == normalized.error
  <2>1. call' = [call EXCEPT !.heard = heard, !.result = error]
    BY <1>1, <1>4
  <2> HIDE DEF error, normalized
  <2>2. /\ call'.stage = "ended" /\ call'.tag = call.tag /\ call'.request = call.request
        /\ call'.heard = heard /\ call'.result = error /\ CallInv'
    BY <1>2, <2>1 DEF IInv, CallInv
  <2>3. error \in {"UNKNOWN_TOKEN", "INVALID_RESULT"}
    BY <1>3, <1>4 DEF error
  <2>4. AnswerInv'
    BY <2>2, <2>3 DEF AnswerInv, Refused
  <2>5. HeardInv'
    BY <2>2, <2>3 DEF HeardInv, error, normalized
  <2> QED BY <1>2, <2>2, <2>4, <2>5, WithinCall, SessionsKept, QuietIsHandled DEF IInv
<1>5. CASE normalized.error = Absent
  <2> DEFINE o == normalized.observation
             request == Submit(FirstSession, o)
  <2>1. request.body.observation = o
    <3> HIDE DEF o
    <3> QED BY DEF Submit, Post
  <2>2. IsRequest(request)
    <3>1. ValidObservation(o) /\ o.observationId \in ObservationIds
      BY <1>3, <1>5, InputsAssumption
    <3> HIDE DEF o, normalized
    <3>2. request = Submit(FirstSession, request.body.observation)
      BY <2>1
    <3> HIDE DEF request
    <3> QED BY <2>1, <3>1, <3>2 DEF IsRequest
  <2>3. call' = [[NextCall EXCEPT !.heard = heard] EXCEPT !.request = request]
    BY <1>1, <1>5
  <2> HIDE DEF request
  <2>4. call' \in [stage : {"ready"}, tag : {call.tag + 1}, read : {FALSE}, request : {request}, attempt : {1},
                   heard : {heard}, answer : {Absent}, result : {Absent}]
    BY <2>3 DEF NextCall, NoCall
  <2> QED BY <1>2, <2>2, <2>4, NewCall, SessionsKept, QuietIsHandled DEF IInv
<1> QED BY <1>4, <1>5

\* A step that ends the call, and one that only moves it on.
LEMMA CallEnds ==
  ASSUME CallInv, NEW result, NEW read, read \in BOOLEAN,
         call' \in [stage : {"ended"}, tag : {call.tag}, read : {read}, request : {call.request}, attempt : {0},
                    heard : {call.heard}, answer : {Absent}, result : {result}]
  PROVE  /\ CallInv' /\ call'.stage = "ended" /\ call'.tag = call.tag /\ call'.request = call.request
         /\ call'.heard = call.heard /\ call'.result = result
<1>1. /\ call'.stage = "ended" /\ call'.tag = call.tag /\ call'.request = call.request
      /\ call'.heard = call.heard /\ call'.result = result
  OBVIOUS
<1>2. call.tag \in Nat
  BY DEF CallInv
<1>3. call' \in [stage : {"ended", "ready", "sent", "waiting", "answered"}, tag : Nat, read : BOOLEAN,
                 request : {call'.request}, attempt : {call'.attempt}, heard : {call'.heard},
                 answer : {call'.answer}, result : {call'.result}]
  BY <1>2
<1>4. CallInv'
  BY <1>1, <1>3 DEF CallInv, IsRequest
<1> QED BY <1>1, <1>4

\* What Ended makes of the call.
LEMMA EndedCall ==
  ASSUME CallInv, NEW result
  PROVE  /\ Ended(result) \in [stage : {"ended"}, tag : {call.tag}, read : {call.read}, request : {call.request},
                               attempt : {0}, heard : {call.heard}, answer : {Absent}, result : {result}]
         /\ [Ended(result) EXCEPT !.read = TRUE] \in
              [stage : {"ended"}, tag : {call.tag}, read : {TRUE}, request : {call.request},
               attempt : {0}, heard : {call.heard}, answer : {Absent}, result : {result}]
  BY DEF Ended, CallInv

\* The call ends without an answer.
LEMMA GivenUp ==
  ASSUME IInv, ServiceUnchanged, network' = network, handled' = Quiet,
         NEW result, result \in {"closed", "transport"}, call' = Ended(result)
  PROVE  IInv'
<1>1. /\ CallInv' /\ call'.stage = "ended" /\ call'.tag = call.tag /\ call'.request = call.request
      /\ call'.heard = call.heard /\ call'.result = result
  <2>1. CallInv /\ call.read \in BOOLEAN
    BY DEF IInv, CallInv
  <2> QED BY <2>1, CallEnds, EndedCall
<1>2. AnswerInv'
  BY <1>1 DEF AnswerInv, Refused
<1>3. HeardInv'
  BY <1>1 DEF IInv, HeardInv
<1> QED BY <1>1, <1>2, <1>3, WithinCall, SessionsKept, QuietIsHandled DEF IInv

\* Another attempt is due, of a call that is retried.
LEMMA TriedAgain ==
  ASSUME IInv, ServiceUnchanged, network' = network, handled' = Quiet, call.stage # "ended",
         Retries, call' = [call EXCEPT !.stage = "waiting"]
  PROVE  IInv'
<1>1. /\ call'.stage = "waiting" /\ call'.tag = call.tag /\ call'.request = call.request
      /\ call'.heard = call.heard /\ call'.result = call.result /\ CallInv'
  BY DEF IInv, CallInv, Retries, Retried
<1>2. AnswerInv' /\ HeardInv'
  BY <1>1 DEF IInv, AnswerInv, HeardInv
<1> QED BY <1>1, <1>2, WithinCall, SessionsKept, QuietIsHandled DEF IInv

\* The transport fails: the call is given up or tried again.
LEMMA TransportFailsStep == ASSUME IInv, TransportFails PROVE IInv'
<1>1. /\ ServiceUnchanged /\ network' = network /\ handled' = Quiet /\ call.stage # "ended"
      /\ call' = IF Retries THEN [call EXCEPT !.stage = "waiting"] ELSE Ended("transport")
  BY DEF TransportFails, ServiceUnchanged
<1> QED BY <1>1, GivenUp, TriedAgain

\* Likewise when the answer cannot be decoded.
LEMMA UndecodableStep == ASSUME IInv, Undecodable PROVE IInv'
<1>1. /\ ServiceUnchanged /\ network' = network /\ handled' = Quiet /\ call.stage # "ended"
      /\ \/ call' = Ended("transport")
         \/ Retries /\ call' = [call EXCEPT !.stage = "waiting"]
  BY DEF Undecodable, ServiceUnchanged
<1> QED BY <1>1, GivenUp, TriedAgain

\* An answer that is read ends the call, because none is retryable that could be
\* retried.
LEMMA ReceiveStep == ASSUME IInv, Receive PROVE IInv'
<1>1. ServiceUnchanged /\ network' = network /\ handled' = Quiet /\ call.stage = "answered"
  BY DEF Receive, ServiceUnchanged
<1>2. call.answer.code \in Answers \cup {Absent} /\ CallInv /\ call.tag # 0
  BY <1>1 DEF IInv, AnswerInv, CallInv
<1> DEFINE result == IF call.answer.code = Absent THEN "ok" ELSE call.answer.code
<1>3. call' = [Ended(result) EXCEPT !.read = TRUE]
  <2>1. call.answer.code # Absent => ~(call.answer.retryable /\ Retries)
    BY <1>1 DEF IInv, AnswerInv, Retries, Retried
  <2>2. CASE call.answer.code = Absent
    BY <2>2 DEF Receive
  <2>3. CASE call.answer.code # Absent
    BY <2>1, <2>3 DEF Receive
  <2> QED BY <2>2, <2>3
<1>4. result \in Answers \cup {"ok"} /\ (result = "ok" => call.answer.code = Absent)
      /\ (result \in Refused => call.answer.code \in Refused)
  BY <1>2 DEF Answers, Refused
<1> HIDE DEF result
<1>5. /\ CallInv' /\ call'.stage = "ended" /\ call'.tag = call.tag /\ call'.request = call.request
      /\ call'.heard = call.heard /\ call'.result = result
  BY <1>2, <1>3, CallEnds, EndedCall
<1>6. AnswerInv'
  BY <1>1, <1>4, <1>5 DEF IInv, AnswerInv, Untouched, EffectsOf, ServiceUnchanged
<1>7. HeardInv'
  BY <1>4, <1>5 DEF IInv, HeardInv, Answers
<1> QED BY <1>1, <1>5, <1>6, <1>7, WithinCall, SessionsKept, QuietIsHandled DEF IInv

\* The next attempt asks for what the one before asked for.
LEMMA DelayEndsStep == ASSUME IInv, DelayEnds PROVE IInv'
<1>1. ServiceUnchanged /\ network' = network /\ handled' = Quiet /\ call.stage = "waiting"
  BY DEF DelayEnds, ServiceUnchanged
<1>2. CASE call' = Ended("closed")
  BY <1>1, <1>2, GivenUp
<1>3. CASE call' = [call EXCEPT !.stage = "ready", !.attempt = @ + 1, !.answer = Absent]
  <2>1. /\ call'.stage = "ready" /\ call'.tag = call.tag /\ call'.request = call.request
        /\ call'.heard = call.heard /\ call'.result = call.result /\ call'.read = call.read
    BY <1>3 DEF IInv, CallInv
  <2>2. call.request.route \in Retried
    BY <1>1 DEF IInv, CallInv
  <2>3. CallInv'
    BY <1>1, <1>3, <2>1, <2>2 DEF IInv, CallInv
  <2>4. AnswerInv' /\ HeardInv'
    BY <2>1, <2>2 DEF IInv, AnswerInv, HeardInv
  <2> QED BY <1>1, <2>1, <2>3, <2>4, WithinCall, SessionsKept, QuietIsHandled DEF IInv
<1> QED BY <1>2, <1>3 DEF DelayEnds

\* Closing the client changes nothing of the call.
LEMMA CloseStep == ASSUME IInv, Close PROVE IInv'
<1>1. ServiceUnchanged /\ network' = network /\ handled' = Quiet /\ call' = call
  BY DEF Close, ServiceUnchanged
<1>2. CallInv' /\ AnswerInv' /\ HeardInv'
  BY <1>1 DEF IInv, CallInv, AnswerInv, HeardInv, IsRequest, Untouched, EffectsOf, ServiceUnchanged
<1> QED BY <1>1, <1>2, WithinCall, SessionsKept, QuietIsHandled DEF IInv

\* An attempt that is sent is covered by what earlier attempts did.
LEMMA SendStep == ASSUME IInv, Send PROVE IInv'
<1>1. ServiceUnchanged /\ handled' = Quiet /\ call.stage = "ready"
  BY DEF Send, ServiceUnchanged
<1>2. CASE call' = Ended("closed") /\ network' = network
  BY <1>1, <1>2, GivenUp
<1>3. CASE /\ call' = [call EXCEPT !.stage = "sent"]
           /\ network' = network \cup {[tag |-> call.tag, attempt |-> call.attempt, request |-> call.request]}
  <2> DEFINE sent == [tag |-> call.tag, attempt |-> call.attempt, request |-> call.request]
  <2>1. /\ call'.stage = "sent" /\ call'.tag = call.tag /\ call'.request = call.request
        /\ call'.heard = call.heard /\ call'.result = call.result /\ CallInv'
    BY <1>1, <1>3 DEF IInv, CallInv, IsRequest
  <2>2. /\ call.tag \in 1..call.tag /\ IsRequest(call.request)
        /\ call.request.route \notin Retried => call.attempt = 1
    BY <1>1 DEF IInv, CallInv
  <2>3. NetworkInv'
    <3>1. \A m \in network' : m \in network \/ m = sent
      BY <1>3
    <3>2. /\ sent = [tag |-> sent.tag, attempt |-> sent.attempt, request |-> sent.request]
          /\ sent.tag = call.tag /\ sent.request = call.request /\ sent.attempt = call.attempt
      OBVIOUS
    <3> HIDE DEF sent
    <3> QED BY <2>1, <2>2, <3>1, <3>2 DEF IInv, NetworkInv, IsRequest
  <2>4. EffectsInv'
    <3>1. \A e \in effects : e.tag = call.tag => Covered(sessions, e, call.request)
      <4>1. ASSUME NEW e \in effects, e.tag = call.tag PROVE call.request.route \in Retried
        BY <1>1, <4>1 DEF IInv, AnswerInv, Untouched, EffectsOf
      <4> QED BY <1>1, <4>1 DEF IInv, EffectsInv
    <3>2. \A m \in network' : m \in network \/ (m.tag = call.tag /\ m.request = call.request)
      BY <1>3
    <3> QED BY <1>1, <2>1, <3>1, <3>2 DEF IInv, EffectsInv, ServiceUnchanged
  <2>5. AnswerInv' /\ HeardInv'
    BY <2>1 DEF IInv, AnswerInv, HeardInv
  <2> QED BY <1>1, <2>1, <2>3, <2>4, <2>5, SessionsKept, QuietIsHandled DEF IInv
<1> QED BY <1>2, <1>3 DEF Send

-----------------------------------------------------------------------------
\* The server's steps.

\* What covers a request goes on covering it.
LEMMA CoverageKept ==
  ASSUME SessionsInv, SessionsInv', NEW e, e.session \in usedIds, e.resets \in Nat, e.hearings \in Nat,
         e.resets <= sessions[e.session].resets, Continues(e.session), NEW r, Covered(sessions, e, r)
  PROVE  /\ Covered(sessions', e, r)
         /\ e.session \in usedIds' /\ e.resets <= sessions'[e.session].resets
<1> DEFINE s == e.session
           x == sessions[s]
           y == sessions'[s]
           id == r.body.observation.observationId
<1>1. IsSession(x) /\ IsSession(y) /\ x.resets \in Nat /\ y.resets \in Nat
  BY DEF SessionsInv, IsSession
<1>2. /\ s \in usedIds' /\ y.resets >= x.resets
      /\ y.stored /\ y.running => x.stored /\ x.running
      /\ y.stored /\ y.running /\ y.resets = x.resets => y = x \/ \E other : Takes(x, y, other)
  BY DEF Continues
<1>3. y.resets = e.resets => y.resets = x.resets /\ x.resets = e.resets
  BY <1>1, <1>2
<1>4. /\ e.route = "observations" /\ r.route = "observations" /\ s = r.session
      /\ x.resets = e.resets /\ x.stored /\ x.running => Recalls(x, id, e.hearings)
  BY DEF Covered
<1>5. ASSUME y.resets = e.resets, y.stored, y.running PROVE Recalls(y, id, e.hearings)
  <2>1. Recalls(x, id, e.hearings) /\ (y = x \/ \E other : Takes(x, y, other))
    BY <1>2, <1>3, <1>4, <1>5
  <2>2. CASE y = x
    BY <2>1, <2>2
  <2>3. CASE \E other : Takes(x, y, other)
    <3>1. PICK other : Takes(x, y, other)
      BY <2>3
    <3>2. IsSession(x) /\ IsSession(y) /\ e.hearings \in Nat /\ Recalls(x, id, e.hearings)
      BY <1>1, <2>1
    <3> HIDE DEF x, y, id
    <3> QED BY ONLY <3>1, <3>2, RecallKept
  <2> QED BY <2>1, <2>2, <2>3
<1>6. s \in usedIds' /\ e.resets <= y.resets
  BY <1>1, <1>2
<1> QED BY <1>4, <1>5, <1>6 DEF Covered

\* Likewise for the effects there are, whatever they cover.
LEMMA EffectsKept ==
  ASSUME SessionsInv, SessionsInv', EffectsInv, \A s \in usedIds : Continues(s)
  PROVE  /\ \A e \in effects : e.session \in usedIds' /\ e.resets <= sessions'[e.session].resets
         /\ \A e \in effects : \A r : Covered(sessions, e, r) => Covered(sessions', e, r)
<1>1. ASSUME NEW e \in effects
      PROVE  /\ e.session \in usedIds /\ e.resets \in Nat /\ e.resets <= sessions[e.session].resets
             /\ e.hearings \in Nat /\ e.session \in SessionIds
  BY DEF EffectsInv, SessionsInv
<1>2. ASSUME NEW e \in effects PROVE e.session \in usedIds' /\ e.resets <= sessions'[e.session].resets
  <2>1. sessions[e.session].resets \in Nat /\ sessions'[e.session].resets \in Nat
    BY <1>1 DEF SessionsInv, IsSession
  <2>2. Continues(e.session)
    BY <1>1
  <2> QED BY <1>1, <2>1, <2>2 DEF Continues
<1>3. ASSUME NEW e \in effects, NEW r, Covered(sessions, e, r) PROVE Covered(sessions', e, r)
  <2>1. /\ e.session \in usedIds /\ e.resets \in Nat /\ e.hearings \in Nat
        /\ e.resets <= sessions[e.session].resets
    BY <1>1
  <2>2. Continues(e.session)
    BY <2>1
  <2>3. SessionsInv /\ SessionsInv'
    OBVIOUS
  <2> QED BY ONLY <1>3, <2>1, <2>2, <2>3, CoverageKept
<1> QED BY <1>2, <1>3

\* A request of another client leaves no effect, and covered requests covered.
LEMMA OtherStep == ASSUME IInv, Other PROVE IInv'
<1>1. PICK request \in OtherRequests : Handle(request, 0, "none")
  BY DEF Other, Changing
<1>2. call' = call /\ network' = network
  BY DEF Other
<1>3. Arriving(request) /\ "none" \in {"none", "before", "write", "after"}
  BY InputsAssumption DEF Arriving
<1>4. SessionsInv
  BY DEF IInv
<1>5. SessionsInv' /\ \A s \in usedIds : Continues(s)
  BY ONLY <1>1, <1>3, <1>4, SessionsContinue
<1>6. effects' = effects
  <2>1. effects' = effects \/ \E s : NewEffect(request, 0, s)
    BY ONLY <1>1, <1>3, <1>4, EffectsGrow
  <2> QED BY <2>1 DEF NewEffect
<1>7. HandledInv'
  BY ONLY <1>1, <1>3, <1>4, HandledAnswers
<1>8. CallInv' /\ NetworkInv' /\ AnswerInv' /\ HeardInv'
  BY <1>2, <1>6 DEF IInv, CallInv, NetworkInv, AnswerInv, HeardInv, IsRequest, Untouched, EffectsOf
<1>9. EffectsInv'
  <2>1. EffectsInv
    BY DEF IInv
  <2>2. /\ \A e \in effects : e.session \in usedIds' /\ e.resets <= sessions'[e.session].resets
        /\ \A e \in effects : \A r : Covered(sessions, e, r) => Covered(sessions', e, r)
    BY <1>4, <1>5, <2>1, EffectsKept
  <2> QED BY <1>2, <1>6, <2>1, <2>2 DEF EffectsInv
<1> QED BY <1>5, <1>7, <1>8, <1>9 DEF IInv

\* An attempt arrives: what it changes was covered by no effect of its call, and
\* covers what is left of the call.
LEMMA ArriveStep == ASSUME IInv, Arrive PROVE IInv'
<1>1. PICK m \in network, failure \in {"none", "before", "write", "after"} :
        /\ Handle(m.request, m.tag, failure)
        /\ network' = network \ {m}
        /\ call' = IF call.stage = "sent" /\ m.tag = call.tag /\ m.attempt = call.attempt
                   THEN [call EXCEPT !.stage = "answered", !.answer = handled'.answer]
                   ELSE call
  BY DEF Arrive
<1> DEFINE r == m.request
<1>2. SessionsInv /\ CallInv /\ NetworkInv /\ EffectsInv /\ AnswerInv /\ HeardInv
  BY DEF IInv
<1>3. /\ m.tag \in 1..call.tag /\ IsRequest(r) /\ call.tag \in Nat /\ m.tag # 0
      /\ m.tag = call.tag => r = call.request
  BY <1>2 DEF NetworkInv, CallInv
<1>4. Arriving(r) /\ Refusal(r).code = Absent
  BY <1>3, OwnRequests, OwnRequestsArrive
<1>5. /\ r.route \in {"create", "get", "reset", "observations", "delete"}
      /\ r.route = "observations" => ObservationOf(r) = r.body.observation.observationId
  BY <1>3, OwnRequests DEF ObservationOf
<1>6. Handle(r, m.tag, failure) /\ failure \in {"none", "before", "write", "after"}
  BY <1>1
<1> HIDE DEF r
<1>7. SessionsInv' /\ \A s \in usedIds : Continues(s)
  BY ONLY <1>2, <1>4, <1>6, SessionsContinue
<1>8. effects' = effects \/ \E s : NewEffect(r, m.tag, s)
  BY ONLY <1>2, <1>4, <1>6, EffectsGrow
<1>9. HandledInv'
  BY ONLY <1>2, <1>4, <1>6, HandledAnswers
<1>10. /\ handled'.answer.code \in Answers \cup {Absent}
       /\ handled'.answer.code # Absent /\ r.route \in Retried => handled'.answer.retryable = FALSE
       /\ r.route \in {"create", "reset", "delete"} =>
            /\ handled'.answer.code = Absent => \E e \in effects' : e.tag = m.tag
            /\ handled'.answer.code \in Refused => effects' = effects
  BY ONLY <1>2, <1>3, <1>4, <1>6, OwnAnswers
<1>11. /\ call'.tag = call.tag /\ call'.request = call.request /\ call'.heard = call.heard
       /\ call'.result = call.result /\ CallInv'
       /\ \/ call' = call
          \/ /\ call.stage = "sent" /\ m.tag = call.tag
             /\ call'.stage = "answered" /\ call'.answer = handled'.answer
  <2>1. CASE call' = call
    BY <1>2, <2>1 DEF CallInv, IsRequest
  <2>2. CASE /\ call.stage = "sent" /\ m.tag = call.tag
             /\ call' = [call EXCEPT !.stage = "answered", !.answer = handled'.answer]
    BY <1>2, <2>2 DEF CallInv, IsRequest
  <2> QED BY <1>1, <2>1, <2>2
<1>12. NetworkInv'
  BY <1>1, <1>2, <1>11 DEF NetworkInv, IsRequest
\* A request that is not retried arrives once and changes something once.
<1>13. r.route \notin Retried => /\ \A e \in effects : e.tag # m.tag
                                 /\ \A n \in network' : n.tag # m.tag
  <2>1. ASSUME r.route \notin Retried, NEW e \in effects, e.tag = m.tag PROVE FALSE
    BY <1>2, <2>1 DEF EffectsInv, Covered, Retried, r
  <2>2. ASSUME r.route \notin Retried, NEW n \in network', n.tag = m.tag PROVE FALSE
    <3>1. n \in network /\ n # m
      BY <1>1
    <3>2. n.request = m.request /\ n.attempt = 1 /\ m.attempt = 1
      BY <1>2, <2>2, <3>1 DEF NetworkInv, r
    <3>3. /\ n = [tag |-> n.tag, attempt |-> n.attempt, request |-> n.request]
          /\ m = [tag |-> m.tag, attempt |-> m.attempt, request |-> m.request]
      BY <1>2, <3>1 DEF NetworkInv
    <3>4. n = m
      BY <2>2, <3>2, <3>3
    <3> QED BY <3>1, <3>4
  <2> QED BY <2>1, <2>2
<1>14. EffectsInv'
  <2>1. /\ \A e \in effects : e.session \in usedIds' /\ e.resets <= sessions'[e.session].resets
        /\ \A e \in effects : \A q : Covered(sessions, e, q) => Covered(sessions', e, q)
    BY <1>2, <1>7, EffectsKept
  <2>2. call'.stage # "ended" => call.stage # "ended"
    BY <1>11
  <2>3. CASE effects' = effects
    BY <1>1, <1>2, <1>11, <2>1, <2>2, <2>3 DEF EffectsInv
  <2>4. CASE \E s : NewEffect(r, m.tag, s)
    <3>1. PICK s : NewEffect(r, m.tag, s)
      BY <2>4
    <3> DEFINE new == Effect(r, m.tag, s)
    <3>2. /\ new.tag = m.tag /\ new.route = r.route /\ new.session = s /\ new.resets = sessions[s].resets
          /\ new.hearings = sessions[s].hearings
      BY DEF Effect
    <3> HIDE DEF new
    <3>3. effects' = effects \cup {new}
      BY <3>1 DEF NewEffect, new
    <3>4. new.tag \in 1..call.tag /\ new.session \in usedIds' /\ new.resets \in Nat /\ new.hearings \in Nat
          /\ new.resets <= sessions'[new.session].resets
      BY <1>3, <3>1, <3>2 DEF NewEffect
    <3> DEFINE x == sessions[s]
               y == sessions'[s]
               id == r.body.observation.observationId
    <3>12. r.route = "observations" =>
             s = r.session /\ Takes(x, y, id) /\ s \in SessionIds /\ IsSession(x) /\ IsSession(y)
      <4>1. r.route = "observations" => s = r.session /\ Takes(x, y, ObservationOf(r)) /\ ObservationOf(r) = id
        BY <1>5, <3>1 DEF NewEffect
      <4>2. s \in SessionIds
        BY <1>7, <3>1 DEF NewEffect, SessionsInv
      <4> QED BY <1>2, <1>7, <4>1, <4>2 DEF SessionsInv
    <3>5. ASSUME r.route \in Retried PROVE Covered(sessions', new, r)
      <4>1. r.route = "observations"
        BY <3>1, <3>5 DEF NewEffect, Retried
      <4>2. Recalls(y, id, new.hearings)
        <5>1. Takes(x, y, id) /\ IsSession(x) /\ IsSession(y) /\ new.hearings = x.hearings
          BY <3>2, <3>12, <4>1
        <5> HIDE DEF x, y, id
        <5>2. Recalls(y, id, x.hearings)
          BY ONLY <5>1, TakenIsRecalled
        <5> QED BY <5>1, <5>2
      <4> QED BY <3>2, <3>12, <4>1, <4>2 DEF Covered
    <3>6. ASSUME NEW e \in effects, e.tag = m.tag
          PROVE  e.route = "observations" /\ new.route = "observations" /\ Apart(e, new)
      <4>1. Covered(sessions, e, r) /\ e.hearings \in Nat
        BY <1>2, <3>6 DEF EffectsInv, r
      <4>2. e.route = "observations" /\ new.route = "observations" /\ r.route = "observations" /\ e.session = s
        BY <3>2, <3>12, <4>1 DEF Covered
      <4>3. ASSUME e.resets = new.resets PROVE e.hearings + ObservationIdLimit < new.hearings
        <5>1. x.stored /\ x.running /\ x.resets = e.resets
          BY <3>2, <3>12, <4>2, <4>3 DEF Takes
        <5>2. Recalls(x, id, e.hearings)
          BY <4>1, <4>2, <5>1 DEF Covered
        <5>3. IsSession(x) /\ e.hearings \in Nat /\ Takes(x, y, id) /\ new.hearings = x.hearings
          BY <3>2, <3>12, <4>1, <4>2
        <5> DEFINE n == e.hearings
        <5>4. n \in Nat /\ Recalls(x, id, n)
          BY <5>2, <5>3
        <5> HIDE DEF x, y, id, n
        <5>5. n + ObservationIdLimit < x.hearings
          BY ONLY <5>3, <5>4, RecalledIsNotTaken
        <5> QED BY <5>3, <5>5 DEF n
      <4> QED BY <4>2, <4>3 DEF Apart
    <3>7. \A n \in network' : n.tag = m.tag => n.request = r /\ r.route \in Retried
      BY <1>1, <1>2, <1>13 DEF NetworkInv, r
    <3>8. \A e \in effects' : /\ e.tag \in 1..call'.tag /\ e.session \in usedIds'
                              /\ e.resets \in Nat /\ e.resets <= sessions'[e.session].resets
                              /\ e.hearings \in Nat
      BY <1>2, <1>11, <2>1, <3>3, <3>4 DEF EffectsInv
    <3>9. \A e, f \in effects' : e.tag = f.tag /\ e # f => e.route = "observations" /\ Apart(e, f)
      <4>1. \A e \in effects : e.tag = m.tag => Apart(new, e)
        BY <3>6 DEF Apart
      <4> QED BY <1>2, <3>2, <3>3, <3>6, <4>1 DEF EffectsInv
    <3>10. \A e \in effects', n \in network' : e.tag = n.tag => Covered(sessions', e, n.request)
      BY <1>1, <1>2, <2>1, <3>2, <3>3, <3>5, <3>7 DEF EffectsInv
    <3>11. \A e \in effects' : e.tag = call'.tag /\ call'.stage # "ended" /\ call'.request.route \in Retried =>
                                 Covered(sessions', e, call'.request)
      BY <1>2, <1>3, <1>11, <2>1, <2>2, <3>2, <3>3, <3>5 DEF EffectsInv
    <3> QED BY <3>8, <3>9, <3>10, <3>11 DEF EffectsInv
  <2> QED BY <1>8, <2>3, <2>4
<1>15. \A e \in effects' : e \in effects \/ e.tag = m.tag
  BY <1>8 DEF NewEffect, Effect
<1>16. effects \subseteq effects'
  BY <1>8 DEF NewEffect
<1>17. Untouched => Untouched'
  BY <1>1, <1>11, <1>15 DEF Untouched, EffectsOf
<1>18. AnswerInv'
  <2>1. CASE call' = call
    BY <1>2, <1>16, <1>17, <2>1 DEF AnswerInv, EffectsOf
  <2>2. CASE /\ call.stage = "sent" /\ m.tag = call.tag
             /\ call'.stage = "answered" /\ call'.answer = handled'.answer
    <3>1. call'.request = r /\ call'.tag = m.tag
      BY <1>3, <1>11, <2>2
    <3>2. r.route \notin Retried => r.route \in {"create", "reset", "delete"}
      BY <1>5 DEF Retried
    <3>3. r.route \notin Retried /\ effects' = effects => Untouched'
      BY <1>13, <3>1 DEF Untouched, EffectsOf
    <3>4. (\E e \in effects' : e.tag = m.tag) => EffectsOf(call.tag)' # {}
      BY <1>11, <2>2 DEF EffectsOf
    <3> QED BY <1>10, <1>11, <2>2, <3>1, <3>2, <3>3, <3>4 DEF AnswerInv
  <2> QED BY <1>11, <2>1, <2>2
<1>19. HeardInv'
  BY <1>2, <1>11 DEF HeardInv
<1> QED BY <1>7, <1>9, <1>11, <1>12, <1>14, <1>18, <1>19 DEF IInv

-----------------------------------------------------------------------------
\* The theorems.

\* Every step keeps the invariant.
LEMMA NextInv == IInv /\ [Next]_vars => IInv'
<1> SUFFICES ASSUME IInv, [Next]_vars PROVE IInv'
  OBVIOUS
<1>1. CASE UNCHANGED vars
  <2>1. /\ SessionsInv' /\ CallInv' /\ NetworkInv' /\ EffectsInv'
    BY <1>1 DEF IInv, vars, SessionsInv, CallInv, NetworkInv, EffectsInv, IsRequest
  <2>2. AnswerInv' /\ HeardInv' /\ HandledInv'
    BY <1>1 DEF IInv, vars, AnswerInv, HeardInv, HandledInv, Untouched, EffectsOf
  <2> QED BY <2>1, <2>2 DEF IInv
<1>2. CASE Next
  BY <1>2, CallStep, RecognizeStep, SendStep, ArriveStep, TransportFailsStep, UndecodableStep,
     ReceiveStep, DelayEndsStep, CloseStep, OtherStep DEF Next
<1> QED BY <1>1, <1>2

\* It holds in every state.
LEMMA AlwaysInv == Spec => []IInv
  BY InitInv, NextInv, PTL DEF Spec

\* A call of the client libraries changes a session once, however often it is
\* retried and whenever its attempts arrive, unless the session was reset or the
\* tracker took ObservationIdLimit other observations in between, and its result
\* does not contradict what it did (the bounded history of observation ids in
\* session-service.ts and reading-tracker.ts, and the retry policy of client.go,
\* client.dart and async_client.py).
THEOREM OneEffectPerCall == Spec => []CallsTakeEffectOnce
<1>1. IInv => CallsTakeEffectOnce
  <2> SUFFICES ASSUME IInv PROVE CallsTakeEffectOnce
    OBVIOUS
  <2>1. \A e, f \in effects : e.tag = f.tag /\ e # f => e.route = "observations" /\ Apart(e, f)
    BY DEF IInv, EffectsInv
  <2>2. call.request # Absent => call.tag # 0
    BY DEF IInv, CallInv
  <2>3. ASSUME call.stage = "ended", call.request # Absent, call.request.route \in {"reset", "delete", "create"}
        PROVE  /\ call.result = "ok" => EffectsOf(call.tag) # {}
               /\ call.result \in Refused => EffectsOf(call.tag) = {}
    BY <2>2, <2>3 DEF IInv, AnswerInv, Retried, Untouched
  <2> QED BY <2>1, <2>3 DEF CallsTakeEffectOnce, Refused, Apart
<1> QED BY <1>1, AlwaysInv, PTL

\* What a store or a corpus resolver throws, before, within or after an operation,
\* is answered as an internal error that no library retries; only a creation at
\* the capacity is answered with a retryable error, and an answer that was read is
\* the last of its call (respond of http.ts and the libraries' attempt loops).
THEOREM FailuresStayInternal == Spec => []InternalFailuresStayInternal
<1>1. IInv => InternalFailuresStayInternal
  BY DEF IInv, HandledInv, CallInv, InternalFailuresStayInternal
<1> QED BY <1>1, AlwaysInv, PTL

\* The server takes every observation that normalizeSherpaResult made, and the
\* normalizer refuses no recognizer result but one with nothing in it or too much,
\* whatever the order and precision of its times and probabilities.
THEOREM NormalizedResultsAreTaken == Spec => []NormalizedIsAccepted
<1>1. IInv => NormalizedIsAccepted
  <2> SUFFICES ASSUME IInv, call.heard # Absent PROVE NormalizedIsAccepted
    BY DEF NormalizedIsAccepted
  <2> DEFINE heard == call.heard
  <2>1. /\ heard \in Recognized
        /\ call.result = "INVALID_RESULT" => NormalizeSherpaResult(heard.result, heard.options).error = "INVALID_RESULT"
    BY DEF IInv, HeardInv
  <2>2. heard.result \in RecognizerResults /\ ValidOptions(heard.options)
    BY <2>1, InputsAssumption
  <2>3. call.result # "INVALID_OBSERVATION"
    BY MarkersAssumption DEF IInv, HeardInv, Answers, ErrorCodes
  <2> DEFINE result == heard.result
             options == heard.options
  <2>4. call.result = "INVALID_RESULT" =>
          \/ Kept(result) = <<>> /\ ~options.isFinal
          \/ Len(Kept(result)) > MaxTokens
          \/ PhonemeCount([k \in DOMAIN Kept(result) |-> result.tokens[Kept(result)[k]]]) > MaxPhonemes
    <3>1. result \in RecognizerResults /\ ValidOptions(options)
      BY <2>2
    <3>2. call.result = "INVALID_RESULT" => NormalizeSherpaResult(result, options).error = "INVALID_RESULT"
      BY <2>1
    <3> HIDE DEF result, options, heard
    <3> QED BY ONLY <3>1, <3>2, NormalizerAccepts
  <2> QED BY <2>3, <2>4 DEF NormalizedIsAccepted
<1> QED BY <1>1, AlwaysInv, PTL

\* A request changes no session but the one in its path, none when it is refused,
\* and what succeeded is what its route says: a submission has its id in the record
\* unless a write failed since the last reset, after the tracker had moved (the
\* routes' checks in http.ts and the operations of session-service.ts).
THEOREM AnswersMatch == Spec => AnswersMatchEffects
<1>1. ASSUME IInv, [Next]_vars, handled' # Quiet, handled' # handled PROVE AnswerMatches
  <2>1. SessionsInv
    BY <1>1 DEF IInv
  <2>2. CASE Arrive
    <3>1. PICK m \in network, failure \in {"none", "before", "write", "after"} : Handle(m.request, m.tag, failure)
      BY <2>2 DEF Arrive
    <3>2. Arriving(m.request)
      BY <1>1, OwnRequestsArrive DEF IInv, NetworkInv
    <3> QED BY <2>1, <3>1, <3>2, HandlingMatches
  <2>3. CASE Other
    <3>1. PICK request \in OtherRequests : Handle(request, 0, "none")
      BY <2>3 DEF Other, Changing
    <3>2. Arriving(request)
      BY InputsAssumption DEF Arriving
    <3> QED BY <2>1, <3>1, <3>2, HandlingMatches
  <2>4. Call \/ Recognize \/ Send \/ TransportFails \/ Undecodable \/ Receive \/ DelayEnds \/ Close =>
          handled' = Quiet
    BY DEF Call, Recognize, Send, TransportFails, Undecodable, Receive, DelayEnds, Close
  <2>5. UNCHANGED vars => handled' = handled
    BY DEF vars
  <2> QED BY <1>1, <2>2, <2>3, <2>4, <2>5 DEF Next
<1>2. IInv /\ [Next]_vars =>
        [handled' # Quiet /\ handled' # handled => AnswerMatches]_vars
  BY <1>1
<1> QED BY <1>2, AlwaysInv, PTL DEF Spec, AnswersMatchEffects, AnswerMatches
=============================================================================
