--------------------------- MODULE AlignmentProofs ----------------------------
(***************************************************************************)
(* What an alignment is for all phonemes and all capacities: a call in a   *)
(* workspace that earlier calls have written returns what it would return  *)
(* in a fresh one, its operations align its arguments, and their edits are *)
(* as few as any pairing of the phonemes has.                              *)
(***************************************************************************)
EXTENDS AlignmentWorkspace, Induction, FiniteSetTheorems

-----------------------------------------------------------------------------
\* The dynamic program.  A row and the table of rows are recursive functions;
\* a recursion over 0..n has a value, so they satisfy their own equations.

\* The loop over referenceIndex, cell by cell.
LEMMA RowIs ==
  ASSUME NEW a, a \in Seq(Phonemes), NEW r, r \in Seq(Phonemes), NEW i \in 1..Len(a),
         NEW previous, previous \in [0..Len(r) -> Nat]
  PROVE  LET row == NextRow(previous, i, a, r)
         IN  /\ row \in [0..Len(r) -> Nat] /\ row[0] = i
             /\ \A j \in 1..Len(r) :
                  row[j] = IF a[i] = r[j] THEN previous[j - 1]
                           ELSE 1 + Smaller(previous[j - 1], Smaller(row[j - 1], previous[j]))
<1> DEFINE S == Nat
           c == i
           m == Len(r)
           Then(j, x) == IF a[i] = r[j] THEN previous[j - 1]
                         ELSE 1 + Smaller(previous[j - 1], Smaller(x, previous[j]))
           G == [j \in 1..m |-> [x \in S |-> Then(j, x)]]
<1>1. m \in Nat /\ c \in S
  OBVIOUS
<1>2. ASSUME NEW j \in 1..m, NEW x \in Nat PROVE Then(j, x) \in Nat
  <2>1. previous[j - 1] \in Nat /\ previous[j] \in Nat
    BY <1>1
  <2> QED BY <2>1 DEF Smaller
<1>3. G \in [1..m -> [S -> S]]
  <2> HIDE DEF Then
  <2> QED BY <1>2
<1>4. PICK h \in [0..m -> S] : h[0] = c /\ \A j \in 1..m : h[j] = G[j][h[j - 1]]
  <2> HIDE DEF G, m, S, c
  <2> QED BY ONLY <1>1, <1>3, RecursionExists
<1>5. h = [j \in 0..m |-> IF j = 0 THEN i ELSE Then(j, h[j - 1])]
  <2> HIDE DEF Then, m
  <2>1. ASSUME NEW j \in 1..m PROVE h[j] = Then(j, h[j - 1])
    <3>1. h[j - 1] \in Nat
      BY <1>1
    <3> QED BY <1>4, <3>1
  <2> HIDE DEF G
  <2> QED BY <1>1, <1>4, <2>1
<1> DEFINE row[j \in 0..Len(r)] ==
             IF j = 0 THEN i
             ELSE IF a[i] = r[j] THEN previous[j - 1]
             ELSE 1 + Smaller(previous[j - 1], Smaller(row[j - 1], previous[j]))
<1>6. row = [j \in 0..m |-> IF j = 0 THEN i ELSE Then(j, row[j - 1])]
  BY <1>5
<1>7. NextRow(previous, i, a, r) = row
  BY <1>6 DEF NextRow
<1> HIDE DEF row
<1>8. row[0] = i /\ \A j \in 1..m : row[j] = Then(j, row[j - 1])
  <2> HIDE DEF Then, m
  <2> QED BY <1>1, <1>6
<1> DEFINE T == {j \in 0..m : row[j] \in Nat}
<1>9. \A j \in 0..m : j \in T
  <2>1. 0 \in T
    BY <1>1, <1>8
  <2>2. ASSUME NEW j \in 1..m, j - 1 \in T PROVE j \in T
    <3>1. j \in 0..m /\ row[j - 1] \in S
      BY <1>1, <2>2
    <3> HIDE DEF Then, m
    <3>2. row[j] \in Nat
      BY <1>2, <1>8, <3>1
    <3> QED BY <3>1, <3>2
  <2>3. \A j \in 1..m : j - 1 \in T => j \in T
    BY <2>2
  <2> HIDE DEF T, m
  <2> QED BY ONLY <1>1, <2>1, <2>3, UpTo
<1>10. row \in [0..m -> Nat]
  <2> HIDE DEF Then
  <2> QED BY <1>6, <1>9
<1> QED BY <1>7, <1>8, <1>10

\* The costs, row by row.
LEMMA CostsAre ==
  ASSUME NEW a, a \in Seq(Phonemes), NEW r, r \in Seq(Phonemes)
  PROVE  LET costs == Costs(a, r)
         IN  /\ costs \in [0..Len(a) -> [0..Len(r) -> Nat]]
             /\ \A j \in 0..Len(r) : costs[0][j] = j
             /\ \A i \in 1..Len(a) : costs[i] = NextRow(costs[i - 1], i, a, r)
<1> DEFINE n == Len(a)
           S == [0..Len(r) -> Nat]
           c == [j \in 0..Len(r) |-> j]
           G == [i \in 1..n |-> [x \in S |-> NextRow(x, i, a, r)]]
<1>1. n \in Nat /\ c \in S
  OBVIOUS
<1>2. ASSUME NEW i \in 1..n, NEW x \in S PROVE NextRow(x, i, a, r) \in S
  BY RowIs
<1>3. G \in [1..n -> [S -> S]]
  <2> HIDE DEF S
  <2> QED BY <1>2
<1>4. PICK h \in [0..n -> S] : h[0] = c /\ \A i \in 1..n : h[i] = G[i][h[i - 1]]
  <2> HIDE DEF G, n, S, c
  <2> QED BY ONLY <1>1, <1>3, RecursionExists
<1>5. h = [i \in 0..n |-> IF i = 0 THEN c ELSE NextRow(h[i - 1], i, a, r)]
  <2> HIDE DEF S, n, c
  <2>1. ASSUME NEW i \in 1..n PROVE h[i] = NextRow(h[i - 1], i, a, r)
    <3>1. h[i - 1] \in S
      BY <1>1
    <3> QED BY <1>4, <3>1
  <2> HIDE DEF G
  <2> QED BY <1>1, <1>4, <2>1
<1> DEFINE rows[i \in 0..Len(a)] ==
             IF i = 0 THEN [j \in 0..Len(r) |-> j]
             ELSE NextRow(rows[i - 1], i, a, r)
<1>6. rows = [i \in 0..n |-> IF i = 0 THEN c ELSE NextRow(rows[i - 1], i, a, r)]
  BY <1>5
<1>7. Costs(a, r) = rows
  BY <1>6 DEF Costs
<1> HIDE DEF rows
<1>8. rows[0] = c /\ \A i \in 1..n : rows[i] = NextRow(rows[i - 1], i, a, r)
  <2> HIDE DEF c, n
  <2> QED BY <1>1, <1>6
<1> DEFINE T == {i \in 0..n : rows[i] \in S}
<1>9. \A i \in 0..n : i \in T
  <2>1. 0 \in T
    <3> HIDE DEF S, c
    <3> QED BY <1>1, <1>8
  <2>2. \A i \in 1..n : i - 1 \in T => i \in T
    <3> HIDE DEF S
    <3> QED BY <1>1, <1>2, <1>8
  <2> HIDE DEF T, n
  <2> QED BY ONLY <1>1, <2>1, <2>2, UpTo
<1>10. rows \in [0..n -> S]
  <2> HIDE DEF S, c
  <2> QED BY <1>6, <1>9
<1> QED BY <1>7, <1>8, <1>10

\* The costs, cell by cell.
LEMMA CostAt ==
  ASSUME NEW a, a \in Seq(Phonemes), NEW r, r \in Seq(Phonemes)
  PROVE  LET costs == Costs(a, r)
         IN  /\ \A i \in 0..Len(a), j \in 0..Len(r) : costs[i][j] \in Nat
             /\ \A j \in 0..Len(r) : costs[0][j] = j
             /\ \A i \in 0..Len(a) : costs[i][0] = i
             /\ \A i \in 1..Len(a), j \in 1..Len(r) :
                  costs[i][j] = IF a[i] = r[j] THEN costs[i - 1][j - 1]
                                ELSE 1 + Smaller(costs[i - 1][j - 1], Smaller(costs[i][j - 1], costs[i - 1][j]))
<1> DEFINE costs == Costs(a, r)
<1>1. /\ costs \in [0..Len(a) -> [0..Len(r) -> Nat]]
      /\ \A j \in 0..Len(r) : costs[0][j] = j
      /\ \A i \in 1..Len(a) : costs[i] = NextRow(costs[i - 1], i, a, r)
  BY CostsAre
<1>2. Len(a) \in Nat /\ Len(r) \in Nat
  OBVIOUS
<1> HIDE DEF costs
<1>3. ASSUME NEW i \in 1..Len(a)
      PROVE  /\ costs[i][0] = i
             /\ \A j \in 1..Len(r) :
                  costs[i][j] = IF a[i] = r[j] THEN costs[i - 1][j - 1]
                                ELSE 1 + Smaller(costs[i - 1][j - 1], Smaller(costs[i][j - 1], costs[i - 1][j]))
  <2> DEFINE previous == costs[i - 1]
  <2>1. previous \in [0..Len(r) -> Nat]
    BY <1>1, <1>2
  <2>2. costs[i] = NextRow(previous, i, a, r)
    BY <1>1
  <2> HIDE DEF previous
  <2> DEFINE row == NextRow(previous, i, a, r)
  <2>3. /\ row[0] = i
        /\ \A j \in 1..Len(r) :
             row[j] = IF a[i] = r[j] THEN previous[j - 1]
                      ELSE 1 + Smaller(previous[j - 1], Smaller(row[j - 1], previous[j]))
    BY <2>1, RowIs
  <2> HIDE DEF row
  <2> QED BY <2>2, <2>3 DEF previous, row
<1>4. costs[0][0] = 0
  <2>1. 0 \in 0..Len(r)
    BY <1>2
  <2> QED BY <1>1, <2>1
<1>5. \A i \in 0..Len(a), j \in 0..Len(r) : costs[i][j] \in Nat
  BY <1>1
<1>6. \A i \in 0..Len(a) : i = 0 \/ i \in 1..Len(a)
  BY <1>2
<1>7. \A i \in 0..Len(a) : costs[i][0] = i
  BY <1>3, <1>4, <1>6
<1> QED BY <1>5, <1>7, <1>1, <1>2, <1>3, <1>4 DEF costs

-----------------------------------------------------------------------------
\* The traceback: a recursion over cells, each of which leads to one nearer to
\* the origin.

\* The cells of the table.
Cells(n, m) == (0..n) \X (0..m)

\* Induction over the cells of a table, from each cell to those it may lead
\* back to.
LEMMA CellInduction ==
  ASSUME NEW n \in Nat, NEW m \in Nat, NEW S,
         \A i \in 0..n, j \in 0..m :
           (\A x \in 0..i, y \in 0..j : x + y < i + j => <<x, y>> \in S) => <<i, j>> \in S
  PROVE  \A i \in 0..n, j \in 0..m : <<i, j>> \in S
<1> DEFINE T == {k \in Nat : \A i \in 0..n, j \in 0..m : i + j <= k => <<i, j>> \in S}
<1>1. 0 \in T
  <2> SUFFICES ASSUME NEW i \in 0..n, NEW j \in 0..m, i + j <= 0 PROVE <<i, j>> \in S
    OBVIOUS
  <2>1. \A x \in 0..i, y \in 0..j : ~(x + y < i + j)
    OBVIOUS
  <2> QED BY <2>1
<1>2. ASSUME NEW k \in Nat, k \in T PROVE k + 1 \in T
  <2> SUFFICES ASSUME NEW i \in 0..n, NEW j \in 0..m, i + j <= k + 1 PROVE <<i, j>> \in S
    OBVIOUS
  <2>1. \A x \in 0..i, y \in 0..j : x + y < i + j => x \in 0..n /\ y \in 0..m /\ x + y <= k
    OBVIOUS
  <2>2. \A x \in 0..i, y \in 0..j : x + y < i + j => <<x, y>> \in S
    BY <1>2, <2>1
  <2> QED BY <2>2
<1> HIDE DEF T
<1>3. \A k \in Nat : k \in T
  BY <1>1, <1>2, SetInduction
<1>4. ASSUME NEW i \in 0..n, NEW j \in 0..m PROVE <<i, j>> \in S
  <2>1. i + j \in Nat /\ i + j <= i + j
    OBVIOUS
  <2> QED BY <1>3, <2>1 DEF T
<1> QED BY <1>4

\* A table of directions that leads back to the origin from every cell.
Leads(dir, n, m) ==
  \A i \in 0..n, j \in 0..m : i + j # 0 =>
    /\ dir[<<i, j>>] \in Kinds
    /\ i = 0 => dir[<<i, j>>] = "deletion"
    /\ j = 0 => dir[<<i, j>>] = "insertion"

\* In such a table every cell leads to one nearer to the origin (Before, for the
\* indices that alignPhonemesWithWorkspace decrements).
LEMMA BeforeIsCell ==
  ASSUME NEW n \in Nat, NEW m \in Nat, NEW dir, Leads(dir, n, m)
  PROVE  \A i \in 0..n, j \in 0..m : i + j # 0 =>
           \E x \in 0..i, y \in 0..j : /\ Before(dir[<<i, j>>], i, j) = <<x, y>>
                                       /\ x + y < i + j /\ <<x, y>> \in Cells(n, m)
<1> SUFFICES ASSUME NEW i \in 0..n, NEW j \in 0..m, i + j # 0
             PROVE  \E x \in 0..i, y \in 0..j : /\ Before(dir[<<i, j>>], i, j) = <<x, y>>
                                                /\ x + y < i + j /\ <<x, y>> \in Cells(n, m)
  OBVIOUS
<1> DEFINE d == dir[<<i, j>>]
<1>1. /\ d \in Kinds
      /\ i = 0 => d = "deletion" /\ j # 0
      /\ j = 0 => d = "insertion" /\ i # 0
  BY DEF Leads, Kinds
<1> HIDE DEF d
<1>2. CASE d = "deletion"
  <2>1. Before(d, i, j) = <<i, j - 1>> /\ j # 0
    BY <1>1, <1>2 DEF Before
  <2>2. i \in 0..i /\ j - 1 \in 0..j /\ i + (j - 1) < i + j /\ <<i, j - 1>> \in Cells(n, m)
    BY <2>1 DEF Cells
  <2> QED BY <2>1, <2>2 DEF d
<1>3. CASE d = "insertion"
  <2>1. Before(d, i, j) = <<i - 1, j>> /\ i # 0
    BY <1>1, <1>3 DEF Before
  <2>2. i - 1 \in 0..i /\ j \in 0..j /\ i - 1 + j < i + j /\ <<i - 1, j>> \in Cells(n, m)
    BY <2>1 DEF Cells
  <2> QED BY <2>1, <2>2 DEF d
<1>4. CASE d \notin {"deletion", "insertion"}
  <2>1. Before(d, i, j) = <<i - 1, j - 1>> /\ i # 0 /\ j # 0
    BY <1>1, <1>4 DEF Before
  <2>2. i - 1 \in 0..i /\ j - 1 \in 0..j /\ i - 1 + (j - 1) < i + j /\ <<i - 1, j - 1>> \in Cells(n, m)
    BY <2>1 DEF Cells
  <2> QED BY <2>1, <2>2 DEF d
<1> QED BY <1>2, <1>3, <1>4

\* A table of paths, each of which is the one before it and one operation, and
\* such a table of sequences of operations.
Extends(g, dir, n, m) ==
  /\ g[<<0, 0>>] = <<>>
  /\ \A i \in 0..n, j \in 0..m : i + j # 0 =>
       g[<<i, j>>] = Append(g[Before(dir[<<i, j>>], i, j)], OperationAt(dir[<<i, j>>], i, j))

Paths(g, dir, n, m) ==
  /\ g \in [Cells(n, m) -> Seq([kind : Kinds, actualIndex : Int, referenceIndex : Int])]
  /\ Extends(g, dir, n, m)

\* The table of paths exists: it is filled one antidiagonal after another.
LEMMA PathsExist ==
  ASSUME NEW n \in Nat, NEW m \in Nat, NEW dir, Leads(dir, n, m)
  PROVE  \E g : Paths(g, dir, n, m)
<1> DEFINE Ops == [kind : Kinds, actualIndex : Int, referenceIndex : Int]
           S == [Cells(n, m) -> Seq(Ops)]
           c == [cell \in Cells(n, m) |-> <<>>]
           N == n + m
           Then(f, i, j) == Append(f[Before(dir[<<i, j>>], i, j)], OperationAt(dir[<<i, j>>], i, j))
           G == [k \in 1..N |-> [f \in S |-> [cell \in Cells(n, m) |->
                  IF cell[1] + cell[2] = k THEN Then(f, cell[1], cell[2]) ELSE f[cell]]]]
<1>1. N \in Nat /\ c \in S
  OBVIOUS
<1>B. \A i \in 0..n, j \in 0..m : i + j # 0 =>
        \E x \in 0..i, y \in 0..j : /\ Before(dir[<<i, j>>], i, j) = <<x, y>>
                                    /\ x + y < i + j /\ <<x, y>> \in Cells(n, m)
  <2> HIDE DEF c, N
  <2> QED BY BeforeIsCell
<1>2. ASSUME NEW f \in S, NEW i \in 0..n, NEW j \in 0..m, i + j # 0
      PROVE  Then(f, i, j) \in Seq(Ops)
  <2>1. Before(dir[<<i, j>>], i, j) \in Cells(n, m)
    <3> HIDE DEF Ops, S, c, N, G, Then
    <3> QED BY <1>2, <1>B
  <2>2. dir[<<i, j>>] \in Kinds
    BY <1>2 DEF Leads
  <2>3. OperationAt(dir[<<i, j>>], i, j) \in Ops
    BY <2>2 DEF OperationAt, NoIndex
  <2> HIDE DEF Ops
  <2>4. f[Before(dir[<<i, j>>], i, j)] \in Seq(Ops)
    BY <2>1
  <2> QED BY <2>3, <2>4
<1>3. G \in [1..N -> [S -> S]]
  <2> SUFFICES ASSUME NEW k \in 1..N, NEW f \in S
               PROVE  [cell \in Cells(n, m) |-> IF cell[1] + cell[2] = k THEN Then(f, cell[1], cell[2]) ELSE f[cell]] \in S
    OBVIOUS
  <2> SUFFICES ASSUME NEW cell \in Cells(n, m)
               PROVE  (IF cell[1] + cell[2] = k THEN Then(f, cell[1], cell[2]) ELSE f[cell]) \in Seq(Ops)
    OBVIOUS
  <2>1. cell[1] \in 0..n /\ cell[2] \in 0..m /\ cell = <<cell[1], cell[2]>>
    BY DEF Cells
  <2>2. cell[1] + cell[2] = k => cell[1] + cell[2] # 0
    BY <2>1
  <2>3. f[cell] \in Seq(Ops)
    OBVIOUS
  <2> HIDE DEF Then, Ops, S
  <2> QED BY <1>2, <2>1, <2>2, <2>3
<1>4. PICK h \in [0..N -> S] : h[0] = c /\ \A k \in 1..N : h[k] = G[k][h[k - 1]]
  <2> HIDE DEF G, N, S, c
  <2> QED BY ONLY <1>1, <1>3, RecursionExists
<1>5. ASSUME NEW k \in 1..N, NEW i \in 0..n, NEW j \in 0..m
      PROVE  h[k][<<i, j>>] = IF i + j = k THEN Then(h[k - 1], i, j) ELSE h[k - 1][<<i, j>>]
  <2>1. h[k - 1] \in S /\ <<i, j>> \in Cells(n, m)
    <3>1. <<i, j>> \in Cells(n, m)
      BY DEF Cells
    <3> HIDE DEF S, N, G
    <3> QED BY <1>1, <1>4, <3>1
  <2>2. h[k] = [cell \in Cells(n, m) |->
                 IF cell[1] + cell[2] = k THEN Then(h[k - 1], cell[1], cell[2]) ELSE h[k - 1][cell]]
    <3> HIDE DEF S, Then
    <3> QED BY <1>4, <2>1
  <2> HIDE DEF Then
  <2> QED BY <2>1, <2>2
\* What is in a cell stays there.
<1> DEFINE Kept == {k \in 0..N : \A i \in 0..n, j \in 0..m : i + j <= k => h[k][<<i, j>>] = h[i + j][<<i, j>>]}
<1>6. \A k \in 0..N : k \in Kept
  <2>1. 0 \in Kept
    <3> SUFFICES ASSUME NEW i \in 0..n, NEW j \in 0..m, i + j <= 0 PROVE i + j = 0
      BY <1>1
    <3> QED OBVIOUS
  <2>2. ASSUME NEW k \in 1..N, k - 1 \in Kept PROVE k \in Kept
    <3>0. k \in 0..N
      BY <1>1
    <3> SUFFICES ASSUME NEW i \in 0..n, NEW j \in 0..m, i + j <= k, i + j # k
                 PROVE  h[k][<<i, j>>] = h[i + j][<<i, j>>]
      BY <3>0
    <3>1. i + j <= k - 1
      BY <1>1
    <3> HIDE DEF Then, N
    <3> QED BY <1>5, <2>2, <3>1
  <2>3. \A k \in 1..N : k - 1 \in Kept => k \in Kept
    BY <2>2
  <2> HIDE DEF Kept, N
  <2> QED BY ONLY <1>1, <2>1, <2>3, UpTo
<1> DEFINE g == [cell \in Cells(n, m) |-> h[cell[1] + cell[2]][cell]]
<1>7. \A i \in 0..n, j \in 0..m : /\ <<i, j>> \in Cells(n, m) /\ g[<<i, j>>] = h[i + j][<<i, j>>]
                                  /\ i + j \in 0..N
  BY DEF Cells
<1>8. g \in S
  <2> SUFFICES ASSUME NEW cell \in Cells(n, m) PROVE h[cell[1] + cell[2]][cell] \in Seq(Ops)
    OBVIOUS
  <2>1. cell[1] + cell[2] \in 0..N
    BY DEF Cells
  <2>2. h[cell[1] + cell[2]] \in S
    <3> HIDE DEF S, N
    <3> QED BY <1>4, <2>1
  <2> HIDE DEF Ops
  <2> QED BY <2>2
<1>9. g[<<0, 0>>] = <<>>
  BY <1>1, <1>4, <1>7
<1>10. ASSUME NEW i \in 0..n, NEW j \in 0..m, i + j # 0
       PROVE  g[<<i, j>>] = Then(g, i, j)
  <2> DEFINE k == i + j
  <2>1. k \in 1..N /\ k - 1 \in 0..N
    BY <1>10
  <2>2. g[<<i, j>>] = Then(h[k - 1], i, j)
    <3> HIDE DEF Then, g, N
    <3> QED BY <1>5, <1>7, <2>1
  <2>3. PICK x \in 0..i, y \in 0..j : /\ Before(dir[<<i, j>>], i, j) = <<x, y>>
                                      /\ x + y < i + j
    <3> HIDE DEF Ops, S, c, N, G, Then, g, Kept, k
    <3> QED BY <1>10, <1>B
  <2>4. x \in 0..n /\ y \in 0..m /\ x + y <= k - 1
    BY <2>3
  <2>5. h[k - 1][<<x, y>>] = h[x + y][<<x, y>>]
    <3> HIDE DEF k, N
    <3> QED BY <1>6, <2>1, <2>4
  <2>6. g[<<x, y>>] = h[k - 1][<<x, y>>]
    <3> HIDE DEF g
    <3> QED BY <1>7, <2>4, <2>5
  <2> HIDE DEF g, k
  <2> QED BY <2>2, <2>3, <2>6
<1> HIDE DEF g
<1> QED BY <1>8, <1>9, <1>10 DEF Paths, Extends

\* The table of paths is unique.
LEMMA PathsAreUnique ==
  ASSUME NEW n \in Nat, NEW m \in Nat, NEW dir, Leads(dir, n, m),
         NEW f, Extends(f, dir, n, m), NEW g, Extends(g, dir, n, m)
  PROVE  f[<<n, m>>] = g[<<n, m>>]
<1>B. \A i \in 0..n, j \in 0..m : i + j # 0 =>
        \E x \in 0..i, y \in 0..j : /\ Before(dir[<<i, j>>], i, j) = <<x, y>>
                                    /\ x + y < i + j /\ <<x, y>> \in Cells(n, m)
  BY BeforeIsCell
<1> DEFINE Same == {cell \in Cells(n, m) : f[cell] = g[cell]}
<1>1. ASSUME NEW i \in 0..n, NEW j \in 0..m,
             \A x \in 0..i, y \in 0..j : x + y < i + j => <<x, y>> \in Same
      PROVE  <<i, j>> \in Same
  <2>1. <<i, j>> \in Cells(n, m)
    BY DEF Cells
  <2>2. CASE i + j = 0
    <3>1. i = 0 /\ j = 0
      BY <2>2
    <3> QED BY <2>1, <3>1 DEF Extends
  <2>3. CASE i + j # 0
    <3>0. PICK x \in 0..i, y \in 0..j : Before(dir[<<i, j>>], i, j) = <<x, y>> /\ x + y < i + j
      <4> HIDE DEF Same
      <4> QED BY <2>3, <1>B
    <3>1. Before(dir[<<i, j>>], i, j) \in Same
      <4> HIDE DEF Same
      <4> QED BY <1>1, <3>0
    <3> QED BY <2>1, <2>3, <3>1 DEF Extends
  <2> QED BY <2>2, <2>3
<1> HIDE DEF Same
<1>2. \A i \in 0..n, j \in 0..m : <<i, j>> \in Same
  BY <1>1, CellInduction
<1>3. n \in 0..n /\ m \in 0..m
  OBVIOUS
<1> QED BY <1>2, <1>3 DEF Same

\* The directions of an alignment, by cell.
Table(a, r) ==
  [cell \in Cells(Len(a), Len(r)) |-> Direction(Costs(a, r), cell[1], cell[2], a, r)]

\* The directions of an alignment lead back: at the edges they are what the code
\* writes into the first row and the first column.
LEMMA TableLeads ==
  ASSUME NEW a, a \in Seq(Phonemes), NEW r, r \in Seq(Phonemes)
  PROVE  Leads(Table(a, r), Len(a), Len(r))
<1> SUFFICES ASSUME NEW i \in 0..Len(a), NEW j \in 0..Len(r), i + j # 0
             PROVE  /\ Table(a, r)[<<i, j>>] \in Kinds
                    /\ i = 0 => Table(a, r)[<<i, j>>] = "deletion"
                    /\ j = 0 => Table(a, r)[<<i, j>>] = "insertion"
  BY DEF Leads
<1>1. Table(a, r)[<<i, j>>] = Direction(Costs(a, r), i, j, a, r)
  BY DEF Table, Cells
<1> QED BY <1>1 DEF Direction, Kinds

\* The offsets of the flat table.
LEMMA Offsets ==
  ASSUME NEW n \in Nat, NEW w \in Nat \ {0}
  PROVE  \A i \in 0..n, j \in 0..w - 1 :
           /\ (i * w + j) \div w = i /\ (i * w + j) % w = j
           /\ i + j # 0 => i * w + j \in 1..(n + 1) * w - 1
<1> SUFFICES ASSUME NEW i \in 0..n, NEW j \in 0..w - 1
             PROVE  /\ (i * w + j) \div w = i /\ (i * w + j) % w = j
                    /\ i + j # 0 => i * w + j \in 1..(n + 1) * w - 1
  OBVIOUS
<1>1. (i * w + j) \div w = i /\ (i * w + j) % w = j
  OBVIOUS
<1>2. i + j # 0 => i * w + j \in 1..(n + 1) * w - 1
  <2>1. i * w \in Nat /\ i * w <= n * w
    OBVIOUS
  <2>2. (n + 1) * w = n * w + w /\ n * w \in Nat
    OBVIOUS
  <2>3. i # 0 => i * w >= 1
    OBVIOUS
  <2> QED BY <2>1, <2>2, <2>3
<1> QED BY <1>1, <1>2

\* What the traceback reads where the written cells are those of a call.
LEMMA TracebackIs ==
  ASSUME NEW a, a \in Seq(Phonemes), NEW r, r \in Seq(Phonemes), NEW d,
         \A i \in 0..Len(a), j \in 0..Len(r) : i + j # 0 =>
           d[i * (Len(r) + 1) + j] = Table(a, r)[<<i, j>>],
         NEW g, Paths(g, Table(a, r), Len(a), Len(r))
  PROVE  Traceback(d, a, r) = g[<<Len(a), Len(r)>>]
<1> DEFINE n == Len(a)
           m == Len(r)
           w == Len(r) + 1
           dir == Table(a, r)
<1>1. n \in Nat /\ m \in Nat
  OBVIOUS
<1>2. Leads(dir, n, m)
  BY TableLeads
<1> DEFINE Read(p, cell) ==
             IF cell = <<0, 0>> THEN <<>>
             ELSE LET direction == d[cell[1] * w + cell[2]]
                  IN  Append(p[Before(direction, cell[1], cell[2])],
                             OperationAt(direction, cell[1], cell[2]))
<1>3. \A i \in 0..n, j \in 0..m : i + j # 0 => d[i * w + j] = dir[<<i, j>>]
  OBVIOUS
<1>4. Extends(g, dir, n, m) /\ DOMAIN g = (0..n) \X (0..m) /\ g = [cell \in DOMAIN g |-> g[cell]]
  BY DEF Paths, Cells
<1>Z. \A i \in 0..n, j \in 0..m : i + j # 0 => <<i, j>> # <<0, 0>>
  BY <1>1
<1>5. g = [cell \in (0..n) \X (0..m) |-> Read(g, cell)]
  <2>1. ASSUME NEW i \in 0..n, NEW j \in 0..m PROVE g[<<i, j>>] = Read(g, <<i, j>>)
    <3>1. CASE i + j = 0
      <4>1. i = 0 /\ j = 0
        BY <1>1, <3>1
      <4> QED BY <1>4, <4>1 DEF Extends
    <3>2. CASE i + j # 0
      <4>1. g[<<i, j>>] = Append(g[Before(dir[<<i, j>>], i, j)], OperationAt(dir[<<i, j>>], i, j))
        BY <1>4, <3>2 DEF Extends
      <4> HIDE DEF n, m, w, dir
      <4> QED BY <1>3, <1>Z, <3>2, <4>1
    <3> QED BY <3>1, <3>2
  <2>2. \A cell \in (0..n) \X (0..m) : g[cell] = Read(g, cell)
    <3> SUFFICES ASSUME NEW cell \in (0..n) \X (0..m) PROVE g[cell] = Read(g, cell)
      OBVIOUS
    <3>1. PICK i \in 0..n, j \in 0..m : cell = <<i, j>>
      OBVIOUS
    <3> HIDE DEF Read, n, m
    <3> QED BY <2>1, <3>1
  <2> HIDE DEF Read, n, m
  <2> QED BY <1>4, <2>2
<1> DEFINE path[cell \in (0..Len(a)) \X (0..Len(r))] ==
             IF cell = <<0, 0>> THEN <<>>
             ELSE LET direction == d[cell[1] * w + cell[2]]
                  IN  Append(path[Before(direction, cell[1], cell[2])],
                             OperationAt(direction, cell[1], cell[2]))
<1>6. path = [cell \in (0..n) \X (0..m) |-> Read(path, cell)]
  BY <1>5
<1>7. Traceback(d, a, r) = path[<<n, m>>]
  BY <1>6 DEF Traceback
<1> HIDE DEF path
<1>8. Extends(path, dir, n, m)
  <2>1. path[<<0, 0>>] = <<>>
    <3>1. <<0, 0>> \in (0..n) \X (0..m)
      BY <1>1
    <3> QED BY <1>6, <3>1
  <2>2. ASSUME NEW i \in 0..n, NEW j \in 0..m, i + j # 0
        PROVE  path[<<i, j>>] = Append(path[Before(dir[<<i, j>>], i, j)], OperationAt(dir[<<i, j>>], i, j))
    <3>1. <<i, j>> \in (0..n) \X (0..m)
      OBVIOUS
    <3>2. path[<<i, j>>] = Read(path, <<i, j>>)
      <4> HIDE DEF Read, n, m
      <4> QED BY <1>6, <3>1
    <3> HIDE DEF n, m, w, dir
    <3> QED BY <1>3, <1>Z, <2>2, <3>2
  <2> HIDE DEF n, m, dir, Read
  <2> QED BY <2>1, <2>2 DEF Extends
<1>9. path[<<n, m>>] = g[<<n, m>>]
  <2> HIDE DEF n, m, dir, Read, w
  <2>1. Extends(g, dir, n, m)
    BY <1>4
  <2>2. n \in Nat
    BY <1>1
  <2>3. m \in Nat
    BY <1>1
  <2> QED BY ONLY <2>1, <2>2, <2>3, <1>2, <1>8, PathsAreUnique
<1> QED BY <1>7, <1>9

-----------------------------------------------------------------------------
\* The shared workspace.

\* What a call writes, in a workspace that has room for it.
LEMMA WrittenTable ==
  ASSUME NEW a, a \in Seq(Phonemes), NEW r, r \in Seq(Phonemes), NEW d,
         1..(Len(a) + 1) * (Len(r) + 1) - 1 \subseteq DOMAIN d
  PROVE  \A i \in 0..Len(a), j \in 0..Len(r) : i + j # 0 =>
           WriteDirections(d, a, r)[i * (Len(r) + 1) + j] = Table(a, r)[<<i, j>>]
<1> DEFINE n == Len(a)
           w == Len(r) + 1
<1>1. n \in Nat /\ w \in Nat \ {0} /\ 0..Len(r) = 0..w - 1
  OBVIOUS
<1> SUFFICES ASSUME NEW i \in 0..n, NEW j \in 0..Len(r), i + j # 0
             PROVE  WriteDirections(d, a, r)[i * w + j] = Table(a, r)[<<i, j>>]
  OBVIOUS
<1> DEFINE offset == i * w + j
<1>2. /\ offset \div w = i /\ offset % w = j /\ offset \in 1..(n + 1) * w - 1
  <2>1. j \in 0..w - 1
    BY <1>1
  <2>2. i \in 0..n /\ i + j # 0
    OBVIOUS
  <2> HIDE DEF n, w
  <2>3. \A k \in 0..n, l \in 0..w - 1 :
          /\ (k * w + l) \div w = k /\ (k * w + l) % w = l
          /\ k + l # 0 => k * w + l \in 1..(n + 1) * w - 1
    BY ONLY <1>1, Offsets
  <2> QED BY <2>1, <2>2, <2>3
<1>3. offset \in DOMAIN d
  BY <1>2
<1>4. WriteDirections(d, a, r)[offset] = Direction(Costs(a, r), i, j, a, r)
  <2> HIDE DEF offset
  <2> QED BY <1>2, <1>3 DEF WriteDirections
<1>5. Table(a, r)[<<i, j>>] = Direction(Costs(a, r), i, j, a, r)
  BY DEF Table, Cells
<1> QED BY <1>4, <1>5

\* A workspace of a given capacity has room for every reference within it.
LEMMA RoomFor ==
  ASSUME NEW n \in Nat, NEW m \in Nat, NEW capacity \in Nat, m <= capacity
  PROVE  1..(n + 1) * (m + 1) - 1 \subseteq 0..(n + 1) * (capacity + 1) - 1
<1>1. (n + 1) * (m + 1) <= (n + 1) * (capacity + 1)
  OBVIOUS
<1>2. (n + 1) * (m + 1) \in Nat /\ (n + 1) * (capacity + 1) \in Nat
  OBVIOUS
<1> DEFINE x == (n + 1) * (m + 1)
           y == (n + 1) * (capacity + 1)
<1>3. x \in Nat /\ y \in Nat /\ x <= y
  BY <1>1, <1>2
<1> HIDE DEF x, y
<1>4. 1..x - 1 \subseteq 0..y - 1
  BY <1>3
<1> QED BY <1>4 DEF x, y

\* Whatever the workspace held, if it is large enough the call returns the path
\* that the directions of its own arguments describe.
LEMMA AlignmentIs ==
  ASSUME NEW a, a \in Seq(Phonemes), NEW r, r \in Seq(Phonemes),
         NEW g, Paths(g, Table(a, r), Len(a), Len(r))
  PROVE  /\ AlignPhonemes(a, r) = PathFrom(g[<<Len(a), Len(r)>>], a, r)
         /\ \A d : 1..(Len(a) + 1) * (Len(r) + 1) - 1 \subseteq DOMAIN d =>
              PathFrom(Traceback(WriteDirections(d, a, r), a, r), a, r) = AlignPhonemes(a, r)
<1>1. ASSUME NEW d, 1..(Len(a) + 1) * (Len(r) + 1) - 1 \subseteq DOMAIN d
      PROVE  Traceback(WriteDirections(d, a, r), a, r) = g[<<Len(a), Len(r)>>]
  <2> DEFINE e == WriteDirections(d, a, r)
  <2>1. \A i \in 0..Len(a), j \in 0..Len(r) : i + j # 0 =>
          e[i * (Len(r) + 1) + j] = Table(a, r)[<<i, j>>]
    BY <1>1, WrittenTable
  <2> HIDE DEF e
  <2>2. Traceback(e, a, r) = g[<<Len(a), Len(r)>>]
    BY <2>1, TracebackIs
  <2> QED BY <2>2 DEF e
<1> DEFINE fresh == FreshDirections(Len(a), Len(r))
<1>2. 1..(Len(a) + 1) * (Len(r) + 1) - 1 \subseteq DOMAIN fresh
  <2>1. DOMAIN fresh = 0..(Len(a) + 1) * (Len(r) + 1) - 1
    BY DEF FreshDirections
  <2>2. 1..(Len(a) + 1) * (Len(r) + 1) - 1 \subseteq 0..(Len(a) + 1) * (Len(r) + 1) - 1
    OBVIOUS
  <2> QED BY <2>1, <2>2
<1> HIDE DEF fresh
<1>3. AlignPhonemes(a, r) = PathFrom(Traceback(WriteDirections(fresh, a, r), a, r), a, r)
  BY DEF AlignPhonemes, fresh
<1> QED BY <1>1, <1>2, <1>3

\* The inductive invariant: the workspace keeps the size it was made with, and
\* the last call returned what a fresh workspace gives.
Reused ==
  /\ actual \in Seq(Phonemes) /\ reference \in Seq(Phonemes)
  /\ DOMAIN directions = 0..(Len(actual) + 1) * (ReferenceCapacity + 1) - 1
  /\ WorkspaceReuseIsInvisible

\* The phonemes of an observation and of a reference span are sequences.
LEMMA StringsAreSequences ==
  ASSUME NEW capacity \in Nat
  PROVE  Strings(capacity) \subseteq Seq(Phonemes)
BY DEF Strings

\* The invariant holds in every state: a call writes each cell that it reads.
LEMMA ReusedInvariant == Spec => []Reused
<1>1. Init => Reused
  <2> SUFFICES ASSUME Init PROVE Reused
    OBVIOUS
  <2>1. actual \in Seq(Phonemes) /\ reference \in Seq(Phonemes)
    BY CapacityAssumption, StringsAreSequences DEF Init
  <2>2. DOMAIN directions = 0..(Len(actual) + 1) * (ReferenceCapacity + 1) - 1
    BY DEF Init, FreshDirections
  <2> QED BY <2>1, <2>2 DEF Init, Reused, WorkspaceReuseIsInvisible
<1>2. Reused /\ [Next]_vars => Reused'
  <2> SUFFICES ASSUME Reused, [Next]_vars PROVE Reused'
    OBVIOUS
  <2>1. CASE UNCHANGED vars
    BY <2>1 DEF vars, Reused, WorkspaceReuseIsInvisible
  <2>2. CASE Next
    <3>1. PICK r \in Strings(ReferenceCapacity) : AlignPhonemesWithWorkspace(r)
      BY <2>2 DEF Next
    <3>2. /\ actual' = actual /\ reference' = r /\ Len(r) <= ReferenceCapacity
          /\ directions' = WriteDirections(directions, actual, r)
          /\ result' = PathFrom(Traceback(WriteDirections(directions, actual, r), actual, r), actual, r)
      BY <3>1 DEF AlignPhonemesWithWorkspace
    <3>3. r \in Seq(Phonemes) /\ actual \in Seq(Phonemes)
      BY CapacityAssumption, StringsAreSequences DEF Reused
    <3>4. DOMAIN directions' = DOMAIN directions
      BY <3>2 DEF WriteDirections
    <3>5. 1..(Len(actual) + 1) * (Len(r) + 1) - 1 \subseteq DOMAIN directions
      <4>1. Len(actual) \in Nat /\ Len(r) \in Nat
        BY <3>3
      <4> QED BY <3>2, <4>1, CapacityAssumption, RoomFor DEF Reused
    <3>6. PICK g : Paths(g, Table(actual, r), Len(actual), Len(r))
      <4>1. Len(actual) \in Nat /\ Len(r) \in Nat
        BY <3>3
      <4> QED BY <3>3, <4>1, TableLeads, PathsExist
    <3>7. result' = AlignPhonemes(actual, r)
      BY <3>2, <3>3, <3>5, <3>6, AlignmentIs
    <3> QED BY <3>2, <3>3, <3>4, <3>7 DEF Reused, WorkspaceReuseIsInvisible
  <2> QED BY <2>1, <2>2
<1> QED BY <1>1, <1>2, PTL DEF Spec

-----------------------------------------------------------------------------
\* A path is an alignment of the phonemes up to its cell.

\* The operations of paths.
PathOperations == [kind : Kinds, actualIndex : Int, referenceIndex : Int]

\* One more operation consumes one more index, or none.
LEMMA ConsumesMore ==
  ASSUME NEW K \in Nat, NEW f \in [1..K -> Int], NEW h \in [1..K + 1 -> Int],
         \A k \in 1..K : h[k] = f[k],
         NEW length \in Nat, Consumes(f, length)
  PROVE  /\ h[K + 1] = NoIndex => Consumes(h, length)
         /\ h[K + 1] = length => Consumes(h, length + 1)
<1>1. /\ {f[k] : k \in 1..K} \ {NoIndex} = 0..length - 1
      /\ \A k, l \in 1..K : k < l /\ f[k] # NoIndex /\ f[l] # NoIndex => f[k] < f[l]
  BY DEF Consumes
<1>2. {h[k] : k \in 1..K + 1} = {f[k] : k \in 1..K} \cup {h[K + 1]}
  <2>1. \A k \in 1..K + 1 : k \in 1..K \/ k = K + 1
    OBVIOUS
  <2>2. \A k \in 1..K : k \in 1..K + 1
    OBVIOUS
  <2>3. K + 1 \in 1..K + 1
    OBVIOUS
  <2> QED BY <2>1, <2>2, <2>3
<1>3. \A k \in 1..K : f[k] # NoIndex => f[k] < length
  BY <1>1
<1>4. ASSUME NEW k \in 1..K + 1, NEW l \in 1..K + 1, k < l,
             h[k] # NoIndex, h[l] # NoIndex, h[K + 1] \in {NoIndex, length}
      PROVE  h[k] < h[l]
  <2>1. k \in 1..K /\ h[k] = f[k]
    BY <1>4
  <2>2. CASE l \in 1..K
    BY <1>1, <1>4, <2>1, <2>2
  <2>3. CASE l = K + 1
    BY <1>3, <1>4, <2>1, <2>3
  <2> QED BY <2>2, <2>3
<1>5. CASE h[K + 1] = NoIndex
  <2>1. {h[k] : k \in 1..K + 1} \ {NoIndex} = 0..length - 1
    BY <1>1, <1>2, <1>5
  <2> QED BY <1>4, <1>5, <2>1 DEF Consumes, NoIndex
<1>6. CASE h[K + 1] = length
  <2>1. {h[k] : k \in 1..K + 1} \ {NoIndex} = 0..(length + 1) - 1
    <3>1. 0..(length + 1) - 1 = (0..length - 1) \cup {length}
      OBVIOUS
    <3>2. length # NoIndex
      BY DEF NoIndex
    <3> QED BY <1>1, <1>2, <1>6, <3>1, <3>2
  <2> QED BY <1>4, <1>6, <2>1 DEF Consumes, NoIndex
<1> QED BY <1>5, <1>6

\* The indices that the operations of a path consume.
ActualIndices(ops)    == [k \in DOMAIN ops |-> ops[k].actualIndex]
ReferenceIndices(ops) == [k \in DOMAIN ops |-> ops[k].referenceIndex]

\* The operations of a path label the phonemes that they pair.
Labels(ops, a, r) ==
  \A k \in DOMAIN ops :
    LET o == ops[k]
    IN  o.actualIndex # NoIndex /\ o.referenceIndex # NoIndex =>
          IsMatch(o) = (a[o.actualIndex + 1] = r[o.referenceIndex + 1])

\* A path to a cell is an alignment of the prefixes that end there, and it has
\* as many edits as the cell costs.
Aligns(ops, i, j, a, r) ==
  /\ Consumes(ActualIndices(ops), i)
  /\ Consumes(ReferenceIndices(ops), j)
  /\ Labels(ops, a, r)
  /\ IsFiniteSet(Edits(ops)) /\ Cardinality(Edits(ops)) = Costs(a, r)[i][j]

\* The empty path aligns the empty prefixes, at no cost.
LEMMA EmptyAligns ==
  ASSUME NEW a, a \in Seq(Phonemes), NEW r, r \in Seq(Phonemes)
  PROVE  Aligns(<<>>, 0, 0, a, r)
<1>1. DOMAIN <<>> = {}
  OBVIOUS
<1>2. Consumes(ActualIndices(<<>>), 0) /\ Consumes(ReferenceIndices(<<>>), 0)
  <2>1. DOMAIN ActualIndices(<<>>) = {} /\ DOMAIN ReferenceIndices(<<>>) = {}
    BY <1>1 DEF ActualIndices, ReferenceIndices
  <2>2. 0..0 - 1 = {}
    OBVIOUS
  <2> QED BY <2>1, <2>2 DEF Consumes
<1>3. Labels(<<>>, a, r)
  BY <1>1 DEF Labels
<1>4. Edits(<<>>) = {}
  BY <1>1 DEF Edits
<1>5. Costs(a, r)[0][0] = 0
  <2>1. 0 \in 0..Len(r)
    OBVIOUS
  <2> QED BY <2>1, CostAt
<1> QED BY <1>2, <1>3, <1>4, <1>5, FS_EmptySet DEF Aligns

\* An operation added to a path.
LEMMA EditsMore ==
  ASSUME NEW ops, ops \in Seq(PathOperations), NEW o, o \in PathOperations,
         IsFiniteSet(Edits(ops))
  PROVE  LET more == Append(ops, o)
         IN  /\ IsFiniteSet(Edits(more))
             /\ Cardinality(Edits(more)) = Cardinality(Edits(ops)) + IF IsMatch(o) THEN 0 ELSE 1
<1> DEFINE more == Append(ops, o)
           K == Len(ops)
<1>1. /\ K \in Nat /\ DOMAIN ops = 1..K /\ DOMAIN more = 1..K + 1 /\ more[K + 1] = o
      /\ \A k \in 1..K : more[k] = ops[k]
  OBVIOUS
<1> HIDE DEF more, K
<1>2. /\ \A k \in 1..K + 1 : k \in 1..K \/ k = K + 1
      /\ \A k \in 1..K : k \in 1..K + 1
      /\ K + 1 \in 1..K + 1 /\ K + 1 \notin 1..K
  BY <1>1
<1>3. CASE IsMatch(o)
  <2>1. Edits(more) = Edits(ops)
    BY <1>1, <1>2, <1>3 DEF Edits
  <2>2. Cardinality(Edits(ops)) \in Nat
    BY FS_CardinalityType
  <2> QED BY <1>3, <2>1, <2>2 DEF more
<1>4. CASE ~IsMatch(o)
  <2>1. Edits(more) = Edits(ops) \cup {K + 1} /\ K + 1 \notin Edits(ops)
    BY <1>1, <1>2, <1>4 DEF Edits
  <2>2. /\ IsFiniteSet(Edits(ops) \cup {K + 1})
        /\ Cardinality(Edits(ops) \cup {K + 1}) = Cardinality(Edits(ops)) + 1
    BY <2>1, FS_AddElement
  <2> QED BY <1>4, <2>1, <2>2 DEF more
<1> QED BY <1>3, <1>4

\* An operation added to a path, seen by the indices that the path consumes.
LEMMA IndicesMore ==
  ASSUME NEW ops, ops \in Seq(PathOperations), NEW o, o \in PathOperations,
         NEW i \in Nat, NEW j \in Nat,
         Consumes(ActualIndices(ops), i), Consumes(ReferenceIndices(ops), j)
  PROVE  LET more == Append(ops, o)
         IN  /\ o.actualIndex = NoIndex => Consumes(ActualIndices(more), i)
             /\ o.actualIndex = i => Consumes(ActualIndices(more), i + 1)
             /\ o.referenceIndex = NoIndex => Consumes(ReferenceIndices(more), j)
             /\ o.referenceIndex = j => Consumes(ReferenceIndices(more), j + 1)
<1> DEFINE more == Append(ops, o)
           K == Len(ops)
<1>1. /\ K \in Nat /\ DOMAIN ops = 1..K /\ DOMAIN more = 1..K + 1 /\ more[K + 1] = o
      /\ \A k \in 1..K : more[k] = ops[k] /\ k \in 1..K + 1
      /\ \A k \in 1..K + 1 : more[k] \in PathOperations
      /\ \A k \in 1..K : ops[k] \in PathOperations
      /\ K + 1 \in 1..K + 1
  OBVIOUS
<1> HIDE DEF more, K
<1> DEFINE fa == ActualIndices(ops)
           ha == ActualIndices(more)
           fr == ReferenceIndices(ops)
           hr == ReferenceIndices(more)
<1>2. /\ fa \in [1..K -> Int] /\ ha \in [1..K + 1 -> Int] /\ ha[K + 1] = o.actualIndex
      /\ \A k \in 1..K : ha[k] = fa[k]
  BY <1>1 DEF ActualIndices, PathOperations
<1>3. /\ fr \in [1..K -> Int] /\ hr \in [1..K + 1 -> Int] /\ hr[K + 1] = o.referenceIndex
      /\ \A k \in 1..K : hr[k] = fr[k]
  BY <1>1 DEF ReferenceIndices, PathOperations
<1> HIDE DEF fa, ha, fr, hr
<1>4. /\ o.actualIndex = NoIndex => Consumes(ha, i)
      /\ o.actualIndex = i => Consumes(ha, i + 1)
  <2>1. Consumes(fa, i)
    BY DEF fa
  <2> QED BY <1>1, <1>2, <2>1, ConsumesMore
<1>5. /\ o.referenceIndex = NoIndex => Consumes(hr, j)
      /\ o.referenceIndex = j => Consumes(hr, j + 1)
  <2>1. Consumes(fr, j)
    BY DEF fr
  <2> QED BY <1>1, <1>3, <2>1, ConsumesMore
<1> QED BY <1>4, <1>5 DEF ha, hr, more

\* What a direction says of the phonemes and of the costs of its cell.
LEMMA DirectionFacts ==
  ASSUME NEW a, a \in Seq(Phonemes), NEW r, r \in Seq(Phonemes),
         NEW i \in 0..Len(a), NEW j \in 0..Len(r), i + j # 0
  PROVE  LET costs == Costs(a, r)
             d == Table(a, r)[<<i, j>>]
         IN  /\ d \in Kinds
             /\ d = "match" => /\ i # 0 /\ j # 0 /\ a[i] = r[j]
                               /\ costs[i][j] = costs[i - 1][j - 1]
             /\ d = "substitution" => /\ i # 0 /\ j # 0 /\ a[i] # r[j]
                                      /\ costs[i][j] = costs[i - 1][j - 1] + 1
             /\ d = "deletion" => j # 0 /\ costs[i][j] = costs[i][j - 1] + 1
             /\ d = "insertion" => i # 0 /\ costs[i][j] = costs[i - 1][j] + 1
<1> DEFINE costs == Costs(a, r)
           d == Table(a, r)[<<i, j>>]
           n == Len(a)
           m == Len(r)
<1>1. d = Direction(costs, i, j, a, r)
  BY DEF Table, Cells
<1>2. /\ \A k \in 0..n, l \in 0..m : costs[k][l] \in Nat
      /\ \A l \in 0..m : costs[0][l] = l
      /\ \A k \in 0..n : costs[k][0] = k
      /\ \A k \in 1..n, l \in 1..m :
           costs[k][l] = IF a[k] = r[l] THEN costs[k - 1][l - 1]
                         ELSE 1 + Smaller(costs[k - 1][l - 1], Smaller(costs[k][l - 1], costs[k - 1][l]))
  BY CostAt
<1>3. n \in Nat /\ m \in Nat /\ i \in 0..n /\ j \in 0..m
  OBVIOUS
<1> HIDE DEF costs, d, n, m
<1>4. CASE i = 0
  <2>1. d = "deletion" /\ j # 0 /\ j - 1 \in 0..m
    BY <1>1, <1>3, <1>4 DEF Direction
  <2>2. costs[i][j] = j /\ costs[i][j - 1] = j - 1
    BY <1>2, <1>3, <1>4, <2>1
  <2> QED BY <1>3, <2>1, <2>2 DEF Kinds, d, costs
<1>5. CASE i # 0 /\ j = 0
  <2>1. d = "insertion" /\ i - 1 \in 0..n
    BY <1>1, <1>3, <1>5 DEF Direction
  <2>2. costs[i][j] = i /\ costs[i - 1][j] = i - 1
    BY <1>2, <1>3, <1>5, <2>1
  <2> QED BY <1>3, <1>5, <2>1, <2>2 DEF Kinds, d, costs
<1>6. CASE i # 0 /\ j # 0
  <2>1. /\ i \in 1..n /\ j \in 1..m /\ i - 1 \in 0..n /\ j - 1 \in 0..m
    BY <1>3, <1>6
  <2>2. costs[i][j] = IF a[i] = r[j] THEN costs[i - 1][j - 1]
                      ELSE 1 + Smaller(costs[i - 1][j - 1], Smaller(costs[i][j - 1], costs[i - 1][j]))
    BY <1>2, <2>1
  <2> DEFINE diagonal == costs[i - 1][j - 1]
             left == costs[i][j - 1]
             above == costs[i - 1][j]
             here == costs[i][j]
  <2>3. diagonal \in Nat /\ left \in Nat /\ above \in Nat /\ here \in Nat
    BY <1>2, <1>3, <2>1
  <2>4. d = IF a[i] = r[j] THEN "match" ELSE IF here = diagonal + 1 THEN "substitution"
            ELSE IF here = left + 1 THEN "deletion" ELSE "insertion"
    BY <1>1, <1>6 DEF Direction
  <2>5. here = IF a[i] = r[j] THEN diagonal ELSE 1 + Smaller(diagonal, Smaller(left, above))
    BY <2>2
  <2> HIDE DEF diagonal, left, above, here
  <2>6. CASE a[i] = r[j]
    <3>1. d = "match" /\ here = diagonal
      BY <2>4, <2>5, <2>6
    <3> QED BY <1>6, <2>6, <3>1 DEF Kinds, d, costs, here, diagonal
  <2>7. CASE a[i] # r[j]
    <3>1. /\ here \in {diagonal + 1, left + 1, above + 1}
      BY <2>3, <2>5, <2>7 DEF Smaller
    <3>2. \/ d = "substitution" /\ here = diagonal + 1
          \/ d = "deletion" /\ here = left + 1
          \/ d = "insertion" /\ here = above + 1
      BY <2>4, <2>7, <3>1
    <3> QED BY <1>6, <2>7, <3>2 DEF Kinds, d, costs, here, diagonal, left, above
  <2> QED BY <2>6, <2>7
<1> QED BY <1>4, <1>5, <1>6

\* One more operation keeps a path an alignment.
LEMMA AlignsMore ==
  ASSUME NEW a, a \in Seq(Phonemes), NEW r, r \in Seq(Phonemes),
         NEW i \in 0..Len(a), NEW j \in 0..Len(r), i + j # 0,
         NEW x \in Nat, NEW y \in Nat, Before(Table(a, r)[<<i, j>>], i, j) = <<x, y>>,
         NEW ops, ops \in Seq(PathOperations), Aligns(ops, x, y, a, r)
  PROVE  Aligns(Append(ops, OperationAt(Table(a, r)[<<i, j>>], i, j)), i, j, a, r)
<1> DEFINE costs == Costs(a, r)
           d == Table(a, r)[<<i, j>>]
           o == OperationAt(d, i, j)
           more == Append(ops, o)
<1>1. /\ d \in Kinds
      /\ d = "match" => /\ i # 0 /\ j # 0 /\ a[i] = r[j]
                        /\ costs[i][j] = costs[i - 1][j - 1]
      /\ d = "substitution" => /\ i # 0 /\ j # 0 /\ a[i] # r[j]
                               /\ costs[i][j] = costs[i - 1][j - 1] + 1
      /\ d = "deletion" => j # 0 /\ costs[i][j] = costs[i][j - 1] + 1
      /\ d = "insertion" => i # 0 /\ costs[i][j] = costs[i - 1][j] + 1
  BY DirectionFacts
<1>2. Before(d, i, j) = <<x, y>>
  OBVIOUS
<1>3. /\ i \in Nat /\ j \in Nat /\ costs[x][y] \in Nat
      /\ Cardinality(Edits(ops)) = costs[x][y]
  <2>1. Cardinality(Edits(ops)) \in Nat
    BY FS_CardinalityType DEF Aligns
  <2> QED BY <2>1 DEF Aligns
<1> HIDE DEF d, costs
<1>4. /\ x = IF d = "deletion" THEN i ELSE i - 1
      /\ y = IF d = "insertion" THEN j ELSE j - 1
  BY <1>2 DEF Before
<1>5. /\ o.kind = d
      /\ o.actualIndex = IF d = "deletion" THEN NoIndex ELSE x
      /\ o.referenceIndex = IF d = "insertion" THEN NoIndex ELSE y
      /\ o \in PathOperations
  BY <1>1, <1>4 DEF OperationAt, PathOperations, NoIndex
<1> HIDE DEF o
<1>6. Consumes(ActualIndices(ops), x) /\ Consumes(ReferenceIndices(ops), y)
  BY DEF Aligns
<1>7. /\ o.actualIndex = NoIndex => Consumes(ActualIndices(more), x)
      /\ o.actualIndex = x => Consumes(ActualIndices(more), x + 1)
      /\ o.referenceIndex = NoIndex => Consumes(ReferenceIndices(more), y)
      /\ o.referenceIndex = y => Consumes(ReferenceIndices(more), y + 1)
  BY <1>5, <1>6, IndicesMore
<1>8. Consumes(ActualIndices(more), i) /\ Consumes(ReferenceIndices(more), j)
  <2> HIDE DEF more
  <2>1. CASE d = "deletion"
    <3>1. y + 1 = j /\ x = i
      BY <1>3, <1>4, <2>1
    <3> QED BY <1>5, <1>7, <2>1, <3>1
  <2>2. CASE d = "insertion"
    <3>1. x + 1 = i /\ y = j
      BY <1>3, <1>4, <2>2
    <3> QED BY <1>5, <1>7, <2>2, <3>1
  <2>3. CASE d \notin {"deletion", "insertion"}
    <3>1. x + 1 = i /\ y + 1 = j
      BY <1>3, <1>4, <2>3
    <3> QED BY <1>5, <1>7, <2>3, <3>1
  <2> QED BY <2>1, <2>2, <2>3
<1>9. Labels(more, a, r)
  <2>1. /\ \A k \in DOMAIN more : k \in DOMAIN ops \/ k = Len(ops) + 1
        /\ \A k \in DOMAIN ops : more[k] = ops[k]
        /\ more[Len(ops) + 1] = o
    BY <1>5
  <2>2. o.actualIndex # NoIndex /\ o.referenceIndex # NoIndex =>
          IsMatch(o) = (a[o.actualIndex + 1] = r[o.referenceIndex + 1])
    <3> SUFFICES ASSUME o.actualIndex # NoIndex, o.referenceIndex # NoIndex
                 PROVE  IsMatch(o) = (a[o.actualIndex + 1] = r[o.referenceIndex + 1])
      OBVIOUS
    <3>1. d \in {"match", "substitution"}
      BY <1>1, <1>5 DEF Kinds
    <3>2. o.actualIndex + 1 = i /\ o.referenceIndex + 1 = j
      BY <1>3, <1>4, <1>5, <3>1
    <3>3. IsMatch(o) = (d = "match")
      BY <1>5 DEF IsMatch
    <3>4. (d = "match") = (a[i] = r[j])
      BY <1>1, <3>1
    <3> QED BY <3>2, <3>3, <3>4
  <2>3. Labels(ops, a, r)
    BY DEF Aligns
  <2> HIDE DEF more
  <2> QED BY <2>1, <2>2, <2>3 DEF Labels
<1>10. /\ IsFiniteSet(Edits(more))
       /\ Cardinality(Edits(more)) = Cardinality(Edits(ops)) + IF IsMatch(o) THEN 0 ELSE 1
  BY <1>5, EditsMore DEF Aligns
<1>11. Cardinality(Edits(more)) = costs[i][j]
  <2> HIDE DEF more
  <2>1. IsMatch(o) = (d = "match")
    BY <1>5 DEF IsMatch
  <2>2. CASE d = "match"
    <3>1. x = i - 1 /\ y = j - 1
      BY <1>4, <2>2
    <3>2. Cardinality(Edits(more)) = costs[x][y] + 0
      BY <1>3, <1>10, <2>1, <2>2
    <3>3. costs[x][y] + 0 = costs[i - 1][j - 1]
      BY <1>3, <3>1
    <3> QED BY <1>1, <2>2, <3>2, <3>3
  <2>3. CASE d = "substitution"
    <3>1. x = i - 1 /\ y = j - 1
      BY <1>4, <2>3
    <3> QED BY <1>1, <1>3, <1>10, <2>1, <2>3, <3>1
  <2>4. CASE d = "deletion"
    <3>1. x = i /\ y = j - 1
      BY <1>4, <2>4
    <3> QED BY <1>1, <1>3, <1>10, <2>1, <2>4, <3>1
  <2>5. CASE d = "insertion"
    <3>1. x = i - 1 /\ y = j
      BY <1>4, <2>5
    <3> QED BY <1>1, <1>3, <1>10, <2>1, <2>5, <3>1
  <2> QED BY <1>1, <2>2, <2>3, <2>4, <2>5 DEF Kinds
<1> QED BY <1>8, <1>9, <1>10, <1>11 DEF Aligns, d, o, costs

\* Every path of the table is an alignment.
LEMMA PathsAlign ==
  ASSUME NEW a, a \in Seq(Phonemes), NEW r, r \in Seq(Phonemes),
         NEW g, Paths(g, Table(a, r), Len(a), Len(r))
  PROVE  Aligns(g[<<Len(a), Len(r)>>], Len(a), Len(r), a, r)
<1> DEFINE n == Len(a)
           m == Len(r)
           dir == Table(a, r)
           S == {cell \in Cells(n, m) : Aligns(g[cell], cell[1], cell[2], a, r)}
<1>1. n \in Nat /\ m \in Nat
  OBVIOUS
<1>2. \A i \in 0..n, j \in 0..m : i + j # 0 =>
        \E x \in 0..i, y \in 0..j : /\ Before(dir[<<i, j>>], i, j) = <<x, y>>
                                    /\ x + y < i + j /\ <<x, y>> \in Cells(n, m)
  <2>1. Leads(dir, n, m)
    BY TableLeads
  <2> HIDE DEF dir, n, m
  <2> QED BY ONLY <1>1, <2>1, BeforeIsCell
<1>3. ASSUME NEW i \in 0..n, NEW j \in 0..m,
             \A x \in 0..i, y \in 0..j : x + y < i + j => <<x, y>> \in S
      PROVE  <<i, j>> \in S
  <2>1. <<i, j>> \in Cells(n, m)
    BY DEF Cells
  <2>2. CASE i + j = 0
    <3>1. i = 0 /\ j = 0
      BY <2>2
    <3>2. g[<<0, 0>>] = <<>>
      BY DEF Paths, Extends
    <3>3. Aligns(g[<<0, 0>>], 0, 0, a, r)
      BY <3>2, EmptyAligns
    <3> QED BY <2>1, <3>1, <3>3
  <2>3. CASE i + j # 0
    <3>1. PICK x \in 0..i, y \in 0..j : /\ Before(dir[<<i, j>>], i, j) = <<x, y>>
                                        /\ x + y < i + j /\ <<x, y>> \in Cells(n, m)
      <4> HIDE DEF S, dir
      <4> QED BY <1>2, <2>3
    <3>2. <<x, y>> \in S
      <4> HIDE DEF S
      <4> QED BY <1>3, <3>1
    <3>3. Aligns(g[<<x, y>>], x, y, a, r)
      BY <3>2
    <3>4. g[<<x, y>>] \in Seq(PathOperations)
      BY <3>1 DEF Paths, PathOperations
    <3>5. g[<<i, j>>] = Append(g[<<x, y>>], OperationAt(dir[<<i, j>>], i, j))
      BY <2>3, <3>1 DEF Paths, Extends
    <3>6. x \in Nat /\ y \in Nat
      BY <1>1
    <3> DEFINE ops == g[<<x, y>>]
    <3>7. Aligns(ops, x, y, a, r) /\ ops \in Seq(PathOperations)
      BY <3>3, <3>4
    <3> HIDE DEF ops, S
    <3>8. Aligns(Append(ops, OperationAt(Table(a, r)[<<i, j>>], i, j)), i, j, a, r)
      BY <2>3, <3>1, <3>6, <3>7, AlignsMore
    <3>9. Aligns(g[<<i, j>>], i, j, a, r)
      BY <3>5, <3>8 DEF ops
    <3> QED BY <2>1, <3>9 DEF S
  <2> QED BY <2>2, <2>3
<1> HIDE DEF S
<1>4. \A i \in 0..n, j \in 0..m : <<i, j>> \in S
  <2> HIDE DEF n, m, dir
  <2>1. \A i \in 0..n, j \in 0..m :
          (\A x \in 0..i, y \in 0..j : x + y < i + j => <<x, y>> \in S) => <<i, j>> \in S
    BY <1>3
  <2> QED BY ONLY <1>1, <2>1, CellInduction
<1>5. <<n, m>> \in S
  BY <1>1, <1>4
<1> QED BY <1>5 DEF S

-----------------------------------------------------------------------------
\* The edits are as few as possible.

\* Costs of neighbours differ by at most one, and no cell costs more than
\* replacing the shorter prefix and inserting or deleting the rest.
Near(c, i, j) ==
  /\ c[i][j] <= Larger(i, j)
  /\ i # 0 => c[i - 1][j] <= c[i][j] + 1 /\ c[i][j] <= c[i - 1][j] + 1
  /\ j # 0 => c[i][j - 1] <= c[i][j] + 1 /\ c[i][j] <= c[i][j - 1] + 1

\* Every cell of the dynamic program is near its neighbours.
LEMMA CostsAreNear ==
  ASSUME NEW a, a \in Seq(Phonemes), NEW r, r \in Seq(Phonemes)
  PROVE  \A i \in 0..Len(a), j \in 0..Len(r) : Near(Costs(a, r), i, j)
<1> DEFINE c == Costs(a, r)
           n == Len(a)
           m == Len(r)
           S == {cell \in Cells(n, m) : Near(c, cell[1], cell[2])}
<1>1. /\ \A k \in 0..n, l \in 0..m : c[k][l] \in Nat
      /\ \A l \in 0..m : c[0][l] = l
      /\ \A k \in 0..n : c[k][0] = k
      /\ \A k \in 1..n, l \in 1..m :
           c[k][l] = IF a[k] = r[l] THEN c[k - 1][l - 1]
                     ELSE 1 + Smaller(c[k - 1][l - 1], Smaller(c[k][l - 1], c[k - 1][l]))
  BY CostAt
<1>2. n \in Nat /\ m \in Nat
  OBVIOUS
<1> HIDE DEF c, n, m
<1>3. ASSUME NEW i \in 0..n, NEW j \in 0..m,
             \A x \in 0..i, y \in 0..j : x + y < i + j => <<x, y>> \in S
      PROVE  <<i, j>> \in S
  <2>1. <<i, j>> \in Cells(n, m)
    BY DEF Cells
  <2>2. CASE i = 0
    <3>1. c[i][j] = j /\ (j # 0 => c[i][j - 1] = j - 1)
      BY <1>1, <1>2, <2>2
    <3>2. Near(c, i, j)
      BY <1>2, <2>2, <3>1 DEF Near, Larger
    <3> QED BY <2>1, <3>2
  <2>3. CASE i # 0 /\ j = 0
    <3>1. c[i][j] = i /\ c[i - 1][j] = i - 1
      BY <1>1, <1>2, <2>3
    <3>2. Near(c, i, j)
      BY <1>2, <2>3, <3>1 DEF Near, Larger
    <3> QED BY <2>1, <3>2
  <2>4. CASE i # 0 /\ j # 0
    <3>1. /\ i \in 1..n /\ j \in 1..m /\ i - 1 \in 0..n /\ j - 1 \in 0..m
          /\ i - 1 \in 0..i /\ j - 1 \in 0..j /\ i \in 0..i /\ j \in 0..j
          /\ (i - 1) + j < i + j /\ i + (j - 1) < i + j /\ (i - 1) + (j - 1) < i + j
      BY <1>2, <2>4
    <3> DEFINE diagonal == c[i - 1][j - 1]
               left == c[i][j - 1]
               above == c[i - 1][j]
               here == c[i][j]
    <3>2. diagonal \in Nat /\ left \in Nat /\ above \in Nat /\ here \in Nat
      BY <1>1, <1>2, <3>1
    <3>3. here = IF a[i] = r[j] THEN diagonal ELSE 1 + Smaller(diagonal, Smaller(left, above))
      BY <1>1, <3>1
    <3>4. <<i - 1, j - 1>> \in S /\ <<i, j - 1>> \in S /\ <<i - 1, j>> \in S
      <4> HIDE DEF S
      <4> QED BY <1>3, <3>1
    <3>5. Near(c, i - 1, j - 1) /\ Near(c, i, j - 1) /\ Near(c, i - 1, j)
      BY <3>4
    <3>6. /\ diagonal <= left + 1 /\ left <= diagonal + 1
          /\ diagonal <= above + 1 /\ above <= diagonal + 1
      BY <2>4, <3>5 DEF Near
    <3>7. diagonal <= Larger(i - 1, j - 1)
      BY <3>5 DEF Near
    <3> HIDE DEF diagonal, left, above, here
    <3>8. \/ here = diagonal
          \/ here = 1 + Smaller(diagonal, Smaller(left, above))
      BY <3>3
    <3>9. /\ above <= here + 1 /\ here <= above + 1
          /\ left <= here + 1 /\ here <= left + 1
          /\ here <= diagonal + 1
      BY <3>2, <3>6, <3>8 DEF Smaller
    <3>10. here <= Larger(i, j)
      <4>1. Larger(i - 1, j - 1) + 1 = Larger(i, j)
        BY <1>2 DEF Larger
      <4>2. Larger(i, j) \in Int /\ Larger(i - 1, j - 1) \in Int
        BY <1>2 DEF Larger
      <4> QED BY <3>2, <3>7, <3>9, <4>1, <4>2
    <3>11. Near(c, i, j)
      BY <3>9, <3>10 DEF Near, above, left, here
    <3> QED BY <2>1, <3>11
  <2> QED BY <2>2, <2>3, <2>4
<1> HIDE DEF S
<1>4. \A i \in 0..n, j \in 0..m : <<i, j>> \in S
  <2>1. \A i \in 0..n, j \in 0..m :
          (\A x \in 0..i, y \in 0..j : x + y < i + j => <<x, y>> \in S) => <<i, j>> \in S
    BY <1>3
  <2> QED BY ONLY <1>2, <2>1, CellInduction
<1> QED BY <1>4 DEF S, c, n, m

-----------------------------------------------------------------------------
\* The pairings of the prefixes that end in a cell, and what they cost.
PairsOf(i, j) ==
  {p \in (SUBSET (1..i)) \X (SUBSET (1..j)) : Cardinality(p[1]) = Cardinality(p[2])}

Unequal(p, a, r) ==
  {x \in p[1] : \E y \in p[2] : Rank(p[2], y) = Rank(p[1], x) /\ a[x] # r[y]}

CostOf(p, i, j, a, r) == Cardinality(Unequal(p, a, r)) + i + j - 2 * Cardinality(p[1])

\* An element above all others ranks last and changes no other rank.
LEMMA RankOfLast ==
  ASSUME NEW k \in Nat, NEW A, A \subseteq 1..k
  PROVE  /\ IsFiniteSet(A) /\ Cardinality(A) \in Nat
         /\ \A x \in A : Rank(A \cup {k + 1}, x) = Rank(A, x) /\ Rank(A, x) \in Nat
                         /\ Rank(A, x) <= Cardinality(A)
         /\ Rank(A \cup {k + 1}, k + 1) = Cardinality(A) + 1
         /\ IsFiniteSet(A \cup {k + 1}) /\ Cardinality(A \cup {k + 1}) = Cardinality(A) + 1
<1>1. IsFiniteSet(1..k)
  BY FS_Interval
<1>2. IsFiniteSet(A) /\ Cardinality(A) \in Nat
  BY <1>1, FS_Subset, FS_CardinalityType
<1>3. k + 1 \notin A
  OBVIOUS
<1>4. IsFiniteSet(A \cup {k + 1}) /\ Cardinality(A \cup {k + 1}) = Cardinality(A) + 1
  BY <1>2, <1>3, FS_AddElement
<1>5. ASSUME NEW x \in A
      PROVE  Rank(A \cup {k + 1}, x) = Rank(A, x) /\ Rank(A, x) \in Nat /\ Rank(A, x) <= Cardinality(A)
  <2> DEFINE below == {y \in A : y <= x}
  <2>1. {y \in A \cup {k + 1} : y <= x} = below
    <3>1. x \in 1..k /\ ~(k + 1 <= x)
      OBVIOUS
    <3> QED BY <3>1
  <2>2. below \subseteq A
    OBVIOUS
  <2> HIDE DEF below
  <2>3. IsFiniteSet(below) /\ Cardinality(below) <= Cardinality(A)
    BY <1>2, <2>2, FS_Subset
  <2>4. Cardinality(below) \in Nat
    BY <2>3, FS_CardinalityType
  <2>5. Rank(A, x) = Cardinality(below)
    BY DEF Rank, below
  <2>6. Rank(A \cup {k + 1}, x) = Cardinality(below)
    BY <2>1 DEF Rank
  <2> QED BY <2>3, <2>4, <2>5, <2>6
<1>6. Rank(A \cup {k + 1}, k + 1) = Cardinality(A) + 1
  <2>0. \A y \in A \cup {k + 1} : y <= k + 1
    OBVIOUS
  <2>1. {y \in A \cup {k + 1} : y <= k + 1} = A \cup {k + 1}
    BY <2>0, Zenon
  <2> QED BY <1>4, <2>1 DEF Rank
<1> QED BY <1>2, <1>4, <1>5, <1>6

\* Pairing the last phonemes of two longer prefixes costs one if they differ.
PairAdded(A, B, x, y, i, j, a, r) ==
  /\ <<A \cup {i}, B \cup {j}>> \in PairsOf(i, j)
  /\ CostOf(<<A, B>>, x, y, a, r) \in Int
  /\ CostOf(<<A \cup {i}, B \cup {j}>>, i, j, a, r) =
       CostOf(<<A, B>>, x, y, a, r) + IF a[i] = r[j] THEN 0 ELSE 1

\* That is so for every pairing of the shorter prefixes.
LEMMA AddPair ==
  ASSUME NEW x \in Nat, NEW y \in Nat, NEW A \in SUBSET (1..x), NEW B \in SUBSET (1..y),
         Cardinality(A) = Cardinality(B), NEW a, NEW r,
         NEW i, i = x + 1, NEW j, j = y + 1
  PROVE  PairAdded(A, B, x, y, i, j, a, r)
<1> DEFINE A1 == A \cup {x + 1}
           B1 == B \cup {y + 1}
           U == Unequal(<<A, B>>, a, r)
           U1 == Unequal(<<A1, B1>>, a, r)
<1>1. /\ IsFiniteSet(A) /\ Cardinality(A) \in Nat
      /\ \A z \in A : Rank(A1, z) = Rank(A, z) /\ Rank(A, z) \in Nat
                      /\ Rank(A, z) <= Cardinality(A)
      /\ Rank(A1, i) = Cardinality(A) + 1
      /\ Cardinality(A1) = Cardinality(A) + 1
  BY RankOfLast
<1>2. /\ \A w \in B : Rank(B1, w) = Rank(B, w) /\ Rank(B, w) \in Nat
                      /\ Rank(B, w) <= Cardinality(B)
      /\ Rank(B1, j) = Cardinality(B) + 1
      /\ Cardinality(B1) = Cardinality(B) + 1
  BY RankOfLast
<1>3. A1 = A \cup {i} /\ B1 = B \cup {j} /\ i \notin A
  OBVIOUS
<1>4. <<A1, B1>> \in PairsOf(i, j)
  <2>1. A1 \in SUBSET (1..i) /\ B1 \in SUBSET (1..j)
    OBVIOUS
  <2> HIDE DEF A1, B1
  <2> QED BY <1>1, <1>2, <2>1 DEF PairsOf
<1> HIDE DEF A1, B1
<1>5. \A z \in A : z \in U1 <=> z \in U
  <2> SUFFICES ASSUME NEW z \in A PROVE z \in U1 <=> z \in U
    OBVIOUS
  <2>1. \A w \in B : (Rank(B1, w) = Rank(A1, z)) = (Rank(B, w) = Rank(A, z))
    BY <1>1, <1>2
  <2>2. Rank(B1, j) # Rank(A1, z)
    BY <1>1, <1>2
  <2>3. z \in A1
    BY <1>3
  <2> QED BY <1>3, <2>1, <2>2, <2>3 DEF Unequal
<1>6. i \in U1 <=> a[i] # r[j]
  <2>1. \A w \in B : Rank(B1, w) # Rank(A1, i)
    BY <1>1, <1>2
  <2>2. Rank(B1, j) = Rank(A1, i)
    BY <1>1, <1>2
  <2>3. i \in A1 /\ j \in B1
    BY <1>3
  <2> QED BY <1>3, <2>1, <2>2, <2>3 DEF Unequal
<1>7. U1 \subseteq A \cup {i} /\ U \subseteq A
  BY <1>3 DEF Unequal
<1> HIDE DEF U, U1
<1>8. IsFiniteSet(U) /\ Cardinality(U) \in Nat
  BY <1>1, <1>7, FS_Subset, FS_CardinalityType
<1>9. Cardinality(U1) = Cardinality(U) + IF a[i] = r[j] THEN 0 ELSE 1
  <2>1. CASE a[i] = r[j]
    <3>1. U1 = U
      BY <1>3, <1>5, <1>6, <1>7, <2>1
    <3> QED BY <1>8, <2>1, <3>1
  <2>2. CASE a[i] # r[j]
    <3>1. U1 = U \cup {i} /\ i \notin U
      BY <1>3, <1>5, <1>6, <1>7, <2>2
    <3>2. Cardinality(U \cup {i}) = Cardinality(U) + 1
      BY <1>8, <3>1, FS_AddElement
    <3> QED BY <2>2, <3>1, <3>2
  <2> QED BY <2>1, <2>2
<1>10. CostOf(<<A, B>>, x, y, a, r) = Cardinality(U) + x + y - 2 * Cardinality(A)
  BY DEF CostOf, U
<1>11. CostOf(<<A1, B1>>, i, j, a, r) = Cardinality(U1) + i + j - 2 * Cardinality(A1)
  BY DEF CostOf, U1
<1>12. CostOf(<<A, B>>, x, y, a, r) \in Int
  BY <1>1, <1>8, <1>10
<1>13. CostOf(<<A1, B1>>, i, j, a, r) =
         CostOf(<<A, B>>, x, y, a, r) + IF a[i] = r[j] THEN 0 ELSE 1
  <2> DEFINE e == IF a[i] = r[j] THEN 0 ELSE 1
  <2>1. e \in Nat /\ Cardinality(U1) = Cardinality(U) + e
    BY <1>9
  <2> HIDE DEF e
  <2>2. Cardinality(U1) + i + j - 2 * Cardinality(A1) = (Cardinality(U) + x + y - 2 * Cardinality(A)) + e
    BY <1>1, <1>8, <2>1
  <2> QED BY <1>10, <1>11, <2>2 DEF e
<1>14. A1 = A \cup {i} /\ B1 = B \cup {j}
  BY <1>3
<1> QED BY <1>4, <1>12, <1>13, <1>14 DEF PairAdded

\* A phoneme left unpaired costs one.
LEMMA LeaveUnpaired ==
  ASSUME NEW i \in Nat, NEW j \in Nat, NEW p, p \in PairsOf(i, j), NEW a, NEW r
  PROVE  /\ CostOf(p, i, j, a, r) \in Int
         /\ p \in PairsOf(i + 1, j) /\ CostOf(p, i + 1, j, a, r) = CostOf(p, i, j, a, r) + 1
         /\ p \in PairsOf(i, j + 1) /\ CostOf(p, i, j + 1, a, r) = CostOf(p, i, j, a, r) + 1
<1>1. p[1] \subseteq 1..i /\ p[2] \subseteq 1..j /\ p = <<p[1], p[2]>> /\ Cardinality(p[1]) = Cardinality(p[2])
  BY DEF PairsOf
<1>2. p[1] \subseteq 1..i + 1 /\ p[2] \subseteq 1..j + 1
  BY <1>1
<1>3. Cardinality(p[1]) \in Nat /\ IsFiniteSet(p[1])
  BY <1>1, RankOfLast
<1>4. Unequal(p, a, r) \subseteq p[1]
  BY DEF Unequal
<1>5. Cardinality(Unequal(p, a, r)) \in Nat
  BY <1>3, <1>4, FS_Subset, FS_CardinalityType
<1>6. p \in PairsOf(i + 1, j) /\ p \in PairsOf(i, j + 1)
  BY <1>1, <1>2 DEF PairsOf
<1> QED BY <1>3, <1>5, <1>6 DEF CostOf

\* A cell costs what its cheapest pairing costs.
Cheapest(a, r, i, j) ==
  /\ \E p \in PairsOf(i, j) : CostOf(p, i, j, a, r) = Costs(a, r)[i][j]
  /\ \A p \in PairsOf(i, j) : CostOf(p, i, j, a, r) >= Costs(a, r)[i][j]

\* The only pairing with an empty prefix pairs nothing.
LEMMA CheapestAtEdge ==
  ASSUME NEW a, NEW r, NEW i \in Nat, NEW j \in Nat, i = 0 \/ j = 0,
         Costs(a, r)[i][j] = i + j
  PROVE  Cheapest(a, r, i, j)
<1>1. ASSUME NEW p \in PairsOf(i, j) PROVE p = <<{}, {}>>
  <2>1. p[1] \subseteq 1..i /\ p[2] \subseteq 1..j /\ p = <<p[1], p[2]>> /\ Cardinality(p[1]) = Cardinality(p[2])
    BY DEF PairsOf
  <2>2. IsFiniteSet(p[1]) /\ IsFiniteSet(p[2])
    BY <2>1, RankOfLast
  <2>3. p[1] = {} \/ p[2] = {}
    BY <2>1
  <2>4. p[1] = {} /\ p[2] = {}
    BY <2>1, <2>2, <2>3, FS_EmptySet
  <2> QED BY <2>1, <2>4
<1>2. <<{}, {}>> \in PairsOf(i, j)
  BY DEF PairsOf
<1>3. CostOf(<<{}, {}>>, i, j, a, r) = i + j
  <2>1. Unequal(<<{}, {}>>, a, r) = {}
    BY DEF Unequal
  <2>2. Cardinality(Unequal(<<{}, {}>>, a, r)) = 0 /\ Cardinality({}) = 0
    BY <2>1, FS_EmptySet
  <2> DEFINE p == <<{}, {}>>
  <2>3. p[1] = {} /\ Cardinality(Unequal(p, a, r)) = 0
    BY <2>2
  <2> HIDE DEF p
  <2>4. CostOf(p, i, j, a, r) = i + j
    BY <2>2, <2>3 DEF CostOf
  <2> QED BY <2>4 DEF p
<1>4. ASSUME NEW p \in PairsOf(i, j) PROVE CostOf(p, i, j, a, r) >= Costs(a, r)[i][j]
  <2>1. CostOf(p, i, j, a, r) = i + j
    BY <1>1, <1>3
  <2> QED BY <2>1
<1> QED BY <1>2, <1>3, <1>4 DEF Cheapest

\* A cell inside the table costs what its cheapest pairing does, if the three
\* cells before it do.
LEMMA CheapestInside ==
  ASSUME NEW a, a \in Seq(Phonemes), NEW r, r \in Seq(Phonemes),
         NEW i \in 1..Len(a), NEW j \in 1..Len(r),
         Cheapest(a, r, i - 1, j - 1), Cheapest(a, r, i, j - 1), Cheapest(a, r, i - 1, j)
  PROVE  Cheapest(a, r, i, j)
<1> DEFINE c == Costs(a, r)
           diagonal == c[i - 1][j - 1]
           left == c[i][j - 1]
           above == c[i - 1][j]
           here == c[i][j]
           x == i - 1
           y == j - 1
<1>1. /\ here = IF a[i] = r[j] THEN diagonal ELSE 1 + Smaller(diagonal, Smaller(left, above))
      /\ diagonal \in Nat /\ left \in Nat /\ above \in Nat /\ here \in Nat
  <2>1. i \in 0..Len(a) /\ j \in 0..Len(r) /\ i - 1 \in 0..Len(a) /\ j - 1 \in 0..Len(r)
    OBVIOUS
  <2>2. /\ \A k \in 0..Len(a), l \in 0..Len(r) : c[k][l] \in Nat
        /\ \A k \in 1..Len(a), l \in 1..Len(r) :
             c[k][l] = IF a[k] = r[l] THEN c[k - 1][l - 1]
                       ELSE 1 + Smaller(c[k - 1][l - 1], Smaller(c[k][l - 1], c[k - 1][l]))
    BY CostAt
  <2> HIDE DEF c
  <2> QED BY <2>1, <2>2
<1>2. here <= diagonal + 1 /\ here <= left + 1 /\ here <= above + 1
  <2>1. i \in 0..Len(a) /\ j \in 0..Len(r) /\ i # 0 /\ j # 0
    OBVIOUS
  <2>2. Near(c, i, j)
    BY <2>1, CostsAreNear
  <2>3. here <= left + 1 /\ here <= above + 1
    BY <2>1, <2>2 DEF Near
  <2> HIDE DEF diagonal, left, above, here
  <2> QED BY <1>1, <2>3 DEF Smaller
<1>3. a[i] # r[j] => here \in {diagonal + 1, left + 1, above + 1}
  <2> HIDE DEF diagonal, left, above, here
  <2> QED BY <1>1 DEF Smaller
<1>4. /\ \E p \in PairsOf(x, y) : CostOf(p, x, y, a, r) = diagonal
      /\ \A p \in PairsOf(x, y) : CostOf(p, x, y, a, r) >= diagonal
      /\ \E p \in PairsOf(i, y) : CostOf(p, i, y, a, r) = left
      /\ \A p \in PairsOf(i, y) : CostOf(p, i, y, a, r) >= left
      /\ \E p \in PairsOf(x, j) : CostOf(p, x, j, a, r) = above
      /\ \A p \in PairsOf(x, j) : CostOf(p, x, j, a, r) >= above
  BY DEF Cheapest
<1>5. x \in Nat /\ y \in Nat /\ x + 1 = i /\ y + 1 = j /\ i \in Nat /\ j \in Nat
  OBVIOUS
<1> HIDE DEF diagonal, left, above, here, x, y
<1>A. ASSUME NEW A \in SUBSET (1..x), NEW B \in SUBSET (1..y), Cardinality(A) = Cardinality(B)
      PROVE  /\ <<A \cup {i}, B \cup {j}>> \in PairsOf(i, j)
             /\ CostOf(<<A \cup {i}, B \cup {j}>>, i, j, a, r) =
                  CostOf(<<A, B>>, x, y, a, r) + IF a[i] = r[j] THEN 0 ELSE 1
  <2>1. PairAdded(A, B, x, y, i, j, a, r)
    BY <1>5, <1>A, AddPair
  <2> QED BY <2>1 DEF PairAdded
<1>6. ASSUME NEW p \in PairsOf(x, y)
      PROVE  \E q \in PairsOf(i, j) :
               CostOf(q, i, j, a, r) = CostOf(p, x, y, a, r) + IF a[i] = r[j] THEN 0 ELSE 1
  <2>1. p[1] \subseteq 1..x /\ p[2] \subseteq 1..y /\ p = <<p[1], p[2]>> /\ Cardinality(p[1]) = Cardinality(p[2])
    BY DEF PairsOf
  <2> DEFINE A == p[1]
             B == p[2]
  <2>2. A \subseteq 1..x /\ B \subseteq 1..y /\ Cardinality(A) = Cardinality(B) /\ p = <<A, B>>
    BY <2>1
  <2> HIDE DEF A, B
  <2> QED BY <1>A, <2>2
<1>7. \A p \in PairsOf(x, j) : p \in PairsOf(i, j) /\ CostOf(p, i, j, a, r) = CostOf(p, x, j, a, r) + 1
  BY <1>5, LeaveUnpaired
<1>8. \A p \in PairsOf(i, y) : p \in PairsOf(i, j) /\ CostOf(p, i, j, a, r) = CostOf(p, i, y, a, r) + 1
  BY <1>5, LeaveUnpaired
\* The pairing that the cell's move extends attains the cost.
<1>9. \E p \in PairsOf(i, j) : CostOf(p, i, j, a, r) = here
  <2>1. PICK p \in PairsOf(x, y) : CostOf(p, x, y, a, r) = diagonal
    BY <1>4
  <2>2. CASE a[i] = r[j]
    <3>1. here = diagonal + 0
      BY <1>1, <2>2
    <3> QED BY <1>6, <2>1, <2>2, <3>1
  <2>3. CASE a[i] # r[j] /\ here = diagonal + 1
    BY <1>6, <2>1, <2>3
  <2>4. CASE here = left + 1
    BY <1>4, <1>8, <2>4
  <2>5. CASE here = above + 1
    BY <1>4, <1>7, <2>5
  <2> QED BY <1>3, <2>2, <2>3, <2>4, <2>5
\* No pairing costs less: without its last pair or its unpaired last phoneme
\* it is a pairing of a cell before.
<1>10. ASSUME NEW p \in PairsOf(i, j) PROVE CostOf(p, i, j, a, r) >= here
  <2>1. p[1] \subseteq 1..i /\ p[2] \subseteq 1..j /\ p = <<p[1], p[2]>> /\ Cardinality(p[1]) = Cardinality(p[2])
    BY DEF PairsOf
  <2>2. IsFiniteSet(p[1]) /\ IsFiniteSet(p[2]) /\ Cardinality(p[1]) \in Nat
    BY <1>5, <2>1, RankOfLast
  <2>3. CASE i \notin p[1]
    <3>1. p[1] \subseteq 1..x
      BY <1>5, <2>1, <2>3
    <3>2. p \in PairsOf(x, j)
      BY <2>1, <3>1 DEF PairsOf
    <3>3. CostOf(p, i, j, a, r) = CostOf(p, x, j, a, r) + 1 /\ CostOf(p, x, j, a, r) >= above
      BY <1>4, <1>7, <3>2
    <3>4. CostOf(p, x, j, a, r) \in Int
      BY <1>5, <3>2, LeaveUnpaired
    <3> QED BY <1>1, <1>2, <3>3, <3>4
  <2>4. CASE j \notin p[2]
    <3>1. p[2] \subseteq 1..y
      BY <1>5, <2>1, <2>4
    <3>2. p \in PairsOf(i, y)
      BY <2>1, <3>1 DEF PairsOf
    <3>3. CostOf(p, i, j, a, r) = CostOf(p, i, y, a, r) + 1 /\ CostOf(p, i, y, a, r) >= left
      BY <1>4, <1>8, <3>2
    <3>4. CostOf(p, i, y, a, r) \in Int
      BY <1>5, <3>2, LeaveUnpaired
    <3> QED BY <1>1, <1>2, <3>3, <3>4
  <2>5. CASE i \in p[1] /\ j \in p[2]
    <3> DEFINE A == p[1] \ {i}
               B == p[2] \ {j}
    <3>1. A \subseteq 1..x /\ B \subseteq 1..y
      BY <1>5, <2>1
    <3>2. p[1] = A \cup {x + 1} /\ p[2] = B \cup {y + 1}
      BY <1>5, <2>5
    <3>3. Cardinality(A) = Cardinality(p[1]) - 1 /\ Cardinality(B) = Cardinality(p[2]) - 1
      BY <2>2, <2>5, FS_RemoveElement
    <3>4. Cardinality(A) = Cardinality(B)
      BY <2>1, <3>3
    <3> HIDE DEF A, B
    <3>5. p = <<A \cup {i}, B \cup {j}>>
      BY <1>5, <2>1, <3>2
    <3>7. CostOf(p, i, j, a, r) = CostOf(<<A, B>>, x, y, a, r) + IF a[i] = r[j] THEN 0 ELSE 1
      BY <1>A, <3>1, <3>4, <3>5
    <3>8. <<A, B>> \in PairsOf(x, y)
      BY <3>1, <3>4 DEF PairsOf
    <3>9. CostOf(<<A, B>>, x, y, a, r) \in Int /\ CostOf(<<A, B>>, x, y, a, r) >= diagonal
      BY <1>4, <1>5, <3>8, LeaveUnpaired
    <3> QED BY <1>1, <1>2, <3>7, <3>9
  <2> QED BY <2>3, <2>4, <2>5
<1> QED BY <1>9, <1>10 DEF Cheapest, here

\* Every cell costs what its cheapest pairing costs.
LEMMA CostIsCheapest ==
  ASSUME NEW a, a \in Seq(Phonemes), NEW r, r \in Seq(Phonemes)
  PROVE  Cheapest(a, r, Len(a), Len(r))
<1> DEFINE c == Costs(a, r)
           n == Len(a)
           m == Len(r)
           S == {cell \in Cells(n, m) : Cheapest(a, r, cell[1], cell[2])}
<1>1. /\ \A l \in 0..m : c[0][l] = l
      /\ \A k \in 0..n : c[k][0] = k
  BY CostAt
<1>2. n \in Nat /\ m \in Nat
  OBVIOUS
<1>3. ASSUME NEW i \in 0..n, NEW j \in 0..m,
             \A x \in 0..i, y \in 0..j : x + y < i + j => <<x, y>> \in S
      PROVE  <<i, j>> \in S
  <2>1. <<i, j>> \in Cells(n, m)
    BY DEF Cells
  <2>2. CASE i = 0 \/ j = 0
    <3>1. c[i][j] = i + j
      <4> HIDE DEF c, n, m
      <4> QED BY <1>1, <1>2, <2>2
    <3>2. i \in Nat /\ j \in Nat
      BY <1>2
    <3>3. Cheapest(a, r, i, j)
      BY <2>2, <3>1, <3>2, CheapestAtEdge
    <3> QED BY <2>1, <3>3
  <2>3. CASE i # 0 /\ j # 0
    <3>1. /\ i - 1 \in 0..i /\ j - 1 \in 0..j /\ i \in 0..i /\ j \in 0..j
          /\ (i - 1) + j < i + j /\ i + (j - 1) < i + j /\ (i - 1) + (j - 1) < i + j
          /\ i \in 1..n /\ j \in 1..m
      BY <1>2, <2>3
    <3>2. <<i - 1, j - 1>> \in S /\ <<i, j - 1>> \in S /\ <<i - 1, j>> \in S
      <4> HIDE DEF S
      <4> QED BY <1>3, <3>1
    <3>3. Cheapest(a, r, i - 1, j - 1) /\ Cheapest(a, r, i, j - 1) /\ Cheapest(a, r, i - 1, j)
      BY <3>2
    <3>4. Cheapest(a, r, i, j)
      BY <3>1, <3>3, CheapestInside
    <3> QED BY <2>1, <3>4
  <2> QED BY <2>2, <2>3
<1> HIDE DEF S
<1>4. \A i \in 0..n, j \in 0..m : <<i, j>> \in S
  <2> HIDE DEF n, m, c
  <2>1. \A i \in 0..n, j \in 0..m :
          (\A x \in 0..i, y \in 0..j : x + y < i + j => <<x, y>> \in S) => <<i, j>> \in S
    BY <1>3
  <2> QED BY ONLY <1>2, <2>1, CellInduction
<1>5. <<n, m>> \in S
  BY <1>2, <1>4
<1> QED BY <1>5 DEF S

-----------------------------------------------------------------------------

\* A score of no more edits than phonemes is at least 0 and at most 1 (score).
LEMMA ScoreInUnit ==
  ASSUME NEW edits \in Nat, NEW normalizer \in Nat, edits <= normalizer
  PROVE  ScoreOf(edits, normalizer) \in 0..Unit
<1>1. CASE normalizer = 0
  BY <1>1, UnitAssumption DEF ScoreOf
<1>2. CASE normalizer # 0
  <2> DEFINE k == normalizer - edits
  <2>1. k \in Nat /\ k <= normalizer /\ normalizer \in Nat \ {0} /\ Unit \in Nat
    BY <1>2, UnitAssumption
  <2> HIDE DEF k
  <2>2. k * Unit \in Nat /\ k * Unit <= normalizer * Unit
    BY <2>1
  <2> DEFINE product == k * Unit
             q == product \div normalizer
  <2>3. product \in Nat /\ product <= normalizer * Unit
    BY <2>2
  <2> HIDE DEF product
  <2>4. q \in Nat /\ q * normalizer <= product
    BY <2>1, <2>3
  <2> HIDE DEF q
  <2>5. q * normalizer <= Unit * normalizer
    BY <2>1, <2>3, <2>4
  <2>6. q <= Unit
    <3> SUFFICES ASSUME q >= Unit + 1 PROVE FALSE
      BY <2>1, <2>4
    <3>1. q * normalizer >= (Unit + 1) * normalizer
      BY <2>1, <2>4
    <3>2. (Unit + 1) * normalizer = Unit * normalizer + normalizer
      BY <2>1
    <3>3. Unit * normalizer \in Nat /\ q * normalizer \in Nat
      BY <2>1, <2>4
    <3> QED BY <2>1, <2>5, <3>1, <3>2, <3>3
  <2> QED BY <1>2, <2>1, <2>4, <2>6 DEF ScoreOf, q, product, k
<1> QED BY <1>1, <1>2

\* What alignPhonemes returns: an alignment of its arguments, counted by the last
\* cell of the dynamic program, with a score from 0 to 1.
LEMMA AlignmentFacts ==
  ASSUME NEW a, a \in Seq(Phonemes), NEW r, r \in Seq(Phonemes)
  PROVE  LET path == AlignPhonemes(a, r)
         IN  /\ Aligns(path.operations, Len(a), Len(r), a, r)
             /\ path.editCount = Costs(a, r)[Len(a)][Len(r)]
             /\ path.score \in 0..Unit
<1>1. Leads(Table(a, r), Len(a), Len(r)) /\ Len(a) \in Nat /\ Len(r) \in Nat
  BY TableLeads
<1>2. PICK g : Paths(g, Table(a, r), Len(a), Len(r))
  BY <1>1, PathsExist
<1> DEFINE ops == g[<<Len(a), Len(r)>>]
           cost == Costs(a, r)[Len(a)][Len(r)]
<1>3. AlignPhonemes(a, r) = PathFrom(ops, a, r)
  BY <1>2, AlignmentIs
<1>4. Aligns(ops, Len(a), Len(r), a, r)
  BY <1>2, PathsAlign
<1> HIDE DEF ops
<1>5. /\ PathFrom(ops, a, r).operations = ops
      /\ PathFrom(ops, a, r).editCount = cost
      /\ PathFrom(ops, a, r).score = ScoreOf(cost, Larger(Len(a), Len(r)))
  BY <1>4 DEF PathFrom, Aligns
<1>6. cost \in Nat /\ cost <= Larger(Len(a), Len(r))
  <2>1. Len(a) \in 0..Len(a) /\ Len(r) \in 0..Len(r)
    BY <1>1
  <2> QED BY <2>1, CostAt, CostsAreNear DEF Near
<1> HIDE DEF cost
<1>7. ScoreOf(cost, Larger(Len(a), Len(r))) \in 0..Unit
  <2>1. Larger(Len(a), Len(r)) \in Nat
    BY <1>1 DEF Larger
  <2> QED BY <1>6, <2>1, ScoreInUnit
<1> QED BY <1>3, <1>4, <1>5, <1>7 DEF cost

-----------------------------------------------------------------------------
\* The theorems.

\* What alignPhonemesWithWorkspace returns is what it would return in a fresh
\* workspace, after any number of calls of any row widths: no cell that an earlier
\* call wrote is ever read.
THEOREM ReuseIsInvisible == Spec => []WorkspaceReuseIsInvisible
<1>1. Reused => WorkspaceReuseIsInvisible
  BY DEF Reused
<1> QED BY <1>1, ReusedInvariant, PTL

\* The operations that alignPhonemesWithWorkspace returns consume each phoneme of
\* both arguments once and in order, and label each pair by its equality.
THEOREM PathsAlignArguments == Spec => []PathAlignsArguments
<1>1. Reused => PathAlignsArguments
  <2> SUFFICES ASSUME Reused PROVE PathAlignsArguments
    OBVIOUS
  <2> DEFINE ops == result.operations
  <2>1. /\ actual \in Seq(Phonemes) /\ reference \in Seq(Phonemes)
        /\ result = AlignPhonemes(actual, reference)
    BY DEF Reused, WorkspaceReuseIsInvisible
  <2>2. Aligns(ops, Len(actual), Len(reference), actual, reference)
    BY <2>1, AlignmentFacts
  <2> HIDE DEF ops
  <2>3. /\ Consumes([k \in DOMAIN ops |-> ops[k].actualIndex], Len(actual))
        /\ Consumes([k \in DOMAIN ops |-> ops[k].referenceIndex], Len(reference))
    BY <2>2 DEF Aligns, ActualIndices, ReferenceIndices
  <2>4. Labels(ops, actual, reference)
    BY <2>2 DEF Aligns
  <2> QED BY <2>3, <2>4 DEF PathAlignsArguments, Labels, ops
<1> QED BY <1>1, ReusedInvariant, PTL

\* editCount is the least cost of any pairing of the two sequences, although a
\* cell of equal phonemes takes the diagonal without a comparison, and the score
\* stays between 0 and 1.
THEOREM EditCountsAreMinimal == Spec => []EditCountIsMinimal
<1>1. Reused => EditCountIsMinimal
  <2> SUFFICES ASSUME Reused PROVE EditCountIsMinimal
    OBVIOUS
  <2> DEFINE n == Len(actual)
             m == Len(reference)
             cost == Costs(actual, reference)[n][m]
  <2>1. /\ actual \in Seq(Phonemes) /\ reference \in Seq(Phonemes)
        /\ result = AlignPhonemes(actual, reference)
    BY DEF Reused, WorkspaceReuseIsInvisible
  <2>2. result.editCount = cost /\ result.score \in 0..Unit
    BY <2>1, AlignmentFacts
  <2>3. /\ \E p \in PairsOf(n, m) : CostOf(p, n, m, actual, reference) = cost
        /\ \A p \in PairsOf(n, m) : CostOf(p, n, m, actual, reference) >= cost
    BY <2>1, CostIsCheapest DEF Cheapest
  <2>4. Pairings = PairsOf(n, m)
    BY DEF Pairings, PairsOf
  <2>5. \A p : PairingCost(p) = CostOf(p, n, m, actual, reference)
    BY DEF PairingCost, CostOf, Unequal
  <2> HIDE DEF n, m, cost
  <2> QED BY <2>2, <2>3, <2>4, <2>5 DEF EditCountIsMinimal
<1> QED BY <1>1, ReusedInvariant, PTL
===============================================================================
