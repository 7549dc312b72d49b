--------------------------- MODULE MatcherProofs ----------------------------
(***************************************************************************)
(* Proofs about the translation memory and the terminology matcher.        *)
(*                                                                         *)
(* The comparer comes first: the table of distances is the edit distance,  *)
(* its rows never get better, and so what is given up early was not        *)
(* similar enough.  Then the inductive invariant IInv, the heap, the sort, *)
(* the terms that are picked, and one lemma for each action.               *)
(***************************************************************************)
EXTENDS Lemmas, Matcher

-----------------------------------------------------------------------------
(* The comparer: rows of distances.                                        *)

(* The least of some numbers.                                              *)
LEMMA MinIsLeast ==
  ASSUME NEW S \in SUBSET Nat, S # {}
  PROVE  Min(S) \in S /\ \A y \in S : Min(S) <= y
BY LeastMember DEF Min

(* What holds at the edges of a table and at a place whenever it holds at  *)
(* the three before it holds everywhere.                                   *)
LEMMA TableInduction ==
  ASSUME NEW n \in Nat, NEW m \in Nat, NEW Good,
         \A j \in 0 .. m : <<0, j>> \in Good,
         \A i \in 1 .. n : <<i, 0>> \in Good,
         \A i \in 1 .. n, j \in 1 .. m :
           {<<i - 1, j>>, <<i, j - 1>>, <<i - 1, j - 1>>} \subseteq Good => <<i, j>> \in Good
  PROVE  \A i \in 0 .. n, j \in 0 .. m : <<i, j>> \in Good
<1> DEFINE Done == {i \in 0 .. n : \A j \in 0 .. m : <<i, j>> \in Good}
<1>1. 0 \in Done
  OBVIOUS
<1>2. ASSUME NEW i \in 1 .. n, i - 1 \in Done PROVE i \in Done
  <2> DEFINE InRow == {j \in 0 .. m : <<i, j>> \in Good}
  <2>1. 0 \in InRow
    OBVIOUS
  <2>2. ASSUME NEW j \in 1 .. m, j - 1 \in InRow PROVE j \in InRow
    <3>1. <<i - 1, j>> \in Good /\ <<i - 1, j - 1>> \in Good /\ <<i, j - 1>> \in Good
      BY <1>2, <2>2
    <3>2. QED
      BY <3>1
  <2>3. 0 .. m \subseteq InRow
    <3> HIDE DEF InRow
    <3>1. \A j \in 1 .. m : j - 1 \in InRow => j \in InRow
      BY <2>2
    <3>2. QED
      BY <2>1, <3>1, TurnInduction
  <2>4. QED
    BY <2>3
<1>3. 0 .. n \subseteq Done
  <2> HIDE DEF Done
  <2>1. \A i \in 1 .. n : i - 1 \in Done => i \in Done
    BY <1>2
  <2>2. QED
    BY <1>1, <2>1, TurnInduction
<1>4. QED
  BY <1>3

-----------------------------------------------------------------------------
(* The recurrence of the edit distance, row by row.                        *)

Change(x, y) == IF x = y THEN 0 ELSE 1

Cell(t, a, b, i, j) ==
  Min({ t[i - 1][j] + 1, t[i][j - 1] + 1, t[i - 1][j - 1] + Change(a[j], b[i]) })

Recurs(t, a, b) ==
  /\ \A j \in 0 .. Len(a) : t[0][j] = j
  /\ \A i \in 0 .. Len(b) : t[i][0] = i
  /\ \A i \in 1 .. Len(b), j \in 1 .. Len(a) : t[i][j] = Cell(t, a, b, i, j)

IsTable(t, a, b) ==
  /\ t \in [0 .. Len(b) -> [0 .. Len(a) -> Nat]]
  /\ Recurs(t, a, b)

(* A cell is one of three candidates and none of them is less.             *)
LEMMA CellIsLeast ==
  ASSUME NEW x \in Nat, NEW y \in Nat, NEW z \in Nat
  PROVE  LET c == Min({x, y, z})
         IN c \in Nat /\ c <= x /\ c <= y /\ c <= z /\ (c = x \/ c = y \/ c = z)
BY MinIsLeast

(* One edit replaces a character, none keeps it.                           *)
LEMMA ChangeIsNat == \A x, y : Change(x, y) \in {0, 1}
BY DEF Change

IsNextRow(row, previous, a, b, i) ==
  /\ row \in [0 .. Len(a) -> Nat]
  /\ row[0] = i
  /\ \A j \in 1 .. Len(a) :
       row[j] = Min({ previous[j] + 1, row[j - 1] + 1, previous[j - 1] + Change(a[j], b[i]) })

(* NextRow computes each cell from the one before it and the two above.    *)
LEMMA RowIsComputed ==
  ASSUME NEW A, NEW a \in Seq(A), NEW b, NEW i \in Nat, NEW previous \in [0 .. Len(a) -> Nat]
  PROVE  IsNextRow(NextRow(previous, a, b, i), previous, a, b, i)
<1> DEFINE m == Len(a)
           Turn(j, x) == Min({ previous[j] + 1, x + 1, previous[j - 1] + Change(a[j], b[i]) })
           step == [j \in 1 .. m |-> [x \in Nat |-> Turn(j, x)]]
           Body(f) == [j \in 0 .. m |-> IF j = 0 THEN i ELSE Turn(j, f[j - 1])]
           row == CHOOSE f : f = Body(f)
<1>1. m \in Nat
  OBVIOUS
<1>2. ASSUME NEW j \in 1 .. m, NEW x \in Nat PROVE Turn(j, x) \in Nat
  <2>1. previous[j] + 1 \in Nat /\ x + 1 \in Nat /\ previous[j - 1] + Change(a[j], b[i]) \in Nat
    BY ChangeIsNat
  <2>2. QED
    BY <2>1, CellIsLeast
<1>3. NextRow(previous, a, b, i) = row
  BY DEF NextRow, Change
<1> HIDE DEF Turn, m
<1>4. step \in Turns(m, Nat)
  BY <1>2 DEF Turns
<1>5. PICK f \in [0 .. m -> Nat] : f[0] = i /\ \A j \in 1 .. m : f[j] = step[j][f[j - 1]]
  <2> HIDE DEF step
  <2>1. Runs(m, Nat, i, step) # {}
    BY <1>1, <1>4, TurnRecursion
  <2>2. QED
    BY <2>1 DEF Runs
<1>6. f = Body(f)
  <2>1. ASSUME NEW j \in 1 .. m PROVE f[j] = Turn(j, f[j - 1])
    <3>1. f[j - 1] \in Nat
      BY <1>1, <1>5
    <3>2. QED
      BY <1>5, <3>1
  <2>2. QED
    BY <1>1, <1>5, <2>1
<1>7. row = Body(row)
  <2> HIDE DEF Body
  <2>1. QED
    BY <1>6
<1> HIDE DEF row
<1>8. DOMAIN row = 0 .. m /\ row[0] = i /\ \A j \in 1 .. m : row[j] = Turn(j, row[j - 1])
  BY <1>1, <1>7
<1>9. \A j \in 0 .. m : row[j] \in Nat
  <2> DEFINE Good == {j \in 0 .. m : row[j] \in Nat}
  <2>1. 0 \in Good
    BY <1>1, <1>8
  <2>2. \A j \in 1 .. m : j - 1 \in Good => j \in Good
    BY <1>1, <1>2, <1>8
  <2> HIDE DEF Good
  <2>3. 0 .. m \subseteq Good
    BY <1>1, <2>1, <2>2, TurnInduction
  <2>4. QED
    BY <2>3 DEF Good
<1>10. row \in [0 .. m -> Nat]
  <2>1. row = [j \in 0 .. m |-> row[j]]
    BY <1>7
  <2>2. QED
    BY <1>9, <2>1
<1>11. \A j \in 1 .. m : row[j] = Min({ previous[j] + 1, row[j - 1] + 1,
                                       previous[j - 1] + Change(a[j], b[i]) })
  BY <1>8 DEF Turn
<1>12. QED
  BY <1>3, <1>8, <1>10, <1>11 DEF m, IsNextRow

(* Rows solves the recurrence. *)
LEMMA RowsAreATable ==
  ASSUME NEW A, NEW a \in Seq(A), NEW b \in Seq(A)
  PROVE  IsTable(Rows(a, b), a, b)
<1> DEFINE n == Len(b)
           S == [0 .. Len(a) -> Nat]
           base == [j \in 0 .. Len(a) |-> j]
           step == [i \in 1 .. n |-> [row \in S |-> NextRow(row, a, b, i)]]
           Body(f) == [i \in 0 .. n |-> IF i = 0 THEN base ELSE NextRow(f[i - 1], a, b, i)]
           rows == CHOOSE f : f = Body(f)
<1>1. n \in Nat /\ base \in S /\ \A j \in 0 .. Len(a) : base[j] = j
  OBVIOUS
<1>2. ASSUME NEW i \in 1 .. n, NEW row \in S
      PROVE  /\ NextRow(row, a, b, i) \in S
             /\ NextRow(row, a, b, i)[0] = i
             /\ \A j \in 1 .. Len(a) :
                  NextRow(row, a, b, i)[j] =
                    Min({ row[j] + 1, NextRow(row, a, b, i)[j - 1] + 1,
                          row[j - 1] + Change(a[j], b[i]) })
  <2>1. i \in Nat /\ row \in [0 .. Len(a) -> Nat]
    OBVIOUS
  <2> HIDE DEF S
  <2>2. IsNextRow(NextRow(row, a, b, i), row, a, b, i)
    BY <2>1, RowIsComputed
  <2>3. QED
    BY <2>2 DEF S, IsNextRow
<1>3. Rows(a, b) = rows
  BY DEF Rows
<1> HIDE DEF n, S, base
<1>4. step \in Turns(n, S)
  BY <1>2 DEF Turns
<1>5. PICK f \in [0 .. n -> S] : f[0] = base /\ \A i \in 1 .. n : f[i] = step[i][f[i - 1]]
  <2> HIDE DEF step
  <2>1. Runs(n, S, base, step) # {}
    BY <1>1, <1>4, TurnRecursion
  <2>2. QED
    BY <2>1 DEF Runs
<1>6. f = Body(f)
  <2>1. ASSUME NEW i \in 1 .. n PROVE f[i] = NextRow(f[i - 1], a, b, i)
    <3>1. f[i - 1] \in S
      BY <1>1, <1>5
    <3>2. QED
      BY <1>5, <3>1
  <2>2. QED
    BY <1>1, <1>5, <2>1
<1>7. rows = Body(rows)
  <2> HIDE DEF Body
  <2>1. QED
    BY <1>6
<1> HIDE DEF rows
<1>8. rows[0] = base /\ \A i \in 1 .. n : rows[i] = NextRow(rows[i - 1], a, b, i)
  <2>1. \A i \in 0 .. n : rows[i] = IF i = 0 THEN base ELSE NextRow(rows[i - 1], a, b, i)
    BY <1>7
  <2> HIDE DEF Body
  <2>2. QED
    BY <1>1, <2>1
<1>9. \A i \in 0 .. n : rows[i] \in S
  <2> DEFINE Good == {i \in 0 .. n : rows[i] \in S}
  <2>1. 0 \in Good
    BY <1>1, <1>8
  <2>2. ASSUME NEW i \in 1 .. n, i - 1 \in Good PROVE i \in Good
    BY <1>1, <1>2, <1>8, <2>2
  <2> HIDE DEF Good
  <2>3. 0 .. n \subseteq Good
    BY <1>1, <2>1, <2>2, TurnInduction
  <2>4. QED
    BY <2>3 DEF Good
<1>10. \A i \in 0 .. n : rows[i][0] = i
  <2>1. ASSUME NEW i \in 1 .. n PROVE rows[i][0] = i
    <3>1. rows[i - 1] \in S /\ rows[i] = NextRow(rows[i - 1], a, b, i)
      BY <1>1, <1>8, <1>9
    <3>2. QED
      BY <1>2, <3>1
  <2>2. rows[0][0] = 0
    BY <1>1, <1>8 DEF base
  <2>3. QED
    BY <1>1, <2>1, <2>2
<1>11. ASSUME NEW i \in 1 .. n, NEW j \in 1 .. Len(a) PROVE rows[i][j] = Cell(rows, a, b, i, j)
  <2>1. rows[i - 1] \in S /\ rows[i] = NextRow(rows[i - 1], a, b, i)
    BY <1>1, <1>8, <1>9
  <2> DEFINE previous == rows[i - 1]
             row == NextRow(previous, a, b, i)
  <2> HIDE DEF previous
  <2>2. row[j] = Min({ previous[j] + 1, row[j - 1] + 1, previous[j - 1] + Change(a[j], b[i]) })
    BY <1>2, <2>1 DEF previous
  <2> HIDE DEF row
  <2>3. rows[i] = row
    BY <2>1 DEF row, previous
  <2>4. QED
    BY <2>2, <2>3 DEF Cell, previous
<1>12. rows \in [0 .. n -> S]
  <2>1. rows = [i \in 0 .. n |-> rows[i]]
    BY <1>7
  <2>2. QED
    BY <1>9, <2>1
<1>13. \A j \in 0 .. Len(a) : rows[0][j] = j
  BY <1>1, <1>8
<1>14. Recurs(rows, a, b)
  BY <1>10, <1>11, <1>13 DEF Recurs, n
<1>15. QED
  BY <1>3, <1>12, <1>14 DEF IsTable, n, S

(* Nothing else does. *)
LEMMA OneTable ==
  ASSUME NEW A, NEW a \in Seq(A), NEW b \in Seq(A), NEW t, IsTable(t, a, b), NEW u, Recurs(u, a, b)
  PROVE  \A i \in 0 .. Len(b), j \in 0 .. Len(a) : u[i][j] = t[i][j]
<1> DEFINE Good == {p \in (0 .. Len(b)) \X (0 .. Len(a)) : u[p[1]][p[2]] = t[p[1]][p[2]]}
<1>1. Len(a) \in Nat /\ Len(b) \in Nat
  OBVIOUS
<1>2. \A i \in 0 .. Len(b), j \in 0 .. Len(a) : <<i, j>> \in Good <=> u[i][j] = t[i][j]
  OBVIOUS
<1> HIDE DEF Good
<1>3. \A j \in 0 .. Len(a) : <<0, j>> \in Good
  BY <1>1, <1>2 DEF IsTable, Recurs
<1>4. \A i \in 1 .. Len(b) : <<i, 0>> \in Good
  BY <1>1, <1>2 DEF IsTable, Recurs
<1>5. ASSUME NEW i \in 1 .. Len(b), NEW j \in 1 .. Len(a),
             {<<i - 1, j>>, <<i, j - 1>>, <<i - 1, j - 1>>} \subseteq Good
      PROVE  <<i, j>> \in Good
  <2>1. i - 1 \in 0 .. Len(b) /\ j - 1 \in 0 .. Len(a) /\ i \in 0 .. Len(b) /\ j \in 0 .. Len(a)
    BY <1>1
  <2>2. u[i - 1][j] = t[i - 1][j] /\ u[i][j - 1] = t[i][j - 1] /\ u[i - 1][j - 1] = t[i - 1][j - 1]
    BY <1>2, <1>5, <2>1
  <2>3. Cell(u, a, b, i, j) = Cell(t, a, b, i, j)
    BY <2>2 DEF Cell
  <2>4. u[i][j] = Cell(u, a, b, i, j) /\ t[i][j] = Cell(t, a, b, i, j)
    BY DEF IsTable, Recurs
  <2>5. QED
    BY <1>2, <2>1, <2>3, <2>4
<1>6. QED
  <2>1. \A i \in 0 .. Len(b), j \in 0 .. Len(a) : <<i, j>> \in Good
    BY <1>1, <1>3, <1>4, <1>5, TableInduction
  <2>2. QED
    BY <1>2, <2>1

(* A cell is at most one more than each of the three before it, and is the *)
(* least that they allow.                                                  *)
LEMMA TableCells ==
  ASSUME NEW A, NEW a \in Seq(A), NEW b \in Seq(A), NEW t, IsTable(t, a, b),
         NEW i \in 1 .. Len(b), NEW j \in 1 .. Len(a)
  PROVE  /\ t[i][j] \in Nat /\ t[i - 1][j] \in Nat /\ t[i][j - 1] \in Nat /\ t[i - 1][j - 1] \in Nat
         /\ t[i][j] <= t[i - 1][j] + 1
         /\ t[i][j] <= t[i][j - 1] + 1
         /\ t[i][j] <= t[i - 1][j - 1] + Change(a[j], b[i])
         /\ \/ t[i][j] = t[i - 1][j] + 1
            \/ t[i][j] = t[i][j - 1] + 1
            \/ t[i][j] = t[i - 1][j - 1] + Change(a[j], b[i])
<1>1. i - 1 \in 0 .. Len(b) /\ j - 1 \in 0 .. Len(a) /\ i \in 0 .. Len(b) /\ j \in 0 .. Len(a)
  OBVIOUS
<1>2. t[i][j] \in Nat /\ t[i - 1][j] \in Nat /\ t[i][j - 1] \in Nat /\ t[i - 1][j - 1] \in Nat
  BY <1>1 DEF IsTable
<1>3. t[i][j] = Cell(t, a, b, i, j)
  BY DEF IsTable, Recurs
<1>4. Change(a[j], b[i]) \in {0, 1}
  BY ChangeIsNat
<1> DEFINE x == t[i - 1][j] + 1
           y == t[i][j - 1] + 1
           z == t[i - 1][j - 1] + Change(a[j], b[i])
<1>5. x \in Nat /\ y \in Nat /\ z \in Nat
  <2>1. x \in Nat
    BY <1>2
  <2>2. y \in Nat
    BY <1>2
  <2>3. z \in Nat
    BY <1>2, <1>4
  <2>4. QED
    BY <2>1, <2>2, <2>3
<1>6. t[i][j] = Min({x, y, z})
  BY <1>3 DEF Cell
<1> HIDE DEF x, y, z
<1>7. /\ t[i][j] <= x /\ t[i][j] <= y /\ t[i][j] <= z
      /\ t[i][j] = x \/ t[i][j] = y \/ t[i][j] = z
  BY <1>5, <1>6, CellIsLeast
<1>8. QED
  BY <1>2, <1>7 DEF x, y, z

(* The distance is the last cell of the rows. *)
LEMMA EditDistanceIsLastCell ==
  ASSUME NEW A, NEW a \in Seq(A), NEW b \in Seq(A)
  PROVE  EditDistance(a, b) = Rows(a, b)[Len(b)][Len(a)]
<1> DEFINE rows == Rows(a, b)
           D == (0 .. Len(a)) \X (0 .. Len(b))
           Value(f, i, j) == IF i = 0 THEN j ELSE IF j = 0 THEN i
                             ELSE Min({ f[<<i - 1, j>>] + 1, f[<<i, j - 1>>] + 1,
                                        f[<<i - 1, j - 1>>] + (IF a[i] = b[j] THEN 0 ELSE 1) })
           Body(f) == [p \in D |-> Value(f, p[1], p[2])]
           d == CHOOSE f : f = Body(f)
           g == [p \in D |-> rows[p[2]][p[1]]]
           u == [j \in 0 .. Len(b) |-> [i \in 0 .. Len(a) |-> d[<<i, j>>]]]
<1>1. IsTable(rows, a, b) /\ Len(a) \in Nat /\ Len(b) \in Nat
  BY RowsAreATable
<1>2. EditDistance(a, b) = d[<<Len(a), Len(b)>>]
  BY DEF EditDistance
<1> HIDE DEF rows
<1>3. g = Body(g)
  <2>1. \A i \in 0 .. Len(a), j \in 0 .. Len(b) : g[<<i, j>>] = rows[j][i]
    OBVIOUS
  <2>2. ASSUME NEW i \in 0 .. Len(a), NEW j \in 0 .. Len(b)
        PROVE  rows[j][i] = Value(g, i, j)
    <3>1. CASE i = 0
      BY <1>1, <3>1 DEF IsTable, Recurs
    <3>2. CASE i # 0 /\ j = 0
      BY <1>1, <3>2 DEF IsTable, Recurs
    <3>3. CASE i # 0 /\ j # 0
      <4>1. i \in 1 .. Len(a) /\ j \in 1 .. Len(b) /\ i - 1 \in 0 .. Len(a) /\ j - 1 \in 0 .. Len(b)
        BY <1>1, <3>3
      <4>2. rows[j][i] = Cell(rows, a, b, j, i)
        BY <1>1, <4>1 DEF IsTable, Recurs
      <4>3. g[<<i - 1, j>>] = rows[j][i - 1] /\ g[<<i, j - 1>>] = rows[j - 1][i]
            /\ g[<<i - 1, j - 1>>] = rows[j - 1][i - 1]
        BY <2>1, <4>1
      <4> HIDE DEF g
      <4>4. {rows[j - 1][i] + 1, rows[j][i - 1] + 1, rows[j - 1][i - 1] + Change(a[i], b[j])}
              = { g[<<i - 1, j>>] + 1, g[<<i, j - 1>>] + 1,
                  g[<<i - 1, j - 1>>] + (IF a[i] = b[j] THEN 0 ELSE 1) }
        BY <4>3 DEF Change
      <4>5. QED
        BY <3>3, <4>2, <4>4 DEF Cell
    <3>4. QED
      BY <3>1, <3>2, <3>3
  <2>3. QED
    BY <2>2
<1>4. d = Body(d)
  <2> HIDE DEF Body, g
  <2>1. QED
    BY <1>3
<1> HIDE DEF d, g
<1>5. \A i \in 0 .. Len(a), j \in 0 .. Len(b) :
        d[<<i, j>>] = Value(d, i, j)
  BY <1>4
<1>6. \A j \in 0 .. Len(b), i \in 0 .. Len(a) : u[j][i] = d[<<i, j>>]
  OBVIOUS
<1> HIDE DEF u
<1>7. Recurs(u, a, b)
  <2>1. ASSUME NEW i \in 1 .. Len(b), NEW j \in 1 .. Len(a) PROVE u[i][j] = Cell(u, a, b, i, j)
    <3>1. i - 1 \in 0 .. Len(b) /\ j - 1 \in 0 .. Len(a) /\ i \in 0 .. Len(b) /\ j \in 0 .. Len(a)
          /\ i # 0 /\ j # 0
      BY <1>1
    <3>2. d[<<j, i>>] = Min({ d[<<j - 1, i>>] + 1, d[<<j, i - 1>>] + 1,
                          d[<<j - 1, i - 1>>] + (IF a[j] = b[i] THEN 0 ELSE 1) })
      BY <1>5, <3>1
    <3>3. u[i][j] = d[<<j, i>>] /\ u[i][j - 1] = d[<<j - 1, i>>] /\ u[i - 1][j] = d[<<j, i - 1>>]
          /\ u[i - 1][j - 1] = d[<<j - 1, i - 1>>]
      BY <1>6, <3>1
    <3>4. { d[<<j - 1, i>>] + 1, d[<<j, i - 1>>] + 1,
            d[<<j - 1, i - 1>>] + (IF a[j] = b[i] THEN 0 ELSE 1) }
            = {u[i - 1][j] + 1, u[i][j - 1] + 1, u[i - 1][j - 1] + Change(a[j], b[i])}
      BY <3>3 DEF Change
    <3>5. QED
      BY <3>2, <3>3, <3>4 DEF Cell
  <2>2. ASSUME NEW j \in 0 .. Len(a) PROVE u[0][j] = j
    <3>1. 0 \in 0 .. Len(b)
      BY <1>1
    <3>2. u[0][j] = d[<<j, 0>>]
      BY <1>6, <3>1
    <3>3. d[<<j, 0>>] = Value(d, j, 0)
      BY <1>5, <3>1
    <3>4. QED
      BY <3>2, <3>3
  <2>3. ASSUME NEW i \in 0 .. Len(b) PROVE u[i][0] = i
    <3>1. 0 \in 0 .. Len(a)
      BY <1>1
    <3>2. u[i][0] = d[<<0, i>>]
      BY <1>6, <3>1
    <3>3. d[<<0, i>>] = Value(d, 0, i)
      BY <1>5, <3>1
    <3>4. QED
      BY <3>2, <3>3
  <2>4. QED
    BY <2>1, <2>2, <2>3 DEF Recurs
<1>8. u[Len(b)][Len(a)] = rows[Len(b)][Len(a)]
  BY <1>1, <1>7, OneTable
<1>9. QED
  BY <1>1, <1>2, <1>6, <1>8 DEF rows

(* The distance does not depend on which text comes first. *)
LEMMA EditDistanceIsSymmetric ==
  ASSUME NEW A, NEW a \in Seq(A), NEW b \in Seq(A)
  PROVE  EditDistance(a, b) = EditDistance(b, a)
<1> DEFINE t == Rows(a, b)
           u == [i \in 0 .. Len(a) |-> [j \in 0 .. Len(b) |-> t[j][i]]]
<1>1. IsTable(t, a, b) /\ IsTable(Rows(b, a), b, a) /\ Len(a) \in Nat /\ Len(b) \in Nat
  BY RowsAreATable
<1> HIDE DEF t
<1>2. \A i \in 0 .. Len(a), j \in 0 .. Len(b) : u[i][j] = t[j][i]
  OBVIOUS
<1> HIDE DEF u
<1>3. ASSUME NEW i \in 1 .. Len(a), NEW j \in 1 .. Len(b) PROVE u[i][j] = Cell(u, b, a, i, j)
  <2>1. i - 1 \in 0 .. Len(a) /\ j - 1 \in 0 .. Len(b) /\ i \in 0 .. Len(a) /\ j \in 0 .. Len(b)
    BY <1>1
  <2>2. u[i][j] = t[j][i] /\ u[i - 1][j] = t[j][i - 1] /\ u[i][j - 1] = t[j - 1][i]
        /\ u[i - 1][j - 1] = t[j - 1][i - 1]
    BY <1>2, <2>1
  <2>3. t[j][i] = Cell(t, a, b, j, i)
    BY <1>1 DEF IsTable, Recurs
  <2>4. { t[j - 1][i] + 1, t[j][i - 1] + 1, t[j - 1][i - 1] + Change(a[i], b[j]) }
          = { u[i - 1][j] + 1, u[i][j - 1] + 1, u[i - 1][j - 1] + Change(b[j], a[i]) }
    BY <2>2 DEF Change
  <2>5. u[i][j] = Min({ t[j - 1][i] + 1, t[j][i - 1] + 1, t[j - 1][i - 1] + Change(a[i], b[j]) })
    BY <2>2, <2>3 DEF Cell
  <2>6. Cell(u, b, a, i, j)
          = Min({ u[i - 1][j] + 1, u[i][j - 1] + 1, u[i - 1][j - 1] + Change(b[j], a[i]) })
    BY DEF Cell
  <2>7. QED
    BY <2>4, <2>5, <2>6
<1>4. \A j \in 0 .. Len(b) : u[0][j] = j
  <2>1. \A j \in 0 .. Len(b) : t[j][0] = j
    BY <1>1 DEF IsTable, Recurs
  <2>2. 0 \in 0 .. Len(a)
    BY <1>1
  <2>3. QED
    BY <1>2, <2>1, <2>2
<1>5. \A i \in 0 .. Len(a) : u[i][0] = i
  <2>1. \A i \in 0 .. Len(a) : t[0][i] = i
    BY <1>1 DEF IsTable, Recurs
  <2>2. 0 \in 0 .. Len(b)
    BY <1>1
  <2>3. QED
    BY <1>2, <2>1, <2>2
<1>6. Recurs(u, b, a)
  BY <1>3, <1>4, <1>5 DEF Recurs
<1>7. u[Len(a)][Len(b)] = Rows(b, a)[Len(a)][Len(b)]
  BY <1>1, <1>6, OneTable
<1>8. QED
  BY <1>1, <1>2, <1>7, EditDistanceIsLastCell DEF t

(* Of two beginnings the longer one needs an edit for each character more. *)
LEMMA LengthsDiffer ==
  ASSUME NEW A, NEW a \in Seq(A), NEW b \in Seq(A), NEW t, IsTable(t, a, b)
  PROVE  \A i \in 0 .. Len(b), j \in 0 .. Len(a) : t[i][j] >= i - j
<1> DEFINE Good == {p \in (0 .. Len(b)) \X (0 .. Len(a)) : t[p[1]][p[2]] >= p[1] - p[2]}
<1>1. Len(a) \in Nat /\ Len(b) \in Nat
  OBVIOUS
<1>2. \A i \in 0 .. Len(b), j \in 0 .. Len(a) : <<i, j>> \in Good <=> t[i][j] >= i - j
  OBVIOUS
<1> HIDE DEF Good
<1>3. ASSUME NEW j \in 0 .. Len(a) PROVE <<0, j>> \in Good
  <2>1. t[0][j] = j /\ 0 \in 0 .. Len(b)
    BY <1>1 DEF IsTable, Recurs
  <2>2. t[0][j] >= 0 - j
    BY <1>1, <2>1
  <2>3. QED
    BY <1>2, <2>1, <2>2
<1>4. ASSUME NEW i \in 1 .. Len(b) PROVE <<i, 0>> \in Good
  <2>1. t[i][0] = i /\ 0 \in 0 .. Len(a) /\ i \in 0 .. Len(b)
    BY <1>1 DEF IsTable, Recurs
  <2>2. t[i][0] >= i - 0
    BY <1>1, <2>1
  <2>3. QED
    BY <1>2, <2>1, <2>2
<1>5. ASSUME NEW i \in 1 .. Len(b), NEW j \in 1 .. Len(a),
             {<<i - 1, j>>, <<i, j - 1>>, <<i - 1, j - 1>>} \subseteq Good
      PROVE  <<i, j>> \in Good
  <2>1. i - 1 \in 0 .. Len(b) /\ j - 1 \in 0 .. Len(a) /\ i \in 0 .. Len(b) /\ j \in 0 .. Len(a)
    BY <1>1
  <2>2. /\ t[i - 1][j] >= (i - 1) - j
        /\ t[i][j - 1] >= i - (j - 1)
        /\ t[i - 1][j - 1] >= (i - 1) - (j - 1)
    BY <1>2, <1>5, <2>1
  <2>3. Change(a[j], b[i]) \in {0, 1}
    BY ChangeIsNat
  <2>4. t[i][j] >= i - j
    <3> DEFINE x == t[i - 1][j]
               y == t[i][j - 1]
               z == t[i - 1][j - 1]
               w == t[i][j]
               c == Change(a[j], b[i])
    <3>1. x >= (i - 1) - j /\ y >= i - (j - 1) /\ z >= (i - 1) - (j - 1)
          /\ x \in Nat /\ y \in Nat /\ z \in Nat /\ (w = x + 1 \/ w = y + 1 \/ w = z + c)
          /\ c \in {0, 1}
      BY <2>2, <2>3, TableCells
    <3> HIDE DEF x, y, z, w, c
    <3>2. i \in Int /\ j \in Int
      OBVIOUS
    <3>3. w >= i - j
      BY <3>1, <3>2
    <3>4. QED
      BY <3>3 DEF w
  <2>5. QED
    BY <1>2, <2>1, <2>4
<1>6. QED
  <2>1. \A i \in 0 .. Len(b), j \in 0 .. Len(a) : <<i, j>> \in Good
    BY <1>1, <1>3, <1>4, <1>5, TableInduction
  <2>2. QED
    BY <1>2, <2>1

(* What all of a row exceeds, all that follow exceed. *)
LEMMA RowsOnlyGrow ==
  ASSUME NEW A, NEW a \in Seq(A), NEW b \in Seq(A), NEW t, IsTable(t, a, b),
         NEW r \in 0 .. Len(b), NEW low \in Nat, \A j \in 0 .. Len(a) : t[r][j] >= low
  PROVE  \A i \in r .. Len(b), j \in 0 .. Len(a) : t[i][j] >= low
<1> DEFINE Good == {p \in (0 .. Len(b)) \X (0 .. Len(a)) : p[1] >= r => t[p[1]][p[2]] >= low}
<1>1. Len(a) \in Nat /\ Len(b) \in Nat
  OBVIOUS
<1>2. \A i \in 0 .. Len(b), j \in 0 .. Len(a) : <<i, j>> \in Good <=> (i >= r => t[i][j] >= low)
  OBVIOUS
<1> HIDE DEF Good
<1>3. ASSUME NEW j \in 0 .. Len(a) PROVE <<0, j>> \in Good
  <2>1. 0 \in 0 .. Len(b) /\ (0 >= r => r = 0)
    BY <1>1
  <2>2. QED
    BY <1>2, <2>1
<1>4. ASSUME NEW i \in 1 .. Len(b) PROVE <<i, 0>> \in Good
  <2>1. t[i][0] = i /\ t[r][0] = r /\ 0 \in 0 .. Len(a) /\ i \in 0 .. Len(b)
    BY <1>1 DEF IsTable, Recurs
  <2>2. i >= r => t[i][0] >= low
    BY <1>1, <2>1
  <2>3. QED
    BY <1>2, <2>1, <2>2
<1>5. ASSUME NEW i \in 1 .. Len(b), NEW j \in 1 .. Len(a),
             {<<i - 1, j>>, <<i, j - 1>>, <<i - 1, j - 1>>} \subseteq Good
      PROVE  <<i, j>> \in Good
  <2>1. i - 1 \in 0 .. Len(b) /\ j - 1 \in 0 .. Len(a) /\ i \in 0 .. Len(b) /\ j \in 0 .. Len(a)
    BY <1>1
  <2>2. ASSUME i > r PROVE t[i][j] >= low
    <3> DEFINE x == t[i - 1][j]
               y == t[i][j - 1]
               z == t[i - 1][j - 1]
               w == t[i][j]
               c == Change(a[j], b[i])
    <3>1. i - 1 >= r /\ i >= r
      BY <2>2
    <3>2. x >= low /\ y >= low /\ z >= low
      BY <1>2, <1>5, <2>1, <3>1
    <3>3. x \in Nat /\ y \in Nat /\ z \in Nat
      BY TableCells
    <3>4. w = x + 1 \/ w = y + 1 \/ w = z + c
      BY TableCells
    <3>5. c \in {0, 1}
      BY ChangeIsNat
    <3> HIDE DEF x, y, z, w, c
    <3>6. w >= low
      BY <3>2, <3>3, <3>4, <3>5
    <3>7. QED
      BY <3>6 DEF w
  <2>3. ASSUME i = r PROVE t[i][j] >= low
    BY <2>1, <2>3
  <2>4. i >= r => i > r \/ i = r
    OBVIOUS
  <2>5. QED
    BY <1>2, <2>1, <2>2, <2>3, <2>4
<1>6. QED
  <2>1. \A i \in 0 .. Len(b), j \in 0 .. Len(a) : <<i, j>> \in Good
    BY <1>1, <1>3, <1>4, <1>5, TableInduction
  <2>2. \A i \in r .. Len(b) : i \in 0 .. Len(b) /\ i >= r
    OBVIOUS
  <2>3. QED
    BY <1>2, <2>1, <2>2

(* All of a row exceeds its least, the cell of the empty beginning too,    *)
(* although it is not looked at.                                           *)
LEMMA LeastIsLow ==
  ASSUME NEW A, NEW a \in Seq(A), NEW b \in Seq(A), NEW t, IsTable(t, a, b),
         a # << >>, NEW r \in 1 .. Len(b)
  PROVE  Least(t[r], b) \in Nat /\ \A j \in 0 .. Len(a) : t[r][j] >= Least(t[r], b)
<1> DEFINE S == {Len(b)} \cup {t[r][j] : j \in DOMAIN t[r] \ {0}}
           low == Least(t[r], b)
<1>1. Len(a) \in Nat /\ Len(b) \in Nat /\ 1 \in 1 .. Len(a)
  OBVIOUS
<1>2. r \in 0 .. Len(b) /\ t[r] \in [0 .. Len(a) -> Nat]
  <2>1. t \in [0 .. Len(b) -> [0 .. Len(a) -> Nat]]
    BY DEF IsTable
  <2>2. r \in 0 .. Len(b)
    BY <1>1
  <2>3. QED
    BY <2>1, <2>2
<1>3. S \in SUBSET Nat /\ Len(b) \in S /\ \A j \in 1 .. Len(a) : t[r][j] \in S
  BY <1>1, <1>2
<1>4. low = Min(S)
  BY DEF Least
<1> HIDE DEF S, low
<1>5. low \in Nat /\ \A j \in 1 .. Len(a) : low <= t[r][j]
  BY <1>3, <1>4, MinIsLeast
<1>6. t[r][0] = r /\ t[r - 1][0] = r - 1
  <2>1. r - 1 \in 0 .. Len(b)
    BY <1>1
  <2>2. QED
    BY <1>2, <2>1 DEF IsTable, Recurs
<1>7. t[r][1] <= t[r - 1][0] + Change(a[1], b[r])
  <2>1. t[r][1] <= t[r - 1][1 - 1] + Change(a[1], b[r])
    BY <1>1, TableCells
  <2>2. 1 - 1 = 0
    OBVIOUS
  <2>3. QED
    BY <2>1, <2>2
<1>8. t[r][0] >= low
  <2>1. Change(a[1], b[r]) \in {0, 1}
    BY ChangeIsNat
  <2>2. low <= t[r][1] /\ t[r][1] \in Nat
    <3>1. low <= t[r][1]
      BY <1>1, <1>5
    <3>2. 1 \in 0 .. Len(a)
      BY <1>1
    <3>3. QED
      BY <1>2, <3>1, <3>2
  <2>3. t[r][1] <= (r - 1) + Change(a[1], b[r])
    <3> DEFINE above == t[r - 1][0]
    <3>1. above = r - 1
      BY <1>6
    <3>2. t[r][1] <= above + Change(a[1], b[r])
      BY <1>7
    <3> HIDE DEF above
    <3>3. QED
      BY <3>1, <3>2
  <2> DEFINE x == t[r][1]
             change == Change(a[1], b[r])
  <2>4. x \in Nat /\ change \in {0, 1} /\ low <= x /\ x <= (r - 1) + change /\ r \in Nat
    BY <2>1, <2>2, <2>3
  <2> HIDE DEF x, change
  <2>5. r >= low
    BY <1>5, <2>4
  <2>6. QED
    BY <1>6, <2>5
<1>9. ASSUME NEW j \in 0 .. Len(a) PROVE t[r][j] >= low
  <2>1. j = 0 \/ j \in 1 .. Len(a)
    BY <1>1
  <2>2. t[r][j] \in Nat
    BY <1>2
  <2>3. QED
    BY <1>5, <1>8, <2>1, <2>2
<1>10. QED
  BY <1>5, <1>9 DEF low

(* Giving up early is right: a row that exceeds stopvalue leaves no way    *)
(* back below it.                                                          *)
LEMMA DistanceStopsRightly ==
  ASSUME NEW A, NEW a \in Seq(A), NEW b \in Seq(A), a # << >>, NEW stopvalue \in Int
  PROVE  /\ Distance(a, b, stopvalue) \in Nat /\ EditDistance(a, b) \in Nat
         /\ IF EditDistance(a, b) <= stopvalue THEN Distance(a, b, stopvalue) = EditDistance(a, b)
            ELSE Distance(a, b, stopvalue) > stopvalue
<1> DEFINE rows == Rows(a, b)
           hopeless == {i \in 1 .. Len(b) : Least(rows[i], b) > stopvalue}
           end == rows[Len(b)][Len(a)]
           dist == Distance(a, b, stopvalue)
<1>1. IsTable(rows, a, b) /\ Len(a) \in Nat /\ Len(b) \in Nat
  BY RowsAreATable
<1>2. EditDistance(a, b) = end
  BY EditDistanceIsLastCell
<1>3. dist = IF hopeless = {} THEN end ELSE Least(rows[Min(hopeless)], b)
  BY DEF Distance
<1> HIDE DEF rows, dist
<1>4. end \in Nat
  BY <1>1 DEF IsTable
<1>5. CASE hopeless = {}
  BY <1>2, <1>3, <1>4, <1>5 DEF dist
<1>6. CASE hopeless # {}
  <2> DEFINE r == Min(hopeless)
  <2>1. hopeless \in SUBSET Nat
    OBVIOUS
  <2>2. r \in hopeless
    <3> HIDE DEF hopeless
    <3>1. QED
      BY <1>6, <2>1, MinIsLeast
  <2> HIDE DEF r
  <2>3. r \in 1 .. Len(b) /\ Least(rows[r], b) > stopvalue /\ r \in 0 .. Len(b)
    BY <2>2
  <2>4. Least(rows[r], b) \in Nat /\ \A j \in 0 .. Len(a) : rows[r][j] >= Least(rows[r], b)
    BY <1>1, <2>3, LeastIsLow
  <2>5. \A i \in r .. Len(b), j \in 0 .. Len(a) : rows[i][j] >= Least(rows[r], b)
    BY <1>1, <2>3, <2>4, RowsOnlyGrow
  <2>6. end >= Least(rows[r], b)
    <3>1. Len(b) \in r .. Len(b) /\ Len(a) \in 0 .. Len(a)
      BY <1>1, <2>3
    <3>2. QED
      BY <2>5, <3>1
  <2>7. dist = Least(rows[r], b)
    BY <1>3, <1>6 DEF r
  <2> HIDE DEF end
  <2>8. QED
    BY <1>2, <1>4, <2>3, <2>4, <2>6, <2>7 DEF dist
<1>7. QED
  BY <1>5, <1>6

(* Two texts differ by at least the difference of their lengths.           *)
LEMMA EditDistanceIsLengthDifference ==
  ASSUME NEW A, NEW a \in Seq(A), NEW b \in Seq(A)
  PROVE  EditDistance(a, b) \in Nat /\ EditDistance(a, b) >= Len(b) - Len(a)
<1> DEFINE rows == Rows(a, b)
<1>1. IsTable(rows, a, b) /\ Len(a) \in Nat /\ Len(b) \in Nat
  BY RowsAreATable
<1>2. EditDistance(a, b) = rows[Len(b)][Len(a)]
  BY EditDistanceIsLastCell
<1> HIDE DEF rows
<1>3. Len(b) \in 0 .. Len(b) /\ Len(a) \in 0 .. Len(a)
  BY <1>1
<1>4. rows[Len(b)][Len(a)] \in Nat
  BY <1>1, <1>3 DEF IsTable
<1>5. rows[Len(b)][Len(a)] >= Len(b) - Len(a)
  BY <1>1, <1>3, LengthsDiffer
<1>6. QED
  BY <1>2, <1>4, <1>5

-----------------------------------------------------------------------------
(* Arithmetic. *)

(* Whole division rounds down.                                             *)
LEMMA DivBounds ==
  ASSUME NEW x \in Int, NEW y \in Nat \ {0}
  PROVE  /\ x \div y \in Int
         /\ y * (x \div y) <= x
         /\ x < y * (x \div y) + y
OBVIOUS

(* Multiplying by a number keeps an order.                                 *)
LEMMA MulMonotone ==
  ASSUME NEW x \in Int, NEW y \in Int, NEW z \in Nat, x <= y
  PROVE  x * z <= y * z
OBVIOUS

(* What is less after multiplying was less before.                         *)
LEMMA MulCancel ==
  ASSUME NEW x \in Int, NEW y \in Int, NEW z \in Nat, x * z < y * z
  PROVE  x < y
OBVIOUS

(* A multiple of n times e is a multiple of e times n.                        *)
LEMMA TimesRegroup ==
  ASSUME NEW k \in Nat, NEW n \in Nat, NEW e \in Nat
  PROVE  /\ e * (k * n) = (k * e) * n /\ (k * n) * e = (k * e) * n
         /\ k * e \in Int
OBVIOUS

(* Dividing a multiple is exact.                                           *)
LEMMA ExactDiv ==
  ASSUME NEW k \in Int, NEW y \in Nat \ {0}
  PROVE  (k * y) \div y = k
<1> DEFINE q == (k * y) \div y
<1>1. k * y \in Int
  OBVIOUS
<1>2. q \in Int /\ y * q <= k * y /\ k * y < y * q + y
  BY <1>1, DivBounds
<1> HIDE DEF q
<1>3. q * y < (k + 1) * y /\ k * y < (q + 1) * y
  BY <1>2
<1>4. q < k + 1
  <2>1. k + 1 \in Int /\ y \in Nat
    OBVIOUS
  <2>2. QED
    BY <1>2, <1>3, <2>1, MulCancel
<1>5. k < q + 1
  <2>1. q + 1 \in Int /\ y \in Nat
    BY <1>2
  <2>2. QED
    BY <1>2, <1>3, <2>1, MulCancel
<1>6. QED
  BY <1>2, <1>4, <1>5 DEF q

(* Dividing does not change an order. *)
LEMMA DivMonotone ==
  ASSUME NEW x \in Int, NEW y \in Int, x <= y, NEW z \in Nat \ {0}
  PROVE  x \div z <= y \div z
<1> DEFINE p == x \div z
           q == y \div z
<1>1. p \in Int /\ q \in Int /\ z * p <= x /\ y < z * q + z
  BY DivBounds
<1> HIDE DEF p, q
<1>2. p * z < (q + 1) * z
  BY <1>1
<1>3. p < q + 1
  <2>1. q + 1 \in Int /\ z \in Nat
    BY <1>1
  <2>2. QED
    BY <1>1, <1>2, <2>1, MulCancel
<1>4. QED
  BY <1>1, <1>3 DEF p, q

(* The quotient of two numbers is a number.                                *)
LEMMA DivNat ==
  ASSUME NEW x \in Nat, NEW y \in Nat \ {0}
  PROVE  x \div y \in Nat
<1> DEFINE q == x \div y
<1>1. q \in Int /\ x < y * q + y
  BY DivBounds
<1> HIDE DEF q
<1>2. 0 * y < (q + 1) * y
  BY <1>1
<1>3. 0 < q + 1
  <2>1. q + 1 \in Int /\ y \in Nat /\ 0 \in Int
    BY <1>1
  <2>2. QED
    BY <1>2, <2>1, MulCancel
<1>4. QED
  BY <1>1, <1>3 DEF q

-----------------------------------------------------------------------------
(* More edits are allowed the lower the similarity that is asked for. *)
LEMMA StopValueFalls ==
  ASSUME NEW length \in Nat, NEW s \in Int, NEW t \in Int, s <= t
  PROVE  /\ StopValue(length, s) \in Int
         /\ StopValue(length, t) <= StopValue(length, s)
<1> DEFINE x == (Whole - s) * length
           y == (Whole - t) * length
<1>1. Whole \in Nat \ {0}
  BY WholeAssumption
<1>2. Whole - s \in Int /\ Whole - t \in Int /\ Whole - t <= Whole - s
  BY <1>1
<1>3. x \in Int /\ y \in Int /\ y <= x
  BY <1>2, MulMonotone
<1> HIDE DEF x, y
<1>4. (-x) \in Int /\ (-y) \in Int /\ -x <= -y
  BY <1>3
<1>5. (-x) \div Whole \in Int /\ (-y) \div Whole \in Int /\ (-x) \div Whole <= (-y) \div Whole
  BY <1>1, <1>4, DivBounds, DivMonotone
<1>6. StopValue(length, s) = -((-x) \div Whole) /\ StopValue(length, t) = -((-y) \div Whole)
  BY DEF StopValue, Ceiling, x, y
<1>7. QED
  BY <1>5, <1>6

(* No more edits than the similarity allows are not too many. *)
LEMMA StopValueAllows ==
  ASSUME NEW length \in Nat, NEW k \in Nat, Whole = k * length, NEW stop \in Int,
         NEW edits \in Nat, Whole - k * edits >= stop
  PROVE  edits <= StopValue(length, stop)
<1> DEFINE x == (Whole - stop) * length
<1>1. Whole \in Nat \ {0}
  BY WholeAssumption
<1>2. k * edits \in Int /\ Whole - stop \in Int /\ k * edits <= Whole - stop
  BY <1>1
<1>3. (k * edits) * length <= x
  BY <1>2, MulMonotone
<1>4. (k * edits) * length = edits * Whole
  <2>1. (k * edits) * length = edits * (k * length)
    OBVIOUS
  <2>2. QED
    BY <2>1
<1>5. x \in Int
  BY <1>2
<1> HIDE DEF x
<1>6. (-x) \in Int /\ (-edits) \in Int /\ -x <= (-edits) * Whole /\ (-edits) * Whole \in Int
  BY <1>1, <1>3, <1>4, <1>5
<1>7. (-x) \div Whole <= ((-edits) * Whole) \div Whole
  BY <1>1, <1>6, DivMonotone
<1>8. ((-edits) * Whole) \div Whole = -edits
  BY <1>1, <1>6, ExactDiv
<1>9. (-x) \div Whole \in Int
  BY <1>1, <1>6, DivBounds
<1>10. StopValue(length, stop) = -((-x) \div Whole)
  BY DEF StopValue, Ceiling, x
<1>11. QED
  BY <1>7, <1>8, <1>9, <1>10

(* A text that is short enough is not cut.                                 *)
LEMMA CutText ==
  ASSUME NEW A, NEW a \in Seq(A), NEW max_len \in Nat
  PROVE  /\ Cut(a, max_len) \in Seq(A)
         /\ Len(a) <= max_len => Cut(a, max_len) = a
         /\ Len(Cut(a, max_len)) \in Nat
         /\ Len(Cut(a, max_len)) <= Len(a)
         /\ a # << >> /\ max_len > 0 => Len(Cut(a, max_len)) > 0
<1>1. Len(a) \in Nat
  OBVIOUS
<1> DEFINE n == Min({Len(a), max_len})
<1>2. n \in Nat /\ n <= Len(a) /\ n <= max_len /\ (n = Len(a) \/ n = max_len)
  <2>1. {Len(a), max_len} \in SUBSET Nat /\ {Len(a), max_len} # {}
    BY <1>1
  <2>2. QED
    BY <1>1, <2>1, MinIsLeast
<1>3. Cut(a, max_len) = SubSeq(a, 1, n)
  BY DEF Cut
<1> HIDE DEF n
<1>4. SubSeq(a, 1, n) \in Seq(A) /\ Len(SubSeq(a, 1, n)) = n
  BY <1>1, <1>2
<1>5. n = Len(a) => SubSeq(a, 1, n) = a
  BY <1>1, <1>2
<1>6. Len(a) <= max_len => n = Len(a)
  BY <1>1, <1>2
<1>7. a # << >> => Len(a) > 0
  BY <1>1
<1>8. QED
  BY <1>1, <1>2, <1>3, <1>4, <1>5, <1>6, <1>7

(* One of the texts is the shorter one, the other the longer.              *)
LEMMA ShorterAndLonger ==
  ASSUME NEW A, NEW string \in Seq(A), NEW other \in Seq(A), other # << >>
  PROVE  LET a == Shorter(string, other)
             b == Longer(string, other)
         IN /\ a \in Seq(A) /\ b \in Seq(A) /\ Len(a) \in Nat /\ Len(b) \in Nat \ {0}
            /\ Len(a) <= Len(b)
            /\ (a = string /\ b = other) \/ (a = other /\ b = string)
            /\ a = << >> <=> string = << >>
<1>1. Len(string) \in Nat /\ Len(other) \in Nat /\ (Len(string) = 0 <=> string = << >>)
      /\ (Len(other) = 0 <=> other = << >>)
  OBVIOUS
<1>2. CASE Len(string) > Len(other)
  <2>1. Shorter(string, other) = other /\ Longer(string, other) = string
    BY <1>2 DEF Shorter, Longer
  <2>2. QED
    BY <1>1, <1>2, <2>1
<1>3. CASE ~(Len(string) > Len(other))
  <2>1. Shorter(string, other) = string /\ Longer(string, other) = other
    BY <1>3 DEF Shorter, Longer
  <2>2. QED
    BY <1>1, <1>3, <2>1
<1>4. QED
  BY <1>2, <1>3

(* What similarity counts when it does not give up. *)
Counted(string, other, max_len) ==
  LET a == Shorter(string, other)
      b == Longer(string, other)
      edits == EditDistance(Cut(a, max_len), Cut(b, max_len))
  IN Whole - (edits * Whole) \div Len(Cut(b, max_len))
           - (IF edits = 0 THEN Penalty(a, b, max_len) ELSE 0)

Edits(string, other, max_len) ==
  EditDistance(Cut(Shorter(string, other), max_len), Cut(Longer(string, other), max_len))

TooMany(string, other, stop, max_len) ==
  Edits(string, other, max_len) > StopValue(Len(Cut(Longer(string, other), max_len)), stop)

TheirLengthsAllow(string, other) == Attainable(Shorter(string, other), Longer(string, other))

(* The similarity in terms of the edit distance. *)
LEMMA SimilarityCounts ==
  ASSUME NEW A, NEW string \in Seq(A), NEW other \in Seq(A), string # << >>, other # << >>,
         NEW max_len \in Nat, max_len > 0, NEW stop \in 0 .. Whole
  PROVE  /\ TheirLengthsAllow(string, other) \in Int /\ TheirLengthsAllow(string, other) <= Whole
         /\ Counted(string, other, max_len) \in Int /\ Counted(string, other, max_len) <= Whole
         /\ Similarity(string, other, stop, max_len) =
              IF TheirLengthsAllow(string, other) < stop THEN TheirLengthsAllow(string, other)
              ELSE IF TooMany(string, other, stop, max_len) THEN stop - Whole \div 100
              ELSE Counted(string, other, max_len)
<1> DEFINE a == Shorter(string, other)
           b == Longer(string, other)
           x == Cut(a, max_len)
           y == Cut(b, max_len)
           length == Len(y)
           stopvalue == StopValue(length, stop)
           edits == EditDistance(x, y)
           dist == Distance(x, y, stopvalue)
           allowed == Attainable(a, b)
           pen == Penalty(a, b, max_len)
<1>1. /\ a \in Seq(A) /\ b \in Seq(A) /\ Len(a) \in Nat /\ Len(b) \in Nat \ {0}
      /\ Len(a) <= Len(b) /\ a # << >> /\ b # << >>
  <2>1. /\ a \in Seq(A) /\ b \in Seq(A) /\ Len(a) \in Nat /\ Len(b) \in Nat \ {0}
        /\ Len(a) <= Len(b) /\ (a = << >> <=> string = << >>)
    BY ShorterAndLonger
  <2>2. b # << >>
    BY <2>1
  <2>3. QED
    BY <2>1, <2>2
<1>2. Similarity(string, other, stop, max_len) =
        IF a = << >> THEN 0
        ELSE IF allowed < stop THEN allowed
        ELSE IF dist > stopvalue THEN stop - Whole \div 100
        ELSE Whole - (dist * Whole) \div length - (IF dist = 0 THEN pen ELSE 0)
  BY DEF Similarity
<1>3. /\ Counted(string, other, max_len) =
           Whole - (edits * Whole) \div length - (IF edits = 0 THEN pen ELSE 0)
      /\ TooMany(string, other, stop, max_len) <=> edits > stopvalue
      /\ TheirLengthsAllow(string, other) = allowed
  BY DEF Counted, TooMany, Edits, TheirLengthsAllow
<1>4. allowed = Whole - (Whole * (Len(b) - Len(a))) \div Len(b)
  BY DEF Attainable
<1>5. pen \in Nat
  <2>1. (7 * Whole) \div 100 \in Nat
    <3>1. 7 * Whole \in Nat /\ 100 \in Nat \ {0}
      BY WholeAssumption
    <3>2. QED
      BY <3>1, DivNat
  <2> DEFINE p == (7 * Whole) \div 100
             cuts == IF Len(a) > max_len THEN 2 ELSE IF Len(b) > max_len THEN 1 ELSE 0
  <2>2. pen = p * cuts
    BY DEF Penalty
  <2> HIDE DEF p
  <2>3. cuts \in {0, 1, 2}
    OBVIOUS
  <2> HIDE DEF cuts
  <2>4. QED
    BY <2>1, <2>2, <2>3 DEF p
<1> HIDE DEF a, b
<1>6. x \in Seq(A) /\ y \in Seq(A) /\ length \in Nat \ {0} /\ x # << >>
  <2>1. x \in Seq(A) /\ y \in Seq(A) /\ Len(x) \in Nat /\ Len(y) \in Nat
        /\ Len(x) > 0 /\ Len(y) > 0
    BY <1>1, CutText
  <2>2. QED
    BY <2>1
<1> HIDE DEF x, y, length, pen, allowed
<1>7. stopvalue \in Int
  <2>1. stop \in Int /\ stop <= stop /\ length \in Nat
    BY <1>6, WholeAssumption
  <2>2. QED
    BY <2>1, StopValueFalls
<1> HIDE DEF stopvalue
<1>8. /\ dist \in Nat /\ edits \in Nat
      /\ IF edits <= stopvalue THEN dist = edits ELSE dist > stopvalue
  BY <1>6, <1>7, DistanceStopsRightly
<1> HIDE DEF dist, edits
<1>9. allowed \in Int /\ allowed <= Whole
  <2>1. Whole * (Len(b) - Len(a)) \in Nat
    <3>1. Len(b) - Len(a) \in Nat /\ Whole \in Nat
      BY <1>1, WholeAssumption
    <3>2. QED
      BY <3>1
  <2>2. (Whole * (Len(b) - Len(a))) \div Len(b) \in Nat
    BY <1>1, <2>1, DivNat
  <2>3. Whole \in Nat
    BY WholeAssumption
  <2>4. QED
    BY <1>4, <2>2, <2>3
<1>10. (edits * Whole) \div length \in Nat
  <2>1. edits * Whole \in Nat
    BY <1>8, WholeAssumption
  <2>2. QED
    BY <1>6, <2>1, DivNat
<1> DEFINE counted == Whole - (edits * Whole) \div length - (IF edits = 0 THEN pen ELSE 0)
<1>11. counted \in Int /\ counted <= Whole
  BY <1>5, <1>10, WholeAssumption
<1>12. edits > stopvalue <=> ~(edits <= stopvalue)
  BY <1>7, <1>8
<1>13. dist > stopvalue <=> edits > stopvalue
  BY <1>7, <1>8, <1>12
<1>14. ~(edits > stopvalue) => dist = edits
  BY <1>8, <1>12
<1>15. Similarity(string, other, stop, max_len) =
         IF allowed < stop THEN allowed
         ELSE IF edits > stopvalue THEN stop - Whole \div 100 ELSE counted
  BY <1>1, <1>2, <1>13, <1>14
<1> HIDE DEF counted
<1>16. QED
  BY <1>3, <1>9, <1>11, <1>15 DEF counted

(* The empty text is similar to none.                                      *)
LEMMA NothingIsSimilarToNothing ==
  ASSUME NEW A, NEW other \in Seq(A), NEW stop, NEW max_len
  PROVE  Similarity(<< >>, other, stop, max_len) = 0
<1>1. Len(other) \in Nat /\ Len(<< >>) = 0
  OBVIOUS
<1>2. Shorter(<< >>, other) = << >>
  BY <1>1 DEF Shorter
<1>3. QED
  BY <1>2 DEF Similarity

(* Similarities are at most one hundred percent, and one that reaches the  *)
(* similarity that was asked for is the answer to any lower demand too.    *)
LEMMA SimilarityIsBounded ==
  ASSUME NEW A, NEW string \in Seq(A), NEW other \in Seq(A), other # << >>,
         NEW max_len \in Nat, max_len > 0, NEW stop \in 0 .. Whole
  PROVE  /\ Similarity(string, other, stop, max_len) \in Int
         /\ Similarity(string, other, stop, max_len) <= Whole
<1>0. Whole \in Nat /\ Whole \div 100 \in Nat
  BY WholeAssumption, DivNat
<1>1. CASE string = << >>
  BY <1>0, <1>1, NothingIsSimilarToNothing
<1>2. CASE string # << >>
  <2> DEFINE allowed == TheirLengthsAllow(string, other)
             counted == Counted(string, other, max_len)
             many == TooMany(string, other, stop, max_len)
  <2>1. allowed \in Int /\ allowed <= Whole /\ counted \in Int /\ counted <= Whole
    BY <1>2, SimilarityCounts
  <2>2. Similarity(string, other, stop, max_len) =
          IF allowed < stop THEN allowed ELSE IF many THEN stop - Whole \div 100 ELSE counted
    BY <1>2, SimilarityCounts
  <2> HIDE DEF allowed, counted, many
  <2>3. stop \in Int /\ stop <= Whole
    BY <1>0
  <2>4. QED
    BY <1>0, <2>1, <2>2, <2>3
<1>3. QED
  BY <1>1, <1>2

(* A similarity that is attained does not depend on what was asked for, if *)
(* that was no more.                                                       *)
LEMMA LowerDemandsAgree ==
  ASSUME NEW A, NEW string \in Seq(A), NEW other \in Seq(A), other # << >>,
         NEW max_len \in Nat, max_len > 0, NEW s \in 0 .. Whole, NEW t \in 0 .. Whole, s <= t,
         Similarity(string, other, t, max_len) >= t
  PROVE  Similarity(string, other, s, max_len) = Similarity(string, other, t, max_len)
<1>1. CASE string = << >>
  BY <1>1, NothingIsSimilarToNothing
<1>2. CASE string # << >>
  <2> DEFINE length == Len(Cut(Longer(string, other), max_len))
             edits == Edits(string, other, max_len)
  <2>1. Whole \in Nat /\ Whole \div 100 \in Nat /\ Whole \div 100 > 0
    <3>1. Whole \in Nat /\ Whole >= 100
      BY WholeAssumption
    <3>2. Whole \div 100 \in Nat /\ Whole < 100 * (Whole \div 100) + 100
      BY <3>1, DivNat, DivBounds
    <3>3. QED
      BY <3>1, <3>2
  <2>2. length \in Nat
    <3>1. Longer(string, other) \in Seq(A)
      BY ShorterAndLonger
    <3>2. QED
      BY <3>1, CutText
  <2>3. edits \in Int
    <3>1. Shorter(string, other) \in Seq(A) /\ Longer(string, other) \in Seq(A)
      BY ShorterAndLonger
    <3>2. Cut(Shorter(string, other), max_len) \in Seq(A)
          /\ Cut(Longer(string, other), max_len) \in Seq(A)
      BY <3>1, CutText
    <3>3. QED
      BY <3>2, EditDistanceIsLengthDifference DEF Edits
  <2> HIDE DEF length, edits
  <2>4. /\ StopValue(length, s) \in Int /\ StopValue(length, t) \in Int
        /\ StopValue(length, t) <= StopValue(length, s)
    <3>1. s \in Int /\ t \in Int /\ s <= s /\ t <= t
      BY <2>1
    <3>2. QED
      BY <2>2, <3>1, StopValueFalls
  <2>5. TooMany(string, other, s, max_len) => TooMany(string, other, t, max_len)
    BY <2>3, <2>4 DEF TooMany, length, edits
  <2>6. /\ TheirLengthsAllow(string, other) >= t
        /\ ~TooMany(string, other, t, max_len)
        /\ Similarity(string, other, t, max_len) = Counted(string, other, max_len)
    <3>1. Similarity(string, other, t, max_len) =
              IF TheirLengthsAllow(string, other) < t THEN TheirLengthsAllow(string, other)
              ELSE IF TooMany(string, other, t, max_len) THEN t - Whole \div 100
              ELSE Counted(string, other, max_len)
      BY <1>2, SimilarityCounts
    <3>2. TheirLengthsAllow(string, other) \in Int
      BY <1>2, SimilarityCounts
    <3>3. QED
      BY <2>1, <3>1, <3>2
  <2>7. Similarity(string, other, s, max_len) = Counted(string, other, max_len)
    <3>1. Similarity(string, other, s, max_len) =
              IF TheirLengthsAllow(string, other) < s THEN TheirLengthsAllow(string, other)
              ELSE IF TooMany(string, other, s, max_len) THEN s - Whole \div 100
              ELSE Counted(string, other, max_len)
      BY <1>2, SimilarityCounts
    <3>2. TheirLengthsAllow(string, other) \in Int
      BY <1>2, SimilarityCounts
    <3>3. QED
      BY <2>5, <2>6, <3>1, <3>2
  <2>8. QED
    BY <2>6, <2>7
<1>3. QED
  BY <1>1, <1>2

(* What is counted of texts that are not cut and whose lengths divide the  *)
(* whole.                                                                  *)
IsUncut(string, other, max_len, k) ==
  LET m == Len(Shorter(string, other))
      n == Len(Longer(string, other))
      edits == Edits(string, other, max_len)
  IN /\ m \in Nat /\ n \in Nat \ {0} /\ m <= n /\ edits \in Nat /\ edits >= n - m
     /\ Len(Cut(Longer(string, other), max_len)) = n
     /\ Share(string, other) = Whole - k * edits
     /\ Counted(string, other, max_len) = Whole - k * edits
     /\ TheirLengthsAllow(string, other) = Whole - k * (n - m)

LEMMA UncutTexts ==
  ASSUME NEW A, NEW string \in Seq(A), NEW other \in Seq(A), other # << >>, NEW max_len \in Nat,
         Len(string) <= max_len, Len(other) <= max_len,
         NEW k \in 1 .. Whole, Whole = k * Len(Longer(string, other))
  PROVE  IsUncut(string, other, max_len, k)
<1> DEFINE a == Shorter(string, other)
           b == Longer(string, other)
           m == Len(a)
           n == Len(b)
           edits == Edits(string, other, max_len)
<1>1. /\ a \in Seq(A) /\ b \in Seq(A) /\ m \in Nat /\ n \in Nat \ {0} /\ m <= n
      /\ (a = string /\ b = other) \/ (a = other /\ b = string)
  BY ShorterAndLonger
<1>2. m <= max_len /\ n <= max_len
  BY <1>1
<1>3. Cut(a, max_len) = a /\ Cut(b, max_len) = b
  BY <1>1, <1>2, CutText
<1>4. edits = EditDistance(a, b)
  BY <1>3 DEF Edits
<1>5. edits \in Nat /\ edits >= n - m
  BY <1>1, <1>4, EditDistanceIsLengthDifference
<1>6. EditDistance(string, other) = edits
  BY <1>1, <1>4, EditDistanceIsSymmetric
<1>7. Share(string, other) = Whole - (edits * Whole) \div n
  BY <1>6 DEF Share
<1>8. Counted(string, other, max_len) =
        Whole - (edits * Whole) \div n - (IF edits = 0 THEN Penalty(a, b, max_len) ELSE 0)
  BY <1>3, <1>4 DEF Counted
<1>9. TheirLengthsAllow(string, other) = Whole - (Whole * (n - m)) \div n
  BY DEF TheirLengthsAllow, Attainable
<1>10. Penalty(a, b, max_len) = 0
  <2>1. Penalty(a, b, max_len) = ((7 * Whole) \div 100) * 0
    <3>1. ~(m > max_len) /\ ~(n > max_len)
      BY <1>1, <1>2
    <3>2. QED
      BY <3>1 DEF Penalty
  <2>2. 7 * Whole \in Nat /\ 100 \in Nat \ {0}
    BY WholeAssumption
  <2>3. (7 * Whole) \div 100 \in Nat
    BY <2>2, DivNat
  <2>4. QED
    BY <2>1, <2>3
<1>11. Len(Cut(b, max_len)) = n
  BY <1>3
<1>12. Whole = k * n /\ k \in Nat /\ Whole \in Nat
  BY WholeAssumption
<1> HIDE DEF a, b, m, n, edits
<1>13. (edits * Whole) \div n = k * edits
  <2>1. edits \in Nat /\ n \in Nat /\ k \in Nat /\ Whole = k * n
    BY <1>1, <1>5, <1>12
  <2>2. edits * Whole = (k * edits) * n /\ k * edits \in Int
    BY <2>1, TimesRegroup
  <2>3. QED
    BY <1>1, <2>2, ExactDiv
<1>14. (Whole * (n - m)) \div n = k * (n - m)
  <2> DEFINE d == n - m
  <2>0. d \in Nat /\ n \in Nat /\ k \in Nat /\ Whole = k * n
    BY <1>1, <1>12
  <2> HIDE DEF d
  <2>1. Whole * d = (k * d) * n /\ k * d \in Int
    BY <2>0, TimesRegroup
  <2>2. QED
    BY <1>1, <2>1, ExactDiv DEF d
<1>15. k * edits \in Int
  BY <1>5, <1>12
<1>16. Share(string, other) = Whole - k * edits
  BY <1>7, <1>13
<1>17. Counted(string, other, max_len) = Whole - k * edits
  BY <1>8, <1>10, <1>12, <1>13, <1>15
<1>18. TheirLengthsAllow(string, other) = Whole - k * (n - m)
  BY <1>9, <1>14
<1>19. QED
  BY <1>1, <1>5, <1>11, <1>16, <1>17, <1>18 DEF a, b, m, n, edits, IsUncut

(* A product grows with its second factor. *)
LEMMA TimesKeepsOrder ==
  ASSUME NEW k \in Nat, NEW a \in Nat, NEW b \in Nat, a <= b
  PROVE  k * a \in Nat /\ k * b \in Nat /\ k * a <= k * b
<1>1. k * b = k * a + k * (b - a)
  OBVIOUS
<1>2. k * a \in Nat /\ k * b \in Nat
  OBVIOUS
<1>3. k * (b - a) \in Nat
  <2>1. b - a \in Nat
    OBVIOUS
  <2>2. \A d \in Nat : k * d \in Nat
    OBVIOUS
  <2>3. QED
    BY <2>1, <2>2
<1> DEFINE x == k * a
           y == k * b
           z == k * (b - a)
<1> HIDE DEF x, y, z
<1>4. y = x + z /\ x \in Nat /\ y \in Nat /\ z \in Nat
  BY <1>1, <1>2, <1>3 DEF x, y, z
<1>5. x <= y
  BY <1>4
<1>6. QED
  BY <1>4, <1>5 DEF x, y

(* Giving up early changes no similarity that counts. *)
LEMMA SimilarityIsExact ==
  ASSUME NEW A, NEW string \in Seq(A), NEW other \in Seq(A), other # << >>, NEW max_len \in Nat,
         Len(string) <= max_len, Len(other) <= max_len,
         NEW k \in 1 .. Whole, Whole = k * Len(Longer(string, other)), NEW stop \in 1 .. Whole
  PROVE  IsExact(string, other, stop, max_len)
<1> DEFINE m == Len(Shorter(string, other))
           n == Len(Longer(string, other))
           edits == Edits(string, other, max_len)
           share == Share(string, other)
           similarity == Similarity(string, other, stop, max_len)
<1>1. /\ m \in Nat /\ n \in Nat \ {0} /\ m <= n /\ edits \in Nat /\ edits >= n - m
      /\ Len(Cut(Longer(string, other), max_len)) = n
      /\ share = Whole - k * edits
      /\ Counted(string, other, max_len) = Whole - k * edits
      /\ TheirLengthsAllow(string, other) = Whole - k * (n - m)
  <2>1. IsUncut(string, other, max_len, k)
    BY UncutTexts
  <2>2. QED
    BY <2>1 DEF IsUncut
<1>2. /\ Whole = k * n /\ k \in Nat /\ Whole \in Nat /\ stop \in Int /\ 0 < stop /\ stop <= Whole
      /\ max_len > 0
  <2>1. Len(other) \in Nat /\ Len(other) # 0
    OBVIOUS
  <2>2. QED
    BY <2>1, WholeAssumption
<1>3. TooMany(string, other, stop, max_len) <=> edits > StopValue(n, stop)
  BY <1>1 DEF TooMany
<1>4. Whole \div 100 \in Nat /\ Whole \div 100 > 0
  <2>1. Whole \in Nat /\ Whole >= 100
    BY WholeAssumption
  <2>2. Whole \div 100 \in Nat /\ Whole < 100 * (Whole \div 100) + 100
    BY <2>1, DivNat, DivBounds
  <2>3. QED
    BY <2>1, <2>2
<1>5. CASE string = << >>
  <2>1. similarity = 0
    BY <1>5, NothingIsSimilarToNothing
  <2>2. m = 0
    <3>1. (Shorter(string, other) = << >> <=> string = << >>)
      BY ShorterAndLonger
    <3>2. QED
      BY <1>5, <3>1
  <2> HIDE DEF m, n, edits, share, similarity
  <2>3. n \in Nat /\ edits \in Nat /\ k \in Nat /\ n <= edits
    BY <1>1, <1>2, <2>2
  <2>4. share <= 0 /\ share \in Int
    <3> DEFINE whole == k * n
               lost == k * edits
    <3>1. whole \in Nat /\ lost \in Nat /\ whole <= lost
      BY <2>3, TimesKeepsOrder
    <3>2. share = whole - lost
      BY <1>1, <1>2
    <3> HIDE DEF whole, lost
    <3>3. QED
      BY <3>1, <3>2
  <2>5. QED
    BY <1>2, <2>1, <2>4 DEF IsExact, share, similarity
<1>6. CASE string # << >>
  <2>1. similarity =
          IF TheirLengthsAllow(string, other) < stop THEN TheirLengthsAllow(string, other)
          ELSE IF TooMany(string, other, stop, max_len) THEN stop - Whole \div 100
          ELSE Counted(string, other, max_len)
    <3>1. stop \in 0 .. Whole
      BY <1>2
    <3>2. QED
      BY <1>2, <1>6, <3>1, SimilarityCounts
  <2> HIDE DEF m, n, edits, share, similarity
  <2>2. k * edits \in Int /\ k * (n - m) \in Int /\ k * (n - m) <= k * edits
    <3>1. k \in Nat /\ edits \in Nat /\ n - m \in Nat /\ n - m <= edits
      BY <1>1, <1>2
    <3>2. QED
      BY <3>1, TimesKeepsOrder
  <2>3. similarity =
          IF Whole - k * (n - m) < stop THEN Whole - k * (n - m)
          ELSE IF edits > StopValue(n, stop) THEN stop - Whole \div 100
          ELSE share
    BY <1>1, <1>3, <2>1
  <2>4. CASE share >= stop
    <3>1. edits <= StopValue(n, stop)
      BY <1>1, <1>2, <2>4, StopValueAllows
    <3>2. StopValue(n, stop) \in Int
      <4>1. n \in Nat /\ stop <= stop /\ stop \in Int
        BY <1>1, <1>2
      <4>2. QED
        BY <4>1, StopValueFalls
    <3>3. ~(edits > StopValue(n, stop))
      BY <1>1, <3>1, <3>2
    <3>4. ~(Whole - k * (n - m) < stop)
      <4> DEFINE lost == k * edits
                 least == k * (n - m)
      <4>1. /\ share = Whole - lost /\ share >= stop
            /\ lost \in Int /\ least \in Int /\ least <= lost
            /\ Whole \in Int /\ stop \in Int
        BY <1>1, <1>2, <2>2, <2>4
      <4> HIDE DEF lost, least
      <4>2. ~(Whole - least < stop)
        BY <4>1
      <4>3. QED
        BY <4>2 DEF least
    <3>5. QED
      BY <2>3, <2>4, <3>3, <3>4 DEF IsExact, share, similarity
  <2>5. CASE ~(share >= stop)
    <3>1. share < stop /\ stop - Whole \div 100 < stop
      <4>1. share \in Int
        BY <1>1, <1>2, <2>2
      <4>2. share < stop
        BY <1>2, <2>5, <4>1
      <4>3. stop - Whole \div 100 < stop
        BY <1>2, <1>4
      <4>4. QED
        BY <4>2, <4>3
    <3>2. similarity < stop
      BY <2>3, <3>1
    <3>3. QED
      BY <2>5, <3>2 DEF IsExact, share, similarity
  <2>6. QED
    BY <2>4, <2>5
<1>7. QED
  BY <1>5, <1>6

(* No more than all of the shorter text can be left alone. *)
LEMMA ShareIsBounded ==
  ASSUME NEW A, NEW string \in Seq(A), NEW other \in Seq(A), other # << >>, NEW max_len \in Nat,
         Len(string) <= max_len, Len(other) <= max_len,
         NEW k \in 1 .. Whole, Whole = k * Len(Longer(string, other))
  PROVE  /\ Share(string, other) \in Int /\ Share(string, other) <= Whole
         /\ Share(string, other) * Len(other) <= Len(string) * Whole
         /\ Share(string, other) * Len(string) <= Len(other) * Whole
<1> DEFINE m == Len(Shorter(string, other))
           n == Len(Longer(string, other))
           edits == Edits(string, other, max_len)
           share == Share(string, other)
<1>1. /\ m \in Nat /\ n \in Nat \ {0} /\ m <= n /\ edits \in Nat /\ edits >= n - m
      /\ share = Whole - k * edits
  <2>1. IsUncut(string, other, max_len, k)
    BY UncutTexts
  <2>2. QED
    BY <2>1 DEF IsUncut
<1>2. Whole = k * n /\ k \in Nat /\ Whole \in Nat
  BY WholeAssumption
<1>3. (m = Len(string) /\ n = Len(other)) \/ (m = Len(other) /\ n = Len(string))
  BY ShorterAndLonger
<1> HIDE DEF m, n, edits, share
<1>4. k * edits \in Nat /\ k * (n - m) <= k * edits /\ k * (n - m) = k * n - k * m
      /\ k * m \in Nat
  <2>1. k \in Nat /\ edits \in Nat /\ n - m \in Nat /\ n - m <= edits
    BY <1>1, <1>2
  <2>2. k * edits \in Nat /\ k * (n - m) <= k * edits
    BY <2>1, TimesKeepsOrder
  <2>3. k * (n - m) = k * n - k * m /\ k * m \in Nat
    BY <1>1, <1>2
  <2>4. QED
    BY <2>2, <2>3
<1>5. share \in Int /\ share <= Whole /\ share <= k * m
  BY <1>1, <1>2, <1>4
<1>6. share * n <= m * Whole
  <2> DEFINE most == k * m
  <2>1. most \in Int /\ share <= most
    BY <1>4, <1>5
  <2> HIDE DEF most
  <2>2. share * n <= most * n
    BY <1>1, <1>5, <2>1, MulMonotone
  <2>3. most * n = m * Whole
    BY <1>1, <1>2 DEF most
  <2>4. QED
    BY <2>2, <2>3
<1>7. share * m <= n * Whole
  <2>1. share * m <= Whole * m
    BY <1>1, <1>2, <1>5, MulMonotone
  <2>2. m * Whole <= n * Whole
    BY <1>1, <1>2, MulMonotone
  <2>3. share * m \in Int /\ Whole * m = m * Whole /\ m * Whole \in Int /\ n * Whole \in Int
    BY <1>1, <1>2, <1>5
  <2>4. QED
    BY <2>1, <2>2, <2>3
<1>8. QED
  BY <1>3, <1>5, <1>6, <1>7 DEF share

-----------------------------------------------------------------------------
(* The inductive invariant.                                                *)

TypeInv ==
  /\ matcher \in Matchers
  /\ candidates \in Seq(Unit)
  /\ text \in Text
  /\ pc \in {"filling", "idle", "searching", "comparing", "answered", "raised"}

(* What is remembered is long enough, and a memory keeps it in order.      *)
LongEnough ==
  \A c \in DOMAIN candidates : Len(candidates[c].source) >= IF IsTerms THEN 3 ELSE 2

Ordered ==
  \A c, d \in DOMAIN candidates : c < d =>
    IF IsTerms THEN Len(candidates[c].source) >= Len(candidates[d].source)
    ELSE Len(candidates[c].source) <= Len(candidates[d].source)

(* All that the binary search has passed is before the first to look at.   *)
Searching ==
  pc = "searching" =>
    /\ startindex \in Nat /\ endindex \in Nat
    /\ startindex <= endindex /\ endindex <= Len(candidates)
    /\ best = [p \in 1 .. matcher.candidates |-> NoUnit] /\ found = << >>
    /\ Ordered => \A c \in 1 .. startindex : Before(candidates[c])

(* The heap. *)
IsHeap(heap) ==
  \A p, q \in DOMAIN heap : q \in {2 * p, 2 * p + 1} => heap[p].score <= heap[q].score

Item == [score : 0 .. Whole, unit : Nat]

IsKept(item) ==
  item # NoUnit => item.unit \in Eligible /\ item.score = Score(item.unit) /\ item.unit < next

HeapOfTheBest ==
  /\ matcher.similarity > 0 /\ next \in Nat \ {0}
  /\ best \in [1 .. matcher.candidates -> Item]
  /\ \A p \in DOMAIN best : IsKept(best[p])
  /\ \A p, q \in DOMAIN best : best[p].unit = best[q].unit /\ best[p].unit # 0 => p = q
  /\ IsHeap(best)

(* No better one has been passed over. *)
NoneIsBetter ==
  Len(text) <= matcher.length =>
    \A c \in Eligible :
      c < next => Score(c) <= LowestScore \/ \E p \in DOMAIN best : best[p].unit = c

(* The terms that have been found stand for all that have been looked at.  *)
TermsOfTheText ==
  /\ next \in Nat \ {0}
  /\ found \in Seq(DOMAIN candidates)
  /\ \A i \in DOMAIN found : Start(found[i]) # 0
  /\ Ordered => \A c \in DOMAIN candidates :
       c < next /\ Start(c) # 0 =>
         \E i \in DOMAIN found : Start(found[i]) = Start(c) /\ End(found[i]) = End(c)

Comparing ==
  pc = "comparing" =>
    IF IsTerms THEN TermsOfTheText ELSE HeapOfTheBest /\ NoneIsBetter

OrderedTermsAreFound ==
  pc = "answered" /\ IsTerms /\ Ordered =>
    \A c \in DOMAIN candidates :
      Start(c) # 0 => \E k \in DOMAIN result : Overlap(c, result[k])

IInv ==
  /\ TypeInv /\ LongEnough /\ (~IsTerms => Ordered)
  /\ Searching /\ Comparing
  /\ BestAreFound /\ TermsAreApart /\ OrderedTermsAreFound

-----------------------------------------------------------------------------
(* The heap.                                                               *)

(* A function on the first numbers is a list.                              *)
LEMMA LenOfList ==
  ASSUME NEW n \in Nat, NEW S, NEW f \in [1 .. n -> S]
  PROVE  f \in Seq(S) /\ Len(f) = n /\ DOMAIN f = 1 .. n
OBVIOUS

(* Neither child is less than the one that moves up.                       *)
LEMMA SmallerChildIsLess ==
  ASSUME NEW n \in Nat, NEW heap \in [1 .. n -> Item], NEW p \in 1 .. n, 2 * p <= n
  PROVE  LET c == SmallerChild(heap, p)
         IN /\ c \in 1 .. n /\ c \in {2 * p, 2 * p + 1} /\ p < c
            /\ \A q \in 1 .. n : q \in {2 * p, 2 * p + 1} => heap[c].score <= heap[q].score
<1>1. Len(heap) = n
  BY LenOfList
<1>2. \A q \in 1 .. n : heap[q].score \in Int
  BY DEF Item
<1>3. 2 * p \in 1 .. n
  OBVIOUS
<1>4. CASE 2 * p + 1 <= n /\ ~(heap[2 * p].score < heap[2 * p + 1].score)
  <2>1. SmallerChild(heap, p) = 2 * p + 1
    BY <1>1, <1>4 DEF SmallerChild
  <2>2. 2 * p + 1 \in 1 .. n /\ p < 2 * p + 1
    BY <1>4
  <2>3. heap[2 * p + 1].score <= heap[2 * p].score
    BY <1>2, <1>3, <1>4, <2>2
  <2>4. heap[2 * p + 1].score <= heap[2 * p + 1].score
    BY <1>2, <2>2
  <2>5. QED
    BY <2>1, <2>2, <2>3, <2>4
<1>5. CASE ~(2 * p + 1 <= n /\ ~(heap[2 * p].score < heap[2 * p + 1].score))
  <2>1. SmallerChild(heap, p) = 2 * p
    BY <1>1, <1>5 DEF SmallerChild
  <2>2. QED
    BY <1>2, <1>3, <1>5, <2>1
<1>6. QED
  BY <1>4, <1>5

(* The path begins at the root and goes on to the smaller child. *)
LEMMA PathGoesDown ==
  ASSUME NEW n \in Nat \ {0}, NEW heap \in [1 .. n -> Item]
  PROVE  /\ Path(heap) \subseteq 1 .. n /\ 1 \in Path(heap)
         /\ \A p \in Path(heap) : 2 * p <= n => SmallerChild(heap, p) \in Path(heap)
<1> DEFINE downward(places) == 1 \in places /\ \A p \in places :
                                 2 * p <= Len(heap) => SmallerChild(heap, p) \in places
<1>1. Len(heap) = n /\ DOMAIN heap = 1 .. n
  BY LenOfList
<1>2. Path(heap) = {p \in 1 .. n : \A places \in SUBSET (1 .. n) : downward(places) => p \in places}
  BY <1>1 DEF Path
<1>3. ASSUME NEW p \in Path(heap), 2 * p <= n PROVE SmallerChild(heap, p) \in Path(heap)
  <2>1. p \in 1 .. n
    BY <1>2
  <2>2. SmallerChild(heap, p) \in 1 .. n
    BY <1>3, <2>1, SmallerChildIsLess
  <2>3. ASSUME NEW places \in SUBSET (1 .. n), downward(places)
        PROVE SmallerChild(heap, p) \in places
    BY <1>1, <1>2, <1>3, <2>3
  <2>4. QED
    BY <1>2, <2>2, <2>3
<1>4. 1 \in 1 .. n
  OBVIOUS
<1>5. 1 \in Path(heap)
  BY <1>2, <1>4
<1>6. QED
  BY <1>2, <1>3, <1>5

(* Every place of it but the root is the smaller child of another. *)
LEMMA PathComesFromAbove ==
  ASSUME NEW n \in Nat \ {0}, NEW heap \in [1 .. n -> Item], NEW q \in Path(heap), q # 1
  PROVE  \E p \in Path(heap) : 2 * p <= n /\ q = SmallerChild(heap, p)
<1> DEFINE downward(places) == 1 \in places /\ \A p \in places :
                                 2 * p <= Len(heap) => SmallerChild(heap, p) \in places
           others == Path(heap) \ {q}
<1>1. Len(heap) = n /\ DOMAIN heap = 1 .. n
  BY LenOfList
<1>2. Path(heap) = {p \in 1 .. n : \A places \in SUBSET (1 .. n) : downward(places) => p \in places}
  BY <1>1 DEF Path
<1>3. SUFFICES ASSUME \A p \in Path(heap) : 2 * p <= n => q # SmallerChild(heap, p)
               PROVE  FALSE
  OBVIOUS
<1>4. /\ Path(heap) \subseteq 1 .. n /\ 1 \in Path(heap)
      /\ \A p \in Path(heap) : 2 * p <= n => SmallerChild(heap, p) \in Path(heap)
  BY PathGoesDown
<1>5. downward(others)
  BY <1>1, <1>3, <1>4
<1>6. others \in SUBSET (1 .. n)
  BY <1>4
<1> HIDE DEF downward
<1>7. q \in others
  BY <1>2, <1>5, <1>6
<1>8. QED
  BY <1>7

(* Of two places of the path, the deeper one is below the smaller child of *)
(* the other.                                                              *)
LEMMA PathIsAChain ==
  ASSUME NEW n \in Nat \ {0}, NEW heap \in [1 .. n -> Item]
  PROVE  \A p, q \in Path(heap) : p < q => 2 * p <= n /\ SmallerChild(heap, p) <= q
<1> DEFINE Apart(p, q) == p < q /\ ~(2 * p <= n /\ SmallerChild(heap, p) <= q)
           Bad == {q \in Path(heap) : \E p \in Path(heap) : Apart(p, q)}
<1>1. Path(heap) \subseteq 1 .. n
  BY PathGoesDown
<1>2. ASSUME Bad # {} PROVE FALSE
  <2>1. Bad \in SUBSET Nat
    BY <1>1
  <2>2. PICK q \in Bad : \A r \in Bad : q <= r
    <3> HIDE DEF Bad
    <3>1. QED
      BY <1>2, <2>1, LeastMember
  <2>3. PICK p \in Path(heap) : Apart(p, q)
    BY <2>2
  <2>4. q \in Path(heap) /\ q \in 1 .. n /\ p \in 1 .. n
    BY <1>1, <2>2
  <2>5. q # 1
    BY <2>3, <2>4
  <2>6. PICK r \in Path(heap) : 2 * r <= n /\ q = SmallerChild(heap, r)
    BY <2>4, <2>5, PathComesFromAbove
  <2>7. r \in 1 .. n /\ r < q
    BY <1>1, <2>6, SmallerChildIsLess
  <2>8. r \notin Bad
    BY <2>2, <2>4, <2>7
  <2>9. CASE p = r
    BY <2>3, <2>4, <2>6, <2>9
  <2>10. CASE r < p
    <3>1. Apart(r, p)
      BY <2>3, <2>4, <2>6, <2>7, <2>10
    <3>2. p \in Bad
      BY <3>1
    <3>3. QED
      BY <2>2, <2>3, <2>4, <3>2
  <2>11. CASE p < r
    <3>1. ~Apart(p, r)
      BY <2>8, <2>6
    <3>2. 2 * p <= n /\ SmallerChild(heap, p) <= r
      BY <2>11, <3>1
    <3>3. SmallerChild(heap, p) \in 1 .. n
      BY <2>4, <3>2, SmallerChildIsLess
    <3>4. QED
      BY <2>3, <2>4, <2>7, <3>2, <3>3
  <2>12. QED
    BY <2>4, <2>7, <2>9, <2>10, <2>11
<1>3. ASSUME NEW p \in Path(heap), NEW q \in Path(heap), p < q
      PROVE  2 * p <= n /\ SmallerChild(heap, p) <= q
  BY <1>2, <1>3
<1>4. QED
  BY <1>3

(* The new item comes to rest on the path, above all that are greater.     *)
LEMMA RestOnThePath ==
  ASSUME NEW n \in Nat \ {0}, NEW heap \in [1 .. n -> Item], NEW item \in Item
  PROVE  LET r == Rest(heap, item)
         IN /\ r \in Path(heap)
            /\ r # 1 => heap[r].score <= item.score
            /\ \A p \in Path(heap) : p > r => item.score < heap[p].score
<1> DEFINE S == {1} \cup {p \in Path(heap) : ~(item.score < heap[p].score)}
           r == Rest(heap, item)
<1>1. Path(heap) \subseteq 1 .. n /\ 1 \in Path(heap)
  BY PathGoesDown
<1>2. S \in SUBSET (0 .. n) /\ S # {}
  BY <1>1
<1>3. r = Max(S)
  BY DEF Rest
<1>4. item.score \in Int /\ \A p \in 1 .. n : heap[p].score \in Int
  BY DEF Item
<1>5. Max(S) \in S /\ \A y \in S : Max(S) >= y
  <2> HIDE DEF S
  <2>1. \E x \in S : \A y \in S : x >= y
    BY <1>2, GreatestMember
  <2>2. QED
    BY <2>1 DEF Max
<1>6. r \in S /\ \A y \in S : r >= y
  BY <1>3, <1>5
<1> HIDE DEF r
<1>7. ASSUME NEW p \in Path(heap), p > r PROVE item.score < heap[p].score
  <2>1. p \notin S
    BY <1>1, <1>2, <1>6, <1>7
  <2>2. QED
    BY <1>1, <1>4, <2>1
<1>8. r \in Path(heap) /\ (r # 1 => heap[r].score <= item.score)
  BY <1>1, <1>4, <1>6
<1>9. QED
  BY <1>7, <1>8 DEF r

(* Where the entries come from: from the smaller child on the path above   *)
(* the new item, which is written as 0.                                    *)
From(heap, item, p) ==
  IF p = Rest(heap, item) THEN 0
  ELSE IF p \in Path(heap) /\ p < Rest(heap, item) THEN SmallerChild(heap, p) ELSE p

(* Every entry but the root and the new item have one place each.          *)
Replaces(new, heap, item, n) ==
  /\ new \in [1 .. n -> Item]
  /\ \A p \in 1 .. n :
       /\ From(heap, item, p) \in (0 .. n) \ {1}
       /\ new[p] = IF From(heap, item, p) = 0 THEN item ELSE heap[From(heap, item, p)]
  /\ \A p, q \in 1 .. n : From(heap, item, p) = From(heap, item, q) => p = q
  /\ \A f \in (0 .. n) \ {1} : \E p \in 1 .. n : From(heap, item, p) = f

(* The new item replaces the root and nothing else. *)
LEMMA ReplacesTheRoot ==
  ASSUME NEW n \in Nat \ {0}, NEW heap \in [1 .. n -> Item], NEW item \in Item
  PROVE  Replaces(HeapReplace(heap, item), heap, item, n)
<1> DEFINE r == Rest(heap, item)
           P == Path(heap)
           child(p) == SmallerChild(heap, p)
           from(p) == From(heap, item, p)
           new == HeapReplace(heap, item)
<1>1. r \in P
  BY RestOnThePath
<1>2. P \subseteq 1 .. n /\ 1 \in P /\ \A p \in P : 2 * p <= n => child(p) \in P
  BY PathGoesDown
<1>3. \A p, q \in P : p < q => 2 * p <= n /\ child(p) <= q
  BY PathIsAChain
<1>4. \A p \in 1 .. n : 2 * p <= n => child(p) \in 1 .. n
        /\ child(p) \in {2 * p, 2 * p + 1} /\ p < child(p)
  BY SmallerChildIsLess
<1>5. \A q \in P : q # 1 => \E p \in P : 2 * p <= n /\ q = child(p)
  BY PathComesFromAbove
<1>6. \A p \in 1 .. n : from(p) = IF p = r THEN 0 ELSE IF p \in P /\ p < r THEN child(p) ELSE p
  BY DEF From
<1>7. DOMAIN heap = 1 .. n
  OBVIOUS
<1>8. new = [p \in 1 .. n |-> IF p = r THEN item ELSE IF p \in P /\ p < r THEN heap[child(p)]
                             ELSE heap[p]]
  BY <1>7 DEF HeapReplace
<1> HIDE DEF r, P, child, from
<1>9. ASSUME NEW p \in P, p < r
      PROVE  child(p) \in P /\ child(p) \in 2 .. n /\ child(p) <= r
  <2>1. p \in 1 .. n /\ 2 * p <= n /\ child(p) <= r
    BY <1>1, <1>2, <1>3, <1>9
  <2>2. QED
    BY <1>2, <1>4, <2>1
<1>10. ASSUME NEW p \in 1 .. n PROVE from(p) \in (0 .. n) \ {1}
  <2>1. CASE p \in P /\ p < r
    BY <1>6, <1>9, <2>1
  <2>2. CASE ~(p \in P /\ p < r)
    BY <1>1, <1>2, <1>6, <2>2
  <2>3. QED
    BY <2>1, <2>2
<1>11. ASSUME NEW p \in 1 .. n PROVE new[p] = IF from(p) = 0 THEN item ELSE heap[from(p)]
  <2>1. CASE p = r
    BY <1>6, <1>8, <2>1
  <2>2. CASE p # r /\ p \in P /\ p < r
    <3>1. from(p) = child(p) /\ new[p] = heap[child(p)]
      BY <1>6, <1>8, <2>2
    <3>2. from(p) # 0
      BY <1>9, <2>2, <3>1
    <3>3. QED
      BY <3>1, <3>2
  <2>3. CASE p # r /\ ~(p \in P /\ p < r)
    BY <1>6, <1>8, <2>3
  <2>4. QED
    BY <2>1, <2>2, <2>3
<1>12. new \in [1 .. n -> Item]
  <2>1. \A p \in 1 .. n : new[p] \in Item
    BY <1>10, <1>11
  <2>2. QED
    BY <1>8, <2>1
<1>13. ASSUME NEW p \in 1 .. n, NEW q \in 1 .. n, from(p) = from(q), p < q PROVE FALSE
  <2>1. CASE p \in P /\ p < r
    <3>1. from(p) = child(p) /\ child(p) \in P /\ child(p) \in 2 .. n /\ child(p) <= r
      BY <1>6, <1>9, <2>1
    <3>2. CASE q \in P /\ q < r
      <4>1. from(q) = child(q) /\ q \in 1 .. n /\ 2 * q <= n
        BY <1>1, <1>2, <1>3, <1>6, <3>2
      <4>2. q < child(q) /\ child(p) <= q /\ child(q) \in Int
        BY <1>3, <1>4, <1>13, <2>1, <3>2, <4>1
      <4>3. child(p) = child(q)
        BY <1>13, <3>1, <4>1
      <4>4. q < q
        BY <4>2, <4>3
      <4>5. QED
        BY <4>4
    <3>3. CASE ~(q \in P /\ q < r)
      <4>1. from(q) = 0 \/ (from(q) = q /\ q # r)
        BY <1>6, <3>3
      <4>2. q = child(p) /\ q # r
        BY <1>13, <3>1, <4>1
      <4>3. q \in P /\ q <= r /\ r \in 1 .. n
        BY <1>1, <1>2, <3>1, <4>2
      <4>4. QED
        BY <3>3, <4>2, <4>3
    <3>4. QED
      BY <3>2, <3>3
  <2>2. CASE ~(p \in P /\ p < r)
    <3>1. from(p) = 0 \/ from(p) = p
      BY <1>6, <2>2
    <3>2. CASE q \in P /\ q < r
      <4>1. from(q) = child(q) /\ child(q) \in 2 .. n
        BY <1>6, <1>9, <3>2
      <4>2. 2 * q <= n /\ q < child(q)
        BY <1>1, <1>2, <1>3, <1>4, <3>2
      <4>3. QED
        BY <1>13, <3>1, <4>1, <4>2
    <3>3. CASE ~(q \in P /\ q < r)
      BY <1>6, <1>13, <2>2, <3>3
    <3>4. QED
      BY <3>2, <3>3
  <2>3. QED
    BY <2>1, <2>2
<1>14. ASSUME NEW p \in 1 .. n, NEW q \in 1 .. n, from(p) = from(q) PROVE p = q
  <2>1. p < q \/ q < p \/ p = q
    OBVIOUS
  <2>2. QED
    BY <1>13, <1>14, <2>1
<1>15. ASSUME NEW f \in (0 .. n) \ {1} PROVE \E p \in 1 .. n : from(p) = f
  <2>1. CASE f = 0
    BY <1>1, <1>2, <1>6, <2>1
  <2>2. CASE f # 0 /\ f \in P /\ f <= r
    <3>1. PICK p \in P : 2 * p <= n /\ f = child(p)
      BY <1>5, <2>2
    <3>2. p \in 1 .. n /\ p < f /\ r \in 1 .. n
      BY <1>1, <1>2, <1>4, <3>1
    <3>3. from(p) = child(p)
      BY <1>6, <2>2, <3>1, <3>2
    <3>4. QED
      BY <3>1, <3>2, <3>3
  <2>3. CASE f # 0 /\ ~(f \in P /\ f <= r)
    <3>1. f # r /\ ~(f \in P /\ f < r) /\ f \in 1 .. n
      BY <1>1, <1>2, <2>3
    <3>2. QED
      BY <1>6, <3>1
  <2>4. QED
    BY <2>1, <2>2, <2>3
<1>16. QED
  BY <1>10, <1>11, <1>12, <1>14, <1>15 DEF from, Replaces

(* The new heap is one, and its root is not less than the one before it.   *)
LEMMA ReplacingKeepsTheOrder ==
  ASSUME NEW n \in Nat \ {0}, NEW heap \in [1 .. n -> Item], NEW item \in Item, IsHeap(heap)
  PROVE  /\ IsHeap(HeapReplace(heap, item))
         /\ heap[1].score <= item.score => heap[1].score <= HeapReplace(heap, item)[1].score
<1> DEFINE r == Rest(heap, item)
           P == Path(heap)
           child(p) == SmallerChild(heap, p)
           new == HeapReplace(heap, item)
<1>1. /\ r \in P /\ (r # 1 => heap[r].score <= item.score)
      /\ \A p \in P : p > r => item.score < heap[p].score
  BY RestOnThePath
<1>2. P \subseteq 1 .. n /\ 1 \in P /\ \A p \in P : 2 * p <= n => child(p) \in P
  BY PathGoesDown
<1>3. \A p, q \in P : p < q => 2 * p <= n /\ child(p) <= q
  BY PathIsAChain
<1>4. \A p \in 1 .. n : 2 * p <= n =>
        /\ child(p) \in 1 .. n
        /\ child(p) \in {2 * p, 2 * p + 1} /\ p < child(p)
        /\ \A q \in 1 .. n : q \in {2 * p, 2 * p + 1} => heap[child(p)].score <= heap[q].score
  BY SmallerChildIsLess
<1>5. \A q \in P : q # 1 => \E p \in P : 2 * p <= n /\ q = child(p)
  BY PathComesFromAbove
<1>6. DOMAIN heap = 1 .. n
  OBVIOUS
<1>7. new = [p \in 1 .. n |-> IF p = r THEN item ELSE IF p \in P /\ p < r THEN heap[child(p)]
                             ELSE heap[p]]
  BY <1>6 DEF HeapReplace
<1>8. item.score \in Int /\ \A p \in 1 .. n : heap[p].score \in Int
  BY DEF Item
<1>9. \A p, q \in 1 .. n : q \in {2 * p, 2 * p + 1} => heap[p].score <= heap[q].score
  BY <1>6 DEF IsHeap
<1> HIDE DEF r, P, child
<1>10. \A p, q \in 1 .. n : q \in P /\ q \in {2 * p, 2 * p + 1} =>
         p \in P /\ q = child(p) /\ 2 * p <= n
  <2>1. SUFFICES ASSUME NEW p \in 1 .. n, NEW q \in 1 .. n, q \in P, q \in {2 * p, 2 * p + 1}
                 PROVE  p \in P /\ q = child(p) /\ 2 * p <= n
    OBVIOUS
  <2>2. PICK p1 \in P : 2 * p1 <= n /\ q = child(p1)
    BY <1>5, <2>1
  <2>3. q \in {2 * p1, 2 * p1 + 1} /\ p1 \in 1 .. n
    BY <1>2, <1>4, <2>2
  <2>4. p1 = p
    BY <2>1, <2>3
  <2>5. QED
    BY <2>2, <2>4
<1>11. ASSUME NEW p \in 1 .. n, NEW q \in 1 .. n, q \in {2 * p, 2 * p + 1}
       PROVE  new[p].score <= new[q].score
  <2>1. 2 * p <= n /\ p < q
    BY <1>11
  <2>2. r \in 1 .. n
    BY <1>1, <1>2
  <2>3. CASE p \notin P
    <3>1. q \notin P
      BY <1>10, <1>11, <2>3
    <3>2. new[p] = heap[p] /\ new[q] = heap[q]
      BY <1>1, <1>7, <2>3, <3>1
    <3>3. QED
      BY <1>9, <1>11, <3>2
  <2>4. CASE p \in P /\ p < r
    <3>1. new[p] = heap[child(p)] /\ child(p) <= r /\ child(p) \in 1 .. n
      BY <1>1, <1>3, <1>4, <1>7, <2>1, <2>4
    <3>2. heap[child(p)].score <= heap[q].score
      BY <1>4, <1>11, <2>1
    <3>3. CASE q = child(p) /\ q = r
      <4>1. new[q] = item /\ heap[r].score <= item.score
        BY <1>1, <1>7, <2>1, <3>3
      <4>2. QED
        BY <3>1, <3>3, <4>1
    <3>4. CASE q = child(p) /\ q < r
      <4>1. q \in P
        BY <1>2, <2>1, <2>4, <3>4
      <4>2. new[q] = heap[child(q)] /\ 2 * q <= n
        BY <1>1, <1>3, <1>7, <3>4, <4>1
      <4>3. heap[q].score <= heap[child(q)].score
        <5>1. child(q) \in 1 .. n /\ child(q) \in {2 * q, 2 * q + 1}
          BY <1>4, <4>2
        <5>2. QED
          BY <1>9, <5>1
      <4>4. QED
        BY <3>1, <3>4, <4>2, <4>3
    <3>5. CASE q # child(p)
      <4>1. q \notin P
        BY <1>10, <1>11, <3>5
      <4>2. new[q] = heap[q]
        BY <1>1, <1>7, <4>1
      <4>3. QED
        BY <3>1, <3>2, <4>2
    <3>6. QED
      BY <2>2, <3>1, <3>3, <3>4, <3>5
  <2>5. CASE p = r
    <3>1. new[p] = item
      BY <1>7, <2>5
    <3>2. child(p) \in P /\ child(p) > r /\ child(p) \in 1 .. n
      BY <1>1, <1>2, <1>4, <2>1, <2>5
    <3>3. item.score < heap[child(p)].score
      BY <1>1, <3>2
    <3>4. heap[child(p)].score <= heap[q].score
      BY <1>4, <1>11, <2>1
    <3>5. new[q] = heap[q]
      BY <1>7, <2>1, <2>2, <2>5
    <3>6. QED
      BY <1>8, <3>1, <3>2, <3>3, <3>4, <3>5
  <2>6. CASE p \in P /\ p > r
    <3>1. new[p] = heap[p] /\ new[q] = heap[q]
      BY <1>7, <2>1, <2>2, <2>6
    <3>2. QED
      BY <1>9, <1>11, <3>1
  <2>7. QED
    BY <2>2, <2>3, <2>4, <2>5, <2>6
<1>12. DOMAIN new = 1 .. n
  BY <1>7
<1>13. IsHeap(new)
  <2> HIDE DEF new
  <2>1. QED
    BY <1>11, <1>12 DEF IsHeap
<1>14. ASSUME heap[1].score <= item.score PROVE heap[1].score <= new[1].score
  <2>1. CASE r = 1
    BY <1>7, <1>14, <2>1
  <2>2. CASE r # 1
    <3>1. 1 < r /\ 1 \in 1 .. n
      BY <1>1, <1>2, <2>2
    <3>2. new[1] = heap[child(1)] /\ 2 * 1 <= n
      BY <1>1, <1>2, <1>3, <1>7, <3>1
    <3>3. child(1) \in 1 .. n /\ child(1) \in {2 * 1, 2 * 1 + 1}
      BY <1>4, <3>1, <3>2
    <3>4. QED
      BY <1>9, <3>1, <3>2, <3>3
  <2>3. QED
    BY <2>1, <2>2
<1>15. QED
  BY <1>13, <1>14

(* The root of a heap is its least. *)
LEMMA RootIsLeast ==
  ASSUME NEW n \in Nat \ {0}, NEW heap \in [1 .. n -> Item], IsHeap(heap)
  PROVE  \A p \in 1 .. n : heap[1].score <= heap[p].score
<1> DEFINE Bad == {p \in 1 .. n : ~(heap[1].score <= heap[p].score)}
<1>1. ASSUME Bad # {} PROVE FALSE
  <2>1. PICK p \in Bad : \A q \in Bad : p <= q
    <3>1. Bad \in SUBSET Nat
      OBVIOUS
    <3> HIDE DEF Bad
    <3>2. QED
      BY <1>1, <3>1, LeastMember
  <2>2. \A q \in 1 .. n : heap[q].score \in Int
    BY DEF Item
  <2>3. p \in 1 .. n /\ p # 1
    BY <2>1, <2>2
  <2>4. PICK q \in 1 .. n : p \in {2 * q, 2 * q + 1} /\ q < p
    <3>1. \E q \in 1 .. n : p = 2 * q \/ p = 2 * q + 1
      <4> DEFINE q == p \div 2
      <4>1. q \in 1 .. n /\ (p = 2 * q \/ p = 2 * q + 1)
        BY <2>3
      <4>2. QED
        BY <4>1
    <3>2. QED
      BY <3>1
  <2>5. heap[q].score <= heap[p].score
    BY <2>3, <2>4 DEF IsHeap
  <2>6. q \notin Bad
    BY <2>1, <2>3, <2>4
  <2>7. 1 \in 1 .. n
    OBVIOUS
  <2>8. QED
    BY <2>1, <2>2, <2>3, <2>5, <2>6, <2>7
<1>2. QED
  BY <1>1

-----------------------------------------------------------------------------
(* Scores.                                                                 *)

(* A similarity that is asked for and attained does not depend on what     *)
(* was asked for.                                                          *)
LEMMA DemandsAgree ==
  ASSUME NEW A, NEW t \in Seq(A), NEW other \in Seq(A), other # << >>, NEW max_len \in Nat,
         Len(t) <= max_len, Len(other) <= max_len,
         NEW k \in 1 .. Whole, Whole = k * Len(Longer(t, other)),
         NEW low \in 1 .. Whole, NEW high \in low .. Whole
  PROVE  LET similar(stop) == Similarity(t, other, stop, max_len)
         IN /\ similar(low) >= low => similar(low) = Share(t, other)
            /\ similar(low) >= high => similar(high) = similar(low)
<1> DEFINE similar(stop) == Similarity(t, other, stop, max_len)
           share == Share(t, other)
<1>1. Whole \in Nat /\ low \in Int /\ high \in 1 .. Whole /\ high \in Int /\ low <= high
      /\ low \in 0 .. Whole /\ high \in 0 .. Whole
  BY WholeAssumption
<1>2. max_len > 0
  OBVIOUS
<1>3. similar(low) \in Int /\ similar(high) \in Int
  BY <1>1, <1>2, SimilarityIsBounded
<1>4. share \in Int
  BY ShareIsBounded
<1>5. IsExact(t, other, low, max_len)
  BY SimilarityIsExact
<1>6. IsExact(t, other, high, max_len)
  BY <1>1, SimilarityIsExact
<1>7. IF share >= low THEN similar(low) = share ELSE similar(low) < low
  BY <1>5 DEF IsExact
<1>8. IF share >= high THEN similar(high) = share ELSE similar(high) < high
  BY <1>6 DEF IsExact
<1> HIDE DEF similar, share
<1>9. (similar(low) >= low => similar(low) = share)
      /\ (similar(low) >= high => similar(high) = similar(low))
  BY <1>1, <1>3, <1>4, <1>7, <1>8
<1>10. QED
  BY <1>9 DEF similar, share

(* What is remembered are units, counted from 1.                           *)
LEMMA CandidatesAreUnits ==
  ASSUME TypeInv, NEW c \in DOMAIN candidates
  PROVE  /\ candidates[c] \in Unit /\ candidates[c].source \in Text
         /\ Len(candidates[c].source) \in Nat
         /\ c \in 1 .. Len(candidates)
<1>1. candidates[c] \in Unit /\ c \in 1 .. Len(candidates)
  BY DEF TypeInv
<1>2. candidates[c].source \in Text
  BY <1>1 DEF Unit
<1>3. QED
  BY <1>1, <1>2 DEF Text

(* What MatcherAssumption says of the matcher in use.                      *)
LEMMA MemoryIsAMatcher ==
  ASSUME TypeInv
  PROVE  /\ matcher.candidates \in Nat \ {0} /\ matcher.similarity \in 0 .. Whole
         /\ matcher.length \in Nat
         /\ ~IsTerms => \A n \in 1 .. matcher.length : \E k \in 1 .. Whole : Whole = k * n
<1>1. IsMatcher(matcher)
  BY MatcherAssumption DEF TypeInv
<1>2. matcher.kind # "terms" => matcher.kind = "memory"
  BY <1>1 DEF IsMatcher, Kinds
<1>3. QED
  BY <1>1, <1>2 DEF IsMatcher, IsTerms

(* What a memory computes of a candidate that is not too long. *)
LEMMA ScoresOfCandidates ==
  ASSUME TypeInv, LongEnough, ~IsTerms, matcher.similarity > 0,
         NEW c \in DOMAIN candidates, Len(candidates[c].source) <= matcher.length,
         NEW stop \in Int, matcher.similarity <= stop, stop <= Whole
  PROVE  LET other == candidates[c].source
             similar == Similarity(text, other, stop, matcher.length)
         IN /\ Score(c) \in Int /\ Score(c) <= Whole /\ similar \in Int /\ similar <= Whole
            /\ similar >= stop => Score(c) = similar
            /\ Len(text) <= matcher.length =>
                 /\ Score(c) >= stop => similar = Score(c)
                 /\ Score(c) >= matcher.similarity =>
                      /\ Score(c) * Len(other) <= Len(text) * Whole
                      /\ Score(c) * Len(text) <= Len(other) * Whole
                 /\ IsExact(text, other, stop, matcher.length)
<1> DEFINE other == candidates[c].source
           similar == Similarity(text, other, stop, matcher.length)
           low == matcher.similarity
           max_len == matcher.length
<1>1. /\ low \in 1 .. Whole /\ low \in 0 .. Whole /\ stop \in low .. Whole /\ stop \in 0 .. Whole
      /\ stop \in 1 .. Whole /\ low <= stop
      /\ max_len \in Nat
  BY MemoryIsAMatcher
<1>2. other \in Seq(Characters) /\ Len(other) \in Nat /\ Len(other) >= 2
      /\ other # << >> /\ max_len > 0
  <2>1. other \in Seq(Characters) /\ Len(other) \in Nat
    BY CandidatesAreUnits DEF Text
  <2>2. Len(other) >= 2
    BY DEF LongEnough
  <2>3. QED
    BY <1>1, <2>1, <2>2
<1>3. text \in Seq(Characters) /\ Len(text) \in Nat
  BY DEF TypeInv, Text
<1>4. Score(c) = Similarity(text, other, low, max_len)
  BY DEF Score
<1>5. Len(other) <= max_len
  OBVIOUS
<1>6. \A n \in 1 .. max_len : \E k \in 1 .. Whole : Whole = k * n
  BY MemoryIsAMatcher
<1> HIDE DEF other, low, max_len
<1>7. Score(c) \in Int /\ Score(c) <= Whole
  BY <1>1, <1>2, <1>3, <1>4, SimilarityIsBounded
<1>8. similar \in Int /\ similar <= Whole
  BY <1>1, <1>2, <1>3, SimilarityIsBounded DEF max_len
<1>9. similar >= stop => Score(c) = similar
  BY <1>1, <1>2, <1>3, <1>4, LowerDemandsAgree DEF max_len
<1>10. ASSUME Len(text) <= max_len
       PROVE  /\ Score(c) >= stop => similar = Score(c)
              /\ Score(c) >= low => /\ Score(c) * Len(other) <= Len(text) * Whole
                                    /\ Score(c) * Len(text) <= Len(other) * Whole
              /\ IsExact(text, other, stop, max_len)
  <2>1. Len(Longer(text, other)) \in 1 .. max_len
    <3>1. Len(Longer(text, other)) \in Nat \ {0}
          /\ (Longer(text, other) = text \/ Longer(text, other) = other)
      BY <1>2, <1>3, ShorterAndLonger
    <3>2. QED
      BY <1>1, <1>5, <1>10, <3>1
  <2>2. PICK k \in 1 .. Whole : Whole = k * Len(Longer(text, other))
    BY <1>6, <2>1
  <2>3. /\ Score(c) >= low => Score(c) = Share(text, other)
        /\ Score(c) >= stop => similar = Score(c)
    BY <1>1, <1>2, <1>3, <1>4, <1>5, <1>10, <2>2, DemandsAgree DEF max_len
  <2>4. /\ Share(text, other) * Len(other) <= Len(text) * Whole
        /\ Share(text, other) * Len(text) <= Len(other) * Whole
    BY <1>1, <1>2, <1>3, <1>5, <1>10, <2>2, ShareIsBounded
  <2>5. IsExact(text, other, stop, max_len)
    BY <1>1, <1>2, <1>3, <1>5, <1>10, <2>2, SimilarityIsExact
  <2>6. QED
    BY <2>3, <2>4, <2>5
<1>11. QED
  BY <1>7, <1>8, <1>9, <1>10 DEF other, low, max_len

(* A candidate that is too short to be looked at is not similar enough.    *)
LEMMA ShortOnesAreNotEligible ==
  ASSUME TypeInv, LongEnough, ~IsTerms, matcher.similarity > 0, Len(text) <= matcher.length,
         NEW c \in Eligible
  PROVE  ~Before(candidates[c])
<1> DEFINE l == Len(candidates[c].source)
           low == matcher.similarity
<1>1. /\ c \in DOMAIN candidates /\ l <= matcher.length /\ Score(c) >= low
  BY DEF Eligible
<1>2. low \in Int /\ low <= Whole /\ Whole \in Nat /\ l \in Nat /\ l >= 2 /\ Len(text) \in Nat
  <2>1. l >= 2 /\ l \in Nat
    BY <1>1, CandidatesAreUnits DEF LongEnough
  <2>2. Len(text) \in Nat
    BY DEF TypeInv, Text
  <2>3. QED
    BY <2>1, <2>2, MemoryIsAMatcher, WholeAssumption
<1>3. Score(c) \in Int /\ Score(c) * Len(text) <= l * Whole
  BY <1>1, <1>2, ScoresOfCandidates
<1>4. Before(candidates[c]) <=> l * Whole < Len(text) * low \/ l < 1
  BY DEF Before
<1> HIDE DEF l, low
<1>5. low * Len(text) <= Score(c) * Len(text)
  BY <1>1, <1>2, <1>3, MulMonotone
<1>6. Len(text) * low <= l * Whole
  BY <1>2, <1>3, <1>5
<1>7. Len(text) * low \in Int /\ l * Whole \in Int
  BY <1>2
<1>8. QED
  BY <1>2, <1>4, <1>6, <1>7

(* One that is too long, and those after it, score no better than what is  *)
(* kept.                                                                   *)
LEMMA LongOnesAreNoBetter ==
  ASSUME TypeInv, LongEnough, ~IsTerms, Ordered, matcher.similarity > 0,
         Len(text) <= matcher.length, LowestScore \in 0 .. Whole,
         NEW d \in DOMAIN candidates, TooLong(candidates[d]), NEW c \in Eligible, d <= c
  PROVE  Score(c) <= LowestScore
<1> DEFINE l == Len(candidates[c].source)
           m == Len(candidates[d].source)
           low == matcher.similarity
           min == MinSimilarity
<1>1. /\ c \in DOMAIN candidates /\ l <= matcher.length /\ Score(c) >= low
  BY DEF Eligible
<1>2. low \in Int /\ low <= Whole /\ Whole \in Nat /\ Len(text) \in Nat /\ LowestScore \in Int
      /\ LowestScore <= Whole /\ low \in Nat /\ LowestScore \in Nat
  <2>1. Len(text) \in Nat
    BY DEF TypeInv, Text
  <2>2. QED
    BY <2>1, MemoryIsAMatcher, WholeAssumption
<1>3. l \in Nat /\ m \in Nat /\ m <= l
  <2>1. l \in Nat /\ m \in Nat /\ c \in Int /\ d \in Int
    BY <1>1, CandidatesAreUnits
  <2>2. c = d \/ d < c
    BY <2>1
  <2>3. QED
    BY <1>1, <2>1, <2>2 DEF Ordered
<1>4. Score(c) \in Int /\ Score(c) * l <= Len(text) * Whole
  BY <1>1, <1>2, ScoresOfCandidates
<1>5. min \in Nat /\ (min = low \/ min = LowestScore)
  <2>1. \E x \in {low, LowestScore} : \A y \in {low, LowestScore} : x >= y
    BY <1>2
  <2>2. Max({low, LowestScore}) \in {low, LowestScore}
    BY <2>1 DEF Max
  <2>3. QED
    BY <1>2, <2>2 DEF MinSimilarity
<1>6. m * min > Len(text) * Whole
  <2>1. m * min > Len(text) * Whole \/ m > matcher.length
    BY DEF TooLong
  <2>2. ~(m > matcher.length)
    BY <1>1, <1>3, MemoryIsAMatcher
  <2>3. QED
    BY <2>1, <2>2
<1> HIDE DEF l, m, low, min
<1>7. l * Score(c) < m * min
  <2>1. Len(text) * Whole \in Int /\ m * min \in Int /\ Score(c) * l = l * Score(c)
        /\ l * Score(c) \in Int
    BY <1>2, <1>3, <1>4, <1>5
  <2>2. QED
    BY <1>4, <1>6, <2>1
<1>8. m * min <= l * min
  BY <1>3, <1>5, MulMonotone
<1>9. Score(c) * l < min * l
  <2>1. m * min \in Int /\ l * min \in Int /\ l * Score(c) \in Int /\ Score(c) * l = l * Score(c)
        /\ min * l = l * min
    BY <1>3, <1>4, <1>5
  <2>2. QED
    BY <1>7, <1>8, <2>1
<1>10. Score(c) < min
  BY <1>3, <1>4, <1>5, <1>9, MulCancel
<1>11. QED
  BY <1>1, <1>2, <1>4, <1>5, <1>10

(* The i-th item comes before the j-th. *)
Precedes(key, i, j) == key[i] < key[j] \/ (key[i] = key[j] /\ i < j)

(* A stable sort makes each item's number the number of those before it.   *)
LEMMA OrderSorts ==
  ASSUME NEW n \in Nat, NEW key \in [1 .. n -> Int]
  PROVE  /\ Order(key) \in [1 .. n -> 1 .. n]
         /\ \A i \in 1 .. n : \E k \in 1 .. n : Order(key)[k] = i
         /\ \A k, l \in 1 .. n : k < l => Precedes(key, Order(key)[k], Order(key)[l])
<1> DEFINE ordered(D) == [k \in D |-> CHOOSE i \in D :
                            Cardinality({j \in D : Precedes(key, j, i)}) = k - 1]
           before(i) == {j \in 1 .. n : Precedes(key, j, i)}
           rank == [i \in 1 .. n |-> Cardinality(before(i))]
           order == [k \in 1 .. n |-> CHOOSE i \in 1 .. n : Cardinality(before(i)) = k - 1]
<1>1. Order(key) = order
  <2>1. DOMAIN key = 1 .. n
    OBVIOUS
  <2>2. Order(key) = ordered(DOMAIN key)
    BY DEF Order, Precedes
  <2>3. order = ordered(1 .. n)
    OBVIOUS
  <2> HIDE DEF ordered, order
  <2>4. QED
    BY <2>1, <2>2, <2>3
<1>2. ASSUME NEW i \in 1 .. n, NEW j \in 1 .. n
      PROVE  i = j \/ Precedes(key, i, j) \/ Precedes(key, j, i)
  BY DEF Precedes
<1>3. ASSUME NEW i \in 1 .. n PROVE IsFiniteSet(before(i)) /\ rank[i] \in 0 .. n - 1
  <2> DEFINE others == (1 .. n) \ {i}
  <2>1. before(i) \in SUBSET others
    BY DEF Precedes
  <2>2. 1 \in Int /\ n \in Int /\ i \in 1 .. n /\ n - 1 + 1 = n /\ ~(1 > n)
    OBVIOUS
  <2>3. IsFiniteSet(1 .. n) /\ Cardinality(1 .. n) = n
    <3>1. IsFiniteSet(1 .. n) /\ Cardinality(1 .. n) = IF 1 > n THEN 0 ELSE n - 1 + 1
      BY <2>2, FS_Interval
    <3>2. QED
      BY <2>2, <3>1
  <2>4. IsFiniteSet(others) /\ Cardinality(others) = n - 1
    BY <2>2, <2>3, FS_RemoveElement
  <2> HIDE DEF others, before
  <2>5. /\ IsFiniteSet(before(i)) /\ Cardinality(before(i)) <= Cardinality(others)
        /\ Cardinality(before(i)) \in Nat
    BY <2>1, <2>4, FS_Subset, FS_CardinalityType
  <2>6. QED
    BY <2>4, <2>5
<1>4. ASSUME NEW i \in 1 .. n, NEW j \in 1 .. n, Precedes(key, i, j)
      PROVE  rank[i] < rank[j]
  <2>1. before(i) \in SUBSET before(j) /\ i \in before(j) /\ i \notin before(i)
    BY <1>4 DEF Precedes
  <2>2. IsFiniteSet(before(j)) /\ rank[i] \in 0 .. n - 1 /\ rank[j] \in 0 .. n - 1
    BY <1>3
  <2>3. rank[i] = Cardinality(before(i)) /\ rank[j] = Cardinality(before(j))
    OBVIOUS
  <2> HIDE DEF rank, before
  <2>4. Cardinality(before(i)) <= Cardinality(before(j))
        /\ Cardinality(before(j)) # Cardinality(before(i))
    BY <2>1, <2>2, FS_Subset
  <2>5. QED
    BY <2>2, <2>3, <2>4
<1> HIDE DEF before
<1>5. rank \in Injection(1 .. n, 0 .. n - 1)
  <2>1. rank \in [1 .. n -> 0 .. n - 1]
    BY <1>3
  <2>2. ASSUME NEW i \in 1 .. n, NEW j \in 1 .. n, rank[i] = rank[j] PROVE i = j
    <3>1. rank[i] \in Int /\ rank[j] \in Int
      BY <1>3
    <3>2. QED
      BY <1>2, <1>4, <2>2, <3>1
  <2> HIDE DEF rank
  <2>3. QED
    BY <2>1, <2>2 DEF Injection, IsInjective
<1>6. ASSUME NEW k \in 1 .. n PROVE \E i \in 1 .. n : rank[i] = k - 1
  <2>1. 1 \in Int /\ n \in Int /\ 0 \in Int /\ n - 1 \in Int /\ k - 1 \in 0 .. n - 1
    OBVIOUS
  <2>2. Cardinality(1 .. n) = (IF 1 > n THEN 0 ELSE n - 1 + 1)
        /\ IsFiniteSet(0 .. n - 1)
        /\ Cardinality(0 .. n - 1) = IF 0 > n - 1 THEN 0 ELSE (n - 1) - 0 + 1
    BY <2>1, FS_Interval
  <2>3. (IF 1 > n THEN 0 ELSE n - 1 + 1) = (IF 0 > n - 1 THEN 0 ELSE (n - 1) - 0 + 1)
    OBVIOUS
  <2> HIDE DEF rank
  <2>4. rank \in Surjection(1 .. n, 0 .. n - 1)
    BY <1>5, <2>2, <2>3, FS_Injection
  <2>5. QED
    BY <2>1, <2>4 DEF Surjection
<1>7. ASSUME NEW k \in 1 .. n PROVE order[k] \in 1 .. n /\ rank[order[k]] = k - 1
  BY <1>6
<1>8. ASSUME NEW i \in 1 .. n PROVE \E k \in 1 .. n : order[k] = i
  <2> DEFINE k == rank[i] + 1
  <2>1. k \in 1 .. n /\ k - 1 = rank[i]
    BY <1>3
  <2>2. order[k] \in 1 .. n /\ rank[order[k]] = rank[i]
    BY <1>7, <2>1
  <2> HIDE DEF rank, order, k
  <2>3. order[k] = i
    BY <1>5, <2>2 DEF Injection, IsInjective
  <2>4. QED
    BY <2>1, <2>3
<1>9. ASSUME NEW k \in 1 .. n, NEW l \in 1 .. n, k < l
      PROVE  Precedes(key, order[k], order[l])
  <2>1. /\ order[k] \in 1 .. n /\ rank[order[k]] = k - 1
        /\ order[l] \in 1 .. n /\ rank[order[l]] = l - 1
    BY <1>7
  <2> DEFINE x == order[k]
             y == order[l]
  <2> HIDE DEF rank, order
  <2>2. x \in 1 .. n /\ y \in 1 .. n /\ rank[x] < rank[y]
    BY <1>9, <2>1
  <2> HIDE DEF x, y
  <2>3. rank[x] \in Nat /\ rank[y] \in Nat
    BY <1>3, <2>2
  <2>4. x # y /\ ~Precedes(key, y, x)
    BY <1>4, <2>2, <2>3
  <2>5. Precedes(key, x, y)
    BY <1>2, <2>2, <2>4
  <2>6. QED
    BY <2>5 DEF x, y
<1>10. order \in [1 .. n -> 1 .. n]
  BY <1>7
<1>11. QED
  BY <1>1, <1>8, <1>9, <1>10

(* The first n numbers are n.                                              *)
LEMMA CardinalityOfInterval ==
  ASSUME NEW n \in Nat
  PROVE  IsFiniteSet(1 .. n) /\ Cardinality(1 .. n) = n
<1>1. 1 \in Int /\ n \in Int
  OBVIOUS
<1>2. IsFiniteSet(1 .. n) /\ Cardinality(1 .. n) = IF 1 > n THEN 0 ELSE n - 1 + 1
  BY <1>1, FS_Interval
<1>3. (IF 1 > n THEN 0 ELSE n - 1 + 1) = n
  OBVIOUS
<1>4. QED
  BY <1>2, <1>3

(* A list without repetition is no longer than its items are many. *)
LEMMA CountOfList ==
  ASSUME NEW f \in Nat, NEW S, IsFiniteSet(S), NEW list \in [1 .. f -> S],
         \A i, j \in 1 .. f : i < j => list[i] # list[j]
  PROVE  /\ Cardinality(S) \in Nat /\ f <= Cardinality(S)
         /\ (\A x \in S : \E i \in 1 .. f : list[i] = x) => f = Cardinality(S)
<1>1. \A i, j \in 1 .. f : list[i] = list[j] => i = j
  <2>1. \A i, j \in 1 .. f : i < j \/ j < i \/ i = j
    OBVIOUS
  <2>2. QED
    BY <2>1
<1>2. list \in Injection(1 .. f, S)
  BY <1>1 DEF Injection, IsInjective
<1>3. Cardinality(1 .. f) = f
  BY CardinalityOfInterval
<1>4. /\ Cardinality(1 .. f) <= Cardinality(S)
      /\ Cardinality(1 .. f) = Cardinality(S) <=> list \in Surjection(1 .. f, S)
  BY <1>2, FS_Injection
<1>5. Cardinality(S) \in Nat
  BY FS_CardinalityType
<1>6. (\A x \in S : \E i \in 1 .. f : list[i] = x) => list \in Surjection(1 .. f, S)
  BY DEF Surjection
<1>7. QED
  BY <1>3, <1>4, <1>5, <1>6

(* What a stable sort returns. *)
LEMMA SortedByItsKey ==
  ASSUME NEW T, NEW list \in Seq(T), NEW key \in [1 .. Len(list) -> Int]
  PROVE  LET order == Order(key)
             n == Len(list)
         IN /\ SortedBy(list, key) = [k \in 1 .. n |-> list[order[k]]]
            /\ SortedBy(list, key) \in Seq(T) /\ Len(SortedBy(list, key)) = n
            /\ order \in [1 .. n -> 1 .. n]
            /\ \A i \in 1 .. n : \E k \in 1 .. n : order[k] = i
            /\ \A k, l \in 1 .. n : k < l => Precedes(key, order[k], order[l])
<1> DEFINE n == Len(list)
           order == Order(key)
<1>1. n \in Nat /\ DOMAIN list = 1 .. n /\ \A i \in 1 .. n : list[i] \in T
  OBVIOUS
<1>2. /\ order \in [1 .. n -> 1 .. n]
      /\ \A i \in 1 .. n : \E k \in 1 .. n : order[k] = i
      /\ \A k, l \in 1 .. n : k < l => Precedes(key, order[k], order[l])
  BY <1>1, OrderSorts
<1>3. SortedBy(list, key) = [k \in 1 .. n |-> list[order[k]]]
  BY <1>1 DEF SortedBy
<1> HIDE DEF n, order
<1>4. [k \in 1 .. n |-> list[order[k]]] \in [1 .. n -> T]
  BY <1>1, <1>2
<1>5. SortedBy(list, key) \in Seq(T) /\ Len(SortedBy(list, key)) = n
  BY <1>1, <1>3, <1>4, LenOfList
<1>6. QED
  BY <1>2, <1>3, <1>5 DEF n, order

-----------------------------------------------------------------------------
(* The answer of a memory: the real entries of the heap, the best first,   *)
(* each at its place.                                                      *)
LEMMA BestFirstIsInOrder ==
  ASSUME NEW n \in Nat, best \in [1 .. n -> Item],
         \A p, q \in 1 .. n : best[p].unit = best[q].unit /\ best[p].unit # 0 => p = q,
         \A p \in 1 .. n : best[p].score # 0 <=> best[p].unit # 0
  PROVE  \E f \in Nat : \E place \in [1 .. f -> 1 .. n] :
           /\ BestFirst = [k \in 1 .. f |-> best[place[k]].unit]
           /\ \A k \in 1 .. f : best[place[k]].score # 0
           /\ \A j, k \in 1 .. f : j < k =>
                place[j] # place[k] /\ best[place[j]].score >= best[place[k]].score
           /\ \A p \in 1 .. n : best[p].score # 0 => \E k \in 1 .. f : place[k] = p
<1> DEFINE set == {item \in Range(best) : item.score # 0}
           filled == Select(best, set)
           key == [i \in DOMAIN filled |-> -filled[i].score]
           ordered == SortedBy(filled, key)
           f == Len(filled)
           order == Order(key)
           place == [k \in 1 .. f |-> CHOOSE p \in 1 .. n : best[p] = filled[order[k]]]
<1>1. best \in Seq(Item) /\ Len(best) = n /\ DOMAIN best = 1 .. n
  BY LenOfList
<1>2. \A x : x \in set <=> (x.score # 0 /\ \E p \in 1 .. n : best[p] = x)
  BY <1>1 DEF Range
<1>3. BestFirst = [k \in DOMAIN ordered |-> ordered[k].unit]
  BY DEF BestFirst
<1> HIDE DEF set
<1>4. SelectsFirst(filled, best, n, set, Item)
  BY <1>1, SelectSelects
<1>5. /\ filled \in Seq(Item)
      /\ \A u \in Item : (\E i \in 1 .. f : filled[i] = u)
                           <=> u \in set /\ (\E k \in 1 .. n : best[k] = u)
      /\ \A i, j \in 1 .. f :
           i < j => \E k, l \in 1 .. n : k < l /\ best[k] = filled[i] /\ best[l] = filled[j]
  BY <1>4 DEF SelectsFirst
<1> HIDE DEF filled
<1>6. f \in Nat /\ DOMAIN filled = 1 .. f /\ \A i \in 1 .. f : filled[i] \in Item
  BY <1>5
<1>7. ASSUME NEW i \in 1 .. f PROVE filled[i].score # 0 /\ \E p \in 1 .. n : best[p] = filled[i]
  <2>1. filled[i] \in set
    BY <1>5, <1>6
  <2>2. QED
    BY <1>2, <2>1
<1>8. \A i \in 1 .. f : filled[i].score \in Int
  BY <1>6 DEF Item
<1>9. key \in [1 .. f -> Int] /\ \A i \in 1 .. f : key[i] = -filled[i].score
  BY <1>6, <1>8
<1> HIDE DEF key, f
<1>10. /\ ordered = [k \in 1 .. f |-> filled[order[k]]]
       /\ order \in [1 .. f -> 1 .. f]
       /\ \A i \in 1 .. f : \E k \in 1 .. f : order[k] = i
       /\ \A k, l \in 1 .. f : k < l => Precedes(key, order[k], order[l])
  BY <1>5, <1>9, SortedByItsKey DEF f
<1> HIDE DEF ordered, order
<1>11. \A k \in 1 .. f : place[k] \in 1 .. n /\ best[place[k]] = filled[order[k]]
  BY <1>7, <1>10
<1>12. place \in [1 .. f -> 1 .. n]
  BY <1>11
<1> HIDE DEF place
<1>13. BestFirst = [k \in 1 .. f |-> best[place[k]].unit]
  BY <1>3, <1>10, <1>11
<1>14. ASSUME NEW k \in 1 .. f PROVE best[place[k]].score # 0
  <2>1. order[k] \in 1 .. f
    BY <1>10
  <2>2. QED
    BY <1>7, <1>11, <2>1
<1>15. ASSUME NEW i \in 1 .. f, NEW j \in 1 .. f, i < j PROVE filled[i] # filled[j]
  <2>1. PICK k \in 1 .. n, l \in 1 .. n : k < l /\ best[k] = filled[i] /\ best[l] = filled[j]
    BY <1>5, <1>15 DEF f
  <2>2. best[k].unit # 0
    BY <1>7, <2>1
  <2>3. k # l
    BY <2>1
  <2>4. QED
    BY <2>1, <2>2, <2>3
<1>16. ASSUME NEW j \in 1 .. f, NEW k \in 1 .. f, j < k
       PROVE  place[j] # place[k] /\ best[place[j]].score >= best[place[k]].score
  <2>1. order[j] \in 1 .. f /\ order[k] \in 1 .. f /\ Precedes(key, order[j], order[k])
    BY <1>10, <1>16
  <2>2. order[j] # order[k]
    BY <1>9, <2>1 DEF Precedes
  <2>3. filled[order[j]] # filled[order[k]]
    <3>1. order[j] < order[k] \/ order[k] < order[j]
      BY <2>1, <2>2
    <3>2. QED
      BY <1>15, <2>1, <3>1
  <2>4. key[order[j]] <= key[order[k]]
    BY <1>9, <2>1 DEF Precedes
  <2>5. filled[order[j]].score >= filled[order[k]].score
    <3>1. /\ key[order[j]] = -filled[order[j]].score /\ filled[order[j]].score \in Int
          /\ key[order[k]] = -filled[order[k]].score /\ filled[order[k]].score \in Int
      BY <1>8, <1>9, <2>1
    <3>2. -filled[order[j]].score <= -filled[order[k]].score
      BY <2>4, <3>1
    <3> DEFINE x == filled[order[j]].score
               y == filled[order[k]].score
    <3>3. x \in Int /\ y \in Int /\ -x <= -y
      BY <3>1, <3>2
    <3> HIDE DEF x, y
    <3>4. x >= y
      BY <3>3
    <3>5. QED
      BY <3>4 DEF x, y
  <2>6. QED
    BY <1>11, <2>3, <2>5
<1>17. ASSUME NEW p \in 1 .. n, best[p].score # 0 PROVE \E k \in 1 .. f : place[k] = p
  <2>1. best[p] \in Item /\ best[p] \in set
    BY <1>2, <1>17
  <2>2. PICK i \in 1 .. f : filled[i] = best[p]
    BY <1>5, <2>1 DEF f
  <2>3. PICK k \in 1 .. f : order[k] = i
    BY <1>10
  <2>4. best[place[k]] = best[p] /\ place[k] \in 1 .. n
    BY <1>11, <2>2, <2>3
  <2>5. QED
    BY <1>17, <2>4
<1>18. f \in Nat
  BY <1>6
<1> WITNESS f \in Nat
<1> WITNESS place \in [1 .. f -> 1 .. n]
<1>19. QED
  BY <1>13, <1>14, <1>16, <1>17

(* What is known of the heap while the loop runs. *)
LEMMA HeapScores ==
  ASSUME TypeInv, LongEnough, ~IsTerms, HeapOfTheBest
  PROVE  LET n == matcher.candidates
         IN /\ n \in Nat \ {0} /\ best \in [1 .. n -> Item] /\ 1 \in 1 .. n
            /\ LowestScore \in 0 .. Whole
            /\ MinSimilarity \in 1 .. Whole /\ matcher.similarity <= MinSimilarity
            /\ LowestScore <= MinSimilarity
            /\ MinSimilarity = matcher.similarity \/ MinSimilarity = LowestScore
            /\ \A p \in 1 .. n :
                 /\ best[p].score # 0 <=> best[p].unit # 0
                 /\ best[p].score # 0 => best[p].unit \in Eligible /\ best[p].unit < next
                                         /\ best[p].score = Score(best[p].unit)
                 /\ LowestScore <= best[p].score
<1> DEFINE n == matcher.candidates
           low == matcher.similarity
<1>1. n \in Nat \ {0} /\ low \in 1 .. Whole /\ best \in [1 .. n -> Item] /\ Whole \in Nat
  BY MemoryIsAMatcher, WholeAssumption DEF HeapOfTheBest
<1> HIDE DEF n
<1>2. 1 \in 1 .. n /\ DOMAIN best = 1 .. n
  BY <1>1
<1>3. LowestScore \in 0 .. Whole
  <2>1. best[1].score \in 0 .. Whole
    BY <1>1, <1>2 DEF Item
  <2>2. QED
    BY <2>1 DEF LowestScore
<1>4. \A p \in 1 .. n : LowestScore <= best[p].score
  BY <1>1, RootIsLeast DEF HeapOfTheBest, LowestScore
<1>5. MinSimilarity \in 1 .. Whole /\ low <= MinSimilarity /\ LowestScore <= MinSimilarity
      /\ (MinSimilarity = low \/ MinSimilarity = LowestScore)
  <2>1. \E x \in {low, LowestScore} : \A y \in {low, LowestScore} : x >= y
    BY <1>1, <1>3
  <2>2. MinSimilarity \in {low, LowestScore} /\ \A y \in {low, LowestScore} : MinSimilarity >= y
    BY <2>1 DEF Max, MinSimilarity
  <2>3. QED
    BY <1>1, <1>3, <2>2
<1>6. ASSUME NEW p \in 1 .. n
      PROVE  /\ best[p].score # 0 <=> best[p].unit # 0
             /\ best[p].score # 0 => best[p].unit \in Eligible /\ best[p].unit < next
                                     /\ best[p].score = Score(best[p].unit)
  <2>1. IsKept(best[p])
    BY <1>2 DEF HeapOfTheBest
  <2>2. CASE best[p] = NoUnit
    BY <2>2 DEF NoUnit
  <2>3. CASE best[p] # NoUnit
    <3>1. /\ best[p].unit \in Eligible /\ best[p].score = Score(best[p].unit)
          /\ best[p].unit < next
      BY <2>1, <2>3 DEF IsKept
    <3>2. best[p].unit \in DOMAIN candidates /\ Score(best[p].unit) >= low
      BY <3>1 DEF Eligible
    <3>3. best[p].unit \in 1 .. Len(candidates)
      BY <3>2, CandidatesAreUnits
    <3>4. best[p].score \in Int
      BY <1>1 DEF Item
    <3>5. QED
      BY <1>1, <3>1, <3>2, <3>3, <3>4
  <2>4. QED
    BY <2>2, <2>3
<1>7. QED
  BY <1>1, <1>2, <1>3, <1>4, <1>5, <1>6 DEF n

(* What the loop leaves is what BestAreFound asks of the answer. *)
LEMMA HeapHoldsTheBest ==
  ASSUME TypeInv, LongEnough, Ordered, ~IsTerms, HeapOfTheBest, NoneIsBetter,
         next <= Len(candidates) => TooLong(candidates[next]),
         Len(text) <= matcher.length
  PROVE  /\ Len(BestFirst) = Min({matcher.candidates, Cardinality(Eligible)})
         /\ \A k \in DOMAIN BestFirst :
              /\ BestFirst[k] \in Eligible
              /\ \A j \in 1 .. k - 1 :
                   BestFirst[j] # BestFirst[k] /\ Score(BestFirst[j]) >= Score(BestFirst[k])
              /\ \A c \in Eligible :
                   Score(c) > Score(BestFirst[k]) => \E j \in 1 .. k - 1 : BestFirst[j] = c
<1> DEFINE n == matcher.candidates
<1>1. /\ n \in Nat \ {0} /\ best \in [1 .. n -> Item] /\ 1 \in 1 .. n
      /\ LowestScore \in 0 .. Whole
      /\ \A p \in 1 .. n :
           /\ best[p].score # 0 <=> best[p].unit # 0
           /\ best[p].score # 0 => best[p].unit \in Eligible /\ best[p].unit < next
                                   /\ best[p].score = Score(best[p].unit)
           /\ LowestScore <= best[p].score
  BY HeapScores
<1> HIDE DEF n
<1>2. \A p, q \in 1 .. n : best[p].unit = best[q].unit /\ best[p].unit # 0 => p = q
  BY <1>1 DEF HeapOfTheBest
<1>3. DOMAIN best = 1 .. n
  BY <1>1
<1>4. /\ \A c \in Eligible : c \in 1 .. Len(candidates) /\ Score(c) \in Int
                             /\ Score(c) >= matcher.similarity
      /\ matcher.similarity > 0 /\ matcher.similarity \in Int
  <2>1. matcher.similarity > 0 /\ matcher.similarity \in Int /\ matcher.similarity <= Whole
    BY MemoryIsAMatcher DEF HeapOfTheBest
  <2>2. ASSUME NEW c \in Eligible
        PROVE  c \in 1 .. Len(candidates) /\ Score(c) \in Int /\ Score(c) >= matcher.similarity
    <3>1. c \in DOMAIN candidates /\ Len(candidates[c].source) <= matcher.length
          /\ Score(c) >= matcher.similarity
      BY DEF Eligible
    <3>2. Score(c) \in Int
      BY <2>1, <3>1, ScoresOfCandidates
    <3>3. QED
      BY <3>1, <3>2, CandidatesAreUnits
  <2>3. QED
    BY <2>1, <2>2
<1>5. ASSUME NEW c \in Eligible
      PROVE  Score(c) <= LowestScore \/ \E p \in 1 .. n : best[p].unit = c
  <2>1. next \in Nat \ {0} /\ Len(candidates) \in Nat
    BY DEF HeapOfTheBest, TypeInv
  <2>2. CASE c < next
    BY <1>3, <2>2 DEF NoneIsBetter
  <2>3. CASE ~(c < next)
    <3>1. next <= c /\ next <= Len(candidates) /\ next \in DOMAIN candidates
      <4>1. next <= c /\ next <= Len(candidates) /\ next \in 1 .. Len(candidates)
        BY <1>4, <2>1, <2>3
      <4>2. DOMAIN candidates = 1 .. Len(candidates)
        BY DEF TypeInv
      <4>3. QED
        BY <4>1, <4>2
    <3>2. Score(c) <= LowestScore
      BY <1>1, <1>4, <3>1, LongOnesAreNoBetter
    <3>3. QED
      BY <3>2
  <2>4. QED
    BY <2>2, <2>3
<1>6. PICK f \in Nat : \E place \in [1 .. f -> 1 .. n] :
           /\ BestFirst = [k \in 1 .. f |-> best[place[k]].unit]
           /\ \A k \in 1 .. f : best[place[k]].score # 0
           /\ \A j, k \in 1 .. f : j < k =>
                place[j] # place[k] /\ best[place[j]].score >= best[place[k]].score
           /\ \A p \in 1 .. n : best[p].score # 0 => \E k \in 1 .. f : place[k] = p
  <2>1. n \in Nat
    BY <1>1
  <2>2. \A p \in 1 .. n : best[p].score # 0 <=> best[p].unit # 0
    BY <1>1
  <2>3. best \in [1 .. n -> Item]
    BY <1>1
  <2>4. QED
    BY <1>2, <2>1, <2>2, <2>3, BestFirstIsInOrder
<1>7. PICK place \in [1 .. f -> 1 .. n] :
           /\ BestFirst = [k \in 1 .. f |-> best[place[k]].unit]
           /\ \A k \in 1 .. f : best[place[k]].score # 0
           /\ \A j, k \in 1 .. f : j < k =>
                place[j] # place[k] /\ best[place[j]].score >= best[place[k]].score
           /\ \A p \in 1 .. n : best[p].score # 0 => \E k \in 1 .. f : place[k] = p
  BY <1>6
<1> DEFINE list == BestFirst
<1>8. DOMAIN list = 1 .. f /\ \A k \in 1 .. f : list[k] = best[place[k]].unit /\ place[k] \in 1 .. n
  BY <1>7
<1> HIDE DEF list
<1>9. ASSUME NEW k \in 1 .. f
      PROVE  list[k] \in Eligible /\ Score(list[k]) = best[place[k]].score /\ list[k] # 0
  <2>1. list[k] = best[place[k]].unit /\ place[k] \in 1 .. n /\ best[place[k]].score # 0
    BY <1>7, <1>8
  <2>2. /\ best[place[k]].unit # 0 /\ best[place[k]].unit \in Eligible
        /\ best[place[k]].score = Score(best[place[k]].unit)
    BY <1>1, <2>1
  <2>3. QED
    BY <2>1, <2>2
<1>10. ASSUME NEW j \in 1 .. f, NEW k \in 1 .. f, j < k
       PROVE  list[j] # list[k] /\ Score(list[j]) >= Score(list[k])
  <2>1. place[j] # place[k] /\ best[place[j]].score >= best[place[k]].score
    BY <1>7, <1>10
  <2>2. /\ place[j] \in 1 .. n /\ list[j] = best[place[j]].unit /\ list[j] # 0
        /\ place[k] \in 1 .. n /\ list[k] = best[place[k]].unit
    BY <1>8, <1>9
  <2>3. list[j] # list[k]
    BY <1>2, <2>1, <2>2
  <2>4. Score(list[j]) = best[place[j]].score /\ Score(list[k]) = best[place[k]].score
    BY <1>9
  <2>5. QED
    BY <2>1, <2>3, <2>4
<1>11. ASSUME NEW c \in Eligible, NEW p \in 1 .. n, best[p].unit = c
       PROVE  \E k \in 1 .. f : list[k] = c
  <2>1. best[p].score # 0
    BY <1>1, <1>4, <1>11
  <2>2. PICK k \in 1 .. f : place[k] = p
    BY <1>7, <2>1
  <2>3. QED
    BY <1>8, <1>11, <2>2
<1>12. ASSUME NEW k \in 1 .. f, NEW c \in Eligible, Score(c) > Score(list[k])
       PROVE  \E j \in 1 .. k - 1 : list[j] = c
  <2>1. LowestScore <= Score(list[k]) /\ LowestScore \in Int /\ Score(list[k]) \in Int
        /\ Score(c) \in Int
    <3>1. Score(list[k]) = best[place[k]].score /\ place[k] \in 1 .. n /\ list[k] \in Eligible
      BY <1>8, <1>9
    <3>2. LowestScore <= best[place[k]].score
      BY <1>1, <3>1
    <3>3. QED
      BY <1>1, <1>4, <3>1, <3>2
  <2>2. ~(Score(c) <= LowestScore)
    BY <1>12, <2>1
  <2>3. PICK p \in 1 .. n : best[p].unit = c
    BY <1>5, <2>2
  <2>4. PICK j \in 1 .. f : list[j] = c
    BY <1>11, <2>3
  <2>5. j < k
    <3>1. ~(k < j) /\ j # k
      BY <1>10, <1>12, <2>1, <2>4
    <3>2. QED
      BY <3>1
  <2>6. j \in 1 .. k - 1
    BY <2>5
  <2>7. QED
    BY <2>4, <2>6
<1>13. Len(list) = f
  <2>1. list \in [1 .. f -> Eligible]
    BY <1>7, <1>9 DEF list
  <2>2. QED
    BY <2>1, LenOfList
<1>14. IsFiniteSet(Eligible)
  <2>1. Eligible \in SUBSET (1 .. Len(candidates))
    BY <1>4
  <2>2. Len(candidates) \in Nat
    BY DEF TypeInv
  <2>3. IsFiniteSet(1 .. Len(candidates))
    BY <2>2, CardinalityOfInterval
  <2>4. QED
    BY <2>1, <2>3, FS_Subset
<1>15. /\ Cardinality(Eligible) \in Nat /\ f <= Cardinality(Eligible)
       /\ (\A c \in Eligible : \E k \in 1 .. f : list[k] = c) => f = Cardinality(Eligible)
  <2>1. list \in [1 .. f -> Eligible]
    BY <1>7, <1>9 DEF list
  <2>2. \A i, j \in 1 .. f : i < j => list[i] # list[j]
    BY <1>10
  <2>3. QED
    BY <1>14, <2>1, <2>2, CountOfList
<1>16. f <= n /\ ((\A p \in 1 .. n : \E k \in 1 .. f : place[k] = p) => f = n)
  <2>1. IsFiniteSet(1 .. n) /\ Cardinality(1 .. n) = n
    BY <1>1, CardinalityOfInterval
  <2>2. \A i, j \in 1 .. f : i < j => place[i] # place[j]
    BY <1>7
  <2>3. QED
    BY <2>1, <2>2, CountOfList
<1>17. f = n \/ f = Cardinality(Eligible)
  <2>1. CASE LowestScore = 0
    <3>1. \A c \in Eligible : \E p \in 1 .. n : best[p].unit = c
      BY <1>4, <1>5, <2>1
    <3>2. \A c \in Eligible : \E k \in 1 .. f : list[k] = c
      BY <1>11, <3>1
    <3>3. QED
      BY <1>15, <3>2
  <2>2. CASE LowestScore # 0
    <3>1. \A p \in 1 .. n : best[p].score # 0
      BY <1>1, <2>2
    <3>2. QED
      BY <1>7, <1>16, <3>1
  <2>3. QED
    BY <2>1, <2>2
<1>18. Len(list) = Min({n, Cardinality(Eligible)})
  <2> DEFINE m == Cardinality(Eligible)
  <2>1. n \in Nat /\ m \in Nat /\ f \in Nat /\ f <= n /\ f <= m /\ (f = n \/ f = m)
    BY <1>1, <1>15, <1>16, <1>17
  <2> HIDE DEF m
  <2>2. {n, m} \in SUBSET Nat /\ {n, m} # {}
    BY <2>1
  <2>3. Min({n, m}) \in {n, m} /\ \A y \in {n, m} : Min({n, m}) <= y
    BY <2>2, MinIsLeast
  <2>4. Min({n, m}) = f
    BY <2>1, <2>3
  <2>5. QED
    BY <1>13, <2>4 DEF m
<1>19. \A k \in DOMAIN list :
              /\ list[k] \in Eligible
              /\ \A j \in 1 .. k - 1 : list[j] # list[k] /\ Score(list[j]) >= Score(list[k])
              /\ \A c \in Eligible :
                   Score(c) > Score(list[k]) => \E j \in 1 .. k - 1 : list[j] = c
  <2>1. \A k \in 1 .. f : \A j \in 1 .. k - 1 : j \in 1 .. f /\ j < k
    OBVIOUS
  <2>2. QED
    BY <1>8, <1>9, <1>10, <1>12, <2>1
<1>20. QED
  BY <1>18, <1>19 DEF list, n

(* Comparing raises only for two entries, or the new one and another, that *)
(* are equally similar.                                                    *)
LEMMA RaisesForATie ==
  ASSUME TypeInv, LongEnough, ~IsTerms, HeapOfTheBest,
         NEW item \in Item, item.unit \in Eligible, item.score = Score(item.unit),
         item.score > LowestScore, HeapRaises(best, item)
  PROVE  matcher.candidates > 1 /\ Tie
<1> DEFINE n == matcher.candidates
<1>1. /\ n \in Nat \ {0} /\ best \in [1 .. n -> Item] /\ 1 \in 1 .. n
      /\ LowestScore \in 0 .. Whole
      /\ \A p \in 1 .. n :
           /\ best[p].score # 0 <=> best[p].unit # 0
           /\ best[p].score # 0 => best[p].unit \in Eligible /\ best[p].unit < next
                                   /\ best[p].score = Score(best[p].unit)
  BY HeapScores
<1> HIDE DEF n
<1>2. Len(best) = n
  BY <1>1, LenOfList
<1>3. Path(best) \subseteq 1 .. n
  BY <1>1, PathGoesDown
<1>4. item.score # 0 /\ item.unit # 0
  <2>1. item.unit \in DOMAIN candidates
    BY DEF Eligible
  <2>2. item.unit \in 1 .. Len(candidates)
    BY <2>1, CandidatesAreUnits
  <2>3. item.score \in Int
    BY DEF Item
  <2>4. QED
    BY <1>1, <2>2, <2>3
<1>5. ASSUME NEW x, NEW y, ~Comparable(x, y),
             x.score # 0 => x.unit # 0 /\ x.unit \in Eligible /\ x.score = Score(x.unit),
             y.score # 0 => y.unit # 0 /\ y.unit \in Eligible /\ y.score = Score(y.unit),
             x.score = 0 => x.unit = 0, y.score = 0 => y.unit = 0
      PROVE  Tie
  <2>1. x.score = y.score /\ Content(x) # Content(y)
    BY <1>5 DEF Comparable
  <2>2. x.score # 0
    BY <1>5, <2>1 DEF Content
  <2>3. /\ Content(x) = <<candidates[x.unit].source, candidates[x.unit].target>>
        /\ Content(y) = <<candidates[y.unit].source, candidates[y.unit].target>>
    BY <1>5, <2>1, <2>2 DEF Content
  <2>4. x.unit \in Eligible /\ y.unit \in Eligible /\ Score(x.unit) = Score(y.unit)
    BY <1>5, <2>1, <2>2
  <2>5. QED
    BY <2>1, <2>3, <2>4 DEF Tie
<1>6. CASE \E p \in Path(best) :
             2 * p + 1 <= Len(best) /\ ~Comparable(best[2 * p], best[2 * p + 1])
  <2>1. PICK p \in 1 .. n : 2 * p + 1 <= n /\ ~Comparable(best[2 * p], best[2 * p + 1])
    BY <1>2, <1>3, <1>6
  <2>2. 2 * p \in 1 .. n /\ 2 * p + 1 \in 1 .. n /\ n > 1
    BY <1>1, <2>1
  <2>3. Tie
    BY <1>1, <1>5, <2>1, <2>2
  <2>4. QED
    BY <2>2, <2>3 DEF n
<1>7. CASE \E p \in Path(best) \ {1} : p >= Rest(best, item) /\ ~Comparable(item, best[p])
  <2>1. PICK p \in 1 .. n : p # 1 /\ ~Comparable(item, best[p])
    BY <1>3, <1>7
  <2>2. n > 1
    BY <1>1, <2>1
  <2>3. Tie
    BY <1>1, <1>4, <1>5, <2>1
  <2>4. QED
    BY <2>2, <2>3 DEF n
<1>8. QED
  BY <1>6, <1>7 DEF HeapRaises

(* The candidates and the text do not change while the matcher searches.   *)
LEMMA SameTextSameScores ==
  ASSUME UNCHANGED <<matcher, candidates, text>>
  PROVE  /\ \A c : Score(c)' = Score(c)
         /\ Eligible' = Eligible /\ Tie' = Tie /\ IsTerms' = IsTerms
         /\ Ordered' = Ordered /\ LongEnough' = LongEnough
<1>1. \A c : Score(c)' = Score(c)
  BY DEF Score
<1>2. Eligible' = Eligible
  BY <1>1 DEF Eligible
<1>3. Tie' = Tie
  BY <1>1, <1>2 DEF Tie
<1>4. IsTerms' = IsTerms
  BY DEF IsTerms
<1>5. Ordered' = Ordered /\ LongEnough' = LongEnough
  BY <1>4 DEF Ordered, LongEnough
<1>6. QED
  BY <1>1, <1>2, <1>3, <1>4, <1>5

(* One turn of the loop of a memory. *)
LEMMA CompareKeepsTheBest ==
  ASSUME TypeInv, LongEnough, Ordered, ~IsTerms, HeapOfTheBest, NoneIsBetter, Compare
  PROVE  IF pc' = "raised" THEN matcher.candidates > 1 /\ Tie
         ELSE pc' = "comparing" /\ HeapOfTheBest' /\ NoneIsBetter'
<1> DEFINE n == matcher.candidates
           low == matcher.similarity
           min == MinSimilarity
           score == Similarity(text, candidates[next].source, min, matcher.length)
           item == [score |-> score, unit |-> next]
<1>1. /\ n \in Nat \ {0} /\ best \in [1 .. n -> Item] /\ 1 \in 1 .. n
      /\ LowestScore \in 0 .. Whole
      /\ min \in 1 .. Whole /\ low <= min /\ LowestScore <= min
      /\ (min = low \/ min = LowestScore)
      /\ \A p \in 1 .. n :
           /\ best[p].score # 0 <=> best[p].unit # 0
           /\ best[p].score # 0 => best[p].unit \in Eligible /\ best[p].unit < next
                                   /\ best[p].score = Score(best[p].unit)
           /\ LowestScore <= best[p].score
  BY HeapScores
<1>2. UNCHANGED <<matcher, candidates, text>> /\ pc = "comparing"
      /\ next <= Len(candidates) /\ ~TooLong(candidates[next])
  BY DEF Compare
<1>3. /\ \A c : Score(c)' = Score(c)
      /\ Eligible' = Eligible /\ matcher' = matcher /\ text' = text
  BY <1>2, SameTextSameScores
<1>4. next \in DOMAIN candidates /\ next \in Nat \ {0} /\ Len(candidates) \in Nat
      /\ next \in 1 .. Len(candidates)
  <2>1. next \in Nat \ {0} /\ Len(candidates) \in Nat /\ DOMAIN candidates = 1 .. Len(candidates)
    BY DEF HeapOfTheBest, TypeInv
  <2>2. QED
    BY <1>2, <2>1
<1>5. Len(candidates[next].source) <= matcher.length
  <2>1. ~(Len(candidates[next].source) > matcher.length)
    BY <1>2 DEF TooLong
  <2>2. Len(candidates[next].source) \in Nat /\ matcher.length \in Nat
    BY <1>4, CandidatesAreUnits, MemoryIsAMatcher
  <2>3. QED
    BY <2>1, <2>2
<1>6. low > 0 /\ low \in Int /\ Whole \in Nat
  BY MemoryIsAMatcher, WholeAssumption DEF HeapOfTheBest
<1>7. /\ Score(next) \in Int /\ Score(next) <= Whole /\ score \in Int /\ score <= Whole
      /\ score >= min => Score(next) = score
      /\ Len(text) <= matcher.length => (Score(next) >= min => score = Score(next))
  <2>1. min \in Int /\ low <= min /\ min <= Whole
    BY <1>1
  <2>2. QED
    BY <1>4, <1>5, <1>6, <2>1, ScoresOfCandidates
<1>8. \A p, q \in 1 .. n : best[p].unit = best[q].unit /\ best[p].unit # 0 => p = q
  BY <1>1 DEF HeapOfTheBest
<1>9. DOMAIN best = 1 .. n
  BY <1>1
<1>10. next \in Eligible <=> Score(next) >= low
  BY <1>4, <1>5 DEF Eligible
<1>11. ASSUME NEW c \in Eligible PROVE c \in Int /\ c # 0 /\ Score(c) \in Int /\ Score(c) <= Whole
  <2>1. c \in DOMAIN candidates /\ Len(candidates[c].source) <= matcher.length
    BY DEF Eligible
  <2>2. c \in 1 .. Len(candidates)
    BY <2>1, CandidatesAreUnits
  <2>3. low <= Whole /\ low <= low
    BY <1>1, <1>6
  <2>4. Score(c) \in Int /\ Score(c) <= Whole
    BY <1>6, <2>1, <2>3, ScoresOfCandidates
  <2>5. QED
    BY <2>2, <2>4
<1>12. ASSUME NEW c \in Eligible, c < next, Len(text) <= matcher.length
       PROVE  Score(c) <= LowestScore \/ \E p \in 1 .. n : best[p].unit = c
  BY <1>9, <1>12 DEF NoneIsBetter
<1>13. IF score < min \/ score <= LowestScore
       THEN next' = next + 1 /\ UNCHANGED <<best, pc>>
       ELSE IF HeapRaises(best, item)
       THEN pc' = "raised" /\ UNCHANGED <<best, next>>
       ELSE /\ best' = HeapReplace(best, item)
            /\ next' = IF best'[1].score >= Whole THEN Len(candidates) + 1 ELSE next + 1
            /\ UNCHANGED pc
  BY DEF Compare
<1>14. matcher.similarity' > 0 /\ DOMAIN candidates' = DOMAIN candidates
  BY <1>2, <1>6
<1> HIDE DEF n, low, min, score
(* The candidate is passed over. *)
<1>15. CASE score < min \/ score <= LowestScore
  <2>1. next' = next + 1 /\ best' = best /\ pc' = pc /\ next' \in Nat \ {0}
    BY <1>4, <1>13, <1>15
  <2>2. HeapOfTheBest'
    <3>1. \A p \in DOMAIN best : IsKept(best[p])'
      <4>1. ASSUME NEW p \in DOMAIN best, best[p] # NoUnit
            PROVE  best[p].unit \in Eligible /\ best[p].score = Score(best[p].unit)
                   /\ best[p].unit < next + 1
        <5>1. /\ best[p].unit \in Eligible /\ best[p].score = Score(best[p].unit)
              /\ best[p].unit < next
          BY <4>1 DEF HeapOfTheBest, IsKept
        <5>2. best[p].unit \in Int
          BY <1>11, <5>1
        <5>3. QED
          BY <1>4, <5>1, <5>2
      <4>2. QED
        BY <1>3, <2>1, <4>1 DEF IsKept
    <3>2. QED
      BY <1>2, <1>14, <2>1, <3>1 DEF HeapOfTheBest
  <2>3. NoneIsBetter'
    <3>1. SUFFICES ASSUME Len(text) <= matcher.length, NEW c \in Eligible, c < next + 1
                   PROVE  Score(c) <= LowestScore \/ \E p \in DOMAIN best : best[p].unit = c
      BY <1>3, <2>1 DEF NoneIsBetter, LowestScore
    <3>2. CASE c < next
      BY <1>9, <1>12, <3>1, <3>2
    <3>3. CASE c = next
      <4>1. Score(next) >= low
        BY <1>10, <3>1, <3>3
      <4>2. Score(next) <= LowestScore
        BY <1>1, <1>6, <1>7, <1>15, <3>1, <4>1
      <4>3. QED
        BY <3>3, <4>2
    <3>4. QED
      BY <1>4, <1>11, <3>1, <3>2, <3>3
  <2>4. QED
    BY <1>2, <2>1, <2>2, <2>3
<1>16. CASE ~(score < min \/ score <= LowestScore)
  <2>1. score >= min /\ score > LowestScore /\ Score(next) = score /\ score \in 0 .. Whole
        /\ score >= low
    BY <1>1, <1>6, <1>7, <1>16
  <2>2. next \in Eligible
    BY <1>10, <2>1
  <2>3. item \in Item /\ item.unit = next /\ item.score = score
    BY <1>4, <2>1 DEF Item
  <2>4. CASE HeapRaises(best, item)
    <3>1. pc' = "raised"
      BY <1>13, <1>16, <2>4
    <3>2. matcher.candidates > 1 /\ Tie
      <4> HIDE DEF item
      <4>1. QED
        BY <2>1, <2>2, <2>3, <2>4, RaisesForATie
    <3>3. QED
      BY <3>1, <3>2
  (* It replaces the worst of the heap. *)
  <2>5. CASE ~HeapRaises(best, item)
    <3> DEFINE from(p) == From(best, item, p)
    <3>1. /\ best' = HeapReplace(best, item)
          /\ next' = IF best'[1].score >= Whole THEN Len(candidates) + 1 ELSE next + 1
          /\ pc' = pc
      BY <1>13, <1>16, <2>5
    <3>2. next < next' /\ next' \in Nat \ {0}
      BY <1>4, <3>1
    <3> HIDE DEF item
    <3>3. /\ best' \in [1 .. n -> Item]
          /\ \A p \in 1 .. n :
               /\ from(p) \in (0 .. n) \ {1}
               /\ best'[p] = IF from(p) = 0 THEN item ELSE best[from(p)]
          /\ \A p, q \in 1 .. n : from(p) = from(q) => p = q
          /\ \A f \in (0 .. n) \ {1} : \E p \in 1 .. n : from(p) = f
      <4>1. n \in Nat \ {0} /\ best \in [1 .. n -> Item] /\ item \in Item
        BY <1>1, <2>3
      <4>2. Replaces(best', best, item, n)
        BY <3>1, <4>1, ReplacesTheRoot
      <4>3. QED
        BY <4>2 DEF Replaces
    <3> HIDE DEF from
    <3>4. IsHeap(best') /\ LowestScore <= best'[1].score
      <4>1. best[1].score <= item.score
        BY <1>1, <2>1, <2>3 DEF LowestScore
      <4>2. QED
        BY <1>1, <2>3, <3>1, <4>1, ReplacingKeepsTheOrder DEF HeapOfTheBest, LowestScore
    <3>5. DOMAIN best' = 1 .. n
      BY <3>3
    <3>6. ASSUME NEW p \in 1 .. n
          PROVE  best'[p] # NoUnit => /\ best'[p].unit \in Eligible /\ best'[p].unit < next'
                                      /\ best'[p].score = Score(best'[p].unit)
      <4>1. CASE from(p) = 0
        BY <2>1, <2>2, <2>3, <3>2, <3>3, <4>1
      <4>2. CASE from(p) # 0
        <5>1. from(p) \in 1 .. n /\ best'[p] = best[from(p)]
          BY <3>3, <4>2
        <5>2. best[from(p)] # NoUnit =>
                /\ best[from(p)].unit \in Eligible /\ best[from(p)].unit < next
                /\ best[from(p)].score = Score(best[from(p)].unit)
          BY <1>9, <5>1 DEF HeapOfTheBest, IsKept
        <5>3. best[from(p)].unit \in Eligible => best[from(p)].unit \in Int
          BY <1>11
        <5>4. QED
          BY <1>4, <3>2, <5>1, <5>2, <5>3
      <4>3. QED
        BY <4>1, <4>2
    <3>7. ASSUME NEW p \in 1 .. n, NEW q \in 1 .. n,
                 best'[p].unit = best'[q].unit, best'[p].unit # 0
          PROVE  p = q
      <4>1. ASSUME NEW r \in 1 .. n, best'[r].unit # 0, from(r) # 0
            PROVE  from(r) \in 1 .. n /\ best'[r] = best[from(r)] /\ best[from(r)].unit < next
        <5>1. from(r) \in 1 .. n /\ best'[r] = best[from(r)]
          BY <3>3, <4>1
        <5>2. best[from(r)].unit < next
          BY <1>1, <4>1, <5>1
        <5>3. QED
          BY <5>1, <5>2
      <4>2. CASE from(p) = 0 /\ from(q) = 0
        BY <3>3, <4>2
      <4>3. CASE from(p) # 0 /\ from(q) # 0
        <5>1. from(p) = from(q)
          BY <1>8, <3>7, <4>1, <4>3
        <5>2. QED
          BY <3>3, <5>1
      <4>4. ASSUME NEW r \in 1 .. n, NEW s \in 1 .. n, best'[r].unit = best'[s].unit,
                   best'[r].unit # 0, from(r) = 0, from(s) # 0
            PROVE  FALSE
        <5>1. best'[r].unit = next /\ best'[s].unit < next
          BY <2>3, <3>3, <4>1, <4>4
        <5>2. QED
          BY <1>4, <4>4, <5>1
      <4>5. QED
        BY <3>7, <4>2, <4>3, <4>4
    <3>8. HeapOfTheBest'
      <4>1. \A p \in DOMAIN best' : IsKept(best[p])'
        BY <1>3, <3>5, <3>6 DEF IsKept
      <4>2. \A p, q \in DOMAIN best' : best'[p].unit = best'[q].unit /\ best'[p].unit # 0 => p = q
        BY <3>5, <3>7
      <4>3. best' \in [1 .. matcher'.candidates -> Item]
        BY <1>3, <3>3 DEF n
      <4>4. QED
        BY <1>14, <3>2, <3>4, <4>1, <4>2, <4>3 DEF HeapOfTheBest, IsKept
    <3>9. NoneIsBetter'
      <4>1. SUFFICES ASSUME Len(text) <= matcher.length, NEW c \in Eligible, c < next'
                     PROVE  Score(c) <= best'[1].score \/ \E p \in 1 .. n : best'[p].unit = c
        BY <1>3, <3>5 DEF NoneIsBetter, LowestScore
      <4>2. /\ c \in Int /\ c # 0 /\ Score(c) \in Int /\ Score(c) <= Whole
            /\ LowestScore \in Int /\ best'[1].score \in Int
        <5>1. best'[1].score \in Int
          BY <1>1, <3>3 DEF Item
        <5>2. QED
          BY <1>1, <1>11, <5>1
      <4>3. CASE c < next
        <5>1. CASE Score(c) <= LowestScore
          BY <3>4, <4>2, <5>1
        <5>2. ASSUME NEW p \in 1 .. n, best[p].unit = c
              PROVE  Score(c) <= best'[1].score \/ \E q \in 1 .. n : best'[q].unit = c
          <6>1. CASE p = 1
            <7>1. Score(c) = best[1].score
              BY <1>1, <4>2, <5>2, <6>1
            <7>2. QED
              BY <3>4, <7>1 DEF LowestScore
          <6>2. CASE p # 1
            <7>1. PICK q \in 1 .. n : from(q) = p
              BY <3>3, <6>2
            <7>2. best'[q] = best[p]
              BY <3>3, <7>1
            <7>3. QED
              BY <5>2, <7>2
          <6>3. QED
            BY <6>1, <6>2
        <5>3. QED
          BY <1>12, <4>1, <4>3, <5>1, <5>2
      <4>4. CASE c = next
        <5>1. PICK q \in 1 .. n : from(q) = 0
          BY <1>1, <3>3
        <5>2. best'[q] = item
          BY <3>3, <5>1
        <5>3. QED
          BY <2>3, <4>4, <5>2
      <4>5. CASE next < c
        <5>1. best'[1].score >= Whole
          BY <1>4, <3>1, <4>1, <4>2, <4>5
        <5>2. QED
          BY <1>6, <4>2, <5>1
      <4>6. QED
        BY <1>4, <4>2, <4>3, <4>4, <4>5
    <3>10. QED
      BY <1>2, <3>1, <3>8, <3>9
  <2>6. QED
    BY <2>4, <2>5
<1>17. QED
  BY <1>15, <1>16

-----------------------------------------------------------------------------
(* Terms.                                                                  *)

(* A term that is in a text is no longer than the text. *)
LEMMA FirstPlace ==
  ASSUME NEW t \in Text, NEW length \in Nat, NEW term \in Text, Len(term) > 0
  PROVE  LET cut == SubSeq(t, 1, Min({Len(t), length}))
             places == {i \in 1 .. Len(cut) - Len(term) + 1 :
                          SubSeq(cut, i, i + Len(term) - 1) = term}
             place == IF places = {} THEN 0 ELSE Min(places)
         IN place \in Nat /\ (place # 0 => Len(term) <= Len(t))
<1> DEFINE m == Min({Len(t), length})
           cut == SubSeq(t, 1, m)
           places == {i \in 1 .. Len(cut) - Len(term) + 1 :
                        SubSeq(cut, i, i + Len(term) - 1) = term}
           place == IF places = {} THEN 0 ELSE Min(places)
<1>1. Len(t) \in Nat /\ Len(term) \in Nat /\ t \in Seq(Characters)
  BY DEF Text
<1>2. m \in Nat /\ m <= Len(t)
  BY <1>1, MinIsLeast
<1>3. Len(cut) = m
  <2> HIDE DEF m
  <2>1. QED
    BY <1>1, <1>2
<1>4. places \in SUBSET (1 .. Len(cut) - Len(term) + 1)
  OBVIOUS
<1> HIDE DEF places, cut, m
<1>5. CASE places = {}
  BY <1>5 DEF places, cut, m
<1>6. CASE places # {}
  <2>1. places \in SUBSET Nat
    BY <1>1, <1>2, <1>3, <1>4
  <2>2. Min(places) \in places
    BY <1>6, <2>1, MinIsLeast
  <2>3. Min(places) \in 1 .. m - Len(term) + 1
    BY <1>3, <1>4, <2>2
  <2>4. place = Min(places)
    BY <1>6
  <2> HIDE DEF place
  <2>5. place \in Nat /\ (place # 0 => Len(term) <= Len(t))
    BY <1>1, <1>2, <2>3, <2>4
  <2>6. QED
    BY <2>5 DEF place, places, cut, m
<1>7. QED
  BY <1>5, <1>6

(* A term that the matcher finds in the text is no longer than the text.   *)
LEMMA PlaceOfATerm ==
  ASSUME text \in Text, matcher.length \in Nat, NEW term \in Text, Len(term) > 0
  PROVE  Place(term) \in Nat /\ (Place(term) # 0 => Len(term) <= Len(text))
BY FirstPlace DEF Place

(* Every term ends after it starts.                                        *)
LEMMA StartAndEnd ==
  ASSUME TypeInv, LongEnough, NEW c \in DOMAIN candidates
  PROVE  /\ Start(c) \in Nat /\ End(c) \in Nat /\ Start(c) < End(c)
         /\ Start(c) # 0 => Len(candidates[c].source) <= Len(text)
<1>1. candidates[c].source \in Text /\ Len(candidates[c].source) \in Nat
  BY CandidatesAreUnits
<1>2. Len(candidates[c].source) > 0
  BY <1>1 DEF LongEnough
<1>3. text \in Text /\ matcher.length \in Nat
  BY MemoryIsAMatcher DEF TypeInv
<1>4. Start(c) \in Nat /\ (Start(c) # 0 => Len(candidates[c].source) <= Len(text))
  BY <1>1, <1>2, <1>3, PlaceOfATerm DEF Start
<1>5. QED
  BY <1>1, <1>2, <1>4 DEF End

(* The terms that are found are sorted by their place. *)
LEMMA InOrderIsSorted ==
  ASSUME TypeInv, LongEnough, found \in Seq(DOMAIN candidates)
  PROVE  /\ InOrder \in Seq(DOMAIN candidates)
         /\ Range(InOrder) = Range(found)
         /\ \A j, k \in 1 .. Len(InOrder) : j < k => Start(InOrder[j]) <= Start(InOrder[k])
<1> DEFINE D == DOMAIN candidates
           length(list) == [i \in DOMAIN list |-> -Len(candidates[list[i]].source)]
           place(list) == [i \in DOMAIN list |-> Place(candidates[list[i]].source)]
           ordered == SortedBy(found, length(found))
           n == Len(found)
           first == Order(length(found))
           second == Order(place(ordered))
<1>1. InOrder = SortedBy(ordered, place(ordered))
  BY DEF InOrder
<1>2. n \in Nat /\ DOMAIN found = 1 .. n /\ \A i \in 1 .. n : found[i] \in D
  OBVIOUS
<1>3. \A c \in D : Start(c) \in Int /\ -Len(candidates[c].source) \in Int
  <2>1. \A c \in D : Start(c) \in Int
    BY StartAndEnd
  <2>2. \A c \in D : Len(candidates[c].source) \in Int
    BY CandidatesAreUnits
  <2>3. QED
    BY <2>1, <2>2
<1>4. length(found) \in [1 .. n -> Int]
  BY <1>2, <1>3
<1> HIDE DEF length, D
<1>5. /\ ordered = [k \in 1 .. n |-> found[first[k]]]
      /\ ordered \in Seq(D) /\ Len(ordered) = n
      /\ first \in [1 .. n -> 1 .. n]
      /\ \A i \in 1 .. n : \E k \in 1 .. n : first[k] = i
  <2>1. found \in Seq(D)
    BY DEF D
  <2>2. QED
    BY <1>4, <2>1, SortedByItsKey
<1> HIDE DEF n, ordered, first
<1>6. DOMAIN ordered = 1 .. n /\ \A k \in 1 .. n : ordered[k] = found[first[k]] /\ ordered[k] \in D
  BY <1>2, <1>5
<1>7. place(ordered) \in [1 .. n -> Int] /\ \A i \in 1 .. n : place(ordered)[i] = Start(ordered[i])
  BY <1>3, <1>6 DEF Start
<1> HIDE DEF place
<1>8. /\ InOrder = [k \in 1 .. n |-> ordered[second[k]]]
      /\ InOrder \in Seq(D) /\ Len(InOrder) = n
      /\ second \in [1 .. n -> 1 .. n]
      /\ \A i \in 1 .. n : \E k \in 1 .. n : second[k] = i
      /\ \A k, l \in 1 .. n : k < l => Precedes(place(ordered), second[k], second[l])
  <2> DEFINE key == place(ordered)
  <2>1. key \in [1 .. Len(ordered) -> Int] /\ ordered \in Seq(D)
    BY <1>5, <1>7
  <2> HIDE DEF key
  <2>2. /\ SortedBy(ordered, key) = [k \in 1 .. Len(ordered) |-> ordered[Order(key)[k]]]
        /\ SortedBy(ordered, key) \in Seq(D) /\ Len(SortedBy(ordered, key)) = Len(ordered)
        /\ Order(key) \in [1 .. Len(ordered) -> 1 .. Len(ordered)]
        /\ \A i \in 1 .. Len(ordered) : \E k \in 1 .. Len(ordered) : Order(key)[k] = i
        /\ \A k, l \in 1 .. Len(ordered) : k < l => Precedes(key, Order(key)[k], Order(key)[l])
    BY <2>1, SortedByItsKey
  <2>3. QED
    BY <1>1, <1>5, <2>2 DEF key
<1> HIDE DEF second
<1>9. DOMAIN InOrder = 1 .. n /\ \A k \in 1 .. n : InOrder[k] = found[first[second[k]]]
                                                  /\ InOrder[k] = ordered[second[k]]
  BY <1>5, <1>6, <1>8
<1>10. \A x : x \in Range(InOrder) <=> x \in Range(found)
  <2>1. ASSUME NEW k \in 1 .. n PROVE InOrder[k] \in Range(found)
    <3>1. InOrder[k] = found[first[second[k]]] /\ first[second[k]] \in 1 .. n
      BY <1>5, <1>8, <1>9
    <3>2. QED
      BY <1>2, <3>1 DEF Range
  <2>2. ASSUME NEW i \in 1 .. n PROVE found[i] \in Range(InOrder)
    <3>1. PICK k \in 1 .. n : first[k] = i
      BY <1>5
    <3>2. PICK l \in 1 .. n : second[l] = k
      BY <1>8
    <3>3. InOrder[l] = found[i]
      BY <1>9, <3>1, <3>2
    <3>4. QED
      BY <1>9, <3>3 DEF Range
  <2>3. QED
    BY <1>2, <1>9, <2>1, <2>2 DEF Range
<1>11. ASSUME NEW j \in 1 .. n, NEW k \in 1 .. n, j < k
       PROVE  Start(InOrder[j]) <= Start(InOrder[k])
  <2>1. Precedes(place(ordered), second[j], second[k]) /\ second[j] \in 1 .. n /\ second[k] \in 1 .. n
    BY <1>8, <1>11
  <2>2. place(ordered)[second[j]] <= place(ordered)[second[k]]
    BY <1>7, <2>1 DEF Precedes
  <2>3. QED
    BY <1>7, <1>9, <2>1, <2>2
<1>12. QED
  BY <1>8, <1>10, <1>11 DEF D

(* A concatenation has the items of both lists.                            *)
LEMMA ConcatenatedItems ==
  ASSUME NEW D, NEW s \in Seq(D), NEW t \in Seq(D)
  PROVE  s \o t \in Seq(D) /\ Range(s \o t) = Range(s) \cup Range(t)
<1>1. /\ s \o t \in Seq(D) /\ Len(s) \in Nat /\ Len(t) \in Nat
      /\ DOMAIN s = 1 .. Len(s) /\ DOMAIN t = 1 .. Len(t) /\ DOMAIN (s \o t) = 1 .. Len(s) + Len(t)
      /\ \A i \in 1 .. Len(s) + Len(t) :
           (s \o t)[i] = IF i <= Len(s) THEN s[i] ELSE t[i - Len(s)]
  OBVIOUS
<1> DEFINE u == s \o t
<1> HIDE DEF u
<1>2. ASSUME NEW i \in 1 .. Len(s) + Len(t) PROVE u[i] \in Range(s) \cup Range(t)
  <2>1. CASE i <= Len(s)
    BY <1>1, <2>1 DEF Range, u
  <2>2. CASE ~(i <= Len(s))
    <3>1. i - Len(s) \in 1 .. Len(t) /\ u[i] = t[i - Len(s)]
      BY <1>1, <2>2 DEF u
    <3>2. QED
      BY <1>1, <3>1 DEF Range
  <2>3. QED
    BY <2>1, <2>2
<1>3. ASSUME NEW i \in 1 .. Len(s) PROVE s[i] \in Range(u)
  <2>1. i \in 1 .. Len(s) + Len(t) /\ u[i] = s[i]
    BY <1>1 DEF u
  <2>2. QED
    BY <1>1, <2>1 DEF Range, u
<1>4. ASSUME NEW i \in 1 .. Len(t) PROVE t[i] \in Range(u)
  <2>1. i + Len(s) \in 1 .. Len(s) + Len(t) /\ u[i + Len(s)] = t[i]
    BY <1>1 DEF u
  <2>2. QED
    BY <1>1, <2>1 DEF Range, u
<1>5. \A x : x \in Range(u) <=> x \in Range(s) \cup Range(t)
  BY <1>1, <1>2, <1>3, <1>4 DEF Range, u
<1>6. QED
  BY <1>1, <1>5 DEF u

(* The terms picked so far: none overlaps with another of other words, all *)
(* end by lastend, where a term of those looked at ends, and each of those *)
(* overlaps with one that is picked.                                       *)
PickedOf(picked, terms, k) ==
  /\ picked.list \in Seq(DOMAIN candidates) /\ picked.lastend \in Nat
  /\ \A c \in Range(picked.list) : End(c) <= picked.lastend
  /\ \A c, d \in Range(picked.list) : Overlap(c, d) => Start(c) = Start(d) /\ End(c) = End(d)
  /\ \A i \in 1 .. k : \E c \in Range(picked.list) : Overlap(terms[i], c)
  /\ picked.lastend # 0 => \E i \in 1 .. k : terms[i] \in Range(picked.list)
                                              /\ End(terms[i]) = picked.lastend

(* The others of a term have its place and end.                            *)
LEMMA SameWords ==
  ASSUME NEW D, NEW terms \in Seq(D), NEW c
  PROVE  /\ Same(c, terms) \in Seq(D)
         /\ \A d \in Range(Same(c, terms)) : Start(d) = Start(c) /\ End(d) = End(c)
<1> DEFINE set == {d \in Range(terms) : d # c /\ Start(d) = Start(c) /\ End(d) = End(c)}
           same == Select(terms, set)
<1>1. Same(c, terms) = same
  BY DEF Same
<1>2. \A d \in set : Start(d) = Start(c) /\ End(d) = End(c)
  OBVIOUS
<1> HIDE DEF set
<1>3. SelectsFirst(same, terms, Len(terms), set, D)
  BY SelectSelects
<1>4. same \in Seq(D)
  BY <1>3 DEF SelectsFirst
<1>5. ASSUME NEW i \in 1 .. Len(same) PROVE same[i] \in set
  <2>1. same[i] \in D
    BY <1>4
  <2>2. QED
    BY <1>3, <2>1 DEF SelectsFirst
<1> HIDE DEF same
<1>6. DOMAIN same = 1 .. Len(same)
  BY <1>4
<1>7. QED
  BY <1>1, <1>2, <1>4, <1>5, <1>6 DEF Range

(* What is picked of terms in the order of their places. *)
LEMMA PickedTerms ==
  ASSUME TypeInv, LongEnough, NEW terms \in Seq(DOMAIN candidates),
         \A j, k \in 1 .. Len(terms) : j < k => Start(terms[j]) <= Start(terms[k]),
         \A i \in 1 .. Len(terms) : Start(terms[i]) # 0
  PROVE  /\ Picked(terms) \in Seq(DOMAIN candidates)
         /\ \A c, d \in Range(Picked(terms)) :
              Overlap(c, d) => Start(c) = Start(d) /\ End(c) = End(d)
         /\ \A i \in 1 .. Len(terms) : \E c \in Range(Picked(terms)) : Overlap(terms[i], c)
<1> DEFINE n == Len(terms)
           D == DOMAIN candidates
           S == [list : Seq(D), lastend : Nat]
           base == [list |-> << >>, lastend |-> 0]
           Added(k, x) == [list |-> x.list \o <<terms[k]>> \o Same(terms[k], terms),
                           lastend |-> End(terms[k])]
           Turn(k, x) == IF Start(terms[k]) < x.lastend THEN x ELSE Added(k, x)
           step == [k \in 1 .. n |-> [x \in S |-> Turn(k, x)]]
           Body(f) == [k \in 0 .. n |-> IF k = 0 THEN base ELSE Turn(k, f[k - 1])]
           picked == CHOOSE f : f = Body(f)
<1>1. n \in Nat /\ base \in S /\ \A k \in 1 .. n : terms[k] \in D
  OBVIOUS
<1>2. Picked(terms) = picked[n].list
  BY DEF Picked
<1>3. ASSUME NEW k \in 1 .. n
      PROVE  /\ Start(terms[k]) \in Nat /\ End(terms[k]) \in Nat /\ Start(terms[k]) < End(terms[k])
             /\ Start(terms[k]) # 0
  BY <1>1, StartAndEnd
<1>4. ASSUME NEW k \in 1 .. n, NEW x \in S
      PROVE  /\ Added(k, x) \in S
             /\ Added(k, x).lastend = End(terms[k])
             /\ Range(Added(k, x).list) =
                  Range(x.list) \cup ({terms[k]} \cup Range(Same(terms[k], terms)))
  <2> DEFINE old == x.list
             one == <<terms[k]>>
             same == Same(terms[k], terms)
             longer == old \o one
  <2>1. old \in Seq(D) /\ one \in Seq(D) /\ Range(one) = {terms[k]}
    BY <1>1 DEF Range
  <2>2. same \in Seq(D)
    BY SameWords
  <2>3. Added(k, x) = [list |-> longer \o same, lastend |-> End(terms[k])]
    OBVIOUS
  <2> HIDE DEF old, one, same, D
  <2>4. longer \in Seq(D) /\ Range(longer) = Range(old) \cup Range(one)
    BY <2>1, ConcatenatedItems
  <2> HIDE DEF longer
  <2>5. longer \o same \in Seq(D) /\ Range(longer \o same) = Range(longer) \cup Range(same)
    BY <2>2, <2>4, ConcatenatedItems
  <2> DEFINE all == longer \o same
  <2> HIDE DEF all, Added
  <2>6. Added(k, x) = [list |-> all, lastend |-> End(terms[k])]
    BY <2>3 DEF all
  <2>7. all \in Seq(D) /\ Range(all) = (Range(old) \cup {terms[k]}) \cup Range(same)
    BY <2>1, <2>4, <2>5 DEF all
  <2>8. End(terms[k]) \in Nat
    BY <1>3
  <2>9. QED
    BY <2>6, <2>7, <2>8 DEF old, same
<1> HIDE DEF n, D, S, base, Added
<1>5. step \in Turns(n, S)
  BY <1>4 DEF Turns
<1>6. PICK f \in [0 .. n -> S] : f[0] = base /\ \A k \in 1 .. n : f[k] = step[k][f[k - 1]]
  <2> HIDE DEF step
  <2>1. Runs(n, S, base, step) # {}
    BY <1>1, <1>5, TurnRecursion
  <2>2. QED
    BY <2>1 DEF Runs
<1>7. f = Body(f)
  <2>1. ASSUME NEW k \in 1 .. n PROVE f[k] = Turn(k, f[k - 1])
    <3>1. f[k - 1] \in S
      BY <1>1, <1>6
    <3>2. QED
      BY <1>6, <3>1
  <2> HIDE DEF Turn
  <2>2. QED
    BY <1>1, <1>6, <2>1
<1>8. picked = Body(picked)
  <2> HIDE DEF Body
  <2>1. QED
    BY <1>7
<1> HIDE DEF picked
<1>9. picked[0] = base /\ \A k \in 1 .. n : picked[k] = Turn(k, picked[k - 1])
  <2>1. \A k \in 0 .. n : picked[k] = IF k = 0 THEN base ELSE Turn(k, picked[k - 1])
    BY <1>8
  <2> HIDE DEF Body, Turn
  <2>2. QED
    BY <1>1, <2>1
<1> DEFINE Good == {k \in 0 .. n : picked[k] \in S /\ PickedOf(picked[k], terms, k)}
<1>10. 0 \in Good
  <2>1. Range(<< >>) = {}
    BY DEF Range
  <2>2. base.list = << >> /\ base.lastend = 0 /\ << >> \in Seq(D)
    BY DEF base
  <2>3. PickedOf(base, terms, 0)
    BY <2>1, <2>2 DEF PickedOf, D
  <2>4. QED
    BY <1>1, <1>9, <2>3
<1>11. ASSUME NEW k \in 1 .. n, k - 1 \in Good PROVE k \in Good
  <2> DEFINE x == picked[k - 1]
             t == terms[k]
  <2>1. x \in S /\ PickedOf(x, terms, k - 1) /\ k - 1 \in 0 .. n
    BY <1>11
  <2>2. picked[k] = IF Start(t) < x.lastend THEN x ELSE Added(k, x)
    BY <1>9
  <2>3. /\ Start(t) \in Nat /\ End(t) \in Nat /\ Start(t) < End(t) /\ Start(t) # 0 /\ t \in D
    BY <1>1, <1>3
  <2>4. \A i \in 1 .. k : i \in 1 .. k - 1 \/ i = k
    BY <1>1
  <2>5. x.list \in Seq(D) /\ x.lastend \in Nat
    BY <2>1 DEF PickedOf, D
  <2>6. \A c \in Range(x.list) : c \in D
    BY <2>5 DEF Range
  <2> HIDE DEF x
  <2>7. CASE Start(t) < x.lastend
    <3>1. picked[k] = x
      BY <2>2, <2>7
    <3>2. PICK i \in 1 .. k - 1 : terms[i] \in Range(x.list) /\ End(terms[i]) = x.lastend
      BY <2>1, <2>3, <2>5, <2>7 DEF PickedOf
    <3>3. Start(terms[i]) <= Start(t) /\ Start(terms[i]) \in Nat
      <4>1. i \in 1 .. n /\ i < k
        BY <1>1
      <4>2. QED
        BY <1>3, <4>1 DEF n
    <3>4. Overlap(t, terms[i])
      BY <2>3, <2>5, <2>7, <3>2, <3>3 DEF Overlap
    <3>5. \A j \in 1 .. k : \E c \in Range(x.list) : Overlap(terms[j], c)
      BY <2>1, <2>4, <3>2, <3>4 DEF PickedOf
    <3>6. x.lastend # 0 => \E j \in 1 .. k : terms[j] \in Range(x.list) /\ End(terms[j]) = x.lastend
      <4>1. i \in 1 .. k
        OBVIOUS
      <4>2. QED
        BY <3>2, <4>1
    <3>7. PickedOf(x, terms, k)
      BY <2>1, <3>5, <3>6 DEF PickedOf
    <3>8. QED
      BY <2>1, <3>1, <3>7
  <2>8. CASE ~(Start(t) < x.lastend)
    <3> DEFINE y == Added(k, x)
               new == {t} \cup Range(Same(t, terms))
    <3>1. picked[k] = y
      BY <2>2, <2>8
    <3>2. y \in S /\ y.lastend = End(t) /\ Range(y.list) = Range(x.list) \cup new
      BY <1>4, <2>1
    <3>3. \A c \in new : Start(c) = Start(t) /\ End(c) = End(t)
      BY SameWords
    <3>4. t \in new
      OBVIOUS
    <3> HIDE DEF new, y
    <3>5. ASSUME NEW c \in Range(x.list)
          PROVE  End(c) \in Nat /\ Start(c) \in Nat /\ End(c) <= x.lastend /\ End(c) <= Start(t)
      <4>1. End(c) \in Nat /\ Start(c) \in Nat
        BY <2>6, StartAndEnd DEF D
      <4>2. End(c) <= x.lastend
        BY <2>1 DEF PickedOf
      <4>3. QED
        BY <2>3, <2>5, <2>8, <4>1, <4>2
    <3>6. \A c \in Range(y.list) : End(c) <= y.lastend
      <4>1. \A c \in Range(x.list) : End(c) <= End(t)
        BY <2>3, <3>5
      <4>2. \A c \in new : End(c) <= End(t)
        BY <2>3, <3>3
      <4>3. QED
        BY <3>2, <4>1, <4>2
    <3>7. ASSUME NEW c \in Range(y.list), NEW d \in Range(y.list), Overlap(c, d)
          PROVE  Start(c) = Start(d) /\ End(c) = End(d)
      <4>1. CASE c \in Range(x.list) /\ d \in Range(x.list)
        BY <2>1, <3>7, <4>1 DEF PickedOf
      <4>2. CASE c \in new /\ d \in new
        BY <3>3, <4>2
      <4>3. CASE c \in Range(x.list) /\ d \in new
        <5>1. End(c) <= Start(d) /\ Start(d) < End(c)
          BY <3>3, <3>5, <3>7, <4>3 DEF Overlap
        <5>2. QED
          BY <2>3, <3>3, <3>5, <4>3, <5>1
      <4>4. CASE c \in new /\ d \in Range(x.list)
        <5>1. End(d) <= Start(c) /\ Start(c) < End(d)
          BY <3>3, <3>5, <3>7, <4>4 DEF Overlap
        <5>2. QED
          BY <2>3, <3>3, <3>5, <4>4, <5>1
      <4>5. QED
        BY <3>2, <4>1, <4>2, <4>3, <4>4
    <3>8. Overlap(t, t)
      BY <2>3 DEF Overlap
    <3>9. \A j \in 1 .. k : \E c \in Range(y.list) : Overlap(terms[j], c)
      BY <2>1, <2>4, <3>2, <3>4, <3>8 DEF PickedOf
    <3>10. \E j \in 1 .. k : terms[j] \in Range(y.list) /\ End(terms[j]) = y.lastend
      <4>1. k \in 1 .. k
        BY <1>1
      <4>2. QED
        BY <3>2, <3>4, <4>1
    <3>11. y.list \in Seq(DOMAIN candidates) /\ y.lastend \in Nat
      BY <3>2 DEF S, D
    <3>12. PickedOf(y, terms, k)
      BY <3>6, <3>7, <3>9, <3>10, <3>11 DEF PickedOf
    <3>13. QED
      BY <3>1, <3>2, <3>12
  <2>9. QED
    BY <2>7, <2>8
<1>12. n \in Good
  <2> HIDE DEF Good
  <2>1. 0 .. n \subseteq Good
    BY <1>1, <1>10, <1>11, TurnInduction
  <2>2. QED
    BY <1>1, <2>1
<1>13. PickedOf(picked[n], terms, n)
  BY <1>12
<1>14. QED
  BY <1>2, <1>13 DEF PickedOf, n

-----------------------------------------------------------------------------
(* What is remembered.                                                     *)

(* Sorting keeps the units and puts them in the order of their lengths.    *)
LEMMA SortedUnits ==
  ASSUME NEW units \in Seq(Unit)
  PROVE  /\ Sorted(units) \in Seq(Unit)
         /\ \A c \in DOMAIN Sorted(units) : Sorted(units)[c] \in Range(units)
         /\ \A c, d \in DOMAIN Sorted(units) : c < d =>
              IF IsTerms THEN Len(Sorted(units)[c].source) >= Len(Sorted(units)[d].source)
              ELSE Len(Sorted(units)[c].source) <= Len(Sorted(units)[d].source)
<1> DEFINE n == Len(units)
           key == [i \in DOMAIN units |-> IF IsTerms THEN -Len(units[i].source)
                                          ELSE Len(units[i].source)]
           order == Order(key)
           sorted == Sorted(units)
<1>1. n \in Nat /\ DOMAIN units = 1 .. n /\ \A i \in 1 .. n : units[i] \in Unit
  OBVIOUS
<1>2. \A i \in 1 .. n : Len(units[i].source) \in Nat
  <2>1. ASSUME NEW i \in 1 .. n PROVE Len(units[i].source) \in Nat
    <3>1. units[i].source \in Seq(Characters)
      BY <1>1 DEF Unit, Text
    <3>2. QED
      BY <3>1
  <2>2. QED
    BY <2>1
<1>3. key \in [1 .. n -> Int]
  BY <1>1, <1>2
<1>4. \A i \in 1 .. n : key[i] = IF IsTerms THEN -Len(units[i].source) ELSE Len(units[i].source)
  BY <1>1
<1>5. sorted = SortedBy(units, key)
  BY DEF Sorted
<1> HIDE DEF key, sorted
<1>6. /\ sorted = [k \in 1 .. n |-> units[order[k]]]
      /\ sorted \in Seq(Unit) /\ Len(sorted) = n
      /\ order \in [1 .. n -> 1 .. n]
      /\ \A k, l \in 1 .. n : k < l => Precedes(key, order[k], order[l])
  BY <1>3, <1>5, SortedByItsKey
<1> HIDE DEF order, n
<1>7. DOMAIN sorted = 1 .. n /\ \A k \in 1 .. n : sorted[k] = units[order[k]]
  BY <1>6
<1>8. \A c \in 1 .. n : sorted[c] \in Range(units)
  BY <1>1, <1>6, <1>7 DEF Range
<1>9. ASSUME NEW c \in 1 .. n, NEW d \in 1 .. n, c < d
      PROVE  IF IsTerms THEN Len(sorted[c].source) >= Len(sorted[d].source)
             ELSE Len(sorted[c].source) <= Len(sorted[d].source)
  <2>1. order[c] \in 1 .. n /\ order[d] \in 1 .. n /\ Precedes(key, order[c], order[d])
    BY <1>6, <1>9
  <2>2. key[order[c]] <= key[order[d]]
    BY <1>3, <2>1 DEF Precedes
  <2> DEFINE lc == Len(units[order[c]].source)
             ld == Len(units[order[d]].source)
  <2>3. lc \in Nat /\ ld \in Nat
    BY <1>2, <2>1
  <2>4. /\ key[order[c]] = IF IsTerms THEN -lc ELSE lc
        /\ key[order[d]] = IF IsTerms THEN -ld ELSE ld
    BY <1>4, <2>1
  <2>5. sorted[c] = units[order[c]] /\ sorted[d] = units[order[d]]
    BY <1>7
  <2> HIDE DEF lc, ld
  <2>6. IF IsTerms THEN lc >= ld ELSE lc <= ld
    BY <2>2, <2>3, <2>4
  <2>7. QED
    BY <2>5, <2>6 DEF lc, ld
<1>10. QED
  BY <1>6, <1>7, <1>8, <1>9 DEF sorted

(* A text with one character replaced is a text.                           *)
LEMMA ReplacedText ==
  ASSUME NEW source \in Text, NEW i \in DOMAIN source, NEW new \in Text
  PROVE  Replaced(source, i, new) \in Text
<1>1. source \in Seq(Characters) /\ new \in Seq(Characters) /\ Len(source) \in Nat /\ i \in 1 .. Len(source)
  BY DEF Text
<1>2. SubSeq(source, 1, i - 1) \in Seq(Characters)
  BY <1>1
<1>3. SubSeq(source, i + 1, Len(source)) \in Seq(Characters)
  BY <1>1
<1>4. QED
  BY <1>1, <1>2, <1>3 DEF Replaced, Text

(* The other spellings of a text are texts.                                *)
LEMMA AlternativeTexts ==
  ASSUME NEW source \in Text
  PROVE  Alternatives(source) \in Seq(Text)
<1> DEFINE one(places, new) ==
             IF Cardinality(places) # 1 THEN << >>
             ELSE << Replaced(source, CHOOSE i \in places : TRUE, new) >>
           last == {i \in DOMAIN source : i = Len(source) /\ source[i] = "y"}
           ending == one(last, <<"i", "e">>)
           closed == one(Gaps(source) \cup Hyphens(source), << >>)
           spaced == one(Hyphens(source), <<" ">>)
           hyphened == one(Gaps(source), <<"-">>)
<1>1. ASSUME NEW places \in SUBSET DOMAIN source, NEW new \in Text
      PROVE  one(places, new) \in Seq(Text)
  <2>1. CASE Cardinality(places) # 1
    BY <2>1
  <2>2. CASE Cardinality(places) = 1
    <3>1. places # {}
      BY <2>2, FS_EmptySet
    <3>2. (CHOOSE i \in places : TRUE) \in DOMAIN source
      BY <3>1
    <3>3. Replaced(source, CHOOSE i \in places : TRUE, new) \in Text
      BY <3>2, ReplacedText
    <3>4. QED
      BY <2>2, <3>3
  <2>3. QED
    BY <2>1, <2>2
<1>2. /\ <<"i", "e">> \in Text /\ << >> \in Text /\ <<" ">> \in Text /\ <<"-">> \in Text
  <2>1. /\ "i" \in Characters /\ "e" \in Characters /\ " " \in Characters
        /\ "-" \in Characters
    BY MatcherAssumption
  <2>2. \A x, y \in Characters : <<x, y>> \in Seq(Characters) /\ <<x>> \in Seq(Characters)
    OBVIOUS
  <2>3. << >> \in Seq(Characters)
    OBVIOUS
  <2>4. QED
    BY <2>1, <2>2, <2>3 DEF Text
<1>3. Gaps(source) \in SUBSET DOMAIN source /\ Hyphens(source) \in SUBSET DOMAIN source
      /\ last \in SUBSET DOMAIN source /\ Gaps(source) \cup Hyphens(source) \in SUBSET DOMAIN source
  BY DEF Gaps, Hyphens
<1>4. Alternatives(source) = ((ending \o closed) \o spaced) \o hyphened
  BY DEF Alternatives
<1> HIDE DEF one, last
<1>5. ending \in Seq(Text) /\ closed \in Seq(Text) /\ spaced \in Seq(Text) /\ hyphened \in Seq(Text)
  BY <1>1, <1>2, <1>3
<1> HIDE DEF ending, closed, spaced, hyphened
<1>6. QED
  BY <1>4, <1>5

(* The other spellings of a term are terms.                                *)
LEMMA RespelledUnits ==
  ASSUME NEW u \in Unit
  PROVE  Respelled(u) \in Seq(Unit)
<1> DEFINE spellings == Alternatives(u.source)
<1>1. spellings \in Seq(Text)
  BY AlternativeTexts DEF Unit
<1>2. Respelled(u) = [k \in DOMAIN spellings |-> [u EXCEPT !.source = spellings[k]]]
  BY DEF Respelled
<1> HIDE DEF spellings
<1>3. Len(spellings) \in Nat /\ DOMAIN spellings = 1 .. Len(spellings)
      /\ \A k \in 1 .. Len(spellings) : spellings[k] \in Text
  BY <1>1
<1>4. \A k \in 1 .. Len(spellings) : [u EXCEPT !.source = spellings[k]] \in Unit
  BY <1>3 DEF Unit
<1>5. Respelled(u) \in [1 .. Len(spellings) -> Unit]
  BY <1>2, <1>3, <1>4
<1>6. QED
  BY <1>3, <1>5, LenOfList

(* The other spellings of all terms, as far as they are usable.            *)
LEMMA ExtraUnits ==
  ASSUME NEW units \in Seq(Unit)
  PROVE  /\ Extras(units) \in Seq(Unit)
         /\ \A u \in Range(Extras(units)) : Usable(u)
<1> DEFINE n == Len(units)
           S == Seq(Unit)
           none == << >>
           Turn(k, x) == x \o Respelled(units[k])
           step == [k \in 1 .. n |-> [x \in S |-> Turn(k, x)]]
           Body(f) == [k \in 0 .. n |-> IF k = 0 THEN none ELSE Turn(k, f[k - 1])]
           extras == CHOOSE f : f = Body(f)
           set == {u \in Unit : Usable(u)}
<1>1. n \in Nat /\ none \in S /\ \A k \in 1 .. n : units[k] \in Unit
  OBVIOUS
<1>2. Extras(units) = Select(extras[n], set)
  BY DEF Extras
<1>3. ASSUME NEW k \in 1 .. n, NEW x \in S PROVE Turn(k, x) \in S
  <2> DEFINE more == Respelled(units[k])
  <2>1. more \in Seq(Unit)
    BY <1>1, RespelledUnits
  <2> HIDE DEF more
  <2>2. x \o more \in Seq(Unit)
    BY <2>1
  <2>3. QED
    BY <2>2 DEF more
<1> HIDE DEF n, S, none, Turn, set
<1>4. step \in Turns(n, S)
  BY <1>3 DEF Turns
<1>5. PICK f \in [0 .. n -> S] : f[0] = none /\ \A k \in 1 .. n : f[k] = step[k][f[k - 1]]
  <2> HIDE DEF step
  <2>1. Runs(n, S, none, step) # {}
    BY <1>1, <1>4, TurnRecursion
  <2>2. QED
    BY <2>1 DEF Runs
<1>6. f = Body(f)
  <2>1. ASSUME NEW k \in 1 .. n PROVE f[k] = Turn(k, f[k - 1])
    <3>1. f[k - 1] \in S
      BY <1>1, <1>5
    <3>2. QED
      BY <1>5, <3>1
  <2>2. QED
    BY <1>1, <1>5, <2>1
<1>7. extras = Body(extras)
  <2> HIDE DEF Body
  <2>1. QED
    BY <1>6
<1> HIDE DEF extras
<1>8. \A k \in 0 .. n : extras[k] = IF k = 0 THEN none ELSE Turn(k, extras[k - 1])
  BY <1>7
<1> HIDE DEF Body
<1> DEFINE Good == {k \in 0 .. n : extras[k] \in S}
<1>9. 0 \in Good
  BY <1>1, <1>8
<1>10. \A k \in 1 .. n : k - 1 \in Good => k \in Good
  BY <1>1, <1>3, <1>8
<1>11. n \in Good
  <2> HIDE DEF Good
  <2>1. 0 .. n \subseteq Good
    BY <1>1, <1>9, <1>10, TurnInduction
  <2>2. QED
    BY <1>1, <2>1
<1>12. extras[n] \in Seq(Unit)
  BY <1>11 DEF S
<1> DEFINE all == extras[n]
           usable == Extras(units)
<1> HIDE DEF all, usable
<1>13. SelectsFirst(usable, all, Len(all), set, Unit)
  BY <1>2, <1>12, SelectSelects DEF all, usable
<1>14. usable \in Seq(Unit) /\ \A i \in 1 .. Len(usable) : usable[i] \in set
  <2>1. usable \in Seq(Unit)
    BY <1>13 DEF SelectsFirst
  <2>2. ASSUME NEW i \in 1 .. Len(usable) PROVE usable[i] \in set
    <3>1. usable[i] \in Unit
      BY <2>1
    <3>2. QED
      BY <1>13, <3>1 DEF SelectsFirst
  <2>3. QED
    BY <2>1, <2>2
<1>15. \A u \in Range(usable) : u \in set
  BY <1>14 DEF Range
<1>16. \A u \in set : Usable(u)
  BY DEF set
<1>17. QED
  BY <1>14, <1>15, <1>16 DEF usable

-----------------------------------------------------------------------------
(* The steps.                                                              *)

(* A matcher that remembers nothing.                                       *)
LEMMA InitIsInvariant == Init => IInv
<1>1. SUFFICES ASSUME Init PROVE IInv
  OBVIOUS
<1>2. TypeInv
  BY <1>1 DEF Init, TypeInv, Text
<1>3. DOMAIN candidates = {}
  BY <1>1 DEF Init
<1>4. LongEnough /\ Ordered
  BY <1>3 DEF LongEnough, Ordered
<1>5. pc = "filling"
  BY <1>1 DEF Init
<1>6. /\ Searching /\ Comparing /\ BestAreFound /\ TermsAreApart /\ OrderedTermsAreFound
  BY <1>5 DEF Searching, Comparing, BestAreFound, TermsAreApart, OrderedTermsAreFound
<1>7. QED
  BY <1>2, <1>4, <1>6 DEF IInv

(* The units that are offered are units, the texts that are asked are      *)
(* texts.                                                                  *)
LEMMA OfferedUnits ==
  ASSUME TypeInv
  PROVE  Units[matcher.kind] \subseteq Unit /\ Texts[matcher.kind] \subseteq Text
<1>1. IsMatcher(matcher)
  BY MatcherAssumption DEF TypeInv
<1>2. QED
  BY <1>1, MatcherAssumption DEF IsMatcher

(* extendtm sorts what it leaves.                                          *)
LEMMA ExtendKeepsTheInvariant ==
  ASSUME IInv, NEW u \in Units[matcher.kind], Extend(u)
  PROVE  IInv'
<1> DEFINE list == IF Usable(u) THEN Append(candidates, u) ELSE candidates
<1>1. TypeInv /\ LongEnough /\ u \in Unit /\ candidates \in Seq(Unit)
  BY OfferedUnits DEF IInv, TypeInv
<1>2. /\ matcher' = matcher /\ IsTerms' = IsTerms
      /\ pc' \in {"filling", "idle"} /\ text' = << >> /\ candidates' = Sorted(list)
  BY DEF Extend, Remember, IsTerms
<1>3. list \in Seq(Unit)
  BY <1>1
<1>4. \A x \in Range(list) : Len(x.source) >= IF IsTerms THEN 3 ELSE 2
  <2> DEFINE least == IF IsTerms THEN 3 ELSE 2
  <2>1. Usable(u) => Len(u.source) >= least
    <3>1. Len(u.source) \in Nat
      BY <1>1 DEF Unit, Text
    <3>2. QED
      BY <3>1 DEF Usable
  <2>2. \A c \in 1 .. Len(candidates) : Len(candidates[c].source) >= least
    BY <1>1 DEF LongEnough
  <2> HIDE DEF least
  <2>3. CASE Usable(u)
    <3>1. list = Append(candidates, u)
      BY <2>3
    <3>2. /\ DOMAIN list = 1 .. Len(candidates) + 1 /\ Len(candidates) \in Nat
          /\ \A c \in 1 .. Len(candidates) + 1 :
               list[c] = IF c <= Len(candidates) THEN candidates[c] ELSE u
      BY <1>1, <3>1
    <3> HIDE DEF list
    <3>3. ASSUME NEW c \in 1 .. Len(candidates) + 1 PROVE Len(list[c].source) >= least
      <4>1. CASE c <= Len(candidates)
        BY <2>2, <3>2, <4>1
      <4>2. CASE ~(c <= Len(candidates))
        BY <2>1, <2>3, <3>2, <4>2
      <4>3. QED
        BY <4>1, <4>2
    <3>4. QED
      BY <3>2, <3>3 DEF Range, least
  <2>4. CASE ~Usable(u)
    <3>1. list = candidates /\ DOMAIN candidates = 1 .. Len(candidates)
      BY <1>1, <2>4
    <3>2. QED
      BY <2>2, <3>1 DEF Range, least
  <2>5. QED
    BY <2>3, <2>4
<1> HIDE DEF list
<1>5. /\ candidates' \in Seq(Unit)
      /\ \A c \in DOMAIN candidates' : candidates'[c] \in Range(list)
      /\ \A c, d \in DOMAIN candidates' : c < d =>
           IF IsTerms THEN Len(candidates'[c].source) >= Len(candidates'[d].source)
           ELSE Len(candidates'[c].source) <= Len(candidates'[d].source)
  BY <1>2, <1>3, SortedUnits
<1>6. TypeInv'
  BY <1>1, <1>2, <1>5 DEF TypeInv, Text
<1>7. LongEnough' /\ Ordered'
  BY <1>2, <1>4, <1>5 DEF LongEnough, Ordered
<1>8. /\ Searching' /\ Comparing' /\ BestAreFound' /\ TermsAreApart' /\ OrderedTermsAreFound'
  BY <1>2 DEF Searching, Comparing, BestAreFound, TermsAreApart, OrderedTermsAreFound
<1>9. QED
  BY <1>6, <1>7, <1>8 DEF IInv

(* The other spellings of terms may end the order, a memory has none.      *)
LEMMA FillKeepsTheInvariant ==
  ASSUME IInv, Fill
  PROVE  IInv'
<1> DEFINE extras == Extras(candidates)
<1>1. TypeInv /\ LongEnough /\ candidates \in Seq(Unit) /\ (~IsTerms => Ordered)
  BY DEF IInv, TypeInv
<1>2. /\ matcher' = matcher /\ IsTerms' = IsTerms /\ pc' = "idle" /\ text' = text
      /\ candidates' = IF IsTerms THEN candidates \o extras ELSE candidates
  BY DEF Fill, IsTerms
<1>3. extras \in Seq(Unit) /\ \A x \in Range(extras) : Usable(x)
  BY <1>1, ExtraUnits
<1> HIDE DEF extras
<1>4. CASE IsTerms
  <2>1. candidates' \in Seq(Unit) /\ Range(candidates') = Range(candidates) \cup Range(extras)
    BY <1>1, <1>2, <1>3, <1>4, ConcatenatedItems
  <2>2. \A x \in Range(candidates) : Len(x.source) >= 3
    BY <1>1, <1>4 DEF LongEnough, Range
  <2>3. ASSUME NEW x \in Range(extras) PROVE Len(x.source) >= 3
    <3>1. x \in Unit
      BY <1>3 DEF Range
    <3>2. Len(x.source) \in Nat
      BY <3>1 DEF Unit, Text
    <3>3. QED
      BY <1>3, <1>4, <3>2 DEF Usable
  <2>4. ASSUME NEW c \in DOMAIN candidates' PROVE Len(candidates'[c].source) >= 3
    <3>1. candidates'[c] \in Range(candidates')
      BY DEF Range
    <3>2. QED
      BY <2>1, <2>2, <2>3, <3>1
  <2>5. LongEnough'
    BY <1>2, <1>4, <2>4 DEF LongEnough
  <2>6. TypeInv'
    BY <1>1, <1>2, <2>1 DEF TypeInv
  <2>7. QED
    BY <1>2, <1>4, <2>5, <2>6
       DEF IInv, Searching, Comparing, BestAreFound, TermsAreApart, OrderedTermsAreFound
<1>5. CASE ~IsTerms
  <2>1. UNCHANGED <<matcher, candidates, text>>
    BY <1>2, <1>5
  <2>2. Ordered' /\ LongEnough'
    BY <1>1, <1>5, <2>1, SameTextSameScores
  <2>3. TypeInv'
    BY <1>1, <1>2, <2>1 DEF TypeInv
  <2>4. QED
    BY <1>2, <2>2, <2>3
       DEF IInv, Searching, Comparing, BestAreFound, TermsAreApart, OrderedTermsAreFound
<1>6. QED
  BY <1>4, <1>5

(* The search begins with all candidates; no term is in a text of two      *)
(* characters.                                                             *)
LEMMA MatchesKeepsTheInvariant ==
  ASSUME IInv, NEW t \in Texts[matcher.kind], Matches(t)
  PROVE  IInv'
<1>1. TypeInv /\ LongEnough /\ (~IsTerms => Ordered) /\ t \in Text
  BY OfferedUnits DEF IInv
<1>2. /\ matcher' = matcher /\ candidates' = candidates /\ IsTerms' = IsTerms /\ text' = t
      /\ pc' = IF IsTerms /\ Len(t) < 3 THEN "answered" ELSE "searching"
      /\ found' = << >> /\ result' = << >>
      /\ best' = [i \in 1 .. matcher.candidates |-> NoUnit]
      /\ startindex' = 0 /\ endindex' = Len(candidates)
  BY DEF Matches, IsTerms
<1>3. TypeInv'
  BY <1>1, <1>2 DEF TypeInv
<1>4. LongEnough' /\ (~IsTerms' => Ordered')
  BY <1>1, <1>2 DEF LongEnough, Ordered
<1>5. Searching'
  <2>1. Len(candidates) \in Nat
    BY <1>1 DEF TypeInv
  <2>2. \A c \in 1 .. 0 : FALSE
    OBVIOUS
  <2>3. QED
    BY <1>2, <2>1, <2>2 DEF Searching
<1>6. Comparing'
  BY <1>2 DEF Comparing
<1>7. BestAreFound'
  BY <1>2 DEF BestAreFound
<1>8. TermsAreApart'
  <2>1. DOMAIN result' = {}
    BY <1>2
  <2>2. QED
    BY <2>1 DEF TermsAreApart
<1>9. OrderedTermsAreFound'
  <2>1. SUFFICES ASSUME IsTerms, Len(t) < 3, NEW c \in DOMAIN candidates
                 PROVE  Start(c)' = 0
    BY <1>2 DEF OrderedTermsAreFound
  <2>2. /\ candidates[c].source \in Text /\ Len(candidates[c].source) \in Nat
        /\ Len(candidates[c].source) >= 3
    BY <1>1, <2>1, CandidatesAreUnits DEF LongEnough
  <2>3. matcher.length \in Nat /\ Len(t) \in Nat
    BY <1>1, MemoryIsAMatcher DEF Text
  <2> DEFINE term == candidates[c].source
             cut == SubSeq(t, 1, Min({Len(t), matcher.length}))
             places == {i \in 1 .. Len(cut) - Len(term) + 1 :
                          SubSeq(cut, i, i + Len(term) - 1) = term}
             place == IF places = {} THEN 0 ELSE Min(places)
  <2>4. Start(c)' = place
    BY <1>2 DEF Start, Place
  <2>5. term \in Text /\ Len(term) > 0
    BY <2>2
  <2>6. Len(term) \in Nat /\ Len(term) >= 3
    BY <2>2
  <2> HIDE DEF term
  <2>7. place \in Nat /\ (place # 0 => Len(term) <= Len(t))
    BY <1>1, <2>3, <2>5, FirstPlace
  <2> HIDE DEF place
  <2>8. QED
    BY <2>1, <2>3, <2>4, <2>6, <2>7
<1>10. QED
  BY <1>3, <1>4, <1>5, <1>6, <1>7, <1>8, <1>9 DEF IInv

(* What comes before one that is passed over is passed over too.           *)
LEMMA BeforeIsADivide ==
  ASSUME TypeInv, LongEnough, Ordered,
         NEW d \in DOMAIN candidates, Before(candidates[d]), NEW c \in DOMAIN candidates, c < d
  PROVE  Before(candidates[c])
<1> DEFINE l == Len(candidates[c].source)
           m == Len(candidates[d].source)
<1>1. l \in Nat /\ m \in Nat /\ Len(text) \in Nat /\ Whole \in Nat /\ matcher.similarity \in Int
  <2>1. l \in Nat /\ m \in Nat
    BY CandidatesAreUnits
  <2>2. Len(text) \in Nat
    BY DEF TypeInv, Text
  <2>3. Whole \in Nat /\ matcher.similarity \in Int
    BY MemoryIsAMatcher, WholeAssumption
  <2>4. QED
    BY <2>1, <2>2, <2>3
<1>2. IF IsTerms THEN l >= m ELSE l <= m
  BY DEF Ordered
<1>3. /\ Before(candidates[d]) <=> IF IsTerms THEN m > Len(text)
                                   ELSE m * Whole < Len(text) * matcher.similarity \/ m < 1
      /\ Before(candidates[c]) <=> IF IsTerms THEN l > Len(text)
                                   ELSE l * Whole < Len(text) * matcher.similarity \/ l < 1
  BY DEF Before
<1> HIDE DEF l, m
<1>4. CASE IsTerms
  BY <1>1, <1>2, <1>3, <1>4
<1>5. CASE ~IsTerms
  <2>1. l * Whole <= m * Whole
    BY <1>1, <1>2, <1>5, MulMonotone
  <2>2. l * Whole \in Int /\ m * Whole \in Int /\ Len(text) * matcher.similarity \in Int
    BY <1>1
  <2>3. QED
    BY <1>1, <1>2, <1>3, <1>5, <2>1, <2>2
<1>6. QED
  BY <1>4, <1>5

(* One turn of the binary search leaves only such as come before behind    *)
(* it.                                                                     *)
LEMMA SearchKeepsTheInvariant ==
  ASSUME IInv, Search
  PROVE  IInv'
<1>1. TypeInv /\ LongEnough /\ (~IsTerms => Ordered) /\ Searching
  BY DEF IInv
<1>2. /\ UNCHANGED <<matcher, candidates, text, pc, best, found>> /\ pc = "searching"
      /\ startindex < endindex
      /\ LET mid == (startindex + endindex) \div 2
         IN IF Before(candidates[mid + 1])
            THEN startindex' = mid + 1 /\ UNCHANGED endindex
            ELSE endindex' = mid /\ UNCHANGED startindex
  BY DEF Search
<1>3. /\ startindex \in Nat /\ endindex \in Nat
      /\ startindex <= endindex /\ endindex <= Len(candidates)
      /\ best = [p \in 1 .. matcher.candidates |-> NoUnit] /\ found = << >>
      /\ Ordered => \A c \in 1 .. startindex : Before(candidates[c])
  BY <1>1, <1>2 DEF Searching
<1>4. Ordered' = Ordered /\ LongEnough' = LongEnough /\ IsTerms' = IsTerms
  BY <1>2, SameTextSameScores
<1>5. \A c : Before(candidates[c])' = Before(candidates[c])
  BY <1>2, <1>4 DEF Before
<1>6. TypeInv'
  BY <1>1, <1>2 DEF TypeInv
<1> DEFINE mid == (startindex + endindex) \div 2
<1>7. mid \in Nat /\ startindex <= mid /\ mid < endindex
  BY <1>2, <1>3
<1>8. IF Before(candidates[mid + 1])
      THEN startindex' = mid + 1 /\ endindex' = endindex
      ELSE endindex' = mid /\ startindex' = startindex
  BY <1>2
<1> HIDE DEF mid
<1>9. Len(candidates) \in Nat /\ DOMAIN candidates = 1 .. Len(candidates)
  BY <1>1 DEF TypeInv
<1>10. /\ startindex' \in Nat /\ endindex' \in Nat
       /\ startindex' <= endindex' /\ endindex' <= Len(candidates)
  BY <1>3, <1>7, <1>8, <1>9
<1>11. ASSUME Ordered, NEW c \in 1 .. startindex' PROVE Before(candidates[c])
  <2>1. CASE Before(candidates[mid + 1])
    <3>1. c \in DOMAIN candidates /\ mid + 1 \in DOMAIN candidates /\ (c = mid + 1 \/ c < mid + 1)
      BY <1>3, <1>7, <1>8, <1>9, <2>1
    <3>2. QED
      BY <1>1, <1>11, <2>1, <3>1, BeforeIsADivide
  <2>2. CASE ~Before(candidates[mid + 1])
    BY <1>3, <1>8, <1>11, <2>2
  <2>3. QED
    BY <2>1, <2>2
<1>12. Searching'
  BY <1>2, <1>3, <1>4, <1>5, <1>10, <1>11 DEF Searching
<1>13. Comparing' /\ BestAreFound' /\ TermsAreApart' /\ OrderedTermsAreFound'
  BY <1>2 DEF Comparing, BestAreFound, TermsAreApart, OrderedTermsAreFound
<1>14. QED
  BY <1>1, <1>4, <1>6, <1>12, <1>13 DEF IInv

(* The loop begins with an empty heap, and what the search passed is not   *)
(* eligible.                                                               *)
LEMMA SearchedKeepsTheInvariant ==
  ASSUME IInv, Searched
  PROVE  IInv'
<1>1. TypeInv /\ LongEnough /\ (~IsTerms => Ordered) /\ Searching
  BY DEF IInv
<1>2. /\ UNCHANGED <<matcher, candidates, text, best, found>> /\ pc = "searching"
      /\ pc' = IF ~IsTerms /\ matcher.similarity = 0 THEN "raised" ELSE "comparing"
      /\ next' = startindex + 1
  BY DEF Searched
<1>3. /\ startindex \in Nat
      /\ best = [p \in 1 .. matcher.candidates |-> NoUnit] /\ found = << >>
      /\ Ordered => \A c \in 1 .. startindex : Before(candidates[c])
  BY <1>1, <1>2 DEF Searching
<1>4. /\ Ordered' = Ordered /\ LongEnough' = LongEnough /\ IsTerms' = IsTerms
      /\ Eligible' = Eligible /\ (\A c : Score(c)' = Score(c)) /\ matcher' = matcher
  BY <1>2, SameTextSameScores
<1>5. TypeInv'
  BY <1>1, <1>2 DEF TypeInv
<1>6. Searching' /\ TermsAreApart' /\ OrderedTermsAreFound'
  BY <1>2 DEF Searching, TermsAreApart, OrderedTermsAreFound
<1>7. BestAreFound'
  BY <1>2, <1>4 DEF BestAreFound
<1>8. next' \in Nat \ {0}
  BY <1>2, <1>3
<1>9. CASE IsTerms
  <2>1. found' \in Seq(DOMAIN candidates') /\ DOMAIN found' = {}
    BY <1>2, <1>3
  <2>2. ASSUME Ordered, NEW c \in DOMAIN candidates, c < next' PROVE Start(c) = 0
    <3>1. c \in 1 .. startindex
      <4>1. c \in 1 .. Len(candidates)
        BY <1>1, CandidatesAreUnits
      <4>2. QED
        BY <1>2, <1>3, <2>2, <4>1
    <3>2. Len(candidates[c].source) > Len(text)
      BY <1>3, <1>9, <2>2, <3>1 DEF Before
    <3>3. Len(candidates[c].source) \in Nat /\ Len(text) \in Nat
      BY <1>1, CandidatesAreUnits DEF TypeInv, Text
    <3>4. Start(c) \in Nat /\ (Start(c) # 0 => Len(candidates[c].source) <= Len(text))
      BY <1>1, StartAndEnd
    <3>5. QED
      BY <3>2, <3>3, <3>4
  <2>3. \A c : Start(c)' = Start(c)
    BY <1>2 DEF Start, Place
  <2>4. TermsOfTheText'
    BY <1>2, <1>4, <1>8, <2>1, <2>2, <2>3 DEF TermsOfTheText
  <2>5. Comparing'
    BY <1>4, <1>9, <2>4 DEF Comparing
  <2>6. QED
    BY <1>1, <1>4, <1>5, <1>6, <1>7, <2>5 DEF IInv
<1>10. CASE ~IsTerms
  <2>1. ASSUME matcher.similarity # 0 PROVE HeapOfTheBest' /\ NoneIsBetter'
    <3> DEFINE n == matcher.candidates
    <3>1. matcher.similarity > 0 /\ Whole \in Nat
      BY <1>1, <2>1, MemoryIsAMatcher, WholeAssumption
    <3>2. best' = [p \in 1 .. n |-> NoUnit] /\ NoUnit \in Item /\ NoUnit.unit = 0 /\ NoUnit.score = 0
      BY <1>2, <1>3, <3>1 DEF NoUnit, Item
    <3> HIDE DEF n
    <3>3. DOMAIN best' = 1 .. n /\ best' \in [1 .. n -> Item] /\ \A p \in 1 .. n : best'[p] = NoUnit
      BY <3>2
    <3>4. IsHeap(best')
      BY <3>2, <3>3 DEF IsHeap
    <3>5. \A p \in DOMAIN best' : IsKept(best[p])'
      BY <3>3 DEF IsKept
    <3>6. \A p, q \in DOMAIN best' : best'[p].unit = best'[q].unit /\ best'[p].unit # 0 => p = q
      BY <3>2, <3>3
    <3>7. HeapOfTheBest'
      BY <1>4, <1>8, <3>1, <3>3, <3>4, <3>5, <3>6 DEF HeapOfTheBest, n
    <3>8. ASSUME Len(text) <= matcher.length, NEW c \in Eligible, c < next' PROVE FALSE
      <4>1. ~Before(candidates[c])
        BY <1>1, <1>10, <3>1, <3>8, ShortOnesAreNotEligible
      <4>2. c \in DOMAIN candidates
        BY DEF Eligible
      <4>3. c \in 1 .. startindex
        <5>1. c \in 1 .. Len(candidates)
          BY <1>1, <4>2, CandidatesAreUnits
        <5>2. QED
          BY <1>2, <1>3, <3>8, <5>1
      <4>4. QED
        BY <1>1, <1>3, <1>10, <4>1, <4>3
    <3>9. NoneIsBetter'
      BY <1>2, <1>4, <3>8 DEF NoneIsBetter
    <3>10. QED
      BY <3>7, <3>9
  <2>2. Comparing'
    BY <1>2, <1>4, <1>10, <2>1 DEF Comparing
  <2>3. QED
    BY <1>1, <1>4, <1>5, <1>6, <1>7, <2>2 DEF IInv
<1>11. QED
  BY <1>9, <1>10

(* One turn of a memory keeps the best of what has been compared.          *)
LEMMA CompareKeepsTheInvariant ==
  ASSUME IInv, Compare
  PROVE  IInv'
<1>1. /\ TypeInv /\ LongEnough /\ (~IsTerms => Ordered) /\ Comparing
      /\ pc = "comparing" /\ ~IsTerms
      /\ UNCHANGED <<matcher, candidates, text>>
  BY DEF IInv, Compare
<1>2. Ordered /\ HeapOfTheBest /\ NoneIsBetter
  BY <1>1 DEF Comparing
<1>3. IF pc' = "raised" THEN matcher.candidates > 1 /\ Tie
      ELSE pc' = "comparing" /\ HeapOfTheBest' /\ NoneIsBetter'
  BY <1>1, <1>2, CompareKeepsTheBest
<1>4. /\ Ordered' = Ordered /\ LongEnough' = LongEnough /\ IsTerms' = IsTerms /\ Tie' = Tie
      /\ matcher' = matcher
  BY <1>1, SameTextSameScores
<1>5. TypeInv'
  BY <1>1, <1>3 DEF TypeInv
<1>6. Searching' /\ TermsAreApart' /\ OrderedTermsAreFound' /\ BestAreFound'
  BY <1>3, <1>4 DEF Searching, TermsAreApart, OrderedTermsAreFound, BestAreFound
<1>7. Comparing'
  BY <1>1, <1>3, <1>4 DEF Comparing
<1>8. QED
  BY <1>1, <1>4, <1>5, <1>6, <1>7 DEF IInv

(* One turn over the terms finds this one or knows the same words already. *)
LEMMA LookKeepsTheInvariant ==
  ASSUME IInv, Look
  PROVE  IInv'
<1> DEFINE c0 == candidates[next]
           known == \E i \in DOMAIN found :
                      candidates[found[i]].source = c0.source /\ candidates[found[i]].target = c0.target
           D == DOMAIN candidates
<1>1. /\ TypeInv /\ LongEnough /\ Comparing /\ pc = "comparing" /\ IsTerms
      /\ UNCHANGED <<matcher, candidates, text, pc>>
      /\ next <= Len(candidates) /\ next' = next + 1
      /\ found' = IF ~known /\ Place(c0.source) # 0 THEN Append(found, next) ELSE found
  BY DEF IInv, Look
<1>2. TermsOfTheText
  BY <1>1 DEF Comparing
<1>3. next \in Nat \ {0} /\ next \in D /\ found \in Seq(D)
  <2>1. next \in Nat \ {0} /\ found \in Seq(D)
    BY <1>2 DEF TermsOfTheText
  <2>2. D = 1 .. Len(candidates)
    BY <1>1 DEF TypeInv
  <2>3. Len(candidates) \in Nat
    BY <1>1 DEF TypeInv
  <2>4. next \in 1 .. Len(candidates)
    BY <1>1, <2>1, <2>3
  <2>5. QED
    BY <2>1, <2>2, <2>4
<1>4. Ordered' = Ordered /\ LongEnough' = LongEnough /\ IsTerms' = IsTerms
  BY <1>1, SameTextSameScores
<1>5. \A c : Start(c)' = Start(c) /\ End(c)' = End(c)
  BY <1>1 DEF Start, End, Place
<1>6. /\ \A i \in DOMAIN found : Start(found[i]) # 0
      /\ Ordered => \A c \in D : c < next /\ Start(c) # 0 =>
           \E i \in DOMAIN found : Start(found[i]) = Start(c) /\ End(found[i]) = End(c)
  BY <1>2 DEF TermsOfTheText
<1>7. Start(next) = Place(c0.source)
  BY DEF Start
<1>8. known => \E i \in DOMAIN found : Start(found[i]) = Start(next) /\ End(found[i]) = End(next)
  BY DEF Start, End
<1> HIDE DEF c0, known
(* The list of those that are found, after the turn. *)
<1>9. /\ found' \in Seq(D)
      /\ \A i \in DOMAIN found : i \in DOMAIN found' /\ found'[i] = found[i]
      /\ \A i \in DOMAIN found' : i \in DOMAIN found \/ (found'[i] = next /\ Start(next) # 0)
      /\ Start(next) # 0 /\ ~known => \E i \in DOMAIN found' : found'[i] = next
  <2>1. CASE ~known /\ Place(c0.source) # 0
    <3>1. found' = Append(found, next) /\ Start(next) # 0
      BY <1>1, <1>7, <2>1
    <3>2. /\ Len(found) \in Nat /\ DOMAIN found = 1 .. Len(found)
          /\ found' \in Seq(D) /\ DOMAIN found' = 1 .. Len(found) + 1
          /\ \A i \in 1 .. Len(found) : found'[i] = found[i]
          /\ found'[Len(found) + 1] = next
      BY <1>3, <3>1
    <3>3. Len(found) + 1 \in 1 .. Len(found) + 1 /\ \A i \in 1 .. Len(found) : i \in 1 .. Len(found) + 1
      BY <3>2
    <3>4. \A i \in 1 .. Len(found) + 1 : i \in 1 .. Len(found) \/ i = Len(found) + 1
      BY <3>2
    <3>5. QED
      BY <3>1, <3>2, <3>3, <3>4
  <2>2. CASE ~(~known /\ Place(c0.source) # 0)
    BY <1>1, <1>3, <1>7, <2>2
  <2>3. QED
    BY <2>1, <2>2
<1>10. \A i \in DOMAIN found' : Start(found'[i]) # 0
  BY <1>6, <1>9
<1>11. ASSUME Ordered, NEW c \in D, c < next + 1, Start(c) # 0
       PROVE  \E i \in DOMAIN found' : Start(found'[i]) = Start(c) /\ End(found'[i]) = End(c)
  <2>1. c < next \/ c = next
    <3>1. c \in 1 .. Len(candidates)
      BY <1>1, CandidatesAreUnits
    <3>2. QED
      BY <1>3, <1>11, <3>1
  <2>2. CASE c < next \/ known
    <3>1. \E i \in DOMAIN found : Start(found[i]) = Start(c) /\ End(found[i]) = End(c)
      BY <1>6, <1>8, <1>11, <2>1, <2>2
    <3>2. QED
      BY <1>9, <3>1
  <2>3. CASE c = next /\ ~known
    BY <1>9, <1>11, <2>3
  <2>4. QED
    BY <2>1, <2>2, <2>3
<1>12. TermsOfTheText'
  <2>1. next' \in Nat \ {0}
    BY <1>1, <1>3
  <2>2. found' \in Seq(DOMAIN candidates')
    BY <1>1, <1>9
  <2>3. (\A i \in DOMAIN found : Start(found[i]) # 0)'
    BY <1>5, <1>10
  <2>4. (Ordered => \A c \in DOMAIN candidates : c < next /\ Start(c) # 0 =>
           \E i \in DOMAIN found : Start(found[i]) = Start(c) /\ End(found[i]) = End(c))'
    BY <1>1, <1>4, <1>5, <1>11
  <2>5. QED
    BY <2>1, <2>2, <2>3, <2>4 DEF TermsOfTheText
<1>13. TypeInv'
  BY <1>1 DEF TypeInv
<1>14. /\ Comparing' /\ Searching' /\ BestAreFound' /\ TermsAreApart' /\ OrderedTermsAreFound'
  BY <1>1, <1>4, <1>12 DEF Comparing, Searching, BestAreFound, TermsAreApart, OrderedTermsAreFound
<1>15. QED
  BY <1>1, <1>4, <1>13, <1>14 DEF IInv

(* The heap in order is the answer of a memory, the picked terms that of a *)
(* terminology.                                                            *)
LEMMA AnswerKeepsTheInvariant ==
  ASSUME IInv, Answer
  PROVE  IInv'
<1>1. /\ TypeInv /\ LongEnough /\ (~IsTerms => Ordered) /\ Comparing
      /\ pc = "comparing" /\ pc' = "answered"
      /\ next <= Len(candidates) => TooLong(candidates[next])
      /\ result' = IF IsTerms THEN Picked(InOrder) ELSE BestFirst
      /\ UNCHANGED <<matcher, candidates, text>>
  BY DEF IInv, Answer
<1>2. /\ Ordered' = Ordered /\ LongEnough' = LongEnough /\ IsTerms' = IsTerms
      /\ Eligible' = Eligible /\ (\A c : Score(c)' = Score(c)) /\ matcher' = matcher /\ text' = text
  BY <1>1, SameTextSameScores
<1>3. TypeInv'
  BY <1>1 DEF TypeInv
<1>4. Searching' /\ Comparing'
  BY <1>1 DEF Searching, Comparing
<1>5. CASE IsTerms
  <2> DEFINE D == DOMAIN candidates
             terms == InOrder
             chosen == Picked(terms)
  <2>1. TermsOfTheText /\ result' = chosen
    BY <1>1, <1>5 DEF Comparing
  <2>2. found \in Seq(D)
    BY <2>1 DEF TermsOfTheText
  <2>3. /\ terms \in Seq(D) /\ Range(terms) = Range(found)
        /\ \A j, k \in 1 .. Len(terms) : j < k => Start(terms[j]) <= Start(terms[k])
    BY <1>1, <2>2, InOrderIsSorted
  <2> HIDE DEF terms
  <2>4. DOMAIN terms = 1 .. Len(terms)
    BY <2>3
  <2>5. ASSUME NEW i \in 1 .. Len(terms) PROVE Start(terms[i]) # 0
    <3>1. terms[i] \in Range(found)
      BY <2>3, <2>4 DEF Range
    <3>2. PICK j \in DOMAIN found : found[j] = terms[i]
      BY <3>1 DEF Range
    <3>3. QED
      BY <2>1, <3>2 DEF TermsOfTheText
  <2>6. /\ \A c, d \in Range(chosen) : Overlap(c, d) => Start(c) = Start(d) /\ End(c) = End(d)
        /\ \A i \in 1 .. Len(terms) : \E c \in Range(chosen) : Overlap(terms[i], c)
    BY <1>1, <2>3, <2>5, PickedTerms
  <2> HIDE DEF chosen
  <2>7. \A c : Start(c)' = Start(c) /\ End(c)' = End(c)
    BY <1>1 DEF Start, End, Place
  <2>8. \A c, d : Overlap(c, d)' = Overlap(c, d)
    BY <2>7 DEF Overlap
  <2>9. TermsAreApart'
    <3>1. ASSUME NEW j \in DOMAIN chosen, NEW k \in DOMAIN chosen, Overlap(chosen[j], chosen[k])
          PROVE  Start(chosen[j]) = Start(chosen[k]) /\ End(chosen[j]) = End(chosen[k])
      <4>1. chosen[j] \in Range(chosen) /\ chosen[k] \in Range(chosen)
        BY DEF Range
      <4>2. QED
        BY <2>6, <3>1, <4>1
    <3>2. ASSUME NEW j \in DOMAIN result', NEW k \in DOMAIN result',
                 Overlap(result[j], result[k])'
          PROVE  (Start(result[j]) = Start(result[k]) /\ End(result[j]) = End(result[k]))'
      <4>1. j \in DOMAIN chosen /\ k \in DOMAIN chosen
        BY <2>1
      <4>2. Overlap(chosen[j], chosen[k])
        BY <2>1, <2>7, <3>2 DEF Overlap
      <4>3. Start(chosen[j]) = Start(chosen[k]) /\ End(chosen[j]) = End(chosen[k])
        BY <3>1, <4>1, <4>2
      <4>4. QED
        BY <2>1, <2>7, <4>3
    <3>3. QED
      BY <3>2 DEF TermsAreApart
  <2>10. ASSUME Ordered, NEW c \in D, Start(c) # 0
         PROVE  \E k \in DOMAIN chosen : Overlap(c, chosen[k])
    <3>1. c < next
      <4>1. ~(next <= Len(candidates))
        BY <1>1, <1>5 DEF TooLong
      <4>2. c \in 1 .. Len(candidates) /\ Len(candidates) \in Nat
        BY <1>1, CandidatesAreUnits DEF TypeInv
      <4>3. next \in Nat
        BY <2>1 DEF TermsOfTheText
      <4>4. QED
        BY <4>1, <4>2, <4>3
    <3>2. PICK i \in DOMAIN found : Start(found[i]) = Start(c) /\ End(found[i]) = End(c)
      BY <2>1, <2>10, <3>1 DEF TermsOfTheText
    <3>3. found[i] \in Range(terms)
      BY <2>3 DEF Range
    <3>4. PICK j \in 1 .. Len(terms) : terms[j] = found[i]
      BY <2>4, <3>3 DEF Range
    <3>5. PICK d \in Range(chosen) : Overlap(terms[j], d)
      BY <2>6
    <3>6. Overlap(c, d)
      BY <3>2, <3>4, <3>5 DEF Overlap
    <3>7. QED
      BY <3>6 DEF Range
  <2>11. OrderedTermsAreFound'
    <3>1. ASSUME Ordered, NEW c \in D, Start(c) # 0
          PROVE  \E k \in DOMAIN result' : Overlap(c, result[k])'
      <4>1. PICK k \in DOMAIN chosen : Overlap(c, chosen[k])
        BY <2>10, <3>1
      <4>2. k \in DOMAIN result' /\ Overlap(c, result[k])'
        BY <2>1, <2>7, <4>1 DEF Overlap
      <4>3. QED
        BY <4>2
    <3>2. QED
      BY <1>1, <1>2, <2>7, <3>1 DEF OrderedTermsAreFound
  <2>12. BestAreFound'
    BY <1>1, <1>2, <1>5 DEF BestAreFound
  <2>13. QED
    BY <1>1, <1>2, <1>3, <1>4, <2>9, <2>11, <2>12 DEF IInv
<1>6. CASE ~IsTerms
  <2>1. HeapOfTheBest /\ NoneIsBetter /\ result' = BestFirst
    BY <1>1, <1>6 DEF Comparing
  <2> DEFINE list == BestFirst
  <2>2. Len(text) <= matcher.length =>
          /\ Len(list) = Min({matcher.candidates, Cardinality(Eligible)})
          /\ \A k \in DOMAIN list :
               /\ list[k] \in Eligible
               /\ \A j \in 1 .. k - 1 : list[j] # list[k] /\ Score(list[j]) >= Score(list[k])
               /\ \A c \in Eligible :
                    Score(c) > Score(list[k]) => \E j \in 1 .. k - 1 : list[j] = c
    BY <1>1, <1>6, <2>1, HeapHoldsTheBest
  <2> HIDE DEF list
  <2>3. result' = list
    BY <2>1 DEF list
  <2>4. \A j : Score(result[j])' = Score(list[j])
    BY <1>1, <2>3 DEF Score
  <2>5. BestAreFound'
    BY <1>1, <1>2, <2>2, <2>3, <2>4 DEF BestAreFound
  <2>6. TermsAreApart' /\ OrderedTermsAreFound'
    BY <1>2, <1>6 DEF TermsAreApart, OrderedTermsAreFound
  <2>7. QED
    BY <1>1, <1>2, <1>3, <1>4, <2>5, <2>6 DEF IInv
<1>7. QED
  BY <1>5, <1>6

(* Nothing changes.                                                        *)
LEMMA StutteringKeepsTheInvariant ==
  ASSUME IInv, UNCHANGED vars
  PROVE  IInv'
<1>1. UNCHANGED <<matcher, candidates, text, pc, startindex, endindex, next, best, found, result>>
  BY DEF vars
<1>2. UNCHANGED <<TypeInv, Ordered, LongEnough, IsTerms, Eligible, Tie>> /\ \A c : Score(c)' = Score(c)
  BY <1>1, SameTextSameScores DEF TypeInv
<1>3. \A c : Before(c)' = Before(c) /\ Start(c)' = Start(c) /\ End(c)' = End(c)
  BY <1>1, <1>2 DEF Before, Start, End, Place
<1>4. UNCHANGED <<Searching, HeapOfTheBest, NoneIsBetter, TermsOfTheText>>
  <2>1. UNCHANGED Searching
    BY <1>1, <1>2, <1>3 DEF Searching
  <2>2. UNCHANGED HeapOfTheBest
    BY <1>1, <1>2 DEF HeapOfTheBest, IsKept
  <2>3. UNCHANGED NoneIsBetter
    BY <1>1, <1>2 DEF NoneIsBetter, LowestScore
  <2>4. UNCHANGED TermsOfTheText
    BY <1>1, <1>2, <1>3 DEF TermsOfTheText
  <2>5. QED
    BY <2>1, <2>2, <2>3, <2>4
<1>5. UNCHANGED Comparing
  BY <1>1, <1>2, <1>4 DEF Comparing
<1>6. BestAreFound' = BestAreFound
  BY <1>1, <1>2 DEF BestAreFound
<1>7. TermsAreApart' /\ OrderedTermsAreFound'
  BY <1>1, <1>2, <1>3 DEF IInv, TermsAreApart, OrderedTermsAreFound, Overlap
<1>8. QED
  BY <1>2, <1>4, <1>5, <1>6, <1>7 DEF IInv

-----------------------------------------------------------------------------
(* The invariant holds in every state: the heap holds the best of what has *)
(* been compared, and the found terms stand for all that have been looked  *)
(* at.                                                                     *)
THEOREM MatcherInvariant == Spec => []IInv
<1>1. IInv /\ [Next]_vars => IInv'
  <2>1. SUFFICES ASSUME IInv, [Next]_vars PROVE IInv'
    OBVIOUS
  <2>2. CASE \E u \in Units[matcher.kind] : Extend(u)
    BY <2>1, <2>2, ExtendKeepsTheInvariant
  <2>3. CASE Fill
    BY <2>1, <2>3, FillKeepsTheInvariant
  <2>4. CASE \E t \in Texts[matcher.kind] : Matches(t)
    BY <2>1, <2>4, MatchesKeepsTheInvariant
  <2>5. CASE Search
    BY <2>1, <2>5, SearchKeepsTheInvariant
  <2>6. CASE Searched
    BY <2>1, <2>6, SearchedKeepsTheInvariant
  <2>7. CASE Compare
    BY <2>1, <2>7, CompareKeepsTheInvariant
  <2>8. CASE Look
    BY <2>1, <2>8, LookKeepsTheInvariant
  <2>9. CASE Answer
    BY <2>1, <2>9, AnswerKeepsTheInvariant
  <2>10. CASE UNCHANGED vars
    BY <2>1, <2>10, StutteringKeepsTheInvariant
  <2>11. QED
    BY <2>1, <2>2, <2>3, <2>4, <2>5, <2>6, <2>7, <2>8, <2>9, <2>10 DEF Next
<1>2. QED
  BY <1>1, InitIsInvariant, PTL DEF Spec

(* A memory's answer is the best that it has, best first, and it raises    *)
(* only when the similarity is zero or for a tie (BestAreFound).           *)
THEOREM BestAreAlwaysFound == Spec => []BestAreFound
<1>1. IInv => BestAreFound
  BY DEF IInv
<1>2. QED
  BY <1>1, MatcherInvariant, PTL

(* Whatever the similarity that is asked for has risen to, the comparer    *)
(* returns the share of characters left alone, if that is at least as much *)
(* (ComparerIsExact).                                                      *)
THEOREM ComparerIsAlwaysExact == Spec => []ComparerIsExact
<1>1. IInv => ComparerIsExact
  <2> DEFINE other == candidates[next].source
             min == MinSimilarity
  <2>1. SUFFICES ASSUME IInv, pc = "comparing", ~IsTerms, Len(text) <= matcher.length,
                        next <= Len(candidates), Len(other) <= matcher.length
                 PROVE  IsExact(text, other, min, matcher.length)
    BY DEF ComparerIsExact
  <2>2. TypeInv /\ LongEnough /\ HeapOfTheBest
    BY <2>1 DEF IInv, Comparing
  <2>3. min \in 1 .. Whole /\ matcher.similarity <= min
    BY <2>1, <2>2, HeapScores
  <2>4. matcher.similarity > 0 /\ next \in DOMAIN candidates
    <3>1. next \in Nat \ {0} /\ matcher.similarity > 0
      BY <2>2 DEF HeapOfTheBest
    <3>2. Len(candidates) \in Nat /\ DOMAIN candidates = 1 .. Len(candidates)
      BY <2>2 DEF TypeInv
    <3>3. next \in 1 .. Len(candidates)
      BY <2>1, <3>1, <3>2
    <3>4. QED
      BY <3>1, <3>2, <3>3
  <2>5. min \in Int /\ min <= Whole
    BY <2>3, WholeAssumption
  <2> HIDE DEF min
  <2>6. QED
    BY <2>1, <2>2, <2>3, <2>4, <2>5, ScoresOfCandidates
<1>2. QED
  BY <1>1, MatcherInvariant, PTL

(* Two terms of an answer overlap only if they are the same words          *)
(* (TermsAreApart).                                                        *)
THEOREM TermsAreAlwaysApart == Spec => []TermsAreApart
<1>1. IInv => TermsAreApart
  BY DEF IInv
<1>2. QED
  BY <1>1, MatcherInvariant, PTL

(* Where the candidates are in order, each term that occurs in the text is *)
(* in the answer or overlaps with one that is (TermsInOrderAreFound).      *)
THEOREM TermsInOrderAreAlwaysFound == Spec => []TermsInOrderAreFound
<1>1. IInv => TermsInOrderAreFound
  <2>1. SUFFICES ASSUME IInv, pc = "answered", IsTerms, candidates = Sorted(candidates),
                        NEW c \in DOMAIN candidates, Start(c) # 0
                 PROVE  \E k \in DOMAIN result : Overlap(c, result[k])
    BY DEF TermsInOrderAreFound
  <2>2. candidates \in Seq(Unit)
    BY <2>1 DEF IInv, TypeInv
  <2>3. Ordered
    BY <2>1, <2>2, SortedUnits DEF Ordered
  <2>4. QED
    BY <2>1, <2>3 DEF IInv, OrderedTermsAreFound
<1>2. QED
  BY <1>1, MatcherInvariant, PTL
=============================================================================
