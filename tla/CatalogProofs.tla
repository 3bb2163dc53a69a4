---------------------------- MODULE CatalogProofs ----------------------------
(***************************************************************************)
(* Proof that the pages of the catalog fit together, and that the counter  *)
(* of pages in production is exact, for any blocks, callers and limit.     *)
(***************************************************************************)
EXTENDS Catalog, GatewayProofs

-----------------------------------------------------------------------------
(***************************************************************************)
(* A listing of rows in an order.                                          *)
(***************************************************************************)

\* Rows that differ do so in their place in the order of the catalog.
IsRowSet(rows) ==
  /\ IsFiniteSet(rows)
  /\ \A x \in rows : x.height \in Nat /\ x.key \in Nat
  /\ \A x, y \in rows : x.height = y.height /\ x.key = y.key => x = y

\* How many rows are listed before y.
Rank(rows, y) == Cardinality({x \in rows : Precedes(x, y)})

\* ORDER BY is by two columns that have no equal pairs: a strict total order.
LEMMA OrderIsTotal ==
  ASSUME NEW rows, IsRowSet(rows)
  PROVE  /\ \A x, y \in rows : x = y \/ Precedes(x, y) \/ Precedes(y, x)
         /\ \A x, y \in rows : Precedes(x, y) => x # y /\ ~Precedes(y, x)
         /\ \A x, y, z \in rows : Precedes(x, y) /\ Precedes(y, z) => Precedes(x, z)
BY DEF IsRowSet, Precedes

\* A part of the rows is one, too.
LEMMA PartIsRowSet ==
  ASSUME NEW rows, IsRowSet(rows), NEW part \in SUBSET rows
  PROVE  IsRowSet(part) /\ Cardinality(part) \in Nat
<1>1. IsFiniteSet(part)
  BY FS_Subset DEF IsRowSet
<1>2. Cardinality(part) \in Nat
  BY <1>1, FS_CardinalityType
<1> QED
  BY <1>1, <1>2 DEF IsRowSet

\* A row that is listed later has a higher rank, and ranks are below the count.
LEMMA RankGrows ==
  ASSUME NEW rows, IsRowSet(rows)
  PROVE  /\ Cardinality(rows) \in Nat
         /\ \A y \in rows : Rank(rows, y) \in 0 .. (Cardinality(rows) - 1)
         /\ \A x, y \in rows : Precedes(x, y) => Rank(rows, x) < Rank(rows, y)
<1> DEFINE Before(y) == {x \in rows : Precedes(x, y)}
<1>1. IsFiniteSet(rows) /\ Cardinality(rows) \in Nat
  BY FS_CardinalityType DEF IsRowSet
<1>2. ASSUME NEW y \in rows
      PROVE  /\ IsFiniteSet(Before(y)) /\ Cardinality(Before(y)) \in Nat
             /\ y \notin Before(y)
             /\ IsFiniteSet(Before(y) \cup {y})
             /\ Cardinality(Before(y) \cup {y}) = Cardinality(Before(y)) + 1
  <2>1. Before(y) \in SUBSET rows
    OBVIOUS
  <2>2. IsFiniteSet(Before(y))
    BY <1>1, <2>1, FS_Subset
  <2>3. Cardinality(Before(y)) \in Nat
    BY <2>2, FS_CardinalityType
  <2>4. y \notin Before(y)
    BY OrderIsTotal
  <2> HIDE DEF Before
  <2> QED
    BY <2>2, <2>3, <2>4, FS_AddElement
<1>3. ASSUME NEW y \in rows
      PROVE  Rank(rows, y) \in 0 .. (Cardinality(rows) - 1)
  <2>1. Before(y) \cup {y} \in SUBSET rows
    OBVIOUS
  <2> HIDE DEF Before
  <2>2. Cardinality(Before(y) \cup {y}) <= Cardinality(rows)
    BY <1>1, <2>1, FS_Subset
  <2>3. Rank(rows, y) = Cardinality(Before(y))
    BY DEF Rank, Before
  <2> QED
    BY <1>1, <1>2, <2>2, <2>3
<1>4. ASSUME NEW x \in rows, NEW y \in rows, Precedes(x, y)
      PROVE  Rank(rows, x) < Rank(rows, y)
  <2>1. Before(x) \cup {x} \in SUBSET Before(y)
    BY <1>4, OrderIsTotal
  <2> HIDE DEF Before
  <2>2. Cardinality(Before(x) \cup {x}) <= Cardinality(Before(y))
    BY <1>2, <2>1, FS_Subset
  <2>3. Rank(rows, x) = Cardinality(Before(x)) /\ Rank(rows, y) = Cardinality(Before(y))
    BY DEF Rank, Before
  <2>4. /\ Cardinality(Before(x)) \in Nat /\ Cardinality(Before(y)) \in Nat
        /\ Cardinality(Before(x) \cup {x}) = Cardinality(Before(x)) + 1
    BY <1>2
  <2> QED
    BY <2>2, <2>3, <2>4
<1> HIDE DEF Before
<1> QED
  BY <1>1, <1>3, <1>4

\* Every rank is that of one row.
LEMMA RankIsPlace ==
  ASSUME NEW rows, IsRowSet(rows)
  PROVE  /\ \A x, y \in rows : Rank(rows, x) = Rank(rows, y) => x = y
         /\ \A i \in 0 .. (Cardinality(rows) - 1) : \E y \in rows : Rank(rows, y) = i
<1> DEFINE n == Cardinality(rows)
           rank == [y \in rows |-> Rank(rows, y)]
<1>1. n \in Nat /\ rank \in [rows -> 0 .. (n - 1)]
  BY RankGrows
<1>2. ASSUME NEW x \in rows, NEW y \in rows, Rank(rows, x) = Rank(rows, y)
      PROVE  x = y
  <2>1. \A u \in rows : Rank(rows, u) \in Nat
    BY <1>1, RankGrows
  <2>2. ~Precedes(x, y) /\ ~Precedes(y, x)
    BY <1>2, <2>1, RankGrows
  <2> QED
    BY <2>2, OrderIsTotal
<1>3. rank \in Injection(rows, 0 .. (n - 1))
  <2>1. \A x, y \in rows : rank[x] = rank[y] => x = y
    BY <1>2
  <2> QED
    BY <1>1, <2>1 DEF Injection, IsInjective
<1>4. IsFiniteSet(0 .. (n - 1)) /\ Cardinality(0 .. (n - 1)) = n
  BY <1>1, FS_Interval
<1> HIDE DEF n, rank
<1>5. rank \in Surjection(rows, 0 .. (n - 1))
  BY <1>3, <1>4, FS_Injection DEF n
<1>6. \A i \in 0 .. (n - 1) : \E y \in rows : rank[y] = i
  BY <1>5 DEF Surjection
<1> QED
  BY <1>2, <1>6 DEF rank, n

\* What is listed at i has i - 1 rows before it, and no other row has.
LEMMA ListedByRank ==
  ASSUME NEW rows, IsRowSet(rows)
  PROVE  /\ InOrder(rows) \in Seq(rows) /\ Len(InOrder(rows)) = Cardinality(rows)
         /\ \A i \in 1 .. Cardinality(rows) :
              InOrder(rows)[i] \in rows /\ Rank(rows, InOrder(rows)[i]) = i - 1
         /\ \A i \in 1 .. Cardinality(rows) : \A y \in rows :
              Rank(rows, y) = i - 1 => y = InOrder(rows)[i]
<1> DEFINE n == Cardinality(rows)
<1>1. n \in Nat
  BY RankGrows
<1>2. ASSUME NEW i \in 1 .. n
      PROVE  InOrder(rows)[i] \in rows /\ Rank(rows, InOrder(rows)[i]) = i - 1
  <2>1. i - 1 \in 0 .. (n - 1)
    BY <1>1
  <2>2. \E y \in rows : Rank(rows, y) = i - 1
    BY <2>1, RankIsPlace
  <2>3. InOrder(rows)[i] = CHOOSE y \in rows : Rank(rows, y) = i - 1
    BY DEF InOrder, Rank
  <2> QED
    BY <2>2, <2>3
<1>3. InOrder(rows) \in [1 .. n -> rows]
  BY <1>2 DEF InOrder
<1>4. InOrder(rows) \in Seq(rows) /\ Len(InOrder(rows)) = n
  BY <1>1, <1>3
<1>5. ASSUME NEW i \in 1 .. n, NEW y \in rows, Rank(rows, y) = i - 1
      PROVE  y = InOrder(rows)[i]
  BY <1>2, <1>5, RankIsPlace
<1> QED
  BY <1>2, <1>4, <1>5

\* The rows after one of them are what is listed behind it: a keyset finds the
\* place that an offset names.
LEMMA KeysetIsOffset ==
  ASSUME NEW rows, IsRowSet(rows), NEW o \in 1 .. Cardinality(rows),
         NEW part, part = {y \in rows : Precedes(InOrder(rows)[o], y)}
  PROVE  InOrder(part) = SubSeq(InOrder(rows), o + 1, Cardinality(rows))
<1> DEFINE n == Cardinality(rows)
           s == InOrder(rows)
           c == s[o]
           head == {x \in rows : Precedes(x, c)}
<1>1. /\ n \in Nat /\ o \in Nat /\ o <= n /\ s \in Seq(rows) /\ Len(s) = n
      /\ c \in rows /\ Rank(rows, c) = o - 1
  BY RankGrows, ListedByRank
<1>2. IsRowSet(part) /\ Cardinality(part) \in Nat /\ part \in SUBSET rows
  BY PartIsRowSet
<1>3. head \in SUBSET rows /\ Cardinality(head) = o - 1
  BY <1>1 DEF Rank
<1>4. IsFiniteSet(head) /\ IsFiniteSet(part) /\ IsFiniteSet(rows)
  BY <1>2, <1>3, FS_Subset DEF IsRowSet
<1>5. c \notin head /\ c \notin part /\ rows = (head \cup {c}) \cup part
      /\ (head \cup {c}) \cap part = {}
  BY <1>1, OrderIsTotal
<1>6. \A y \in part : {x \in rows : Precedes(x, y)}
                        = (head \cup {c}) \cup {x \in part : Precedes(x, y)}
  BY <1>1, OrderIsTotal
<1> HIDE DEF head, s, c, n
<1>7. IsFiniteSet(head \cup {c}) /\ Cardinality(head \cup {c}) = o
  BY <1>1, <1>3, <1>4, <1>5, FS_AddElement
<1>8. \A t \in SUBSET part :
        Cardinality((head \cup {c}) \cup t) = o + Cardinality(t) /\ Cardinality(t) \in Nat
  <2> SUFFICES ASSUME NEW t \in SUBSET part
               PROVE  /\ Cardinality((head \cup {c}) \cup t) = o + Cardinality(t)
                      /\ Cardinality(t) \in Nat
    OBVIOUS
  <2>1. IsFiniteSet(t) /\ (head \cup {c}) \cap t = {}
    BY <1>4, <1>5, FS_Subset
  <2>2. Cardinality(t) \in Nat
    BY <2>1, FS_CardinalityType
  <2>3. Cardinality((head \cup {c}) \cup t)
          = Cardinality(head \cup {c}) + Cardinality(t) - Cardinality((head \cup {c}) \cap t)
    BY <1>7, <2>1, FS_Union
  <2>4. Cardinality((head \cup {c}) \cap t) = 0
    BY <2>1, FS_EmptySet
  <2> QED
    BY <1>1, <1>7, <2>2, <2>3, <2>4
<1>9. Cardinality(part) = n - o
  <2>1. Cardinality((head \cup {c}) \cup part) = o + Cardinality(part)
    BY <1>8
  <2>2. n = Cardinality((head \cup {c}) \cup part)
    BY <1>5, Zenon DEF n
  <2> QED
    BY <1>1, <1>2, <2>1, <2>2
<1>10. ASSUME NEW y \in part
       PROVE  Rank(rows, y) = o + Rank(part, y) /\ Rank(part, y) \in Nat
  <2> DEFINE t == {x \in part : Precedes(x, y)}
  <2>1. t \in SUBSET part /\ {x \in rows : Precedes(x, y)} = (head \cup {c}) \cup t
    BY <1>6
  <2>2. Rank(part, y) = Cardinality(t)
    BY DEF Rank
  <2> HIDE DEF t
  <2> QED
    BY <1>8, <2>1, <2>2 DEF Rank
<1>11. /\ InOrder(part) \in Seq(part) /\ Len(InOrder(part)) = n - o
       /\ \A i \in 1 .. (n - o) : InOrder(part)[i] \in part /\ Rank(part, InOrder(part)[i]) = i - 1
  BY <1>2, <1>9, ListedByRank
<1>12. ASSUME NEW i \in 1 .. (n - o)
       PROVE  InOrder(part)[i] = s[o + i]
  <2>1. PICK y \in part : y = InOrder(part)[i] /\ Rank(part, y) = i - 1
    BY <1>11
  <2>2. y \in rows /\ Rank(rows, y) = (o + i) - 1 /\ o + i \in 1 .. n
    BY <1>1, <1>2, <1>10, <2>1
  <2> QED
    BY <2>1, <2>2, ListedByRank DEF n, s
<1>13. /\ SubSeq(s, o + 1, n) \in Seq(rows)
       /\ Len(SubSeq(s, o + 1, n)) = n - o
       /\ \A i \in 1 .. (n - o) : SubSeq(s, o + 1, n)[i] = s[o + i]
  <2>1. /\ SubSeq(s, o + 1, n) \in Seq(rows)
        /\ Len(SubSeq(s, o + 1, n)) = IF o + 1 <= n THEN n - (o + 1) + 1 ELSE 0
        /\ \A i \in 1 .. n - (o + 1) + 1 : SubSeq(s, o + 1, n)[i] = s[o + 1 + i - 1]
    <3>1. \A i \in o + 1 .. n : s[i] \in rows
      BY <1>1
    <3> QED
      BY <1>1, <3>1, SubSeqProperties
  <2>2. (IF o + 1 <= n THEN n - (o + 1) + 1 ELSE 0) = n - o
    BY <1>1
  <2>3. ASSUME NEW i \in 1 .. (n - o)
        PROVE  i \in 1 .. n - (o + 1) + 1 /\ o + 1 + i - 1 = o + i
    BY <1>1
  <2>4. \A i \in 1 .. (n - o) : SubSeq(s, o + 1, n)[i] = s[o + i]
    BY <2>1, <2>3
  <2> QED
    BY <2>1, <2>2, <2>4
<1>14. InOrder(part) \in Seq(rows)
  BY <1>2, <1>11
<1>15. InOrder(part) = SubSeq(s, o + 1, n)
  <2> DEFINE a == InOrder(part)
             z == SubSeq(s, o + 1, n)
  <2>1. /\ a \in Seq(rows) /\ z \in Seq(rows) /\ Len(a) = n - o /\ Len(z) = n - o
        /\ \A i \in 1 .. (n - o) : a[i] = z[i]
    BY <1>11, <1>12, <1>13, <1>14
  <2> HIDE DEF a, z
  <2>2. Len(a) = Len(z) /\ \A i \in 1 .. Len(a) : a[i] = z[i]
    BY <2>1, Zenon
  <2>3. a = z
    BY <2>1, <2>2, SeqEqual, Zenon
  <2> QED
    BY <2>3 DEF a, z
<1> QED
  BY <1>15 DEF s, n

-----------------------------------------------------------------------------
(***************************************************************************)
(* The rows of tandem_objects, and one page of them.                       *)
(***************************************************************************)

\* What is indexed by the numbers up to n is finite.
LEMMA RangeIsFinite ==
  ASSUME NEW n \in Nat, NEW f, NEW S, S = {f[i] : i \in 1 .. n}
  PROVE  IsFiniteSet(S)
<1> DEFINE g == [i \in 1 .. n |-> f[i]]
<1>1. g \in Surjection(1 .. n, S)
  BY DEF Surjection
<1>2. IsFiniteSet(1 .. n)
  BY FS_Interval
<1> HIDE DEF g
<1> QED
  BY <1>1, <1>2, FS_Surjection

\* The catalog at a branch: a row for each object its blocks create.
LEMMA ObjectsAreRows ==
  ASSUME NEW branch \in Branch
  PROVE  /\ IsRowSet(TandemObjects(branch))
         /\ \A row \in TandemObjects(branch) :
              row.height \in 1 .. Len(branch) /\ row.key \in 1 .. Creates[branch[row.height]]
<1> DEFINE at == [h \in 1 .. Len(branch) |-> RowsAtHeight(branch, h)]
<1>1. Len(branch) \in Nat /\ \A h \in 1 .. Len(branch) : Creates[branch[h]] \in Nat
  BY BranchIsSeq, CatalogAssumption
<1>2. ASSUME NEW h \in 1 .. Len(branch)
      PROVE  IsFiniteSet(RowsAtHeight(branch, h))
  <2> DEFINE f == [k \in 1 .. Creates[branch[h]] |-> [height |-> h, key |-> k, asOf |-> branch]]
  <2>1. RowsAtHeight(branch, h) = {f[k] : k \in 1 .. Creates[branch[h]]}
    BY DEF RowsAtHeight
  <2>2. Creates[branch[h]] \in Nat
    BY <1>1
  <2> HIDE DEF f
  <2> QED
    BY <2>1, <2>2, RangeIsFinite
<1>3. IsFiniteSet({at[h] : h \in 1 .. Len(branch)})
  <2> HIDE DEF at
  <2> QED
    BY <1>1, RangeIsFinite
<1>4. TandemObjects(branch) = UNION {at[h] : h \in 1 .. Len(branch)}
  BY DEF TandemObjects
<1>5. \A T \in {at[h] : h \in 1 .. Len(branch)} : IsFiniteSet(T)
  BY <1>2
<1>6. IsFiniteSet(TandemObjects(branch))
  <2> HIDE DEF at
  <2> QED
    BY <1>3, <1>4, <1>5, FS_UNION
<1>7. ASSUME NEW row \in TandemObjects(branch)
      PROVE  \E h \in 1 .. Len(branch) : \E k \in 1 .. Creates[branch[h]] :
               row = [height |-> h, key |-> k, asOf |-> branch]
  BY DEF TandemObjects, RowsAtHeight
<1>8. \A row \in TandemObjects(branch) :
        /\ row.height \in 1 .. Len(branch) /\ row.key \in 1 .. Creates[branch[row.height]]
        /\ row = [height |-> row.height, key |-> row.key, asOf |-> branch]
  BY <1>7
<1>9. \A row \in TandemObjects(branch) : row.height \in Nat /\ row.key \in Nat
  BY <1>1, <1>8
<1>10. \A x, y \in TandemObjects(branch) : x.height = y.height /\ x.key = y.key => x = y
  BY <1>8
<1> QED
  BY <1>6, <1>8, <1>9, <1>10 DEF IsRowSet

\* The cursor is at the row of the branch that its offset names.
CursorAt(branch, cursor) ==
  \/ cursor = NoCursor
  \/ /\ cursor.offset \in 1 .. (Total(branch) - 1)
     /\ Rows(branch)[cursor.offset].height = cursor.height
     /\ Rows(branch)[cursor.offset].key = cursor.key

\* Where the page after a cursor ends in the listing.
PageEnd(branch, cursor) ==
  IF Total(branch) - cursor.offset < Limit THEN Total(branch) ELSE cursor.offset + Limit

\* The whole listing is as long as the count.
LEMMA RowsAreListed ==
  ASSUME NEW branch \in Branch
  PROVE  /\ Total(branch) \in Nat
         /\ Rows(branch) \in Seq(TandemObjects(branch))
         /\ Len(Rows(branch)) = Total(branch)
         /\ \A i \in 1 .. Total(branch) : Rows(branch)[i] \in TandemObjects(branch)
<1>1. IsRowSet(TandemObjects(branch))
  BY ObjectsAreRows
<1> QED
  BY <1>1, RankGrows, ListedByRank DEF Rows, Total

\* WHERE finds what is listed after the cursor's row.
LEMMA RowsAfterCursor ==
  ASSUME NEW branch \in Branch, NEW cursor, CursorAt(branch, cursor)
  PROVE  /\ cursor.offset \in 0 .. Total(branch)
         /\ RowsAfter(branch, cursor)
              = SubSeq(Rows(branch), cursor.offset + 1, Total(branch))
<1> DEFINE rows == TandemObjects(branch)
           part == {row \in rows : AfterCursor(row, cursor)}
<1>1. /\ Total(branch) \in Nat /\ Rows(branch) \in Seq(rows)
      /\ Len(Rows(branch)) = Total(branch) /\ IsRowSet(rows)
      /\ \A i \in 1 .. Total(branch) : Rows(branch)[i] \in rows
  BY RowsAreListed, ObjectsAreRows
<1>2. CASE cursor = NoCursor
  <2>1. cursor.offset = 0 /\ part = rows
    BY <1>2 DEF NoCursor, AfterCursor
  <2>2. RowsAfter(branch, cursor) = Rows(branch)
    BY <2>1 DEF RowsAfter, Rows
  <2>3. SubSeq(Rows(branch), 1, Len(Rows(branch))) = Rows(branch)
    BY <1>1, SubSeqFull
  <2> QED
    BY <1>1, <2>1, <2>2, <2>3
<1>3. CASE cursor # NoCursor
  <2> DEFINE o == cursor.offset
             c == Rows(branch)[o]
  <2>1. /\ o \in 1 .. (Total(branch) - 1) /\ o \in 1 .. Total(branch)
        /\ c \in rows /\ c.height = cursor.height /\ c.key = cursor.key
    BY <1>1, <1>3 DEF CursorAt
  <2>2. \A row \in rows : AfterCursor(row, cursor) <=> Precedes(c, row)
    BY <1>1, <1>3, <2>1 DEF AfterCursor, Precedes, IsRowSet
  <2>3. part = {row \in rows : Precedes(c, row)}
    BY <2>2
  <2>4. part = {y \in rows : Precedes(InOrder(rows)[o], y)}
    BY <2>3 DEF Rows
  <2>5. o \in 1 .. Cardinality(rows)
    BY <2>1 DEF Total
  <2> HIDE DEF part, o, c
  <2>6. InOrder(part) = SubSeq(InOrder(rows), o + 1, Cardinality(rows))
    BY <1>1, <2>4, <2>5, KeysetIsOffset
  <2>7. RowsAfter(branch, cursor) = SubSeq(Rows(branch), o + 1, Total(branch))
    BY <2>6 DEF RowsAfter, Rows, Total, part
  <2> QED
    BY <1>1, <2>1, <2>7 DEF o
<1> QED
  BY <1>2, <1>3

\* A page is the next part of the listing, and knows whether there is more.
LEMMA PageIsNext ==
  ASSUME NEW branch \in Branch, NEW cursor, CursorAt(branch, cursor)
  PROVE  LET o == cursor.offset
             e == PageEnd(branch, cursor)
             page == PageOf(branch, cursor)
         IN /\ o \in 0 .. Total(branch) /\ e \in o .. Total(branch)
            /\ page.items = SubSeq(Rows(branch), o + 1, e)
            /\ page.items \in Seq(TandemObjects(branch))
            /\ Len(page.items) = e - o
            /\ \A i \in 1 .. (e - o) : page.items[i] = Rows(branch)[o + i]
            /\ page.hasMore = (e < Total(branch))
            /\ page.hasMore => e > o
<1> DEFINE rows == TandemObjects(branch)
           s == Rows(branch)
           n == Total(branch)
           o == cursor.offset
           e == PageEnd(branch, cursor)
           rest == RowsAfter(branch, cursor)
           m == IF Len(rest) < Limit THEN Len(rest) ELSE Limit
           page == PageOf(branch, cursor)
<1>1. /\ n \in Nat /\ s \in Seq(rows) /\ Len(s) = n
      /\ \A i \in 1 .. n : s[i] \in rows
  BY RowsAreListed
<1>2. o \in 0 .. n /\ rest = SubSeq(s, o + 1, n)
  BY RowsAfterCursor
<1>3. Limit \in Nat \ {0}
  BY CatalogAssumption
<1>4. e = IF n - o < Limit THEN n ELSE o + Limit
  BY DEF PageEnd
<1>5. page.items = SubSeq(rest, 1, m) /\ page.hasMore = (Len(rest) > Limit)
  BY DEF PageOf, FirstRows
<1> HIDE DEF rows, s, n, o, e, rest, page
<1>6. /\ rest \in Seq(rows) /\ Len(rest) = n - o
      /\ \A i \in 1 .. (n - o) : rest[i] = s[o + i]
  <2>1. \A i \in o + 1 .. n : s[i] \in rows
    BY <1>1, <1>2
  <2>2. /\ SubSeq(s, o + 1, n) \in Seq(rows)
        /\ Len(SubSeq(s, o + 1, n)) = IF o + 1 <= n THEN n - (o + 1) + 1 ELSE 0
        /\ \A i \in 1 .. n - (o + 1) + 1 : SubSeq(s, o + 1, n)[i] = s[o + 1 + i - 1]
    BY <1>1, <1>2, <2>1, SubSeqProperties
  <2> QED
    BY <1>1, <1>2, <2>2
<1>7. m \in 0 .. (n - o) /\ e = o + m /\ e \in o .. n
  BY <1>1, <1>2, <1>3, <1>4, <1>6
<1>8. (Len(rest) > Limit) = (e < n) /\ (Len(rest) > Limit => e > o)
  BY <1>1, <1>2, <1>3, <1>4, <1>6
<1> HIDE DEF m
<1>9. /\ page.items \in Seq(rows) /\ Len(page.items) = m
      /\ \A i \in 1 .. m : page.items[i] = rest[i]
  <2>1. \A i \in 1 .. m : rest[i] \in rows
    BY <1>1, <1>2, <1>6, <1>7
  <2>2. /\ SubSeq(rest, 1, m) \in Seq(rows)
        /\ Len(SubSeq(rest, 1, m)) = IF 1 <= m THEN m - 1 + 1 ELSE 0
        /\ \A i \in 1 .. m - 1 + 1 : SubSeq(rest, 1, m)[i] = rest[1 + i - 1]
    BY <1>1, <1>2, <1>7, <2>1, SubSeqProperties
  <2> QED
    BY <1>1, <1>2, <1>5, <1>7, <2>2
<1>10. /\ SubSeq(s, o + 1, e) \in Seq(rows) /\ Len(SubSeq(s, o + 1, e)) = m
       /\ \A i \in 1 .. m : SubSeq(s, o + 1, e)[i] = s[o + i]
  <2>1. \A i \in o + 1 .. e : s[i] \in rows
    BY <1>1, <1>2, <1>7
  <2>2. /\ SubSeq(s, o + 1, e) \in Seq(rows)
        /\ Len(SubSeq(s, o + 1, e)) = IF o + 1 <= e THEN e - (o + 1) + 1 ELSE 0
        /\ \A i \in 1 .. e - (o + 1) + 1 : SubSeq(s, o + 1, e)[i] = s[o + 1 + i - 1]
    BY <1>1, <1>2, <1>7, <2>1, SubSeqProperties
  <2>3. (IF o + 1 <= e THEN e - (o + 1) + 1 ELSE 0) = m
    BY <1>1, <1>2, <1>7
  <2>4. ASSUME NEW i \in 1 .. m
        PROVE  i \in 1 .. e - (o + 1) + 1 /\ o + 1 + i - 1 = o + i
    BY <1>1, <1>2, <1>7
  <2>5. \A i \in 1 .. m : SubSeq(s, o + 1, e)[i] = s[o + i]
    BY <2>2, <2>4
  <2> QED
    BY <2>2, <2>3, <2>5
<1>11. \A i \in 1 .. m : page.items[i] = s[o + i]
  BY <1>1, <1>2, <1>6, <1>7, <1>9
<1>12. page.items = SubSeq(s, o + 1, e)
  <2> DEFINE a == page.items
             c == SubSeq(s, o + 1, e)
  <2>1. /\ a \in Seq(rows) /\ c \in Seq(rows) /\ Len(a) = m /\ Len(c) = m
        /\ \A i \in 1 .. m : a[i] = c[i]
    BY <1>9, <1>10, <1>11
  <2> HIDE DEF a, c
  <2>2. Len(a) = Len(c) /\ \A i \in 1 .. Len(a) : a[i] = c[i]
    BY <2>1, Zenon
  <2>3. a = c
    BY <2>1, <2>2, SeqEqual, Zenon
  <2> QED
    BY <2>3 DEF a, c
<1>13. e - o = m
  BY <1>1, <1>2, <1>7
<1> QED
  BY <1>2, <1>5, <1>7, <1>8, <1>9, <1>11, <1>12, <1>13 DEF rows, s, n, o, e, page

\* The check before a page leaves holds of every page under its own cursor.
LEMMA PageUnderCursorIsConsistent ==
  ASSUME NEW branch \in Branch, NEW cursor, CursorAt(branch, cursor)
  PROVE  PageIsConsistent(branch, cursor)
<1> DEFINE e == PageEnd(branch, cursor)
<1>1. /\ cursor.offset \in 0 .. Total(branch) /\ e \in cursor.offset .. Total(branch)
      /\ Len(PageOf(branch, cursor).items) = e - cursor.offset
      /\ PageOf(branch, cursor).hasMore = (e < Total(branch))
  BY PageIsNext
<1>2. Total(branch) \in Nat
  BY RowsAreListed
<1> HIDE DEF e
<1>3. cursor.offset + Len(PageOf(branch, cursor).items) = e
  BY <1>1, <1>2
<1> QED
  BY <1>1, <1>2, <1>3 DEF PageIsConsistent

\* The next cursor is at the last row of the page, or there is none and the page
\* is the last.
LEMMA CursorFollowsPage ==
  ASSUME NEW snapshot \in Snapshots, NEW cursor, CursorAt(snapshot.agreement, cursor)
  PROVE  LET branch == snapshot.agreement
             e == PageEnd(branch, cursor)
             next == CursorAfter(PageOf(branch, cursor), snapshot, cursor.offset)
         IN /\ next = NoCursor => e = Total(branch)
            /\ next # NoCursor =>
                 /\ next = [snapshot |-> snapshot, height |-> Rows(branch)[e].height,
                            key |-> Rows(branch)[e].key, offset |-> e]
                 /\ e \in 1 .. (Total(branch) - 1)
                 /\ Rows(branch)[e].height \in 1 .. Len(branch)
                 /\ Rows(branch)[e].key \in 1 .. Creates[branch[Rows(branch)[e].height]]
<1> DEFINE branch == snapshot.agreement
           o == cursor.offset
           e == PageEnd(branch, cursor)
           page == PageOf(branch, cursor)
           s == Rows(branch)
           n == Total(branch)
           next == CursorAfter(page, snapshot, o)
<1>1. branch \in Branch
  BY DEF Snapshots
<1>2. /\ o \in 0 .. n /\ e \in o .. n /\ n \in Nat
      /\ Len(page.items) = e - o
      /\ page.items \in Seq(TandemObjects(branch))
      /\ \A i \in 1 .. (e - o) : page.items[i] = s[o + i]
      /\ page.hasMore = (e < n)
      /\ page.hasMore => e > o
  BY <1>1, PageIsNext, RowsAreListed
<1>8. page.hasMore => e < n
  <2> HIDE DEF page, s, n, e, o, branch
  <2> QED
    BY <1>2, Zenon
<1>9. ~page.hasMore => ~(e < n)
  <2> HIDE DEF page, s, n, e, o, branch
  <2> QED
    BY <1>2, Zenon
<1> DEFINE follow == [snapshot |-> snapshot, height |-> Last(page.items).height,
                      key |-> Last(page.items).key, offset |-> o + Len(page.items)]
<1>3. next = IF page.hasMore /\ page.items # <<>> THEN follow ELSE NoCursor
  BY DEF CursorAfter
<1>4. \A i \in 1 .. n : /\ s[i].height \in 1 .. Len(branch)
                        /\ s[i].key \in 1 .. Creates[branch[s[i].height]]
  BY <1>1, RowsAreListed, ObjectsAreRows
<1>5. ASSUME page.hasMore
      PROVE  /\ page.items # <<>> /\ e \in 1 .. (n - 1)
             /\ follow = [snapshot |-> snapshot, height |-> s[e].height,
                          key |-> s[e].key, offset |-> e]
  <2> HIDE DEF page, s, n, e, o, branch
  <2>1. e - o \in 1 .. (e - o) /\ o + (e - o) = e /\ e \in 1 .. (n - 1)
    <3>1. e > o /\ e < n
      BY <1>2, <1>5, <1>8, Zenon
    <3> QED
      BY <1>2, <3>1
  <2>2. page.items[e - o] = s[e]
    BY <1>2, <2>1
  <2>3. Last(page.items) = s[e] /\ o + Len(page.items) = e
    BY <1>2, <2>1, <2>2 DEF Last
  <2>4. page.items # <<>>
    BY <1>2, <2>1
  <2> QED
    BY <2>1, <2>3, <2>4
<1> HIDE DEF page, s, n, e, o, branch, next, follow
<1>6. CASE ~page.hasMore
  <2>1. next = NoCursor
    BY <1>3, <1>6
  <2>2. ~(e < n)
    BY <1>6, <1>9
  <2>3. e = n
    BY <1>2, <2>2
  <2> QED
    BY <2>1, <2>3 DEF page, n, e, o, branch, next
<1>7. CASE page.hasMore
  <2>1. next = follow /\ e \in 1 .. (n - 1) /\ e \in 1 .. n
    BY <1>2, <1>3, <1>5, <1>7
  <2>2. follow # NoCursor
    <3>1. follow.offset = e /\ NoCursor.offset = 0
      BY <1>5, <1>7 DEF NoCursor
    <3> QED
      BY <1>2, <2>1, <3>1
  <2> QED
    BY <1>4, <1>5, <1>7, <2>1, <2>2 DEF page, s, n, e, o, branch, next
<1> QED
  BY <1>6, <1>7

-----------------------------------------------------------------------------
(***************************************************************************)
(* The inductive invariant.                                                *)
(***************************************************************************)

\* A row of a page.
Row == [height : Nat, key : Nat, asOf : Branch]

\* What a caller can send, or nothing.
Cursor == [snapshot : Snapshots \cup {None}, height : Nat, key : Nat, offset : Nat]

\* A page in production.
WorkState ==
  [step : {"free", "snapshot", "rows", "core", "recheck"}, late : BOOLEAN,
   cursor : Cursor, snapshot : Snapshots \cup {None}, seen : Branch,
   page : [items : Seq(Row), hasMore : BOOLEAN]]

\* What a caller has put together.
ClientState ==
  [call : Reader \cup {None}, cursor : Cursor, items : Seq(Row),
   agreement : TupleOrNull, done : BOOLEAN]

\* A cursor is at the row it names, in the catalog of its snapshot.
CursorSound(c) == IsCursor(c) /\ (c # NoCursor => CursorAt(c.snapshot.agreement, c))

\* The step of a page fits the stage of its gateway; from its first read on it is
\* a page of the agreement the gateway will compare.
PageSound(w, g) ==
  /\ CursorSound(w.cursor)
  /\ w.step = "free" => g.stage = "idle"
  /\ w.step = "snapshot" => g.stage \in {"before", "refused", "query"}
  /\ w.step \in {"rows", "core"} => g.stage = "query"
  /\ w.step = "recheck" => g.stage \in {"after", "withheld", "answered"}
  /\ g.stage \in {"query", "after", "answered"} => g.before # None
  /\ w.step \in {"rows", "core"} \/ (w.step = "recheck" /\ g.stage # "withheld") =>
       /\ w.snapshot \in Snapshots /\ w.snapshot.agreement = g.before
       /\ w.seen = g.before
       /\ w.cursor = NoCursor \/ w.cursor.snapshot = w.snapshot
  /\ w.step \in {"core", "recheck"} => w.page = PageOf(w.seen, w.cursor)

\* What a caller has is the beginning of one listing.
ClientSound(s) ==
  /\ CursorSound(s.cursor)
  /\ s.done => s.call = None /\ s.cursor = NoCursor /\ s.items = Rows(s.agreement)
  /\ ~s.done /\ s.cursor = NoCursor => s.items = <<>>
  /\ s.cursor # NoCursor =>
       s.items = SubSeq(Rows(s.cursor.snapshot.agreement), 1, s.cursor.offset)

\* A page that is waited for is in production, from the caller's cursor.
CallSound(s, w) == \A r \in Reader : s.call = r => w[r].step # "free" /\ w[r].cursor = s.cursor

\* The slots that pages in production hold.
Busy(w) == {r \in Reader : w[r].step # "free"}

\* The counter n counts them.
SlotsSound(n, w) ==
  IsFiniteSet(Busy(w)) /\ n = Cardinality(Busy(w)) /\ n \in Nat /\ n <= MaxInFlight

\* Typed gateway, and each of the above for every page, caller and slot.
CatalogIInv ==
  /\ GatewayTypeOK
  /\ work \in [Reader -> WorkState] /\ client \in [Client -> ClientState]
  /\ \A r \in Reader : ProbeSound(r) /\ PageSound(work[r], gate[r])
  /\ \A c \in Client : ClientSound(client[c]) /\ CallSound(client[c], work)
  /\ SlotsSound(inFlight, work)

\* What the invariant says of one reader.
LEMMA WorkIsTyped ==
  ASSUME CatalogIInv, NEW r \in Reader
  PROVE  /\ work \in [Reader -> WorkState] /\ work[r] \in WorkState
         /\ gate \in [Reader -> Gate] /\ gate[r] \in Gate
         /\ probe \in [Reader -> Probe] /\ probe[r] \in Probe
         /\ tables \in Branch /\ reorgEpoch \in Nat
         /\ ProbeSound(r) /\ PageSound(work[r], gate[r]) /\ GatewayTypeOK
BY DEF CatalogIInv, GatewayTypeOK, ReadinessTypeOK

\* What is there when nothing is.
LEMMA BlankIsCatalogSound ==
  /\ NoCursor \in Cursor /\ CursorSound(NoCursor)
  /\ NoWork \in WorkState /\ NoWork.step = "free" /\ NoWork.cursor = NoCursor
  /\ NewClient \in ClientState /\ ClientSound(NewClient)
  /\ NewClient.call = None
  /\ NoGate \in Gate /\ NoGate.stage = "idle"
  /\ PageSound(NoWork, NoGate)
<1>1. NoCursor \in Cursor /\ CursorSound(NoCursor)
  BY DEF NoCursor, Cursor, CursorSound, IsCursor
<1>2. <<>> \in Seq(Row) /\ <<>> \in Branch
  BY EmptySeq, EmptyIsBranch
<1>3. NoWork \in WorkState /\ NoWork.step = "free" /\ NoWork.cursor = NoCursor
  BY <1>1, <1>2 DEF NoWork, WorkState
<1>4. NewClient \in ClientState /\ NewClient.call = None
  BY <1>1, <1>2 DEF NewClient, ClientState, TupleOrNull
<1>5. ClientSound(NewClient)
  BY <1>1 DEF ClientSound, NewClient
<1>6. NoGate \in Gate /\ NoGate.stage = "idle"
  BY DEF NoGate, Gate, TupleOrNull
<1>7. PageSound(NoWork, NoGate)
  BY <1>1, <1>3, <1>6 DEF PageSound
<1> QED
  BY <1>1, <1>3, <1>4, <1>5, <1>6, <1>7

\* A page in production moves on.
LEMMA OnePageMoves ==
  ASSUME CatalogIInv, NEW r \in Reader,
         NEW w1 \in WorkState, NEW g1 \in Gate, NEW p1 \in Probe,
         work' = [work EXCEPT ![r] = w1],
         gate' = [gate EXCEPT ![r] = g1],
         probe' = [probe EXCEPT ![r] = p1],
         UNCHANGED Outside, UNCHANGED <<inFlight, client>>,
         p1.pc = "ready" => p1.canonicalHeight # None,
         w1.step = "free" <=> work[r].step = "free",
         w1.cursor = work[r].cursor,
         PageSound(w1, g1)
  PROVE  CatalogIInv'
<1>1. /\ work' \in [Reader -> WorkState] /\ gate' \in [Reader -> Gate]
      /\ probe' \in [Reader -> Probe]
      /\ work'[r] = w1 /\ gate'[r] = g1 /\ probe'[r] = p1
      /\ \A q \in Reader : q # r =>
           work'[q] = work[q] /\ gate'[q] = gate[q] /\ probe'[q] = probe[q]
  BY WorkIsTyped
<1>2. UNCHANGED <<node, left, reorgs, tables, reorgEpoch, phase, pipelineB>>
  BY DEF Outside
<1>3. GatewayTypeOK'
  BY <1>1, <1>2 DEF CatalogIInv, GatewayTypeOK, ReadinessTypeOK
<1>4. \A q \in Reader : ProbeSound(q)'
  BY <1>1 DEF CatalogIInv, ProbeSound
<1>5. \A q \in Reader : PageSound(work'[q], gate'[q])
  BY <1>1 DEF CatalogIInv
<1>6. \A q \in Reader : /\ work'[q].step = "free" <=> work[q].step = "free"
                        /\ work'[q].cursor = work[q].cursor
  BY <1>1
<1>7. client' \in [Client -> ClientState]
      /\ \A c \in Client : ClientSound(client'[c]) /\ CallSound(client'[c], work')
  <2>1. client' = client /\ client \in [Client -> ClientState]
        /\ \A c \in Client : ClientSound(client[c]) /\ CallSound(client[c], work)
    BY DEF CatalogIInv
  <2>2. \A c \in Client : CallSound(client[c], work')
    BY <1>6, <2>1 DEF CallSound
  <2> QED
    BY <2>1, <2>2
<1>8. SlotsSound(inFlight', work')
  <2>1. Busy(work') = Busy(work)
    BY <1>6 DEF Busy
  <2>2. inFlight' = inFlight
    OBVIOUS
  <2> QED
    BY <2>1, <2>2 DEF CatalogIInv, SlotsSound
<1> QED
  BY <1>1, <1>3, <1>4, <1>5, <1>7, <1>8 DEF CatalogIInv

\* A page ends: its slot is given back, and who waited for it no longer does.
LEMMA OnePageEnds ==
  ASSUME CatalogIInv, NEW r \in Reader, Running(r), NEW failed \in BOOLEAN, End(r, failed),
         client' \in [Client -> ClientState],
         \A c \in Client :
           /\ ClientSound(client'[c])
           /\ client'[c].call # r
           /\ client'[c].call # None =>
                client'[c].call = client[c].call /\ client'[c].cursor = client[c].cursor
  PROVE  CatalogIInv'
<1>1. /\ work' = [work EXCEPT ![r] = NoWork] /\ gate' = [gate EXCEPT ![r] = NoGate]
      /\ probe' = [probe EXCEPT ![r] = NoProbe] /\ inFlight' = inFlight - 1
      /\ UNCHANGED <<node, left, reorgs, tables, reorgEpoch, phase, pipelineB>>
  BY DEF End, SlotsAfter, sourceVars
<1>2. /\ work' \in [Reader -> WorkState] /\ gate' \in [Reader -> Gate]
      /\ probe' \in [Reader -> Probe]
      /\ work'[r] = NoWork /\ gate'[r] = NoGate /\ probe'[r] = NoProbe
      /\ \A q \in Reader : q # r =>
           work'[q] = work[q] /\ gate'[q] = gate[q] /\ probe'[q] = probe[q]
  BY <1>1, WorkIsTyped, BlankIsCatalogSound, ProbesAreTyped
<1>3. GatewayTypeOK'
  BY <1>1, <1>2 DEF CatalogIInv, GatewayTypeOK, ReadinessTypeOK
<1>4. \A q \in Reader : ProbeSound(q)'
  BY <1>2, ProbesAreTyped DEF CatalogIInv, ProbeSound
<1>5. \A q \in Reader : PageSound(work'[q], gate'[q])
  BY <1>2, BlankIsCatalogSound DEF CatalogIInv
<1>6. \A c \in Client : CallSound(client'[c], work')
  <2> SUFFICES ASSUME NEW c \in Client, NEW q \in Reader, client'[c].call = q
               PROVE  work'[q].step # "free" /\ work'[q].cursor = client'[c].cursor
    BY DEF CallSound
  <2>1. q # None /\ q # r
    BY CatalogAssumption
  <2>2. client[c].call = q /\ client'[c].cursor = client[c].cursor
    BY <2>1
  <2>3. work[q].step # "free" /\ work[q].cursor = client[c].cursor
    BY <2>2 DEF CatalogIInv, CallSound
  <2> QED
    BY <1>2, <2>1, <2>2, <2>3
<1>7. SlotsSound(inFlight', work')
  <2>1. Busy(work') = Busy(work) \ {r} /\ r \in Busy(work)
    BY <1>2, BlankIsCatalogSound DEF Busy, Running
  <2>2. /\ IsFiniteSet(Busy(work)) /\ inFlight = Cardinality(Busy(work))
        /\ inFlight \in Nat /\ inFlight <= 2
    BY DEF CatalogIInv, SlotsSound, MaxInFlight
  <2>3. IsFiniteSet(Busy(work')) /\ Cardinality(Busy(work')) = inFlight - 1
    BY <2>1, <2>2, FS_RemoveElement
  <2>4. Cardinality(Busy(work')) \in Nat
    BY <2>3, FS_CardinalityType
  <2> QED
    BY <1>1, <2>2, <2>3, <2>4 DEF SlotsSound, MaxInFlight
<1> QED
  BY <1>2, <1>3, <1>4, <1>5, <1>6, <1>7 DEF CatalogIInv

\* Only the callers change.
LEMMA OnlyCallersChange ==
  ASSUME CatalogIInv, UNCHANGED <<gatewayVars, work, inFlight>>,
         client' \in [Client -> ClientState],
         \A c \in Client : ClientSound(client'[c]) /\ CallSound(client'[c], work)
  PROVE  CatalogIInv'
<1>1. /\ UNCHANGED <<node, left, reorgs, tables, reorgEpoch, phase, probe, pipelineB, gate>>
      /\ work' = work /\ inFlight' = inFlight
  BY DEF gatewayVars
<1>2. GatewayTypeOK'
  BY <1>1 DEF CatalogIInv, GatewayTypeOK, ReadinessTypeOK
<1>3. \A q \in Reader : ProbeSound(q)' /\ PageSound(work'[q], gate'[q])
  BY <1>1 DEF CatalogIInv, ProbeSound
<1>4. SlotsSound(inFlight', work')
  BY <1>1 DEF CatalogIInv
<1>5. \A c \in Client : CallSound(client'[c], work')
  BY <1>1
<1> QED
  BY <1>1, <1>2, <1>3, <1>4, <1>5 DEF CatalogIInv

\* The node, the sync loop and pipeline B move.
LEMMA WorldKeepsCatalog ==
  ASSUME CatalogIInv, WorldMoves, UNCHANGED <<work, inFlight, client>>
  PROVE  CatalogIInv'
<1>1. /\ UNCHANGED <<probe, gate>> /\ pipelineB' \in Branch /\ SourcesTypeOK'
  <2>1. SourcesTypeOK /\ pipelineB \in Branch
    BY DEF CatalogIInv, GatewayTypeOK, ReadinessTypeOK, SourcesTypeOK
  <2>2. CASE SourcesMove /\ UNCHANGED <<probe, pipelineB, gate>>
    BY <2>1, <2>2, SourcesMoveIsTyped
  <2>3. CASE PipelineBMoves
    BY <2>1, <2>3 DEF PipelineBMoves, SourcesTypeOK
  <2> QED
    BY <2>2, <2>3 DEF WorldMoves
<1>2. GatewayTypeOK'
  BY <1>1 DEF CatalogIInv, GatewayTypeOK, ReadinessTypeOK, SourcesTypeOK
<1>3. \A q \in Reader : ProbeSound(q)' /\ PageSound(work'[q], gate'[q])
  BY <1>1 DEF CatalogIInv, ProbeSound
<1>4. SlotsSound(inFlight', work')
  BY DEF CatalogIInv
<1>5. client' \in [Client -> ClientState]
      /\ \A c \in Client : ClientSound(client'[c]) /\ CallSound(client'[c], work')
  BY DEF CatalogIInv
<1>6. work' \in [Reader -> WorkState]
  BY DEF CatalogIInv
<1> QED
  BY <1>2, <1>3, <1>4, <1>5, <1>6 DEF CatalogIInv

\* The gateway resolves.
LEMMA GateKeepsCatalog ==
  ASSUME CatalogIInv, NEW r \in Reader, GateStep(r) \/ FetchB(r),
         UNCHANGED <<work, inFlight, client>>
  PROVE  CatalogIInv'
<1>1. /\ work \in [Reader -> WorkState] /\ work[r] \in WorkState
      /\ gate[r] \in Gate /\ probe[r] \in Probe
      /\ ProbeSound(r) /\ PageSound(work[r], gate[r])
  BY WorkIsTyped
<1>2. PICK g1 \in Gate, p1 \in Probe :
        /\ GateBecomes(r, g1, p1)
        /\ \/ Probes(gate[r], probe[r], g1, p1)
           \/ Fails(gate[r], probe[r], g1, p1)
           \/ Signs(gate[r], probe[r], g1, p1)
           \/ Receives(gate[r], probe[r], g1, p1)
           \/ Agrees(gate[r], probe[r], g1, p1)
  BY GateStepCases DEF CatalogIInv
<1>3. p1.pc = "ready" => p1.canonicalHeight # None
  BY <1>1, <1>2, ProbesAreTyped
  DEF Probes, Fails, Signs, Receives, Agrees, ProbeSound
<1>4. PageSound(work[r], g1)
  <2>1. CASE Probes(gate[r], probe[r], g1, p1)
    BY <1>1, <2>1 DEF Probes
  <2>2. CASE Fails(gate[r], probe[r], g1, p1)
    <3>1. \/ gate[r].stage = "before" /\ g1.stage = "refused"
          \/ gate[r].stage = "after" /\ g1.stage = "withheld"
      BY <2>2 DEF Fails, Failed
    <3> QED
      BY <1>1, <3>1 DEF PageSound, WorkState
  <2>3. CASE Signs(gate[r], probe[r], g1, p1)
    <3>1. g1.stage = gate[r].stage /\ g1.before = gate[r].before
      BY <1>1, <2>3 DEF Signs, Gate
    <3> QED
      BY <1>1, <3>1 DEF PageSound
  <2>4. CASE Receives(gate[r], probe[r], g1, p1)
    BY <1>1, <2>4 DEF Receives, PageSound
  <2>5. CASE Agrees(gate[r], probe[r], g1, p1)
    <3>1. \/ gate[r].stage = "before" /\ g1.stage = "query" /\ g1.before # None
          \/ /\ gate[r].stage = "after" /\ g1.stage = "answered"
             /\ g1.before = gate[r].before /\ g1.before # None
      BY <2>5 DEF Agrees, NoGate
    <3> QED
      BY <1>1, <3>1 DEF PageSound, WorkState
  <2> QED
    BY <1>2, <2>1, <2>2, <2>3, <2>4, <2>5
<1>5. work' = [work EXCEPT ![r] = work[r]]
  BY <1>1
<1> QED
  BY <1>1, <1>2, <1>3, <1>4, <1>5, OnePageMoves DEF GateBecomes

-----------------------------------------------------------------------------
(***************************************************************************)
(* One page.                                                               *)
(***************************************************************************)

\* A caller asks for a page.
LEMMA AskKeepsCatalog ==
  ASSUME CatalogIInv, NEW r \in Reader, NEW c \in Client, Ask(c, r)
  PROVE  CatalogIInv'
<1> DEFINE w1 == [NoWork EXCEPT !.step = "snapshot", !.cursor = client[c].cursor]
           g1 == [NoGate EXCEPT !.stage = "before"]
<1>1. /\ ~Waiting(c) /\ ~client[c].done /\ work[r].step = "free" /\ inFlight < 2
      /\ inFlight' = inFlight + 1
      /\ work' = [work EXCEPT ![r] = w1]
      /\ client' = [client EXCEPT ![c].call = r]
      /\ gate' = [gate EXCEPT ![r] = g1] /\ probe' = [probe EXCEPT ![r] = NewProbe]
      /\ UNCHANGED <<node, left, reorgs, tables, reorgEpoch, phase, pipelineB>>
  BY DEF Ask, Running, Admits, MaxInFlight, BeginGate, sourceVars
<1>2. /\ client \in [Client -> ClientState] /\ client[c] \in ClientState
      /\ \A d \in Client : ClientSound(client[d]) /\ CallSound(client[d], work)
  BY DEF CatalogIInv
<1>3. /\ w1 \in WorkState /\ w1.step = "snapshot" /\ w1.cursor = client[c].cursor
  BY <1>2, BlankIsCatalogSound DEF WorkState, ClientState
<1>4. /\ g1 \in Gate /\ g1.stage = "before"
  BY BlankIsCatalogSound DEF Gate
<1> HIDE DEF w1, g1
<1>5. PageSound(w1, g1)
  BY <1>2, <1>3, <1>4 DEF PageSound, ClientSound
<1>6. /\ work' \in [Reader -> WorkState] /\ gate' \in [Reader -> Gate]
      /\ probe' \in [Reader -> Probe]
      /\ work'[r] = w1 /\ gate'[r] = g1 /\ probe'[r] = NewProbe
      /\ \A q \in Reader : q # r =>
           work'[q] = work[q] /\ gate'[q] = gate[q] /\ probe'[q] = probe[q]
  BY <1>1, <1>3, <1>4, WorkIsTyped, ProbesAreTyped
<1>7. GatewayTypeOK'
  BY <1>1, <1>6 DEF CatalogIInv, GatewayTypeOK, ReadinessTypeOK
<1>8. \A q \in Reader : ProbeSound(q)'
  BY <1>6, ProbesAreTyped DEF CatalogIInv, ProbeSound
<1>9. \A q \in Reader : PageSound(work'[q], gate'[q])
  BY <1>5, <1>6 DEF CatalogIInv
<1>10. /\ client' \in [Client -> ClientState]
       /\ client'[c] \in ClientState
       /\ client'[c].call = r /\ client'[c].cursor = client[c].cursor
       /\ client'[c].items = client[c].items /\ client'[c].done = client[c].done
       /\ \A d \in Client : d # c => client'[d] = client[d]
  BY <1>1, <1>2 DEF ClientState
<1>11. \A d \in Client : ClientSound(client'[d])
  BY <1>1, <1>2, <1>10 DEF ClientSound
<1>12. \A d \in Client : CallSound(client'[d], work')
  <2> SUFFICES ASSUME NEW d \in Client, NEW q \in Reader, client'[d].call = q
               PROVE  work'[q].step # "free" /\ work'[q].cursor = client'[d].cursor
    BY DEF CallSound
  <2>1. CASE d = c
    BY <1>3, <1>6, <1>10, <2>1
  <2>2. CASE d # c
    <3>1. client[d].call = q /\ client'[d].cursor = client[d].cursor
      BY <1>10, <2>2
    <3>2. work[q].step # "free" /\ work[q].cursor = client[d].cursor
      BY <1>2, <3>1 DEF CallSound
    <3> QED
      BY <1>1, <1>6, <3>1, <3>2
  <2> QED
    BY <2>1, <2>2
<1>13. SlotsSound(inFlight', work')
  <2>1. Busy(work') = Busy(work) \cup {r} /\ r \notin Busy(work)
    BY <1>1, <1>3, <1>6 DEF Busy
  <2>2. /\ IsFiniteSet(Busy(work)) /\ inFlight = Cardinality(Busy(work)) /\ inFlight \in Nat
    BY DEF CatalogIInv, SlotsSound
  <2>3. IsFiniteSet(Busy(work')) /\ Cardinality(Busy(work')) = inFlight + 1
    BY <2>1, <2>2, FS_AddElement
  <2> QED
    BY <1>1, <2>2, <2>3 DEF SlotsSound, MaxInFlight
<1> QED
  BY <1>6, <1>7, <1>8, <1>9, <1>10, <1>11, <1>12, <1>13 DEF CatalogIInv

\* A page fails: its callers may try again, or start again.
LEMMA FailureKeepsCatalog ==
  ASSUME CatalogIInv, NEW r \in Reader, Running(r), Unavailable(r) \/ Conflict(r)
  PROVE  CatalogIInv'
<1>1. /\ client \in [Client -> ClientState]
      /\ \A c \in Client : client[c] \in ClientState /\ ClientSound(client[c])
  BY DEF CatalogIInv
<1>2. r # None
  BY CatalogAssumption
<1>3. End(r, TRUE)
  BY DEF Unavailable, Conflict
<1>4. CASE Unavailable(r)
  <2>1. client' = [c \in Client |->
          IF client[c].call = r THEN [client[c] EXCEPT !.call = None] ELSE client[c]]
    BY <1>4 DEF Unavailable
  <2>2. \A c \in Client :
          LET s == [client[c] EXCEPT !.call = None]
          IN /\ s \in ClientState /\ s.call = None
             /\ s.cursor = client[c].cursor /\ s.done = client[c].done
             /\ s.items = client[c].items /\ s.agreement = client[c].agreement
    BY <1>1 DEF ClientState
  <2>3. \A c \in Client : ClientSound([client[c] EXCEPT !.call = None])
    BY <1>1, <2>2 DEF ClientSound
  <2>4. client' \in [Client -> ClientState]
    BY <1>1, <2>1, <2>2
  <2>5. \A c \in Client :
           /\ ClientSound(client'[c])
           /\ client'[c].call # r
           /\ client'[c].call # None =>
                client'[c].call = client[c].call /\ client'[c].cursor = client[c].cursor
    BY <1>1, <1>2, <2>1, <2>2, <2>3
  <2> QED
    BY <1>3, <2>4, <2>5, OnePageEnds
<1>5. CASE Conflict(r)
  <2>1. client' = [c \in Client |-> IF client[c].call = r THEN NewClient ELSE client[c]]
    BY <1>5 DEF Conflict
  <2>2. client' \in [Client -> ClientState]
    BY <1>1, <2>1, BlankIsCatalogSound
  <2>3. \A c \in Client :
           /\ ClientSound(client'[c])
           /\ client'[c].call # r
           /\ client'[c].call # None =>
                client'[c].call = client[c].call /\ client'[c].cursor = client[c].cursor
    BY <1>1, <1>2, <2>1, BlankIsCatalogSound
  <2> QED
    BY <1>3, <2>2, <2>3, OnePageEnds
<1> QED
  BY <1>4, <1>5

\* The first reads: from here on the page is of the agreement, or it fails.
LEMMA SnapshotKeepsCatalog ==
  ASSUME CatalogIInv, NEW r \in Reader, ReadSnapshot(r)
  PROVE  CatalogIInv'
<1> DEFINE snapshot == SnapshotHash(gate[r].before, reorgEpoch)
           w1 == [work[r] EXCEPT !.step = "rows", !.snapshot = snapshot, !.seen = tables]
<1>1. /\ work \in [Reader -> WorkState] /\ work[r] \in WorkState
      /\ gate \in [Reader -> Gate] /\ gate[r] \in Gate
      /\ probe \in [Reader -> Probe] /\ probe[r] \in Probe
      /\ tables \in Branch /\ reorgEpoch \in Nat
      /\ ProbeSound(r) /\ PageSound(work[r], gate[r])
  BY WorkIsTyped
<1>2. work[r].step = "snapshot" /\ gate[r].stage = "query"
  BY DEF ReadSnapshot, Fenced
<1>3. CASE Unavailable(r) \/ Conflict(r)
  BY <1>2, <1>3, FailureKeepsCatalog DEF Running
<1>4. CASE ~(Unavailable(r) \/ Conflict(r))
  <2>1. /\ tables = gate[r].before
        /\ work[r].cursor = NoCursor \/ work[r].cursor.snapshot = snapshot
        /\ work' = [work EXCEPT ![r].step = "rows", ![r].snapshot = snapshot,
                                ![r].seen = tables]
        /\ UNCHANGED <<gatewayVars, inFlight, client>>
    BY <1>4 DEF ReadSnapshot, SqlMatches, CursorFits
  <2>2. gate[r].before \in Branch \ {<<>>}
    BY <1>1, <1>2 DEF PageSound, Gate, TupleOrNull
  <2>3. snapshot \in Snapshots /\ snapshot.agreement = gate[r].before
    BY <1>1, <2>2 DEF SnapshotHash, Snapshots
  <2> HIDE DEF snapshot
  <2>4. /\ w1 \in WorkState /\ w1.step = "rows" /\ w1.cursor = work[r].cursor
        /\ w1.snapshot = snapshot /\ w1.seen = tables
    BY <1>1, <2>3 DEF WorkState
  <2>5. work' = [work EXCEPT ![r] = w1]
    BY <1>1, <2>1 DEF WorkState
  <2> HIDE DEF w1
  <2>6. PageSound(w1, gate[r])
    BY <1>1, <1>2, <2>1, <2>2, <2>3, <2>4 DEF PageSound
  <2>7. /\ gate' = [gate EXCEPT ![r] = gate[r]] /\ probe' = [probe EXCEPT ![r] = probe[r]]
        /\ UNCHANGED Outside /\ UNCHANGED <<inFlight, client>>
    BY <1>1, <2>1 DEF gatewayVars, Outside
  <2> QED
    BY <1>1, <1>2, <2>4, <2>5, <2>6, <2>7, OnePageMoves DEF ProbeSound
<1> QED
  BY <1>3, <1>4

\* The objects at a branch are rows.
LEMMA ObjectsAreListed ==
  ASSUME NEW branch \in Branch
  PROVE  TandemObjects(branch) \subseteq Row
<1>1. \A row \in TandemObjects(branch) : row.height \in Nat /\ row.key \in Nat
  BY ObjectsAreRows DEF IsRowSet
<1>2. \A row \in TandemObjects(branch) :
        row = [height |-> row.height, key |-> row.key, asOf |-> branch]
  BY DEF TandemObjects, RowsAtHeight
<1> QED
  BY <1>1, <1>2 DEF Row

\* The page of a branch and a cursor, as a value.
LEMMA PageIsTyped ==
  ASSUME NEW branch \in Branch, NEW cursor, CursorAt(branch, cursor)
  PROVE  PageOf(branch, cursor) \in [items : Seq(Row), hasMore : BOOLEAN]
<1>1. PageOf(branch, cursor).items \in Seq(TandemObjects(branch))
  BY PageIsNext
<1>2. PageOf(branch, cursor).items \in Seq(Row)
  BY <1>1, ObjectsAreListed, SeqMonotonic
<1> QED
  BY <1>2 DEF PageOf

\* The rows are read under the snapshot, and pass the check.
LEMMA RowsKeepCatalog ==
  ASSUME CatalogIInv, NEW r \in Reader, ReadRows(r)
  PROVE  CatalogIInv'
<1> DEFINE page == PageOf(work[r].seen, work[r].cursor)
           w1 == [work[r] EXCEPT !.step = "core", !.page = page]
<1>1. /\ work \in [Reader -> WorkState] /\ work[r] \in WorkState
      /\ gate \in [Reader -> Gate] /\ gate[r] \in Gate
      /\ probe \in [Reader -> Probe] /\ probe[r] \in Probe
      /\ ProbeSound(r) /\ PageSound(work[r], gate[r])
  BY WorkIsTyped
<1>2. work[r].step = "rows" /\ gate[r].stage = "query"
  BY DEF ReadRows, Fenced
<1>3. CASE Unavailable(r)
  BY <1>2, <1>3, FailureKeepsCatalog DEF Running
<1>4. CASE ~Unavailable(r)
  <2>1. /\ work' = [work EXCEPT ![r].step = "core", ![r].page = page]
        /\ UNCHANGED <<gatewayVars, inFlight, client>>
    BY <1>4 DEF ReadRows, SeenBy
  <2>2. work[r].seen \in Branch /\ CursorAt(work[r].seen, work[r].cursor)
    BY <1>1, <1>2 DEF PageSound, CursorSound, WorkState, CursorAt
  <2>3. page \in [items : Seq(Row), hasMore : BOOLEAN]
    BY <2>2, PageIsTyped
  <2> HIDE DEF page
  <2>4. /\ w1 \in WorkState /\ w1.step = "core" /\ w1.cursor = work[r].cursor
        /\ w1.snapshot = work[r].snapshot /\ w1.seen = work[r].seen /\ w1.page = page
    BY <1>1, <2>3 DEF WorkState
  <2>5. work' = [work EXCEPT ![r] = w1]
    BY <1>1, <2>1 DEF WorkState
  <2> HIDE DEF w1
  <2>6. PageSound(w1, gate[r])
    BY <1>1, <1>2, <2>4 DEF PageSound, page
  <2>7. /\ gate' = [gate EXCEPT ![r] = gate[r]] /\ probe' = [probe EXCEPT ![r] = probe[r]]
        /\ UNCHANGED Outside /\ UNCHANGED <<inFlight, client>>
    BY <1>1, <2>1 DEF gatewayVars, Outside
  <2> QED
    BY <1>1, <1>2, <2>4, <2>5, <2>6, <2>7, OnePageMoves DEF ProbeSound
<1> QED
  BY <1>3, <1>4

\* The node still has the block: the second resolution begins.
LEMMA CoreKeepsCatalog ==
  ASSUME CatalogIInv, NEW r \in Reader, CheckCore(r)
  PROVE  CatalogIInv'
<1> DEFINE w1 == [work[r] EXCEPT !.step = "recheck"]
           g1 == [gate[r] EXCEPT !.stage = "after"]
<1>1. /\ work \in [Reader -> WorkState] /\ work[r] \in WorkState
      /\ gate \in [Reader -> Gate] /\ gate[r] \in Gate
      /\ PageSound(work[r], gate[r])
  BY WorkIsTyped
<1>2. work[r].step = "core" /\ gate[r].stage = "query"
  BY DEF CheckCore, Fenced
<1>3. CASE Unavailable(r)
  BY <1>2, <1>3, FailureKeepsCatalog DEF Running
<1>4. CASE ~Unavailable(r)
  <2>1. /\ work' = [work EXCEPT ![r].step = "recheck"]
        /\ gate' = [gate EXCEPT ![r].stage = "after"]
        /\ probe' = [probe EXCEPT ![r] = NewProbe]
        /\ UNCHANGED Outside /\ UNCHANGED <<inFlight, client>>
    BY <1>4 DEF CheckCore, Recheck, sourceVars, Outside
  <2>2. /\ w1 \in WorkState /\ w1.step = "recheck" /\ w1.cursor = work[r].cursor
        /\ w1.snapshot = work[r].snapshot /\ w1.seen = work[r].seen
        /\ w1.page = work[r].page
    BY <1>1 DEF WorkState
  <2>3. g1 \in Gate /\ g1.stage = "after" /\ g1.before = gate[r].before
    BY <1>1 DEF Gate
  <2>4. work' = [work EXCEPT ![r] = w1] /\ gate' = [gate EXCEPT ![r] = g1]
    BY <1>1, <2>1 DEF WorkState, Gate
  <2> HIDE DEF w1, g1
  <2>5. PageSound(w1, g1)
    BY <1>1, <1>2, <2>2, <2>3 DEF PageSound
  <2> QED
    BY <1>1, <1>2, <2>1, <2>2, <2>3, <2>4, <2>5, OnePageMoves, ProbesAreTyped
<1> QED
  BY <1>3, <1>4

\* A deadline passes.
LEMMA DeadlineKeepsCatalog ==
  ASSUME CatalogIInv, NEW r \in Reader, DeadlinePasses(r)
  PROVE  CatalogIInv'
<1> DEFINE w1 == [work[r] EXCEPT !.late = TRUE]
<1>1. /\ work \in [Reader -> WorkState] /\ work[r] \in WorkState
      /\ gate \in [Reader -> Gate] /\ gate[r] \in Gate
      /\ probe \in [Reader -> Probe] /\ probe[r] \in Probe
      /\ ProbeSound(r) /\ PageSound(work[r], gate[r])
  BY WorkIsTyped
<1>2. /\ w1 \in WorkState /\ w1.step = work[r].step /\ w1.cursor = work[r].cursor
      /\ w1.snapshot = work[r].snapshot /\ w1.seen = work[r].seen /\ w1.page = work[r].page
  BY <1>1 DEF WorkState
<1>3. work' = [work EXCEPT ![r] = w1]
  BY <1>1 DEF DeadlinePasses, WorkState
<1> HIDE DEF w1
<1>4. PageSound(w1, gate[r])
  BY <1>1, <1>2 DEF PageSound
<1>5. /\ gate' = [gate EXCEPT ![r] = gate[r]] /\ probe' = [probe EXCEPT ![r] = probe[r]]
      /\ UNCHANGED Outside /\ UNCHANGED <<inFlight, client>>
  BY <1>1 DEF DeadlinePasses, gatewayVars, Outside
<1> QED
  BY <1>1, <1>2, <1>3, <1>4, <1>5, OnePageMoves DEF ProbeSound

\* What a caller has after a page: the listing up to the page's end, and the
\* cursor at its last row, or all of the listing.
LEMMA PageExtendsListing ==
  ASSUME NEW snapshot \in Snapshots, NEW cursor \in Cursor,
         NEW items, CursorAt(snapshot.agreement, cursor),
         items = SubSeq(Rows(snapshot.agreement), 1, cursor.offset)
  PROVE  LET branch == snapshot.agreement
             page == PageOf(branch, cursor)
             next == CursorAfter(page, snapshot, cursor.offset)
         IN /\ next \in Cursor /\ CursorSound(next)
            /\ items \o page.items \in Seq(Row)
            /\ next = NoCursor => items \o page.items = Rows(branch)
            /\ next # NoCursor =>
                 /\ next.snapshot = snapshot
                 /\ items \o page.items = SubSeq(Rows(branch), 1, next.offset)
<1> DEFINE branch == snapshot.agreement
           o == cursor.offset
           e == PageEnd(branch, cursor)
           page == PageOf(branch, cursor)
           s == Rows(branch)
           n == Total(branch)
           next == CursorAfter(page, snapshot, o)
<1>1. branch \in Branch
  BY DEF Snapshots
<1>2. /\ n \in Nat /\ s \in Seq(TandemObjects(branch)) /\ Len(s) = n
      /\ o \in 0 .. n /\ e \in o .. n /\ page.items = SubSeq(s, o + 1, e)
  BY <1>1, PageIsNext, RowsAreListed
<1>3. TandemObjects(branch) \subseteq Row
  BY <1>1, ObjectsAreListed
<1>4. s \in Seq(Row)
  BY <1>2, <1>3, SeqMonotonic
<1>5. /\ next = NoCursor => e = n
      /\ next # NoCursor =>
           /\ next = [snapshot |-> snapshot, height |-> s[e].height,
                      key |-> s[e].key, offset |-> e]
           /\ e \in 1 .. (n - 1)
           /\ s[e].height \in 1 .. Len(branch)
           /\ s[e].key \in 1 .. Creates[branch[s[e].height]]
  BY CursorFollowsPage
<1>6. items \o page.items = SubSeq(s, 1, e)
  <2>1. 1 \in 1 .. Len(s) + 1 /\ o \in 1 - 1 .. Len(s) /\ e \in o .. Len(s)
    BY <1>2
  <2>2. SubSeq(s, 1, o) \o SubSeq(s, o + 1, e) = SubSeq(s, 1, e)
    BY <1>2, <2>1, ConcatAdjacentSubSeq
  <2> QED
    BY <1>2, <2>2
<1>7. SubSeq(s, 1, e) \in Seq(Row)
  <2>1. \A i \in 1 .. e : s[i] \in Row
    BY <1>2, <1>4
  <2>2. e \in Int
    BY <1>2
  <2> QED
    BY <2>1, <2>2, SubSeqProperties
<1>8. CASE next = NoCursor
  <2>1. SubSeq(s, 1, e) = s
    BY <1>2, <1>5, <1>8, SubSeqFull
  <2> QED
    BY <1>6, <1>7, <1>8, <2>1, BlankIsCatalogSound
<1>9. CASE next # NoCursor
  <2>1. /\ next.snapshot = snapshot /\ next.offset = e
        /\ next.height = s[e].height /\ next.key = s[e].key
        /\ e \in 1 .. (n - 1)
        /\ s[e].height \in 1 .. Len(branch)
        /\ s[e].key \in 1 .. Creates[branch[s[e].height]]
    BY <1>5, <1>9
  <2>2. next \in Cursor
    BY <1>5, <1>9 DEF Cursor
  <2>3. IsCursor(next)
    BY <2>1 DEF IsCursor
  <2>4. CursorAt(next.snapshot.agreement, next)
    BY <2>1 DEF CursorAt
  <2> QED
    BY <1>6, <1>7, <1>9, <2>1, <2>2, <2>3, <2>4 DEF CursorSound
<1> QED
  BY <1>8, <1>9

\* The result of the work reaches the callers that wait.
LEMMA DeliveryKeepsCatalog ==
  ASSUME CatalogIInv, NEW r \in Reader, Deliver(r)
  PROVE  CatalogIInv'
<1> DEFINE w == work[r]
           next == CursorAfter(w.page, w.snapshot, w.cursor.offset)
           got(c) == [call |-> None, cursor |-> next, items |-> client[c].items \o w.page.items,
                      agreement |-> gate[r].before, done |-> next = NoCursor]
<1>1. /\ w \in WorkState /\ gate[r] \in Gate /\ PageSound(w, gate[r])
  BY WorkIsTyped
<1>2. gate[r].stage = "answered" /\ End(r, FALSE)
      /\ client' = [c \in Client |-> IF client[c].call = r THEN got(c) ELSE client[c]]
  BY DEF Deliver
<1>3. w.step = "recheck"
  BY <1>1, <1>2 DEF PageSound, WorkState
<1>4. /\ w.snapshot \in Snapshots /\ w.snapshot.agreement = gate[r].before
      /\ w.page = PageOf(w.snapshot.agreement, w.cursor)
      /\ w.cursor \in Cursor /\ CursorSound(w.cursor)
      /\ w.cursor = NoCursor \/ w.cursor.snapshot = w.snapshot
      /\ gate[r].before \in TupleOrNull
  BY <1>1, <1>2, <1>3 DEF PageSound, WorkState, Gate
<1>5. CursorAt(w.snapshot.agreement, w.cursor)
  BY <1>4 DEF CursorSound, CursorAt
<1>6. /\ client \in [Client -> ClientState]
      /\ \A c \in Client : client[c] \in ClientState /\ ClientSound(client[c])
                           /\ CallSound(client[c], work)
  BY DEF CatalogIInv
<1>7. r # None
  BY CatalogAssumption
<1>8. ASSUME NEW c \in Client, client[c].call = r
      PROVE  got(c) \in ClientState /\ ClientSound(got(c)) /\ got(c).call = None
  <2>1. client[c].cursor = w.cursor /\ ~client[c].done
    BY <1>6, <1>7, <1>8 DEF CallSound, ClientSound
  <2>2. client[c].items = SubSeq(Rows(w.snapshot.agreement), 1, w.cursor.offset)
    <3>1. CASE w.cursor = NoCursor
      <4>1. client[c].items = <<>>
        BY <1>6, <2>1, <3>1 DEF ClientSound
      <4>2. w.cursor.offset = 0
        BY <3>1 DEF NoCursor
      <4>3. SubSeq(Rows(w.snapshot.agreement), 1, 0) = <<>>
        BY SubSeqEmpty
      <4> QED
        BY <4>1, <4>2, <4>3
    <3>2. CASE w.cursor # NoCursor
      BY <1>4, <1>6, <2>1, <3>2 DEF ClientSound
    <3> QED
      BY <3>1, <3>2
  <2> DEFINE items == client[c].items \o w.page.items
  <2>3. /\ next \in Cursor /\ CursorSound(next) /\ items \in Seq(Row)
        /\ next = NoCursor => items = Rows(gate[r].before)
        /\ next # NoCursor =>
             /\ next.snapshot = w.snapshot
             /\ items = SubSeq(Rows(gate[r].before), 1, next.offset)
    <3>1. LET branch == w.snapshot.agreement
              page == PageOf(branch, w.cursor)
              nxt == CursorAfter(page, w.snapshot, w.cursor.offset)
          IN /\ nxt \in Cursor /\ CursorSound(nxt)
             /\ client[c].items \o page.items \in Seq(Row)
             /\ nxt = NoCursor => client[c].items \o page.items = Rows(branch)
             /\ nxt # NoCursor =>
                  /\ nxt.snapshot = w.snapshot
                  /\ client[c].items \o page.items = SubSeq(Rows(branch), 1, nxt.offset)
      <4>1. PICK snapshot \in Snapshots, cursor \in Cursor :
              snapshot = w.snapshot /\ cursor = w.cursor
        BY <1>4
      <4>2. PICK held : held = client[c].items
        OBVIOUS
      <4>3. /\ CursorAt(snapshot.agreement, cursor)
            /\ held = SubSeq(Rows(snapshot.agreement), 1, cursor.offset)
        BY <1>5, <2>2, <4>1, <4>2
      <4> HIDE DEF w
      <4>4. LET branch == snapshot.agreement
                page == PageOf(branch, cursor)
                nxt == CursorAfter(page, snapshot, cursor.offset)
            IN /\ nxt \in Cursor /\ CursorSound(nxt)
               /\ held \o page.items \in Seq(Row)
               /\ nxt = NoCursor => held \o page.items = Rows(branch)
               /\ nxt # NoCursor =>
                    /\ nxt.snapshot = snapshot
                    /\ held \o page.items = SubSeq(Rows(branch), 1, nxt.offset)
        BY <4>3, PageExtendsListing
      <4> QED
        BY <4>1, <4>2, <4>4
    <3> QED
      BY <1>4, <3>1
  <2> HIDE DEF items, next
  <2>4. got(c) = [call |-> None, cursor |-> next, items |-> items,
                  agreement |-> gate[r].before, done |-> next = NoCursor]
    BY DEF items
  <2> HIDE DEF got
  <2>5. got(c) \in ClientState
    BY <1>4, <2>3, <2>4 DEF ClientState
  <2>6. /\ got(c).call = None /\ got(c).cursor = next /\ got(c).items = items
        /\ got(c).agreement = gate[r].before /\ got(c).done = (next = NoCursor)
    BY <2>4
  <2>7. ClientSound(got(c))
    <3>1. CASE next = NoCursor
      BY <2>3, <2>6, <3>1 DEF ClientSound
    <3>2. CASE next # NoCursor
      <4>1. items = SubSeq(Rows(next.snapshot.agreement), 1, next.offset)
        BY <1>4, <2>3, <3>2
      <4> QED
        BY <2>3, <2>6, <3>2, <4>1 DEF ClientSound
    <3> QED
      BY <3>1, <3>2
  <2> QED
    BY <2>5, <2>6, <2>7
<1> HIDE DEF got
<1>9. client' \in [Client -> ClientState]
  BY <1>2, <1>6, <1>8
<1>10. \A c \in Client :
         /\ ClientSound(client'[c])
         /\ client'[c].call # r
         /\ client'[c].call # None =>
              client'[c].call = client[c].call /\ client'[c].cursor = client[c].cursor
  BY <1>2, <1>6, <1>7, <1>8
<1> QED
  BY <1>2, <1>3, <1>9, <1>10, OnePageEnds DEF Running

\* The timer answers, or a caller begins another catalog.
LEMMA CallersKeepCatalog ==
  ASSUME CatalogIInv,
         (\E r \in Reader : TimerFires(r)) \/ (\E c \in Client : StartOver(c))
  PROVE  CatalogIInv'
<1>1. /\ client \in [Client -> ClientState]
      /\ \A c \in Client : client[c] \in ClientState /\ ClientSound(client[c])
                           /\ CallSound(client[c], work)
  BY DEF CatalogIInv
<1>2. None \notin Reader
  BY CatalogAssumption
<1>3. ASSUME NEW r \in Reader, TimerFires(r)
      PROVE  CatalogIInv'
  <2>1. /\ client' = [c \in Client |->
             IF client[c].call = r THEN [client[c] EXCEPT !.call = None] ELSE client[c]]
        /\ UNCHANGED <<gatewayVars, work, inFlight>>
    BY <1>3 DEF TimerFires
  <2>2. \A c \in Client :
          LET s == [client[c] EXCEPT !.call = None]
          IN /\ s \in ClientState /\ s.call = None
             /\ s.cursor = client[c].cursor /\ s.done = client[c].done
             /\ s.items = client[c].items /\ s.agreement = client[c].agreement
    BY <1>1 DEF ClientState
  <2>3. \A c \in Client : LET s == [client[c] EXCEPT !.call = None]
                          IN ClientSound(s) /\ CallSound(s, work)
    BY <1>1, <1>2, <2>2 DEF ClientSound, CallSound
  <2>4. client' \in [Client -> ClientState]
    BY <1>1, <2>1, <2>2
  <2>5. \A c \in Client : ClientSound(client'[c]) /\ CallSound(client'[c], work)
    BY <1>1, <2>1, <2>3
  <2> QED
    BY <2>1, <2>4, <2>5, OnlyCallersChange
<1>4. ASSUME NEW c \in Client, StartOver(c)
      PROVE  CatalogIInv'
  <2>1. client' = [client EXCEPT ![c] = NewClient] /\ UNCHANGED <<gatewayVars, work, inFlight>>
    BY <1>4 DEF StartOver
  <2>2. client' \in [Client -> ClientState]
    BY <1>1, <2>1, BlankIsCatalogSound
  <2>3. CallSound(NewClient, work)
    BY <1>2, BlankIsCatalogSound DEF CallSound
  <2>4. \A d \in Client : ClientSound(client'[d]) /\ CallSound(client'[d], work)
    BY <1>1, <2>1, <2>3, BlankIsCatalogSound
  <2> QED
    BY <2>1, <2>2, <2>4, OnlyCallersChange
<1> QED
  BY <1>3, <1>4

\* Nothing is in production.
LEMMA NoneBusy ==
  ASSUME NEW w, \A r \in Reader : w[r].step = "free"
  PROVE  SlotsSound(0, w)
<1>1. Busy(w) = {}
  BY DEF Busy
<1> QED
  BY <1>1, FS_EmptySet DEF SlotsSound, MaxInFlight

\* The process dies: the callers keep what they have.
LEMMA RestartKeepsCatalog ==
  ASSUME CatalogIInv, Restart
  PROVE  CatalogIInv'
<1>1. /\ client \in [Client -> ClientState]
      /\ \A c \in Client : client[c] \in ClientState /\ ClientSound(client[c])
  BY DEF CatalogIInv
<1>2. /\ phase' = "awaiting_init"
      /\ probe' = [r \in Reader |-> NoProbe] /\ gate' = [r \in Reader |-> NoGate]
      /\ work' = [r \in Reader |-> NoWork] /\ inFlight' = 0
      /\ client' = [c \in Client |-> [client[c] EXCEPT !.call = None]]
      /\ UNCHANGED <<node, left, reorgs, tables, reorgEpoch, pipelineB>>
  BY DEF Restart
<1>3. GatewayTypeOK'
  BY <1>2, ProbesAreTyped, BlankIsCatalogSound DEF CatalogIInv, GatewayTypeOK, ReadinessTypeOK
<1>4. \A r \in Reader : ProbeSound(r)' /\ PageSound(work'[r], gate'[r])
  BY <1>2, ProbesAreTyped, BlankIsCatalogSound DEF ProbeSound
<1>5. \A c \in Client :
        LET s == [client[c] EXCEPT !.call = None]
        IN /\ s \in ClientState /\ s.call = None
           /\ s.cursor = client[c].cursor /\ s.done = client[c].done
           /\ s.items = client[c].items /\ s.agreement = client[c].agreement
  BY <1>1 DEF ClientState
<1>6. \A c \in Client : LET s == [client[c] EXCEPT !.call = None]
                        IN ClientSound(s) /\ CallSound(s, work')
  BY <1>1, <1>5, CatalogAssumption DEF ClientSound, CallSound
<1>7. client' \in [Client -> ClientState]
      /\ \A c \in Client : ClientSound(client'[c]) /\ CallSound(client'[c], work')
  BY <1>2, <1>5, <1>6
<1>8. work' \in [Reader -> WorkState] /\ \A r \in Reader : work'[r].step = "free"
  BY <1>2, BlankIsCatalogSound
<1>9. SlotsSound(inFlight', work')
  <2>1. SlotsSound(0, work')
    BY <1>8, NoneBusy
  <2> QED
    BY <1>2, <2>1
<1> QED
  BY <1>3, <1>4, <1>7, <1>8, <1>9 DEF CatalogIInv

\* Nothing has been asked: every slot is free and no caller holds a row.
LEMMA CatalogStarts == Init => CatalogIInv
<1> SUFFICES ASSUME Init
             PROVE  CatalogIInv
  OBVIOUS
<1>1. GatewayTypeOK
  BY SourcesStartTyped, EmptyIsBranch, BlankIsCatalogSound DEF Init, GatewayInit, GatewayTypeOK
<1>2. \A r \in Reader : probe[r] = NoProbe /\ gate[r] = NoGate /\ work[r] = NoWork
  BY DEF Init, GatewayInit, ReadinessInit
<1>3. \A r \in Reader : ProbeSound(r) /\ PageSound(work[r], gate[r])
  BY <1>2, ProbesAreTyped, BlankIsCatalogSound DEF ProbeSound
<1>4. work \in [Reader -> WorkState] /\ client \in [Client -> ClientState]
  BY BlankIsCatalogSound DEF Init
<1>5. \A c \in Client : ClientSound(client[c]) /\ CallSound(client[c], work)
  BY BlankIsCatalogSound, CatalogAssumption DEF Init, CallSound
<1>6. SlotsSound(inFlight, work)
  <2>1. \A r \in Reader : work[r].step = "free"
    BY <1>2, BlankIsCatalogSound
  <2>2. SlotsSound(0, work)
    BY <2>1, NoneBusy
  <2> QED
    BY <2>2 DEF Init
<1> QED
  BY <1>1, <1>3, <1>4, <1>5, <1>6 DEF CatalogIInv

\* A failure of the page, or of its gateway, is of a page that is in production.
LEMMA FailuresAreOfRunningPages ==
  ASSUME CatalogIInv, NEW r \in Reader, PageFails(r) \/ GateFails(r)
  PROVE  Running(r) /\ Unavailable(r)
<1>1. PageSound(work[r], gate[r])
  BY WorkIsTyped
<1> QED
  BY <1>1 DEF PageFails, GateFails, Fenced, Running, PageSound

\* Every step of the pages, the gateway, the nodes and the callers keeps it.
LEMMA CatalogContinues ==
  ASSUME CatalogIInv, [Next]_vars
  PROVE  CatalogIInv'
<1>1. CASE UNCHANGED vars
  <2>1. UNCHANGED <<gatewayVars, work, inFlight>> /\ client' = client
    BY <1>1 DEF vars
  <2>2. client \in [Client -> ClientState]
        /\ \A c \in Client : ClientSound(client[c]) /\ CallSound(client[c], work)
    BY DEF CatalogIInv
  <2> QED
    BY <2>1, <2>2, OnlyCallersChange
<1>2. ASSUME NEW r \in Reader, WorkStep(r) \/ BAnswers(r) \/ DeadlinePasses(r)
      PROVE  CatalogIInv'
  BY <1>2, GateKeepsCatalog, SnapshotKeepsCatalog, RowsKeepCatalog, CoreKeepsCatalog,
     FailuresAreOfRunningPages, FailureKeepsCatalog, DeliveryKeepsCatalog, DeadlineKeepsCatalog
  DEF WorkStep, GateMoves, BAnswers
<1> QED
  BY <1>1, <1>2, AskKeepsCatalog, WorldKeepsCatalog, CallersKeepCatalog, RestartKeepsCatalog
  DEF Next

-----------------------------------------------------------------------------
(***************************************************************************)
(* The tables that are read.                                               *)
(***************************************************************************)
\* Of the steps here, only those of the sync loop change the tables.
LEMMA TablesMoveWithSources ==
  ASSUME Next
  PROVE  SourcesMove \/ UNCHANGED tables
<1>1. ASSUME NEW r \in Reader, NEW failed, End(r, failed)
      PROVE  UNCHANGED tables
  BY <1>1 DEF End, sourceVars
<1>2. ASSUME NEW r \in Reader, Unavailable(r) \/ Conflict(r)
      PROVE  UNCHANGED tables
  BY <1>1, <1>2 DEF Unavailable, Conflict
<1>3. CASE \E r \in Reader, c \in Client : Ask(c, r)
  BY <1>3 DEF Ask, sourceVars
<1>4. CASE \E r \in Reader : GateMoves(r) \/ BAnswers(r)
  BY <1>4, GateLeavesTables DEF GateMoves, BAnswers
<1>5. CASE \E r \in Reader : GateFails(r) \/ PageFails(r)
  BY <1>2, <1>5 DEF GateFails, PageFails
<1>6. CASE \E r \in Reader : ReadSnapshot(r) \/ ReadRows(r)
  BY <1>2, <1>6 DEF ReadSnapshot, ReadRows, gatewayVars
<1>7. CASE \E r \in Reader : CheckCore(r)
  BY <1>2, <1>7 DEF CheckCore, sourceVars
<1>8. CASE \E r \in Reader : Deliver(r)
  BY <1>1, <1>8 DEF Deliver
<1>9. CASE (\E r \in Reader : DeadlinePasses(r) \/ TimerFires(r)) \/ \E c \in Client : StartOver(c)
  BY <1>9 DEF DeadlinePasses, TimerFires, StartOver, gatewayVars
<1>10. CASE Restart
  BY <1>10 DEF Restart
<1> QED
  BY <1>3, <1>4, <1>5, <1>6, <1>7, <1>8, <1>9, <1>10, WorldMovesTables DEF Next, WorkStep

-----------------------------------------------------------------------------
(***************************************************************************)
(* The theorems.                                                           *)
(***************************************************************************)

\* Every page in production is of the one agreement its gateway will compare, and
\* every caller holds the beginning of one listing, up to its cursor.
THEOREM CatalogInvariant == Spec => []CatalogIInv
<1> QED
  BY CatalogStarts, CatalogContinues, PTL DEF Spec

\* The variables keep their types: a cursor in use names a row of its snapshot.
THEOREM CatalogTypeCorrect == Spec => []TypeOK
<1>1. CatalogIInv => TypeOK
  <2> SUFFICES ASSUME CatalogIInv
               PROVE  TypeOK
    OBVIOUS
  <2>1. GatewayTypeOK /\ inFlight \in Nat
    BY DEF CatalogIInv, SlotsSound
  <2>2. \A r \in Reader : work[r] \in WorkState /\ IsCursor(work[r].cursor)
    BY DEF CatalogIInv, PageSound, CursorSound
  <2>3. \A c \in Client : client[c] \in ClientState /\ IsCursor(client[c].cursor)
    BY DEF CatalogIInv, ClientSound, CursorSound
  <2> QED
    BY <2>1, <2>2, <2>3 DEF TypeOK, WorkState, ClientState
<1> QED
  BY <1>1, CatalogInvariant, PTL

\* page and readSnapshot: pages with one cursor after the other give the objects
\* of one agreement, in order, each once and all of them, for any blocks, limit,
\* and number of callers and pages at a time.
THEOREM PagesMakeOneSnapshot == Spec => []CatalogIsOneSnapshot
<1>1. CatalogIInv => CatalogIsOneSnapshot
  <2> SUFFICES ASSUME CatalogIInv, NEW c \in Client, client[c].cursor # NoCursor
               PROVE  LET cursor == client[c].cursor
                          branch == cursor.snapshot.agreement IN
                      /\ cursor.offset \in 1 .. (Total(branch) - 1)
                      /\ client[c].items = SubSeq(Rows(branch), 1, cursor.offset)
    BY DEF CatalogIInv, ClientSound, CatalogIsOneSnapshot
  <2> DEFINE cur == client[c].cursor
             agreed == cur.snapshot.agreement
  <2>1. ClientSound(client[c])
    BY DEF CatalogIInv
  <2>2. CursorAt(agreed, cur) /\ client[c].items = SubSeq(Rows(agreed), 1, cur.offset)
    BY <2>1 DEF ClientSound, CursorSound
  <2> HIDE DEF agreed
  <2>3. cur.offset \in 1 .. (Total(agreed) - 1)
    BY <2>2 DEF CursorAt
  <2> QED
    BY <2>2, <2>3 DEF agreed
<1> QED
  BY <1>1, CatalogInvariant, PTL

\* readSnapshot: keyset, offset and count never contradict each other.
THEOREM PagesAreConsistent == Spec => []PagesNeverInconsistent
<1>1. CatalogIInv => PagesNeverInconsistent
  <2> SUFFICES ASSUME CatalogIInv, NEW r \in Reader, work[r].step = "rows"
               PROVE  PageIsConsistent(work[r].seen, work[r].cursor)
    BY DEF PagesNeverInconsistent, SeenBy
  <2>1. work[r] \in WorkState /\ PageSound(work[r], gate[r])
    BY WorkIsTyped
  <2>2. work[r].seen \in Branch /\ CursorAt(work[r].seen, work[r].cursor)
    BY <2>1 DEF PageSound, CursorSound, WorkState, CursorAt
  <2> QED
    BY <2>2, PageUnderCursorIsConsistent
<1> QED
  BY <1>1, CatalogInvariant, PTL

\* page's inFlight: the counter is exact, through failures, conflicts, the timer
\* and restarts, and never above two.
THEOREM SlotsAreCounted == Spec => []SlotsAreExact
<1>1. CatalogIInv => SlotsAreExact
  <2> SUFFICES ASSUME CatalogIInv
               PROVE  SlotsAreExact
    OBVIOUS
  <2>1. {r \in Reader : Running(r)} = Busy(work)
    BY DEF Running, Busy
  <2> QED
    BY <2>1 DEF CatalogIInv, SlotsSound, SlotsAreExact
<1> QED
  BY <1>1, CatalogInvariant, PTL

\* The tables that readSnapshot and signedAt see move as the store promises.
THEOREM CatalogReadsBlockStore == Spec => ReadsBlockStore
<1>1. Init => Store!Init
  BY SourcesStartAsStore DEF Init, GatewayInit
<1>2. CatalogIInv /\ [Next]_vars => [Store!Next]_(Store!storeVars)
  <2> SUFFICES ASSUME CatalogIInv, [Next]_vars
               PROVE  Store!Next \/ UNCHANGED Store!storeVars
    OBVIOUS
  <2>1. SourcesTypeOK
    BY DEF CatalogIInv, GatewayTypeOK, ReadinessTypeOK, SourcesTypeOK
  <2>2. SourcesMove \/ UNCHANGED tables
    BY TablesMoveWithSources DEF vars, gatewayVars
  <2> QED
    BY <2>1, <2>2, SourcesMoveAsStore
<1> QED
  BY <1>1, <1>2, CatalogInvariant, PTL DEF Spec, ReadsBlockStore, Store!Spec
=============================================================================
