------------------------- MODULE ResultsGrid_proofs -------------------------
(***************************************************************************)
(* Proofs about ResultsGrid, for all results, texts, sizes and resolutions *)
(* and whatever the comparator says of two cells: first the orders of rows *)
(* that sorting and filtering leave, then the geometry, then the inductive *)
(* invariant, action by action.                                            *)
(***************************************************************************)
EXTENDS ResultsGrid, FunctionTheorems, SequenceLemmas

-----------------------------------------------------------------------------
(* Orders of rows.                                                         *)

LowerCase(text) == [n \in 1..Len(text) |-> Lower(text[n])]

Matching(res, needle) ==
  {r \in 1..Len(res.rows) : needle = <<>> \/ rowMatchesFilter(res.rows[r], needle)}

\* The order has each matching row once, in the order asked for.
HasMatching(order, res, needle) ==
  /\ order \in Seq(1..Len(res.rows))
  /\ \A a \in 1..Len(order) : order[a] \in Matching(res, needle)
  /\ \A r \in Matching(res, needle) : \E a \in 1..Len(order) : order[a] = r
  /\ \A a, b \in 1..Len(order) : order[a] = order[b] => a = b

InOrderOf(order, res, column, ascending) ==
  IF column = 0
  THEN \A a, b \in 1..Len(order) : a < b => order[a] < order[b]
  ELSE IsOrder[res][column][ascending] => SortedBy(Orders[res][column][ascending], order)

Shows(order, res, column, ascending, needle) ==
  /\ HasMatching(order, res, needle)
  /\ InOrderOf(order, res, column, ascending)

\* Two orders that show the same rows are of one length.
LEMMA SameLength ==
  ASSUME NEW res, NEW needle, NEW s, NEW t,
         HasMatching(s, res, needle), HasMatching(t, res, needle)
  PROVE  Len(s) = Len(t)
  <1>1. ASSUME NEW u, HasMatching(u, res, needle)
        PROVE  Len(u) \in Nat /\ ExistsBijection(1..Len(u), Matching(res, needle))
    <2>1. u \in Seq(1..Len(res.rows))
      BY <1>1 DEF HasMatching
    <2>2. Len(u) \in Nat /\ DOMAIN u = 1..Len(u) /\ u = [a \in 1..Len(u) |-> u[a]]
      BY <2>1
    <2>3. u \in [1..Len(u) -> Matching(res, needle)]
      BY <1>1, <2>2 DEF HasMatching
    <2>4. u \in Bijection(1..Len(u), Matching(res, needle))
      BY <1>1, <2>2, <2>3 DEF HasMatching, Bijection, Injection, Surjection, IsInjective
    <2> QED
      BY <2>2, <2>4 DEF ExistsBijection
  <1> QED
    BY <1>1, Fun_NatBijSame

\* A sort, or the order of the result, shows every row.
LEMMA SortShows ==
  ASSUME NEW r \in Results, NEW column \in 1..r.columns, NEW ascending \in BOOLEAN,
         NEW order \in Sorts[r][column][ascending]
  PROVE  Shows(order, r, column, ascending, <<>>)
  <1>1. Sorts[r][column][ascending] = sortedRowOrder(r, column, ascending)
    BY DEF Sorts, Table
  <1>2. /\ order \in Bijection(1..Len(r.rows), 1..Len(r.rows))
        /\ IsOrder[r][column][ascending] => SortedBy(Orders[r][column][ascending], order)
    BY <1>1 DEF sortedRowOrder
  <1>3. PICK n \in Nat : n = Len(r.rows)
    BY GridAssumption
  <1>4. /\ order \in [1..n -> 1..n]
        /\ \A a, b \in 1..n : order[a] = order[b] => a = b
        /\ \A k \in 1..n : \E a \in 1..n : order[a] = k
    BY <1>2, <1>3 DEF Bijection, Injection, Surjection, IsInjective
  <1>5. order \in Seq(1..n) /\ Len(order) = n
    BY <1>4
  <1>6. Matching(r, <<>>) = 1..n
    BY <1>3 DEF Matching
  <1>7. HasMatching(order, r, <<>>)
    BY <1>3, <1>4, <1>5, <1>6 DEF HasMatching
  <1>8. InOrderOf(order, r, column, ascending)
    BY <1>2, GridAssumption DEF InOrderOf
  <1> QED
    BY <1>7, <1>8 DEF Shows

Outcomes == Results \cup {Empty}

\* Rows of a result, and columns by which it may be sorted: 0 stands for none.
LEMMA OutcomeFacts ==
  ASSUME NEW res \in Outcomes
  PROVE  /\ res.columns \in Nat
         /\ Len(res.rows) \in Nat
         /\ res.columns > 0 => res \in Results
  BY GridAssumption DEF Outcomes, Empty

LEMMA UnsortedShows ==
  ASSUME NEW res \in Outcomes, NEW ascending \in BOOLEAN
  PROVE  Shows([n \in 1..Len(res.rows) |-> n], res, 0, ascending, <<>>)
  <1>1. PICK n \in Nat : n = Len(res.rows)
    BY OutcomeFacts
  <1>2. PICK o : o = [k \in 1..n |-> k]
    OBVIOUS
  <1>3. o \in Seq(1..n) /\ Len(o) = n /\ \A a \in 1..n : o[a] = a
    BY <1>2
  <1>4. Matching(res, <<>>) = 1..n
    BY <1>1 DEF Matching
  <1> QED
    BY <1>1, <1>2, <1>3, <1>4 DEF Shows, HasMatching, InOrderOf

\* The filter leaves the matching rows, in the order they had.
LEMMA FilterShows ==
  ASSUME NEW res \in Outcomes, NEW column, NEW ascending, NEW needle, needle # <<>>,
         NEW order, Shows(order, res, column, ascending, <<>>),
         NEW dropped,
         dropped = {src \in EntriesOf(order) : ~rowMatchesFilter(res.rows[src], needle)}
  PROVE  Shows(Without(order, dropped), res, column, ascending, needle)
  <1>1. PICK n \in Nat : n = Len(res.rows)
    BY OutcomeFacts
  <1>2. PICK N : N = 1..n
    OBVIOUS
  <1>3. order \in Seq(N) /\ Len(order) \in Nat
    BY <1>1, <1>2 DEF Shows, HasMatching
  <1>4. PICK w : w = Without(order, dropped)
    OBVIOUS
  <1>5. w \in Seq(N) /\ Len(w) \in Nat
    BY <1>3, <1>4, WithoutKeeps
  <1>6. PICK o : Keeps(w, order, o, dropped)
    BY <1>3, <1>4, WithoutKeeps
  <1>7. /\ o \in [1..Len(w) -> 1..Len(order)]
        /\ \A a, b \in 1..Len(w) : a < b => o[a] < o[b]
        /\ \A a \in 1..Len(w) : w[a] = order[o[a]] /\ order[o[a]] \notin dropped
        /\ \A k \in 1..Len(order) : order[k] \notin dropped => \E a \in 1..Len(w) : o[a] = k
    BY <1>6 DEF Keeps
  <1>8. /\ \A a \in 1..Len(order) : order[a] \in N
        /\ \A r \in N : \E a \in 1..Len(order) : order[a] = r
        /\ \A a, b \in 1..Len(order) : order[a] = order[b] => a = b
    BY <1>1, <1>2 DEF Shows, HasMatching, Matching
  <1>9. \A a \in 1..Len(order) : order[a] \in dropped <=> ~rowMatchesFilter(res.rows[order[a]], needle)
    BY DEF EntriesOf
  <1>10. Matching(res, needle) = {r \in N : rowMatchesFilter(res.rows[r], needle)}
    BY <1>1, <1>2 DEF Matching
  <1>11. \A a \in 1..Len(w) : w[a] \in Matching(res, needle)
    BY <1>7, <1>8, <1>9, <1>10
  <1>12. ASSUME NEW r \in Matching(res, needle) PROVE \E a \in 1..Len(w) : w[a] = r
    <2>1. PICK k \in 1..Len(order) : order[k] = r
      BY <1>8, <1>10
    <2>2. order[k] \notin dropped
      BY <1>9, <1>10, <2>1
    <2>3. PICK a \in 1..Len(w) : o[a] = k
      BY <1>7, <2>2
    <2> QED
      BY <1>7, <2>1, <2>3
  <1>13. ASSUME NEW a \in 1..Len(w), NEW b \in 1..Len(w), w[a] = w[b] PROVE a = b
    <2>1. o[a] = o[b] /\ o[a] \in Int
      BY <1>7, <1>8, <1>13
    <2>2. ~(o[a] < o[b]) /\ ~(o[b] < o[a])
      BY <2>1
    <2>3. ~(a < b) /\ ~(b < a)
      BY <1>7, <2>2
    <2> QED
      BY <1>5, <2>3
  <1>14. HasMatching(w, res, needle)
    BY <1>1, <1>2, <1>5, <1>11, <1>12, <1>13 DEF HasMatching
  <1>15. InOrderOf(w, res, column, ascending)
    <2>1. ASSUME NEW a \in 1..Len(w), NEW b \in 1..Len(w), a < b
          PROVE  /\ o[a] \in 1..Len(order) /\ o[b] \in 1..Len(order) /\ o[a] < o[b]
                 /\ w[a] = order[o[a]] /\ w[b] = order[o[b]]
      BY <1>7, <2>1
    <2>2. CASE column = 0
      <3>1. \A a, b \in 1..Len(order) : a < b => order[a] < order[b]
        BY <2>2 DEF Shows, InOrderOf
      <3> QED
        BY <2>1, <2>2, <3>1 DEF InOrderOf
    <2>3. CASE column # 0 /\ IsOrder[res][column][ascending]
      <3>1. PICK before : before = Orders[res][column][ascending]
        OBVIOUS
      <3>2. SortedBy(before, order)
        BY <2>3, <3>1 DEF Shows, InOrderOf
      <3>3. SortedBy(before, w)
        BY <2>1, <3>2 DEF SortedBy
      <3> QED
        BY <2>3, <3>1, <3>3 DEF InOrderOf
    <2>4. CASE column # 0 /\ ~IsOrder[res][column][ascending]
      BY <2>4 DEF InOrderOf
    <2> QED
      BY <2>2, <2>3, <2>4
  <1> QED
    BY <1>4, <1>14, <1>15 DEF Shows

\* applyFilterSort, whatever order it leaves.
LEMMA FilterSortShows ==
  ASSUME NEW res \in Outcomes, NEW column \in 0..res.columns, NEW ascending \in BOOLEAN,
         NEW needle, NEW order \in applyFilterSort(res, column, ascending, needle)
  PROVE  Shows(order, res, column, ascending, needle)
  <1> DEFINE base == IF column > 0 THEN Sorts[res][column][ascending]
                     ELSE {[n \in 1..Len(res.rows) |-> n]}
  <1>1. column \in Nat /\ (column > 0 => res \in Results /\ column \in 1..res.columns)
    BY OutcomeFacts
  <1>2. ASSUME NEW o \in base PROVE Shows(o, res, column, ascending, <<>>)
    <2>1. CASE column > 0
      <3>1. o \in Sorts[res][column][ascending]
        BY <2>1
      <3> QED
        BY <1>1, <2>1, <3>1, SortShows
    <2>2. CASE column = 0
      <3>1. o = [n \in 1..Len(res.rows) |-> n]
        BY <2>2
      <3> QED
        BY <2>2, <3>1, UnsortedShows
    <2> QED
      BY <1>1, <2>1, <2>2
  <1>3. CASE needle = <<>>
    <2>1. order \in base
      BY <1>3 DEF applyFilterSort
    <2> QED
      BY <1>2, <1>3, <2>1
  <1>4. CASE needle # <<>>
    <2>1. PICK o \in base :
            order = Without(o, {src \in EntriesOf(o) : ~rowMatchesFilter(res.rows[src], needle)})
      BY <1>4 DEF applyFilterSort
    <2> HIDE DEF base
    <2>2. Shows(o, res, column, ascending, <<>>)
      BY <1>2
    <2> QED
      BY <1>4, <2>1, <2>2, FilterShows
  <1> QED
    BY <1>3, <1>4

-----------------------------------------------------------------------------
(* Geometry.                                                               *)

\* A turn of the loop that adds up widths.
LEMMA UpToIsInt ==
  ASSUME NEW widths \in Seq(Int), NEW n \in 0..Len(widths)
  PROVE  UpTo(widths, n) \in Int
  <1> DEFINE Is(f) == f = [k \in 0..n |-> IF k = 0 THEN 0 ELSE f[k - 1] + widths[k]]
  <1>1. n \in Nat /\ \A k \in 1..n : widths[k] \in Int
    OBVIOUS
  <1>2. PICK step : step = [k \in 1..n |-> [s \in Int |-> s + widths[k]]]
    OBVIOUS
  <1>3. /\ step \in [1..n -> [Int -> Int]]
        /\ \A k \in 1..n, s \in Int : step[k][s] = s + widths[k]
    BY <1>1, <1>2
  <1>4. PICK f : Iterates(f, n, Int, 0, step)
    <2>1. PICK S, zero : S = Int /\ zero = 0
      OBVIOUS
    <2>2. zero \in S /\ step \in [1..n -> [S -> S]]
      BY <1>3, <2>1
    <2>3. \E f : Iterates(f, n, S, zero, step)
      BY <1>1, <2>2, IterationExists
    <2> QED
      BY <2>1, <2>3
  <1>5. Is(f)
    <2>1. /\ f \in [0..n -> Int] /\ f[0] = 0
          /\ \A k \in 1..n : f[k] = step[k][f[k - 1]]
      BY <1>4 DEF Iterates
    <2>2. \A k \in 1..n : k - 1 \in 0..n
      BY <1>1
    <2>3. \A k \in 1..n : f[k] = f[k - 1] + widths[k]
      BY <1>3, <2>1, <2>2
    <2> QED
      BY <1>1, <2>1, <2>3
  <1>6. PICK g : g = CHOOSE h : Is(h)
    OBVIOUS
  <1>7. Is(g)
    BY <1>5, <1>6
  <1>8. UpTo(widths, n) = g[n]
    BY <1>6 DEF UpTo
  <1>9. g[0] = 0 /\ \A k \in 1..n : g[k] = g[k - 1] + widths[k]
    BY <1>1, <1>7
  <1> DEFINE P == {k \in 0..n : g[k] \in Int}
  <1>10. 0 \in P /\ \A k \in 1..n : k - 1 \in P => k \in P
    <2>1. g[0] \in Int /\ 0 \in 0..n
      BY <1>1, <1>9
    <2>2. ASSUME NEW k \in 1..n, g[k - 1] \in Int PROVE g[k] \in Int /\ k \in 0..n
      <3>1. g[k] = g[k - 1] + widths[k]
        BY <1>9
      <3>2. widths[k] \in Int /\ k \in 0..n
        BY <1>1
      <3> QED
        BY <2>2, <3>1, <3>2
    <2> QED
      BY <2>1, <2>2
  <1>11. n \in P
    <2> HIDE DEF P
    <2>1. \A k \in 0..n : k \in P
      BY <1>1, <1>10, InductionUpTo
    <2> QED
      BY <1>1, <2>1
  <1> QED
    BY <1>8, <1>11

\* The extent that can be scrolled is a number, of any sign.
LEMMA ExtentsAreInts ==
  ASSUME NEW widths \in Seq(Int), NEW sz \in Sizes, NEW d \in Dpis, NEW rows \in Nat
  PROVE  MaxX(widths, sz) \in Int /\ MaxY(rows, d, sz) \in Int
  <1>1. UpTo(widths, Len(widths)) \in Int
    <2>1. Len(widths) \in 0..Len(widths)
      OBVIOUS
    <2> QED
      BY <2>1, UpToIsInt
  <1>2. sz.w \in Int /\ sz.h \in Int /\ d \in Int /\ RowHeight \in Int /\ HeaderHeight \in Int
    BY GridAssumption
  <1> QED
    BY <1>1, <1>2 DEF MaxX, MaxY, Total

LEMMA ClampFits ==
  ASSUME NEW n \in Int, NEW max \in Int
  PROVE  Clamp(n, max) \in 0..Greatest(0, max)
  BY DEF Clamp, Greatest, Least

\* The positions scrolled to.
Scrolled(x, y, widths, rows, d, sz) ==
  /\ x \in 0..Greatest(0, MaxX(widths, sz))
  /\ y \in 0..Greatest(0, MaxY(rows, d, sz))

LEMMA ScrolledFacts ==
  ASSUME NEW widths \in Seq(Int), NEW sz \in Sizes, NEW d \in Dpis, NEW rows \in Nat,
         NEW x, NEW y
  PROVE  /\ Scrolled(x, y, widths, rows, d, sz) => x \in Nat /\ y \in Nat
         /\ Scrolled(0, 0, widths, rows, d, sz)
  <1>1. PICK mx \in Int, my \in Int : mx = MaxX(widths, sz) /\ my = MaxY(rows, d, sz)
    BY ExtentsAreInts
  <1>2. Greatest(0, mx) \in Nat /\ Greatest(0, my) \in Nat
    BY DEF Greatest
  <1> QED
    BY <1>1, <1>2 DEF Scrolled

LEMMA ClampedIsScrolled ==
  ASSUME NEW widths \in Seq(Int), NEW sz \in Sizes, NEW d \in Dpis, NEW rows \in Nat,
         NEW x \in Int, NEW y \in Int
  PROVE  Scrolled(Clamp(x, MaxX(widths, sz)), Clamp(y, MaxY(rows, d, sz)),
                  widths, rows, d, sz)
  BY ExtentsAreInts, ClampFits DEF Scrolled

\* Widths at another resolution keep to the minimum there.
LEMMA MulDivKeepsMinimum ==
  ASSUME NEW w \in Nat, NEW min \in Nat, NEW d \in Nat \ {0}, NEW p \in Nat \ {0},
         w >= min * p
  PROVE  MulDiv(w, d, p) \in Int /\ MulDiv(w, d, p) >= min * d
  <1>1. PICK a \in Nat : a = 2 * w * d + p
    OBVIOUS
  <1>2. PICK b \in Nat \ {0} : b = 2 * p
    OBVIOUS
  <1>3. PICK q \in Int : q = a \div b
    OBVIOUS
  <1>4. b * q <= a /\ a < b * q + b
    BY <1>3
  <1>5. PICK m \in Nat : m = min * d
    OBVIOUS
  <1>6. w * d >= (min * p) * d
    OBVIOUS
  <1>7. (min * p) * d = p * m
    BY <1>5
  <1>8. a > b * m
    <2>1. b * m = 2 * (p * m)
      BY <1>2
    <2>2. 2 * w * d = 2 * (w * d)
      OBVIOUS
    <2>3. p > 0 /\ w * d \in Int /\ p * m \in Int
      OBVIOUS
    <2> QED
      BY <1>1, <1>6, <1>7, <2>1, <2>2, <2>3
  <1>9. q >= m
    <2> SUFFICES ASSUME q + 1 <= m PROVE FALSE
      OBVIOUS
    <2>1. b * (q + 1) <= b * m
      BY <1>2
    <2>2. b * (q + 1) = b * q + b
      OBVIOUS
    <2> QED
      BY <1>4, <1>8, <2>1, <2>2
  <1> QED
    BY <1>1, <1>2, <1>3, <1>5, <1>9 DEF MulDiv

-----------------------------------------------------------------------------
(* The invariant.                                                          *)

\* The columns: their widths, the one dragged and the one sorted by.
ColumnsInv ==
  /\ dpi \in Dpis /\ size \in Sizes
  /\ result \in Outcomes
  /\ colWidth \in Seq(Nat) /\ Len(colWidth) = result.columns
  /\ \A c \in 1..Len(colWidth) : colWidth[c] >= MinWidth * dpi
  /\ resizing \in BOOLEAN /\ (resizing => resizeCol \in 1..Len(colWidth))
  /\ sortColumn \in 0..result.columns /\ sortAscending \in BOOLEAN

\* The grid's copy of the filter is that of the field, and the rows are its rows.
OrderInv ==
  /\ filterLower = LowerCase(search)
  /\ Shows(rowOrder, result, sortColumn, sortAscending, filterLower)
  /\ readout = <<rowCount, Len(result.rows)>>

ViewInv == Scrolled(scrollX, scrollY, colWidth, rowCount, dpi, size)

\* A grid without rows may have its first selected, if it has columns.
SelectionInv ==
  selectedRow \in 0..Greatest(rowCount, IF result.columns > 0 THEN 1 ELSE 0)

IInv == ColumnsInv /\ OrderInv /\ ViewInv /\ SelectionInv

\* The numbers there are in a state of the invariant.
LEMMA GridFacts ==
  ASSUME ColumnsInv, OrderInv
  PROVE  /\ rowCount \in Nat /\ result.columns \in Nat /\ Len(result.rows) \in Nat
         /\ colWidth \in Seq(Int) /\ Len(colWidth) \in Nat
         /\ dpi \in Nat \ {0} /\ size.w \in Nat /\ size.h \in Nat
         /\ rowH \in Nat \ {0} /\ headerH \in Nat \ {0}
  <1>1. rowOrder \in Seq(1..Len(result.rows))
    BY DEF OrderInv, Shows, HasMatching
  <1>2. rowCount \in Nat
    BY <1>1 DEF rowCount
  <1>3. result.columns \in Nat /\ Len(result.rows) \in Nat
    BY OutcomeFacts DEF ColumnsInv
  <1>4. dpi \in Nat \ {0} /\ size.w \in Nat /\ size.h \in Nat
    BY GridAssumption DEF ColumnsInv
  <1>5. rowH \in Nat \ {0} /\ headerH \in Nat \ {0}
    <2>1. RowHeight \in Nat \ {0} /\ HeaderHeight \in Nat \ {0}
      BY GridAssumption
    <2> QED
      BY <1>4, <2>1 DEF rowH, headerH
  <1>6. colWidth \in Seq(Nat)
    BY DEF ColumnsInv
  <1> QED
    BY <1>2, <1>3, <1>4, <1>5, <1>6

LEMMA ViewFacts ==
  ASSUME ColumnsInv, OrderInv, ViewInv, SelectionInv
  PROVE  scrollX \in Nat /\ scrollY \in Nat /\ selectedRow \in Nat
  <1>1. scrollX \in Nat /\ scrollY \in Nat
    BY GridFacts, ScrolledFacts DEF ViewInv, ColumnsInv
  <1>2. selectedRow \in Nat
    BY GridFacts DEF SelectionInv, Greatest
  <1> QED
    BY <1>1, <1>2

\* Whatever position a handler asks for, clampScroll leaves nothing blank.
LEMMA ClampScrollFits ==
  ASSUME ColumnsInv', OrderInv', NEW x \in Int, NEW y \in Int, clampScroll(x, y)
  PROVE  ViewInv'
  <1>1. PICK widths, rows : widths = colWidth' /\ rows = Len(rowOrder')
    OBVIOUS
  <1>2. widths \in Seq(Int) /\ rows \in Nat
    <2>1. rowOrder' \in Seq(1..Len(result'.rows))
      BY DEF OrderInv, Shows, HasMatching
    <2>2. colWidth' \in Seq(Nat)
      BY DEF ColumnsInv
    <2> QED
      BY <1>1, <2>1, <2>2
  <1>3. size' \in Sizes /\ dpi' \in Dpis
    BY DEF ColumnsInv
  <1>4. Scrolled(Clamp(x, MaxX(widths, size')), Clamp(y, MaxY(rows, dpi', size')),
                 widths, rows, dpi', size')
    BY <1>2, <1>3, ClampedIsScrolled
  <1> QED
    BY <1>1, <1>4 DEF ViewInv, clampScroll, rowCount

\* What every step that leaves the rows alone keeps of them.
LEMMA RowsFrame ==
  ASSUME OrderInv, UNCHANGED dataVars
  PROVE  OrderInv'
  BY DEF OrderInv, dataVars, rowCount

LEMMA ColumnsFrame ==
  ASSUME ColumnsInv, UNCHANGED <<dpi, size, result, colWidth, sortColumn, sortAscending>>,
         resizing' \in BOOLEAN, resizing' => resizing /\ resizeCol' = resizeCol
  PROVE  ColumnsInv'
  BY DEF ColumnsInv

-----------------------------------------------------------------------------
(* A new result.                                                           *)

\* A result, or none, replaces what was there.
LEMMA ReplacedInv ==
  ASSUME IInv, cancelResize, Unsorted, resetFilterUI, UNCHANGED <<dpi, size>>,
         result' \in Outcomes,
         rowOrder' \in applyFilterSort(result', 0, TRUE, <<>>),
         colWidth' \in Seq(Nat), Len(colWidth') = result'.columns,
         \A c \in 1..Len(colWidth') : colWidth'[c] >= MinWidth * dpi
  PROVE  IInv'
  <1>1. PICK res \in Outcomes : res = result'
    OBVIOUS
  <1>2. res.columns \in Nat /\ Len(res.rows) \in Nat
    BY OutcomeFacts
  <1>3. ColumnsInv'
    <2>1. sortColumn' = 0 /\ sortAscending' = TRUE /\ resizing' = FALSE
      BY DEF Unsorted, cancelResize
    <2>2. sortColumn' \in 0..result'.columns
      BY <1>1, <1>2, <2>1
    <2> QED
      BY <2>1, <2>2 DEF IInv, ColumnsInv
  <1>4. PICK order : order = rowOrder'
    OBVIOUS
  <1>5. Shows(order, res, 0, TRUE, <<>>)
    <2>1. order \in applyFilterSort(res, 0, TRUE, <<>>)
      BY <1>1, <1>4
    <2>2. 0 \in 0..res.columns
      <3>1. res.columns \in Nat
        BY <1>2
      <3> QED
        BY <3>1
    <2> QED
      BY <2>1, <2>2, FilterSortShows
  <1>6. filterLower' = LowerCase(search')
    <2>1. filterLower' = <<>> /\ search' = <<>>
      BY DEF Unsorted, resetFilterUI
    <2>2. LowerCase(<<>>) = <<>>
      BY DEF LowerCase
    <2> QED
      BY <2>1, <2>2
  <1>7. OrderInv'
    <2>1. readout' = <<Len(rowOrder'), Len(result'.rows)>>
      BY DEF resetFilterUI, updateFilterCount
    <2>2. filterLower' = <<>> /\ sortColumn' = 0 /\ sortAscending' = TRUE
      BY DEF Unsorted
    <2>3. Shows(rowOrder, result, sortColumn, sortAscending, filterLower)'
      BY <1>1, <1>4, <1>5, <2>2
    <2> QED
      BY <1>6, <2>1, <2>3 DEF OrderInv, rowCount
  <1>8. Len(rowOrder') \in Nat
    <2>1. order \in Seq(1..Len(res.rows))
      BY <1>5 DEF Shows, HasMatching
    <2> QED
      BY <1>4, <2>1
  <1>9. ViewInv'
    <2>1. scrollX' = 0 /\ scrollY' = 0
      BY DEF Unsorted
    <2>2. PICK widths, rows : widths = colWidth' /\ rows = Len(rowOrder')
      OBVIOUS
    <2>3. widths \in Seq(Int) /\ rows \in Nat
      BY <1>8, <2>2
    <2>4. size' \in Sizes /\ dpi' \in Dpis
      BY <1>3 DEF ColumnsInv
    <2>5. Scrolled(0, 0, widths, rows, dpi', size')
      BY <2>3, <2>4, ScrolledFacts
    <2> QED
      BY <2>1, <2>2, <2>5 DEF ViewInv, rowCount
  <1>10. SelectionInv'
    <2>1. selectedRow' = 0
      BY DEF Unsorted
    <2> QED
      BY <1>8, <2>1 DEF SelectionInv, Greatest, rowCount
  <1> QED
    BY <1>3, <1>7, <1>9, <1>10 DEF IInv

LEMMA GridSetResultInv ==
  ASSUME IInv, gridSetResult
  PROVE  IInv'
  <1>1. PICK r \in Results :
          /\ cancelResize /\ Unsorted /\ resetFilterUI /\ UNCHANGED <<dpi, size>>
          /\ result' = r
          /\ rowOrder' \in applyFilterSort(r, 0, TRUE, <<>>)
          /\ \E w \in [1..r.columns -> Widths] : colWidth' = [c \in 1..r.columns |-> w[c] * dpi]
    BY DEF gridSetResult
  <1>2. PICK w \in [1..r.columns -> Widths] : colWidth' = [c \in 1..r.columns |-> w[c] * dpi]
    BY <1>1
  <1>3. PICK n \in Nat : n = r.columns
    BY GridAssumption
  <1>4. dpi \in Nat /\ MinWidth \in Nat
    BY GridAssumption DEF IInv, ColumnsInv
  <1>5. \A c \in 1..n : w[c] \in Nat /\ w[c] >= MinWidth
    BY <1>3, GridAssumption
  <1>6. \A c \in 1..n : w[c] * dpi \in Nat /\ w[c] * dpi >= MinWidth * dpi
    BY <1>4, <1>5
  <1>7. PICK widths : widths = [c \in 1..n |-> w[c] * dpi]
    OBVIOUS
  <1>8. widths \in Seq(Nat) /\ Len(widths) = n /\ \A c \in 1..n : widths[c] >= MinWidth * dpi
    BY <1>6, <1>7
  <1>9. colWidth' = widths
    BY <1>2, <1>3, <1>7
  <1>10. r \in Outcomes
    BY DEF Outcomes
  <1> QED
    BY <1>1, <1>3, <1>8, <1>9, <1>10, ReplacedInv

LEMMA GridClearInv ==
  ASSUME IInv, gridClear
  PROVE  IInv'
  <1>1. /\ cancelResize /\ Unsorted /\ resetFilterUI /\ UNCHANGED <<dpi, size>>
        /\ result' = Empty /\ rowOrder' = <<>> /\ colWidth' = <<>>
    BY DEF gridClear
  <1>2. Empty \in Outcomes
    BY DEF Outcomes
  <1>3. Empty.columns = 0 /\ Empty.rows = <<>>
    BY DEF Empty
  <1>4. <<>> \in applyFilterSort(Empty, 0, TRUE, <<>>)
    <2>1. [n \in 1..Len(<<>>) |-> n] = <<>>
      OBVIOUS
    <2> QED
      BY <1>3, <2>1 DEF applyFilterSort
  <1>5. <<>> \in Seq(Nat) /\ Len(<<>>) = 0 /\ 1..Len(<<>>) = {}
    OBVIOUS
  <1> QED
    BY <1>1, <1>2, <1>3, <1>4, <1>5, ReplacedInv

-----------------------------------------------------------------------------
(* The other rows: the filter and the sort.                                *)

LEMMA GridSetFilterInv ==
  ASSUME IInv, gridSetFilter
  PROVE  IInv'
  <1>1. /\ UNCHANGED <<dpi, size, result, sortColumn, sortAscending, colWidth, dragVars, menu>>
        /\ updateFilterCount
    BY DEF gridSetFilter
  <1>2. PICK text, lower :
          /\ lower = LowerCase(text)
          /\ search' = text
          /\ filterLower' = lower
          /\ IF lower = filterLower
             THEN UNCHANGED <<rowOrder, selectedRow, scrollX, scrollY>>
             ELSE /\ rowOrder' \in applyFilterSort(result, sortColumn, sortAscending, lower)
                  /\ selectedRow' = 0
                  /\ clampScroll(scrollX, 0)
    BY DEF gridSetFilter, LowerCase
  <1>3. ColumnsInv'
    BY <1>1, ColumnsFrame DEF IInv, ColumnsInv, dragVars
  <1>4. Shows(rowOrder', result, sortColumn, sortAscending, lower)
    <2>1. CASE lower = filterLower
      BY <1>2, <2>1 DEF IInv, OrderInv
    <2>2. CASE lower # filterLower
      <3>1. rowOrder' \in applyFilterSort(result, sortColumn, sortAscending, lower)
        BY <1>2, <2>2
      <3>2. result \in Outcomes /\ sortColumn \in 0..result.columns /\ sortAscending \in BOOLEAN
        BY DEF IInv, ColumnsInv
      <3> QED
        BY <3>1, <3>2, FilterSortShows
    <2> QED
      BY <2>1, <2>2
  <1>5. OrderInv'
    <2>1. filterLower' = LowerCase(search')
      BY <1>2
    <2>2. Shows(rowOrder, result, sortColumn, sortAscending, filterLower)'
      BY <1>1, <1>2, <1>4
    <2> QED
      BY <1>1, <2>1, <2>2 DEF OrderInv, updateFilterCount, rowCount
  <1>6. CASE lower = filterLower
    <2>1. UNCHANGED <<rowOrder, selectedRow, scrollX, scrollY>>
      BY <1>2, <1>6
    <2> QED
      BY <1>1, <1>3, <1>5, <2>1 DEF IInv, ViewInv, SelectionInv, rowCount
  <1>7. CASE lower # filterLower
    <2>1. selectedRow' = 0 /\ clampScroll(scrollX, 0)
      BY <1>2, <1>7
    <2>2. scrollX \in Int
      BY ViewFacts DEF IInv
    <2>3. ViewInv'
      BY <1>3, <1>5, <2>1, <2>2, ClampScrollFits
    <2>4. Len(rowOrder') \in Nat
      BY <1>4 DEF Shows, HasMatching
    <2>5. SelectionInv'
      BY <2>1, <2>4 DEF SelectionInv, Greatest, rowCount
    <2> QED
      BY <1>3, <1>5, <2>3, <2>5 DEF IInv
  <1> QED
    BY <1>6, <1>7

\* A sort shows as many rows as before: the count beside the field stays right, and
\* so do the scroll positions.
LEMMA SortByColumnInv ==
  ASSUME IInv, NEW c \in 1..result.columns, sortByColumn(c),
         UNCHANGED <<dpi, size, viewVars, dragVars>>
  PROVE  IInv'
  <1>1. /\ sortColumn' = c
        /\ sortAscending' = IF c = sortColumn THEN ~sortAscending ELSE TRUE
        /\ rowOrder' \in applyFilterSort(result, c, sortAscending', filterLower)
        /\ selectedRow' = 0
        /\ UNCHANGED <<result, search, filterLower, readout>>
    BY DEF sortByColumn
  <1>2. result \in Outcomes /\ sortAscending \in BOOLEAN /\ result.columns \in Nat
    BY GridFacts DEF IInv, ColumnsInv
  <1>3. sortAscending' \in BOOLEAN
    <2>1. CASE c = sortColumn
      BY <1>1, <1>2, <2>1
    <2>2. CASE c # sortColumn
      BY <1>1, <2>2
    <2> QED
      BY <2>1, <2>2
  <1>4. c \in 0..result.columns
    BY <1>2
  <1>5. Shows(rowOrder', result, c, sortAscending', filterLower)
    BY <1>1, <1>2, <1>3, <1>4, FilterSortShows
  <1>6. Len(rowOrder') = rowCount
    <2>1. HasMatching(rowOrder', result, filterLower)
      BY <1>5 DEF Shows
    <2>2. HasMatching(rowOrder, result, filterLower)
      BY DEF IInv, OrderInv, Shows
    <2> QED
      BY <2>1, <2>2, SameLength DEF rowCount
  <1>7. ColumnsInv'
    BY <1>1, <1>3, <1>4 DEF IInv, ColumnsInv, viewVars, dragVars
  <1>8. OrderInv'
    BY <1>1, <1>5, <1>6 DEF IInv, OrderInv, rowCount
  <1>9. ViewInv'
    BY <1>6 DEF IInv, ViewInv, viewVars, rowCount
  <1>10. SelectionInv'
    <2>1. Len(rowOrder') \in Nat
      BY <1>6, GridFacts DEF IInv
    <2> QED
      BY <1>1, <2>1 DEF SelectionInv, Greatest, rowCount
  <1> QED
    BY <1>7, <1>8, <1>9, <1>10 DEF IInv

\* What is hit is a column there is.
LEMMA HitFacts ==
  ASSUME IInv, NEW x
  PROVE  /\ dividerAtX(x) = 0 \/ dividerAtX(x) \in 1..Len(colWidth)
         /\ columnAtX(x) = 0 \/ columnAtX(x) \in 1..Len(colWidth)
  <1>1. columnAtX(x) = 0 \/ columnAtX(x) \in 1..Len(colWidth)
    BY DEF columnAtX
  <1> DEFINE hit == {c \in 1..Len(colWidth) :
                /\ x + scrollX - columnLeft(c + 1) <= DividerHit * dpi
                /\ columnLeft(c + 1) - x - scrollX <= DividerHit * dpi}
  <1>2. CASE hit = {}
    BY <1>1, <1>2 DEF dividerAtX
  <1>3. CASE hit # {}
    <2>1. \A c \in hit : c \in 1..Len(colWidth)
      OBVIOUS
    <2>2. dividerAtX(x) = CHOOSE c \in hit : \A d \in hit : c <= d
      BY <1>3 DEF dividerAtX
    <2> HIDE DEF hit
    <2>3. hit \in SUBSET Nat
      BY <2>1, GridFacts DEF IInv
    <2>4. \E c \in hit : \A d \in hit : c <= d
      BY <1>3, <2>3, LeastNatural
    <2>5. dividerAtX(x) \in hit
      BY <2>2, <2>4
    <2> QED
      BY <1>1, <2>1, <2>5
  <1> QED
    BY <1>2, <1>3

LEMMA HeaderDownInv ==
  ASSUME IInv, HeaderDown
  PROVE  IInv'
  <1>1. PICK x : x \in 0..(size.w - 1)
                 /\ IF dividerAtX(x) > 0
                    THEN /\ resizing' = TRUE /\ resizeCol' = dividerAtX(x)
                         /\ UNCHANGED <<dataVars, selectedRow>>
                    ELSE /\ columnAtX(x) > 0
                         /\ sortByColumn(columnAtX(x))
                         /\ UNCHANGED dragVars
    BY DEF HeaderDown
  <1>2. UNCHANGED <<dpi, size, viewVars>>
    BY DEF HeaderDown
  <1>3. Len(colWidth) = result.columns /\ Len(colWidth) \in Nat
    BY GridFacts DEF IInv, ColumnsInv
  <1>4. CASE dividerAtX(x) > 0
    <2>1. resizing' = TRUE /\ resizeCol' = dividerAtX(x) /\ UNCHANGED <<dataVars, selectedRow>>
      BY <1>1, <1>4
    <2>2. dividerAtX(x) \in 1..Len(colWidth)
      BY <1>3, <1>4, HitFacts
    <2>3. ColumnsInv'
      BY <1>2, <2>1, <2>2 DEF IInv, ColumnsInv, dataVars, viewVars
    <2>4. OrderInv'
      BY <2>1, RowsFrame DEF IInv
    <2> QED
      BY <1>2, <2>1, <2>3, <2>4 DEF IInv, ViewInv, SelectionInv, dataVars, viewVars, rowCount
  <1>5. CASE ~(dividerAtX(x) > 0)
    <2>1. columnAtX(x) > 0 /\ sortByColumn(columnAtX(x)) /\ UNCHANGED dragVars
      BY <1>1, <1>5
    <2>2. columnAtX(x) \in 1..result.columns
      BY <1>3, <2>1, HitFacts
    <2> QED
      BY <1>2, <2>1, <2>2, SortByColumnInv
  <1> QED
    BY <1>4, <1>5

-----------------------------------------------------------------------------
(* The rest: the rows stay as they are.                                    *)

\* A step that leaves the rows and the columns alone but for where they are shown.
LEMMA ViewStepInv ==
  ASSUME IInv, UNCHANGED dataVars, ColumnsInv', ViewInv', SelectionInv'
  PROVE  IInv'
  BY RowsFrame DEF IInv

\* Only the selection changes.
LEMMA SelectInv ==
  ASSUME IInv, UNCHANGED <<dpi, size, dataVars, viewVars, dragVars>>,
         selectedRow' \in 0..Greatest(rowCount, IF result.columns > 0 THEN 1 ELSE 0)
  PROVE  IInv'
  <1>1. ColumnsInv'
    BY DEF IInv, ColumnsInv, dataVars, viewVars, dragVars
  <1>2. ViewInv'
    BY DEF IInv, ViewInv, dataVars, viewVars, rowCount
  <1>3. SelectionInv'
    BY DEF SelectionInv, dataVars, rowCount
  <1> QED
    BY <1>1, <1>2, <1>3, ViewStepInv

LEMMA RowAtYFacts ==
  ASSUME IInv, NEW y \in Int
  PROVE  rowAtY(y) \in 0..rowCount
  <1>1. PICK a \in Int, b \in Nat \ {0} : a = y - headerH + scrollY /\ b = rowH
    BY GridFacts, ViewFacts DEF IInv
  <1>2. PICK q \in Int : q = a \div b
    OBVIOUS
  <1>3. a >= 0 => q >= 0
    BY <1>2
  <1>4. y >= headerH => a >= 0
    BY <1>1, GridFacts, ViewFacts DEF IInv
  <1>5. rowCount \in Nat
    BY GridFacts DEF IInv
  <1>6. rowAtY(y) = IF y >= headerH /\ 1 + q <= rowCount THEN 1 + q ELSE 0
    BY <1>1, <1>2 DEF rowAtY
  <1> QED
    BY <1>3, <1>4, <1>5, <1>6

LEMMA RowDownInv ==
  ASSUME IInv, RowDown
  PROVE  IInv'
  <1>1. PICK y \in headerH..(size.h - 1) : selectedRow' = rowAtY(y)
    BY DEF RowDown
  <1>2. y \in Int
    BY GridFacts DEF IInv
  <1>3. selectedRow' \in 0..rowCount /\ rowCount \in Nat
    BY <1>1, <1>2, RowAtYFacts, GridFacts DEF IInv
  <1>4. selectedRow' \in 0..Greatest(rowCount, IF result.columns > 0 THEN 1 ELSE 0)
    BY <1>3 DEF Greatest
  <1> QED
    BY <1>4, SelectInv DEF RowDown

LEMMA ContextMenuInv ==
  ASSUME IInv, ContextMenu
  PROVE  IInv'
  <1>1. result.columns > 0 /\ UNCHANGED <<dpi, size, dataVars, viewVars, dragVars>>
    BY DEF ContextMenu
  <1>2. rowCount \in Nat /\ size.h \in Nat
    BY GridFacts DEF IInv
  <1>3. selectedRow \in 0..Greatest(rowCount, 1)
    BY <1>1 DEF IInv, SelectionInv
  <1>4. selectedRow' \in 0..Greatest(rowCount, 1)
    <2>1. CASE selectedRow' = Greatest(1, selectedRow)
      BY <1>2, <1>3, <2>1 DEF Greatest
    <2>2. ASSUME NEW y \in 0..(size.h - 1),
                 selectedRow' = IF rowAtY(y) > 0 THEN rowAtY(y) ELSE selectedRow
          PROVE  selectedRow' \in 0..Greatest(rowCount, 1)
      <3>1. rowAtY(y) \in 0..rowCount
        BY <1>2, RowAtYFacts
      <3> QED
        BY <1>2, <1>3, <2>2, <3>1 DEF Greatest
    <2> QED
      BY <2>1, <2>2 DEF ContextMenu
  <1> QED
    BY <1>1, <1>4, SelectInv

LEMMA MenuReturnsInv ==
  ASSUME IInv, MenuReturns
  PROVE  IInv'
  BY SelectInv DEF IInv, SelectionInv, MenuReturns

LEMMA EndDragInv ==
  ASSUME IInv, EndDrag
  PROVE  IInv'
  <1>1. ColumnsInv'
    BY ColumnsFrame DEF IInv, EndDrag, dataVars, viewVars
  <1>2. ViewInv' /\ SelectionInv'
    BY DEF IInv, EndDrag, ViewInv, SelectionInv, dataVars, viewVars, rowCount
  <1> QED
    BY <1>1, <1>2, ViewStepInv DEF EndDrag

\* A step that scrolls.
LEMMA ScrollingInv ==
  ASSUME IInv, UNCHANGED dataVars, ColumnsInv', SelectionInv',
         NEW x \in Int, NEW y \in Int, clampScroll(x, y)
  PROVE  IInv'
  <1>1. OrderInv'
    BY RowsFrame DEF IInv
  <1>2. ViewInv'
    BY <1>1, ClampScrollFits
  <1> QED
    BY <1>2, ViewStepInv

LEMMA ScrollInv ==
  ASSUME IInv, Scroll
  PROVE  IInv'
  <1>1. UNCHANGED <<dpi, size, dataVars, colWidth, selectedRow, dragVars>>
    BY DEF Scroll
  <1>2. ColumnsInv'
    BY <1>1 DEF IInv, ColumnsInv, dataVars, dragVars
  <1>3. SelectionInv'
    BY <1>1 DEF IInv, SelectionInv, dataVars, rowCount
  <1>4. scrollX \in Int /\ scrollY \in Int
    BY ViewFacts DEF IInv
  <1>5. MaxX(colWidth, size) \in Int /\ MaxY(rowCount, dpi, size) \in Int
    BY GridFacts, ExtentsAreInts DEF IInv, ColumnsInv
  <1>6. PICK x \in Int, y \in Int : clampScroll(x, y)
    <2>1. CASE \E x \in -1..(MaxX(colWidth, size) + 1) : clampScroll(x, scrollY)
      BY <1>4, <1>5, <2>1
    <2>2. CASE \E y \in -1..(MaxY(rowCount, dpi, size) + 1) : clampScroll(scrollX, y)
      BY <1>4, <1>5, <2>2
    <2> QED
      BY <2>1, <2>2 DEF Scroll
  <1> QED
    BY <1>1, <1>2, <1>3, <1>6, ScrollingInv

LEMMA DragColumnInv ==
  ASSUME IInv, DragColumn
  PROVE  IInv'
  <1>1. /\ resizing /\ resizeCol > 0 /\ resizeCol <= Len(colWidth)
        /\ UNCHANGED <<dpi, size, dataVars, selectedRow, dragVars>>
        /\ clampScroll(scrollX, scrollY)
    BY DEF DragColumn
  <1>2. PICK w \in Widths : colWidth' = [colWidth EXCEPT ![resizeCol] = w * dpi]
    BY DEF DragColumn
  <1>3. w * dpi \in Nat /\ w * dpi >= MinWidth * dpi
    <2>1. w \in Nat /\ w >= MinWidth /\ MinWidth \in Nat /\ dpi \in Nat
      BY GridAssumption DEF IInv, ColumnsInv
    <2> QED
      BY <2>1
  <1>4. PICK v \in Nat : v = w * dpi /\ v >= MinWidth * dpi
    BY <1>3
  <1>5. colWidth \in Seq(Nat) /\ resizeCol \in 1..Len(colWidth)
    BY <1>1 DEF IInv, ColumnsInv
  <1>6. /\ colWidth' \in Seq(Nat) /\ Len(colWidth') = Len(colWidth)
        /\ \A c \in 1..Len(colWidth) : colWidth'[c] = IF c = resizeCol THEN v ELSE colWidth[c]
    BY <1>2, <1>4, <1>5
  <1>7. ColumnsInv'
    <2>1. \A c \in 1..Len(colWidth) : colWidth'[c] >= MinWidth * dpi
      BY <1>4, <1>6 DEF IInv, ColumnsInv
    <2> QED
      BY <1>1, <1>6, <2>1 DEF IInv, ColumnsInv, dataVars, dragVars
  <1>8. SelectionInv'
    BY <1>1 DEF IInv, SelectionInv, dataVars, rowCount
  <1>9. scrollX \in Int /\ scrollY \in Int
    BY ViewFacts DEF IInv
  <1> QED
    BY <1>1, <1>7, <1>8, <1>9, ScrollingInv

\* A key selects a row there is.
LEMMA KeyTargetFacts ==
  ASSUME IInv, rowCount > 0, NEW key \in {"up", "down", "prior", "next", "home", "end"}
  PROVE  KeyTarget(key) \in 1..rowCount
  <1>1. PICK n \in Nat \ {0} : n = rowCount
    BY GridFacts DEF IInv
  <1>2. selectedRow \in 0..n
    BY <1>1 DEF IInv, SelectionInv, Greatest
  <1>3. Page \in Nat \ {0}
    <2>1. viewBody \in Int /\ rowH \in Nat \ {0}
      BY GridFacts DEF IInv, viewBody
    <2>2. Greatest(0, viewBody) \div rowH \in Int
      BY <2>1 DEF Greatest
    <2> QED
      BY <2>2 DEF Page, Greatest
  <1>4. CASE selectedRow = 0 \/ key \in {"home", "end"}
    BY <1>1, <1>4 DEF KeyTarget
  <1>5. CASE selectedRow # 0 /\ key = "up"
    <2>1. KeyTarget(key) = Greatest(1, selectedRow - 1)
      BY <1>5 DEF KeyTarget
    <2> QED
      BY <1>1, <1>2, <1>5, <2>1 DEF Greatest
  <1>6. CASE selectedRow # 0 /\ key = "down"
    <2>1. KeyTarget(key) = Least(n, selectedRow + 1)
      BY <1>1, <1>6 DEF KeyTarget
    <2> QED
      BY <1>1, <1>2, <1>6, <2>1 DEF Least
  <1>7. CASE selectedRow # 0 /\ key = "prior"
    <2>1. KeyTarget(key) = Greatest(1, selectedRow - Page)
      BY <1>7 DEF KeyTarget
    <2> QED
      BY <1>1, <1>2, <1>3, <1>7, <2>1 DEF Greatest
  <1>8. CASE selectedRow # 0 /\ key = "next"
    <2>1. KeyTarget(key) = Least(n, selectedRow + Page)
      BY <1>1, <1>8 DEF KeyTarget
    <2> QED
      BY <1>1, <1>2, <1>3, <1>8, <2>1 DEF Least
  <1> QED
    BY <1>4, <1>5, <1>6, <1>7, <1>8

LEMMA OnKeyDownInv ==
  ASSUME IInv, onKeyDown
  PROVE  IInv'
  <1>1. /\ rowCount > 0
        /\ UNCHANGED <<dpi, size, dataVars, colWidth, dragVars>>
    BY DEF onKeyDown
  <1>2. PICK key \in {"up", "down", "prior", "next", "home", "end"} :
          selectedRow' = KeyTarget(key) /\ ensureRowVisible(selectedRow')
    BY DEF onKeyDown
  <1>3. selectedRow' \in 1..rowCount /\ rowCount \in Nat
    BY <1>1, <1>2, KeyTargetFacts, GridFacts DEF IInv
  <1>4. ColumnsInv'
    BY <1>1 DEF IInv, ColumnsInv, dataVars, dragVars
  <1>5. SelectionInv'
    BY <1>1, <1>3 DEF SelectionInv, Greatest, dataVars, rowCount
  <1>6. PICK r \in Int : r = selectedRow'
    BY <1>3
  <1>7. scrollX \in Int /\ scrollY \in Int /\ rowH \in Int /\ viewBody \in Int
    BY ViewFacts, GridFacts DEF IInv, viewBody
  <1>8. PICK y \in Int : clampScroll(scrollX, y)
    <2>1. (r - 1) * rowH \in Int
      BY <1>6, <1>7
    <2> QED
      BY <1>2, <1>6, <1>7, <2>1 DEF ensureRowVisible
  <1> QED
    BY <1>1, <1>4, <1>5, <1>7, <1>8, ScrollingInv

LEMMA ResizeInv ==
  ASSUME IInv, Resize
  PROVE  IInv'
  <1>1. /\ size' \in Sizes
        /\ UNCHANGED <<dpi, dataVars, colWidth, selectedRow, dragVars>>
        /\ clampScroll(scrollX, scrollY)
    BY DEF Resize
  <1>2. ColumnsInv'
    BY <1>1 DEF IInv, ColumnsInv, dataVars, dragVars
  <1>3. SelectionInv'
    BY <1>1 DEF IInv, SelectionInv, dataVars, rowCount
  <1>4. scrollX \in Int /\ scrollY \in Int
    BY ViewFacts DEF IInv
  <1> QED
    BY <1>1, <1>2, <1>3, <1>4, ScrollingInv

LEMMA GridUpdateDpiInv ==
  ASSUME IInv, gridUpdateDpi
  PROVE  IInv'
  <1>1. PICK d \in Dpis, s \in Sizes :
          /\ dpi' = d /\ size' = s
          /\ colWidth' = [c \in 1..Len(colWidth) |-> MulDiv(colWidth[c], d, dpi)]
          /\ UNCHANGED <<dataVars, selectedRow, dragVars, menu>>
          /\ clampScroll(Clamp(scrollX, MaxX(colWidth', size)),
                         Clamp(scrollY, MaxY(rowCount, d, size)))
    BY DEF gridUpdateDpi
  <1>2. PICK n \in Nat : n = Len(colWidth)
    BY GridFacts DEF IInv
  <1>3. d \in Nat \ {0} /\ dpi \in Nat \ {0} /\ MinWidth \in Nat
    BY GridAssumption DEF IInv, ColumnsInv
  <1>4. \A c \in 1..n : colWidth[c] \in Nat /\ colWidth[c] >= MinWidth * dpi
    BY <1>2 DEF IInv, ColumnsInv
  <1>5. \A c \in 1..n : /\ MulDiv(colWidth[c], d, dpi) \in Int
                        /\ MulDiv(colWidth[c], d, dpi) >= MinWidth * d
    BY <1>3, <1>4, MulDivKeepsMinimum
  <1>6. MinWidth * d \in Nat
    BY <1>3
  <1>7. \A c \in 1..n : MulDiv(colWidth[c], d, dpi) \in Nat
    BY <1>5, <1>6
  <1>8. PICK widths : widths = [c \in 1..n |-> MulDiv(colWidth[c], d, dpi)]
    OBVIOUS
  <1>9. /\ widths \in Seq(Nat) /\ Len(widths) = n
        /\ \A c \in 1..n : widths[c] >= MinWidth * d
    BY <1>5, <1>7, <1>8
  <1>10. colWidth' = widths
    BY <1>1, <1>2, <1>8
  <1>11. ColumnsInv'
    BY <1>1, <1>2, <1>9, <1>10 DEF IInv, ColumnsInv, dataVars, dragVars
  <1>12. SelectionInv'
    BY <1>1 DEF IInv, SelectionInv, dataVars, rowCount
  <1>13. PICK x \in Int, y \in Int : clampScroll(x, y)
    <2>1. widths \in Seq(Int) /\ size \in Sizes /\ rowCount \in Nat
      BY <1>9, GridFacts DEF IInv, ColumnsInv
    <2>2. PICK mx \in Int, my \in Int : mx = MaxX(widths, size) /\ my = MaxY(rowCount, d, size)
      BY <2>1, ExtentsAreInts
    <2>3. scrollX \in Int /\ scrollY \in Int
      BY ViewFacts DEF IInv
    <2>4. Clamp(scrollX, mx) \in Int /\ Clamp(scrollY, my) \in Int
      BY <2>2, <2>3 DEF Clamp, Greatest, Least
    <2> QED
      BY <1>1, <1>10, <2>2, <2>4
  <1> QED
    BY <1>1, <1>11, <1>12, <1>13, ScrollingInv

-----------------------------------------------------------------------------
(* The theorems.                                                           *)

LEMMA InitInv ==
  ASSUME Init
  PROVE  IInv
  <1>1. /\ dpi \in Dpis /\ size \in Sizes
        /\ result = Empty /\ rowOrder = <<>>
        /\ search = <<>> /\ filterLower = <<>> /\ readout = <<0, 0>>
        /\ sortColumn = 0 /\ sortAscending = TRUE
        /\ colWidth = <<>> /\ scrollX = 0 /\ scrollY = 0
        /\ selectedRow = 0 /\ resizing = FALSE
    BY DEF Init
  <1>2. Empty.columns = 0 /\ Empty.rows = <<>> /\ Empty \in Outcomes
    BY DEF Empty, Outcomes
  <1>3. <<>> \in Seq(Nat) /\ <<>> \in Seq(Int) /\ Len(<<>>) = 0 /\ 1..Len(<<>>) = {}
    OBVIOUS
  <1>4. ColumnsInv
    <2>1. result.columns = 0 /\ result \in Outcomes
      BY <1>1, <1>2
    <2>2. sortColumn \in 0..result.columns
      BY <1>1, <2>1
    <2>3. Len(colWidth) = result.columns /\ colWidth \in Seq(Nat) /\ 1..Len(colWidth) = {}
      BY <1>1, <1>3, <2>1
    <2> QED
      BY <1>1, <2>1, <2>2, <2>3 DEF ColumnsInv
  <1>5. OrderInv
    <2>1. [n \in 1..Len(<<>>) |-> n] = <<>>
      OBVIOUS
    <2>2. Shows(<<>>, Empty, 0, TRUE, <<>>)
      BY <1>2, <2>1, UnsortedShows
    <2>3. LowerCase(<<>>) = <<>>
      BY DEF LowerCase
    <2> QED
      BY <1>1, <1>2, <1>3, <2>2, <2>3 DEF OrderInv, rowCount
  <1>6. ViewInv
    <2>1. PICK widths, rows : widths = colWidth /\ rows = rowCount
      OBVIOUS
    <2>2. widths \in Seq(Int) /\ rows \in Nat
      BY <1>1, <1>3, <2>1 DEF rowCount
    <2>3. Scrolled(0, 0, widths, rows, dpi, size)
      BY <1>1, <2>2, ScrolledFacts
    <2> QED
      BY <1>1, <2>1, <2>3 DEF ViewInv
  <1>7. SelectionInv
    BY <1>1, <1>2, <1>3 DEF SelectionInv, Greatest, rowCount
  <1> QED
    BY <1>4, <1>5, <1>6, <1>7 DEF IInv

LEMMA NextInv ==
  ASSUME IInv, [Next]_vars
  PROVE  IInv'
  <1>1. CASE UNCHANGED vars
    BY <1>1 DEF IInv, ColumnsInv, OrderInv, ViewInv, SelectionInv, rowCount,
                vars, dataVars, viewVars, dragVars
  <1>2. CASE Next
    BY <1>2, GridSetResultInv, GridClearInv, GridSetFilterInv, HeaderDownInv, RowDownInv,
       DragColumnInv, EndDragInv, ScrollInv, OnKeyDownInv, ContextMenuInv, MenuReturnsInv,
       ResizeInv, GridUpdateDpiInv DEF Next
  <1> QED
    BY <1>1, <1>2

\* The invariant holds in every state the grid reaches.
THEOREM GridInvariant == Spec => []IInv
  <1>1. Init => IInv
    BY InitInv
  <1>2. IInv /\ [Next]_vars => IInv'
    BY NextInv
  <1> QED
    BY <1>1, <1>2, PTL DEF Spec

\* A drag is of a column that exists, no column is narrower than the minimum, and the
\* scroll offsets leave nothing blank, for any results, sizes and resolutions.
THEOREM GridTypeCorrect == Spec => []TypeOK
  <1>1. IInv => TypeOK
    BY DEF IInv, ColumnsInv, ViewInv, SelectionInv, Scrolled, TypeOK
  <1> QED
    BY <1>1, GridInvariant, PTL

\* The grid shows each matching row once, in the order asked for, and counts them
\* right, whatever is sorted, filtered or replaced.
THEOREM GridRowsShown == Spec => []RowsShown
  <1>1. IInv => RowsShown
    <2> SUFFICES ASSUME IInv PROVE RowsShown
      OBVIOUS
    <2> DEFINE needle == LowerCase(search)
    <2>1. HasMatching(rowOrder, result, needle)
      BY DEF IInv, OrderInv, Shows
    <2>2. {rowOrder[n] : n \in 1..rowCount} = Matching(result, needle)
      BY <2>1 DEF HasMatching, rowCount
    <2>3. \A a, b \in 1..rowCount : rowOrder[a] = rowOrder[b] => a = b
      BY <2>1 DEF HasMatching, rowCount
    <2>4. readout = <<rowCount, Len(result.rows)>>
      BY DEF IInv, OrderInv
    <2>5. InOrderOf(rowOrder, result, sortColumn, sortAscending)
      BY DEF IInv, OrderInv, Shows
    <2> QED
      BY <2>2, <2>3, <2>4, <2>5 DEF RowsShown, Matching, InOrderOf, LowerCase, rowCount
  <1> QED
    BY <1>1, GridInvariant, PTL

\* No step moves the selection to another row by rearranging or replacing the rows.
THEOREM GridSelectionFollows == Spec => SelectionFollows
  <1>1. ASSUME [Next]_vars
        PROVE  [result' # result \/ rowOrder' # rowOrder => selectedRow' = 0]_vars
    <2>1. ASSUME gridSetResult \/ gridClear PROVE selectedRow' = 0
      BY <2>1 DEF gridSetResult, gridClear, Unsorted
    <2>2. ASSUME gridSetFilter PROVE selectedRow' = 0 \/ UNCHANGED <<result, rowOrder>>
      BY <2>2 DEF gridSetFilter
    <2>3. ASSUME HeaderDown PROVE selectedRow' = 0 \/ UNCHANGED <<result, rowOrder>>
      BY <2>3 DEF HeaderDown, sortByColumn, dataVars
    <2>4. ASSUME RowDown \/ DragColumn \/ EndDrag \/ Scroll \/ onKeyDown \/ ContextMenu
                   \/ MenuReturns \/ Resize \/ gridUpdateDpi
          PROVE  UNCHANGED <<result, rowOrder>>
      BY <2>4 DEF RowDown, DragColumn, EndDrag, Scroll, onKeyDown, ContextMenu, MenuReturns,
                  Resize, gridUpdateDpi, dataVars
    <2> QED
      BY <1>1, <2>1, <2>2, <2>3, <2>4 DEF Next
  <1> QED
    BY <1>1, PTL DEF Spec, SelectionFollows
=============================================================================
