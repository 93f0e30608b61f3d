---------------------------- MODULE ResultsGrid ----------------------------
(***************************************************************************)
(* The results pane: the grid control of src/ui/SqlGridControl.cpp, with   *)
(* the sort and the filter of src/app/ResultFormat.cpp, and the search     *)
(* field and row count that MainWindow keeps beside it.                    *)
(*                                                                         *)
(* A result is posted by the worker, so it may replace the data at any     *)
(* message: while a column is dragged, and inside the loop of the context  *)
(* menu.  Rows, columns and display rows count from 1, and 0 stands for    *)
(* the code's -1.  A cell is a sequence of units: -1 is a minus sign, 0..9 *)
(* are digits, and from 10 on an even unit is a lower-case letter and the  *)
(* odd one after it the same letter in upper case.  Lengths are multiples  *)
(* of the smallest that matters, and the fonts have been measured.         *)
(***************************************************************************)
EXTENDS SequencesExt, Lists

CONSTANTS
  Null,          \* the text NULL, as units
  Results,       \* what a query may return: [columns, rows], columns > 0
  Texts,         \* what is typed into the search field
  Dpis,          \* 1 stands for 96 dpi
  Sizes,         \* client areas of the grid: [w, h]
  RowHeight, HeaderHeight, MinWidth, DividerHit,   \* at dpi 1
  Widths         \* widths, at dpi 1, that measuring or dragging gives a column

ASSUME GridAssumption ==
  /\ Null \in Seq(Int) /\ <<>> \in Texts /\ Texts \subseteq Seq(Int)
  /\ \A r \in Results : r.columns \in Nat \ {0} /\ r.rows \in Seq(Seq(Seq(Int)))
  /\ Dpis \subseteq Nat \ {0} /\ Dpis # {}
  /\ Sizes \subseteq [w : Nat, h : Nat] /\ Sizes # {}
  /\ {RowHeight, HeaderHeight, MinWidth} \subseteq Nat \ {0} /\ DividerHit \in Nat
  /\ Widths # {} /\ \A w \in Widths : w \in Nat /\ w >= MinWidth

VARIABLES
  dpi, size,
  result, rowOrder,            \* rowOrder: display row -> row of the result
  search, filterLower,         \* the search field; the grid's own copy of it
  readout,                     \* "N of M" beside the field
  sortColumn, sortAscending,
  colWidth, scrollX, scrollY,
  selectedRow,                 \* a display row
  resizing, resizeCol,
  menu                         \* whether the context menu's loop runs

dataVars == <<result, rowOrder, search, filterLower, readout, sortColumn, sortAscending>>
viewVars == <<colWidth, scrollX, scrollY>>
dragVars == <<resizing, resizeCol>>
vars == <<dpi, size, dataVars, viewVars, selectedRow, dragVars, menu>>

Empty == [columns |-> 0, rows |-> <<>>]
rowCount == Len(rowOrder)
Least(a, b) == IF a < b THEN a ELSE b
Greatest(a, b) == IF a > b THEN a ELSE b

-----------------------------------------------------------------------------
\* ResultFormat: comparing cells.

Digit(u) == u \in 0..9
Lower(u) == IF u >= 10 THEN u - (u % 2) ELSE u
Number(digits) == FoldLeft(LAMBDA v, d : 10 * v + d, 0, digits)
Signless(s) == IF s # <<>> /\ s[1] = -1 THEN Tail(s) ELSE s

\* parseDouble accepts the whole cell or nothing (fractions and exponents left out).
IsDouble(s) == Signless(s) # <<>> /\ \A n \in 1..Len(Signless(s)) : Digit(Signless(s)[n])
Double(s) == IF s[1] = -1 THEN -Number(Tail(s)) ELSE Number(s)

Sign(n) == IF n < 0 THEN -1 ELSE IF n > 0 THEN 1 ELSE 0

\* naturalCompare compares runs of digits as numbers, other units without case; a
\* number lies between the minus sign and the letters.
Tokens(s) ==
  LET starts == {n \in 1..Len(s) : ~(n > 1 /\ Digit(s[n]) /\ Digit(s[n - 1]))}
      end(n) == CHOOSE e \in n..Len(s) :
                  /\ \A k \in n..e : e > n => Digit(s[k])
                  /\ e = Len(s) \/ ~Digit(s[n]) \/ ~Digit(s[e + 1])
      token(n) == IF Digit(s[n]) THEN Number(SubSeq(s, n, end(n)))
                  ELSE IF s[n] = -1 THEN -1 ELSE 1000 + Lower(s[n])
  IN  [k \in 1..Cardinality(starts) |-> token(SetToSortSeq(starts, <)[k])]

naturalCompare(a, b) ==
  LET s == Tokens(a)
      t == Tokens(b)
      differ == {n \in 1..Least(Len(s), Len(t)) : s[n] # t[n]}
      first == CHOOSE n \in differ : \A m \in differ : n <= m
  IN  IF differ # {} THEN Sign(s[first] - t[first]) ELSE Sign(Len(s) - Len(t))

smartCompare(a, b) ==
  IF a = b THEN 0
  ELSE IF a = Null THEN 1
  ELSE IF b = Null THEN -1
  ELSE IF IsDouble(a) /\ IsDouble(b) THEN Sign(Double(a) - Double(b))
  ELSE naturalCompare(a, b)

Cell(row, column) == IF column <= Len(row) THEN row[column] ELSE <<>>

\* What the comparator says of two rows.
Before(rows, column, ascending) ==
  [x, y \in 1..Len(rows) |->
     LET c == smartCompare(Cell(rows[x], column), Cell(rows[y], column))
     IN  IF ascending THEN c < 0 ELSE c > 0]

\* It need not be an order: two numbers and a text may be in a cycle.
WeakOrder(before, S) ==
  \A x, y, z \in S : /\ before[x, y] => ~before[y, x]
                     /\ before[x, z] => before[x, y] \/ before[y, z]

\* A table of something for every column of every result, either way.
Table(Entry(_, _, _)) ==
  [r \in Results |-> [c \in 1..r.columns |-> [ascending \in BOOLEAN |->
     Entry(r, c, ascending)]]]
Orders == Table(LAMBDA r, c, ascending : Before(r.rows, c, ascending))
IsOrder == Table(LAMBDA r, c, ascending :
                   WeakOrder(Before(r.rows, c, ascending), 1..Len(r.rows)))

SortedBy(before, order) ==
  \A a, b \in 1..Len(order) : a < b =>
     \/ before[order[a], order[b]]
     \/ ~before[order[b], order[a]] /\ order[a] < order[b]

\* std::stable_sort by a comparator that is no order promises only a permutation.
sortedRowOrder(r, column, ascending) ==
  LET permutations == Bijection(1..Len(r.rows), 1..Len(r.rows))
  IN  IF IsOrder[r][column][ascending]
      THEN {o \in permutations : SortedBy(Orders[r][column][ascending], o)}
      ELSE permutations

Sorts == Table(sortedRowOrder)

rowMatchesFilter(row, needle) ==
  \E c \in 1..Len(row) : \E at \in 0..(Len(row[c]) - Len(needle)) :
     \A k \in 1..Len(needle) : Lower(row[c][at + k]) = needle[k]

\* applyFilterSort, as the set of orders it may leave.
applyFilterSort(res, column, ascending, needle) ==
  LET base == IF column > 0 THEN Sorts[res][column][ascending]
              ELSE {[n \in 1..Len(res.rows) |-> n]}
  IN  IF needle = <<>> THEN base
      ELSE {Without(o, {src \in EntriesOf(o) : ~rowMatchesFilter(res.rows[src], needle)}) :
              o \in base}

-----------------------------------------------------------------------------
\* Geometry.

\* The width of the first n columns.
UpTo(widths, n) ==
  LET sum[k \in 0..n] == IF k = 0 THEN 0 ELSE sum[k - 1] + widths[k] IN sum[n]
Total(widths) == UpTo(widths, Len(widths))
columnLeft(c) == UpTo(colWidth, c - 1)
rowH == RowHeight * dpi
headerH == HeaderHeight * dpi

columnAtX(x) ==
  LET hit == {c \in 1..Len(colWidth) :
                x + scrollX >= columnLeft(c) /\ x + scrollX < columnLeft(c + 1)}
  IN  IF hit = {} THEN 0 ELSE CHOOSE c \in hit : TRUE

dividerAtX(x) ==
  LET hit == {c \in 1..Len(colWidth) :
                /\ x + scrollX - columnLeft(c + 1) <= DividerHit * dpi
                /\ columnLeft(c + 1) - x - scrollX <= DividerHit * dpi}
  IN  IF hit = {} THEN 0 ELSE CHOOSE c \in hit : \A d \in hit : c <= d

rowAtY(y) ==
  LET r == 1 + (y - headerH + scrollY) \div rowH
  IN  IF y >= headerH /\ r <= rowCount THEN r ELSE 0

Clamp(n, max) == Greatest(0, Least(n, Greatest(0, max)))
MaxX(widths, sz) == Total(widths) - sz.w
MaxY(rows, d, sz) == rows * RowHeight * d - (sz.h - HeaderHeight * d)

\* clampScroll, after the handler has asked for x and y.
clampScroll(x, y) ==
  /\ scrollX' = Clamp(x, MaxX(colWidth', size'))
  /\ scrollY' = Clamp(y, MaxY(Len(rowOrder'), dpi', size'))

-----------------------------------------------------------------------------
Init ==
  /\ dpi \in Dpis /\ size \in Sizes
  /\ result = Empty /\ rowOrder = <<>>
  /\ search = <<>> /\ filterLower = <<>> /\ readout = <<0, 0>>
  /\ sortColumn = 0 /\ sortAscending = TRUE
  /\ colWidth = <<>> /\ scrollX = 0 /\ scrollY = 0
  /\ selectedRow = 0
  /\ resizing = FALSE /\ resizeCol = 0
  /\ menu = FALSE

updateFilterCount == readout' = <<Len(rowOrder'), Len(result'.rows)>>
resetFilterUI == search' = <<>> /\ updateFilterCount
\* Mutant of cancelResize: the drag goes on.
CancelNothing == UNCHANGED dragVars

cancelResize == resizing' = FALSE /\ resizeCol' = IF resizing THEN 0 ELSE resizeCol

Unsorted ==
  /\ filterLower' = <<>> /\ sortColumn' = 0 /\ sortAscending' = TRUE
  /\ selectedRow' = 0 /\ scrollX' = 0 /\ scrollY' = 0

\* WM_APP_RESULT with columns: showResult, which calls gridSetResult.
gridSetResult ==
  \E r \in Results :
    /\ cancelResize
    /\ result' = r
    /\ Unsorted
    /\ rowOrder' \in applyFilterSort(r, 0, TRUE, <<>>)
    /\ \E w \in [1..r.columns -> Widths] : colWidth' = [c \in 1..r.columns |-> w[c] * dpi]
    /\ resetFilterUI
    /\ UNCHANGED <<dpi, size, menu>>

\* A result without columns, .clear, or a new connection.
gridClear ==
  /\ cancelResize
  /\ result' = Empty
  /\ Unsorted
  /\ rowOrder' = <<>> /\ colWidth' = <<>>
  /\ resetFilterUI
  /\ UNCHANGED <<dpi, size, menu>>

\* EN_CHANGE of the search field, and Esc in it, which empties it.
gridSetFilter ==
  /\ ~menu
  /\ UNCHANGED <<dpi, size, result, sortColumn, sortAscending, colWidth, dragVars, menu>>
  /\ \E text \in Texts \ {search} :
       LET lower == [n \in 1..Len(text) |-> Lower(text[n])]
       IN  /\ search' = text
           /\ filterLower' = lower
           /\ IF lower = filterLower
              THEN UNCHANGED <<rowOrder, selectedRow, scrollX, scrollY>>
              ELSE /\ rowOrder' \in applyFilterSort(result, sortColumn, sortAscending, lower)
                   /\ selectedRow' = 0
                   /\ clampScroll(scrollX, 0)
  /\ updateFilterCount

-----------------------------------------------------------------------------
\* Mouse.

\* Mutants of sortByColumn: the filter is not applied again; the selection is kept.
SortDropsFilter(c) ==
  /\ sortColumn' = c
  /\ sortAscending' = IF c = sortColumn THEN ~sortAscending ELSE TRUE
  /\ rowOrder' \in applyFilterSort(result, c, sortAscending', <<>>)
  /\ selectedRow' = 0
  /\ UNCHANGED <<result, search, filterLower, readout>>

SortKeepsSelection(c) ==
  /\ sortColumn' = c
  /\ sortAscending' = IF c = sortColumn THEN ~sortAscending ELSE TRUE
  /\ rowOrder' \in applyFilterSort(result, c, sortAscending', filterLower)
  /\ UNCHANGED <<selectedRow, result, search, filterLower, readout>>

sortByColumn(c) ==
  /\ sortColumn' = c
  /\ sortAscending' = IF c = sortColumn THEN ~sortAscending ELSE TRUE
  /\ rowOrder' \in applyFilterSort(result, c, sortAscending', filterLower)
  /\ selectedRow' = 0
  /\ UNCHANGED <<result, search, filterLower, readout>>

\* WM_LBUTTONDOWN on the header: the dividers come before the columns.
HeaderDown ==
  /\ ~menu /\ ~resizing
  /\ \E hit \in {<<dividerAtX(x), columnAtX(x)>> : x \in 0..(size.w - 1)} :
       IF hit[1] > 0
       THEN /\ resizing' = TRUE /\ resizeCol' = hit[1]
            /\ UNCHANGED <<dataVars, selectedRow>>
       ELSE /\ hit[2] > 0
            /\ sortByColumn(hit[2])
            /\ UNCHANGED dragVars
  /\ UNCHANGED <<dpi, size, viewVars, menu>>

\* WM_LBUTTONDOWN, and the double click that opens a copy of the cell, on the rows.
RowDown ==
  /\ ~menu /\ ~resizing
  /\ selectedRow' \in {rowAtY(y) : y \in headerH..(size.h - 1)} \ {0}
  /\ UNCHANGED <<dpi, size, dataVars, viewVars, dragVars, menu>>

\* WM_MOUSEMOVE while the column is dragged.
DragColumn ==
  /\ ~menu
  /\ resizing /\ resizeCol > 0 /\ resizeCol <= Len(colWidth)
  /\ UNCHANGED <<dpi, size, dataVars, selectedRow, dragVars, menu>>
  /\ \E w \in Widths : colWidth' = [colWidth EXCEPT ![resizeCol] = w * dpi]
  /\ clampScroll(scrollX, scrollY)

\* WM_LBUTTONUP, or another window captures the mouse.
EndDrag ==
  /\ resizing
  /\ resizing' = FALSE
  /\ UNCHANGED <<dpi, size, dataVars, viewVars, selectedRow, resizeCol, menu>>

\* Wheels and scroll bars: the thumb can ask for any position.
Scroll ==
  /\ ~menu
  /\ UNCHANGED <<dpi, size, dataVars, colWidth, selectedRow, dragVars, menu>>
  /\ \/ \E x \in -1..(MaxX(colWidth, size) + 1) : clampScroll(x, scrollY)
     \/ \E y \in -1..(MaxY(rowCount, dpi, size) + 1) : clampScroll(scrollX, y)

-----------------------------------------------------------------------------
\* Keyboard.

viewBody == size.h - headerH
Page == Greatest(1, Greatest(0, viewBody) \div rowH - 1)

KeyTarget(key) ==
  CASE key = "home" -> 1
    [] key = "end" -> rowCount
    [] key # "home" /\ key # "end" /\ selectedRow = 0 -> 1
    [] key = "up" /\ selectedRow # 0 -> Greatest(1, selectedRow - 1)
    [] key = "down" /\ selectedRow # 0 -> Least(rowCount, selectedRow + 1)
    [] key = "prior" /\ selectedRow # 0 -> Greatest(1, selectedRow - Page)
    [] key = "next" /\ selectedRow # 0 -> Least(rowCount, selectedRow + Page)

ensureRowVisible(r) ==
  LET top == (r - 1) * rowH
      bot == top + rowH
  IN  clampScroll(scrollX, IF top < scrollY THEN top
                           ELSE IF bot > scrollY + viewBody THEN bot - viewBody
                           ELSE scrollY)

onKeyDown ==
  /\ ~menu
  /\ rowCount > 0
  /\ UNCHANGED <<dpi, size, dataVars, colWidth, dragVars, menu>>
  /\ \E key \in {"up", "down", "prior", "next", "home", "end"} :
       /\ selectedRow' = KeyTarget(key)
       /\ ensureRowVisible(selectedRow')

\* WM_CONTEXTMENU: from the keyboard the row is the selected one, or the first,
\* shown or not; from the mouse the one under it, or the selected one.  The row and
\* the column are also kept for the menu's commands, which only copy or show what
\* is there when the menu returns.
ContextMenu ==
  /\ ~menu
  /\ result.columns > 0
  /\ \/ selectedRow' = Greatest(1, selectedRow)
     \/ \E under \in {rowAtY(y) : y \in 0..(size.h - 1)} :
          /\ selectedRow' = IF under > 0 THEN under ELSE selectedRow
          /\ selectedRow' > 0
  /\ menu' = TRUE
  /\ UNCHANGED <<dpi, size, dataVars, viewVars, dragVars>>

MenuReturns ==
  /\ menu
  /\ menu' = FALSE
  /\ UNCHANGED <<dpi, size, dataVars, viewVars, selectedRow, dragVars>>

-----------------------------------------------------------------------------
\* WM_SIZE
Resize ==
  /\ \E s \in Sizes \ {size} : size' = s
  /\ UNCHANGED <<dpi, dataVars, colWidth, selectedRow, dragVars, menu>>
  /\ clampScroll(scrollX, scrollY)

MulDiv(a, b, c) == (2 * a * b + c) \div (2 * c)

\* WM_DPICHANGED of the main window: gridUpdateDpi, then the layout's WM_SIZE.
gridUpdateDpi ==
  /\ \E d \in Dpis \ {dpi}, s \in Sizes :
       /\ dpi' = d /\ size' = s
       /\ colWidth' = [c \in 1..Len(colWidth) |-> MulDiv(colWidth[c], d, dpi)]
       /\ UNCHANGED <<dataVars, selectedRow, dragVars, menu>>
       /\ clampScroll(Clamp(scrollX, MaxX(colWidth', size)),
                      Clamp(scrollY, MaxY(rowCount, d, size)))

Next ==
  \/ gridSetResult \/ gridClear \/ gridSetFilter
  \/ HeaderDown \/ RowDown \/ DragColumn \/ EndDrag \/ Scroll
  \/ onKeyDown \/ ContextMenu \/ MenuReturns
  \/ Resize \/ gridUpdateDpi

Spec == Init /\ [][Next]_vars

-----------------------------------------------------------------------------
\* A drag is of a column that exists, no column is narrower than the minimum, and
\* the scroll offsets leave nothing blank that rows or columns could fill, after
\* every message and not only once the grid is painted again.  The selected row is
\* one of those shown; only a grid whose filter hides every row may have its first
\* row selected, by the context-menu key.
TypeOK ==
  /\ dpi \in Dpis /\ size \in Sizes
  /\ Len(colWidth) = result.columns
  /\ \A c \in 1..Len(colWidth) : colWidth[c] >= MinWidth * dpi
  /\ resizing => resizeCol \in 1..Len(colWidth)
  /\ sortColumn \in 0..result.columns
  /\ scrollX \in 0..Greatest(0, MaxX(colWidth, size))
  /\ scrollY \in 0..Greatest(0, MaxY(rowCount, dpi, size))
  /\ selectedRow \in 0..Greatest(rowCount, IF result.columns > 0 THEN 1 ELSE 0)

\* The grid shows, each once, exactly the rows that match the text in the search
\* field whatever its case, counted right beside it; in the order of the result or,
\* where the cells of the sort column have one, in theirs, equal rows as they came.
RowsShown ==
  LET rows == result.rows
      needle == [n \in 1..Len(search) |-> Lower(search[n])]
      matching == {r \in 1..Len(rows) : needle = <<>> \/ rowMatchesFilter(rows[r], needle)}
      before == Orders[result][sortColumn][sortAscending]
  IN  /\ {rowOrder[n] : n \in 1..rowCount} = matching
      /\ \A a, b \in 1..rowCount : rowOrder[a] = rowOrder[b] => a = b
      /\ readout = <<rowCount, Len(rows)>>
      /\ IF sortColumn = 0
         THEN \A a, b \in 1..rowCount : a < b => rowOrder[a] < rowOrder[b]
         ELSE IsOrder[result][sortColumn][sortAscending] => SortedBy(before, rowOrder)

\* The selection never moves to another row by itself: whatever rearranges or
\* replaces the rows clears it.
SelectionFollows ==
  [][result' # result \/ rowOrder' # rowOrder => selectedRow' = 0]_vars
=============================================================================
