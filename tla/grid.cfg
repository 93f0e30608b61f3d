\* Three rows of up to two columns, two resolutions, two sizes of the pane.
CONSTANTS
  Null <- MCNull
  Results <- MCResults
  Texts <- MCTexts
  Dpis = {1, 2}
  Sizes <- MCSizes
  RowHeight = 1
  HeaderHeight = 1
  MinWidth = 2
  DividerHit = 0
  Widths = {2, 3}
SPECIFICATION Spec
INVARIANTS
  TypeOK
  RowsShown
PROPERTY SelectionFollows
