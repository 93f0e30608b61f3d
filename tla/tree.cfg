\* Two databases, six commands, and handles that are given again.
CONSTANTS
  None = None
  Conns <- MCConns
  Handles = {h1, h2, h3}
  MaxCommands = 6
SPECIFICATION Spec
SYMMETRY Alike
CHECK_DEADLOCK FALSE
INVARIANTS
  LoadingIsPending
  ColumnsOfTheirTable
