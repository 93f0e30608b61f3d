\* Two processes, two commands that change a store, one crash.
CONSTANTS
  None = None
  MaxRecents = 2
  MaxHistory = 2
  Processes = {p1, p2}
  Targets = {"x", "y"}
  Conns <- MCConns
  q1 = q1
  q2 = q2
  q3 = q3
  Sqls = {q1, q3}
  Searches = {q1}
  Kept <- MCKept
  Names <- MCNames
  MaxCommands = 2
  MaxCrashes = 1
SPECIFICATION Spec
SYMMETRY Alike
CHECK_DEADLOCK FALSE
INVARIANTS
  TypeOK
  ListsSound
  NothingLostAlone
  DeleteHitsSelected
PROPERTY OpensOnLastConnection
