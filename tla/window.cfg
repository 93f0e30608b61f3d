\* One window, two databases of one server, four commands of the user.
CONSTANTS
  None = None
  Servers = {s1}
  Dbs = {d1, d2}
  MaxRequests = 4
SPECIFICATION FairSpec
INVARIANTS
  TypeOK
  BusyHasQuery
  SingleFlight
  ResultIsOfLastRun
  RunsWhereAsked
  ShowsItsConnection
  TreeOfConnection
PROPERTIES
  ReadOnlyRespected
  BusyEnds
