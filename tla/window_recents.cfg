CONSTANTS
  None = None
  Servers = {s1}
  Dbs = {d1, d2}
  MaxRequests = 3
SPECIFICATION Spec
INVARIANT OnlyConnectedRecorded
