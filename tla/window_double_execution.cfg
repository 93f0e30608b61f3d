CONSTANTS
  None = None
  Servers = {s1}
  Dbs = {d1, d2}
  MaxRequests = 5
SPECIFICATION Spec
INVARIANT NoDoubleExecution
