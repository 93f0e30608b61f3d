\* The destructor against a script of two statements.
CONSTANTS
  None = None
  MaxPosts = 2
  MaxStatements = 2
SPECIFICATION Spec
INVARIANT JoinFindsQueryInterrupted
