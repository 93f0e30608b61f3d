\* Three jobs of any kind, scripts of up to two statements.
CONSTANTS
  None = None
  MaxPosts = 3
  MaxStatements = 2
SPECIFICATION FairSpec
INVARIANTS
  TypeOK
  NoUseAfterFree
  NoConcurrentMutation
  NoHandleLeak
  MutexHeldBriefly
PROPERTIES
  QuietAfterJoin
  ImplementsService
  UiWaitsForNoQuery
  EveryJobSettles
  DestructorReturns
