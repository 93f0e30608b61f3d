\* Texts with quoted names, which the engines read and src/core does not.  A
\* command ends.
CONSTANTS
  Words <- MCWords
  Texts <- MCNamed
SPECIFICATION Spec
CHECK_DEADLOCK FALSE
INVARIANT ReadOnlyRunsNoWrite
