CONSTANTS
  MaxUndo = 2
  Pasted <- MCPasted
  Typed <- MCTyped
  MaxText = 3
  MaxOps = 5
SPECIFICATION Spec
INVARIANTS
  TypeOK
  DocumentSound
  StacksBounded
  RunIsOneStretch
PROPERTY TimelineKept
