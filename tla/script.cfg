\* The statements, commands and texts of ScriptRunMC.  A command ends.
CONSTANTS
  Words <- MCWords
  Texts <- MCTexts
SPECIFICATION Spec
CHECK_DEADLOCK FALSE
INVARIANTS
  TypeOK
  Partition
  LexersAgree
  GuardSawAll
  PickedIsOne
  ResultTellsTruth
