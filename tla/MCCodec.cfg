SPECIFICATION FairSpec
CONSTANTS
  Scripts <- MCScripts
INVARIANTS
  TypeOK
  HandedAreSent
  ClosedOnlyInsideLength
PROPERTIES
  EverythingHandled
CHECK_DEADLOCK FALSE
