SPECIFICATION FairSpec
CONSTANTS
  a1 = a1
  a2 = a2
  b2 = b2
  Messages = {a1, a2, b2}
  None = None
  Qos <- MCQos
  MaxDrops = 2
INVARIANTS
  TypeOK
  AcknowledgedInHand
  RecordedUntilReleased
  CopiesBounded
PROPERTIES
  AcknowledgedIsForwarded
  ExchangesComplete
CHECK_DEADLOCK FALSE
