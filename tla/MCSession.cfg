SPECIFICATION Spec
CONSTANTS
  a1 = a1
  b1 = b1
  a2 = a2
  b2 = b2
  c0 = c0
  s = s
  t = t
  Messages = {a1, b1, a2, b2}
  Topics = {s, t}
  Topic <- MCTopic
  Qos <- MCQos
  MaxId = 2
  MaxDrops = 2
INVARIANTS
  TypeOK
  PacketIdsDistinct
  ExactlyOnce
  DeliveredInOrder
  OnePacketPerExchange
PROPERTY Refinement
CHECK_DEADLOCK FALSE
