SPECIFICATION Spec
CONSTANTS
  a1 = a1
  b1 = b1
  a2 = a2
  b2 = b2
  c0 = c0
  s = s
  t = t
  Messages = {a1, a2}
  Topics = {s, t}
  Topic <- MCTopic
  Qos <- MCQos
  MaxId = 2
  MaxDrops = 1
INVARIANT QosExactlyOnce
CHECK_DEADLOCK FALSE
