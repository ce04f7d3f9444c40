SPECIFICATION Spec
CONSTANTS
  Channels = {"x", "y", "z"}
  ClientIds = {"a", "b", "c"}
  Plain = {"t"}
  Wild = {"w"}
  Matching <- MCMatching
  Scripts <- MCServing
  Workers = 2
  PacketIds = 2
  NULL = NULL
INVARIANT SessionExclusive
CHECK_DEADLOCK FALSE
