SPECIFICATION FairSpec
CONSTANTS
  Channels = {"x", "y", "z"}
  ClientIds = {"a", "b", "c"}
  Plain = {"t"}
  Wild = {"w"}
  Matching <- MCMatching
  Scripts <- MCScripts
  Workers = 2
  PacketIds = 1
  NULL = NULL
INVARIANTS
  TypeOK
  MutexOrder
  OnlySubscribersReceive
  RegistriesAgree
  HandlersApart
PROPERTIES
  ReachesSubscribers
  HandlersEnd
CHECK_DEADLOCK FALSE
