SPECIFICATION FairSpec
CONSTANTS
  x = x
  y = y
  Slash = Slash
  Plus = Plus
  Hash = Hash
  Filters <- MCFilters
  Names <- MCNames
INVARIANTS
  TypeOK
  AcceptedAreValid
  MatchesLevels
PROPERTIES
  MatchEnds
CHECK_DEADLOCK FALSE
