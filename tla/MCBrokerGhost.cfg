SPECIFICATION Spec
CONSTANTS
  c1 = c1
  c2 = c2
  c3 = c3
  a = a
  b = b
  t = t
  w = w
  hello = hello
  NULL = NULL
  Channels = {c1, c2, c3}
  ClientIds = {a, b}
  Anonymous = Anonymous
  Admins = {}
  Topics = {t}
  WildFilters = {w}
  Matching <- MCMatching
  Trash = Trash
  Requests <- MCRequests
  Empty = Empty
  Payloads = {hello, Empty}
  QoSes = {0, 1}
  Publications <- MCPublications
  Wills <- MCWills
  MaxSessions = 2
INVARIANT GoneMeansUnsubscribed
CHECK_DEADLOCK FALSE
