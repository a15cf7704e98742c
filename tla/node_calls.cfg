SPECIFICATION FairSpec
CONSTANTS
  c1 = c1
  c2 = c1
  s1 = s1
  s2 = s1
  None = None
  NodeIds = {1}
  Conns = {c1}
  Streams = {s1}
  ConnOf <- MCConnOf
  RequestIds = {1, 2}
  ChanCap = 2
  MaxSeq = 3
INVARIANTS
  PendingMatchesCalls
  NoCallAnswered
PROPERTIES
  CallsEndOnce
  CommandAdvances
  CommandCompletes
