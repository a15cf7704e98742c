SPECIFICATION Spec
CONSTANTS
  c1 = c1
  c2 = c1
  s1 = s1
  s2 = s2
  None = None
  NodeIds = {1, 2}
  Conns = {c1}
  Streams = {s1, s2}
  ConnOf <- MCConnOf
  RequestIds = {}
  ChanCap = 2
  MaxSeq = 1
INVARIANTS
  TypeOK
  KnownBeforeUse
  NoDanglingSender
  LiveStreamUsable
  DisconnectedMeansClosed
PROPERTY DevModeByCommand
