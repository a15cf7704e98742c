SPECIFICATION Spec
CONSTANTS
  c1 = c1
  c2 = c2
  s1 = s1
  s2 = s2
  None = None
  NodeIds = {1}
  Conns = {c1, c2}
  Streams = {s1, s2}
  ConnOf <- MCConnOf
  RequestIds = {}
  ChanCap = 2
  MaxSeq = 1
PROPERTY UnavailableHasNoStream
