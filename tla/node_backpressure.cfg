SPECIFICATION FairSpec
CONSTANTS
  c1 = c1
  c2 = c1
  s1 = s1
  s2 = s2
  None = None
  NodeIds = {1}
  Conns = {c1}
  Streams = {s1, s2}
  ConnOf <- MCConnOf
  RequestIds = {1}
  ChanCap = 1
  MaxSeq = 1
INVARIANT IInv
PROPERTY SendersProceed
