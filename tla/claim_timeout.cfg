SPECIFICATION Spec
CONSTANTS
  c1 = c1
  c2 = c1
  s1 = s1
  s2 = s1
  None = None
  NodeIds = {1}
  Conns = {c1}
  Streams = {s1}
  ConnOf <- MCConnOf
  RequestIds = {1}
  ChanCap = 2
  MaxSeq = 2
PROPERTY TimedOutUnanswered
