SPECIFICATION Spec
CONSTANTS
  None = None
  Windows = TRUE
  Texts = {"0.1.1"}
  Expected = "0.1.1"
  Containing = {"0.1.1"}
  Files = {"0.1.1", "nonzero"}
  Folders <- MCMoved
  Doubtful = {"client", "reg", "longPaths"}
  MaxChanges = 2
INVARIANTS
  NothingMadeUp
  NothingMissed
  Vouched
PROPERTY CheckAdvances
