SPECIFICATION FairSpec
CONSTANTS
  None = None
  Windows = FALSE
  Texts <- MCTexts
  Expected = "0.1.1"
  Containing <- MCContaining
  Files <- MCFiles
  Folders <- MCFolders
  Doubtful = {"modules", "client", "server", "native", "clang", "gcc"}
  MaxChanges = 0
INVARIANTS
  CheckTypeOK
  NothingMadeUp
  NothingMissed
PROPERTY CheckEnds
