SPECIFICATION FairSpec
CONSTANTS
  None = None
  t1 = t1
  t2 = t2
  Tasks = {t1, t2}
  Printers <- MCPrinters
  Commands = {"node", "check"}
  QueueCap = 2
  MaxAhead = 1
INVARIANTS
  ConsoleTypeOK
  PromptShown
  StrayPrompts
  InFlight
PROPERTIES
  DialogueSpec
  InputServed
