SPECIFICATION Spec
CONSTANTS
  None = None
  Endpoints = {"a", "b"}
  Inputs <- MCInputs
  OwnConfigs <- MCOwnConfigs
  OwnTasks <- MCOwnTasks
INVARIANT LaunchTypeOK
PROPERTIES
  StartedCoherent
  OwnEntriesKept
  UnreadableKept
  SettledStays
