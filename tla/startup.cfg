SPECIFICATION FairSpec
CONSTANTS
  None = None
  Programs = {p, q}
  Arguments <- MCArguments
  Hosts = {"lan", "public"}
  LocalHosts = {"lan"}
  Localhost = "lan"
  Own = {"e"}
  Edited = {"launch"}
INVARIANTS
  StartupTypeOK
  ServesWhatItWrote
PROPERTIES
  StartEnds
  StartAdvances
