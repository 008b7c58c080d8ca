SPECIFICATION FairSpec
CONSTANTS
  NoSession = NoSession
  Session = {serial, ssh}
  Tools = {"busctl", "i2c"}
  Endings = {"return", "exit", "abort"}
  DEPTH = 1
  MaxCmds = 2
INVARIANTS
  TypeOK
  CopiesHaveOneOwner
  StartsClean
PROPERTIES
  ImplementsSerialExecutor
  AcceptedIsDone
CHECK_DEADLOCK FALSE
