SPECIFICATION FairSpec
CONSTANTS
  broker = broker
  Client = {c1, c2}
  Faults = {"deploy", "exit", "abort", "socket", "setup"}
  Timely = FALSE
  MaxCalls = 2
  LISTENER_DELAY = 1
  ALIVE_DELAY = 1
  RUN_DELAY = 1
  FIRST_DELAY = 1
  CONNECT_RETRIES = 2
  READY_RETRIES = 2
INVARIANTS
  TypeOK
  RefusedOnlyAfterExit
  FailsFastOnceOver
  BusIffSuccess
  EndsWithNothingHeld
PROPERTIES
  ConnectReturns
CHECK_DEADLOCK FALSE
