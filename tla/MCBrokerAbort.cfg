SPECIFICATION Spec
CONSTANTS
  broker = broker
  Client = {c1}
  Faults = {"abort"}
  Timely = FALSE
  MaxCalls = 2
  LISTENER_DELAY = 1
  ALIVE_DELAY = 1
  RUN_DELAY = 1
  FIRST_DELAY = 1
  CONNECT_RETRIES = 2
  READY_RETRIES = 2
INVARIANTS
  FailsFastOnceDead
CHECK_DEADLOCK FALSE
