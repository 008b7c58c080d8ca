SPECIFICATION StartupSpec
CONSTANTS
  null = null
  main = main
  broker = broker
  ALL = ALL
  NoName <- null
  Name = {"dbus_broker", "objmgr", "net_stack_cfg", "net_ipmid"}
  Tables <- FourServices
  Caller = {main}
  Request <- MainOnly
  Unreliable = {"objmgr", "net_stack_cfg", "net_ipmid"}
  MountFaults = {}
  MAX_THREADS = 64
  MAX_DEPENDENCIES = 8
  MAX_CALL_STACK_DEPTH = 32
  Faults = {"deploy", "exit", "abort"}
  LISTENER_DELAY = 1
  ALIVE_DELAY = 10
  RUN_DELAY = 5
  FIRST_DELAY = 10
  CONNECT_RETRIES = 200
  READY_RETRIES = 50
  READY_TIMEOUT = 1000
  NET_TIMEOUT = 1200
INVARIANTS
  TimeoutsAreDue
  FailureHasCause
  ReadyNeedsBroker
PROPERTIES
  StartEnds
