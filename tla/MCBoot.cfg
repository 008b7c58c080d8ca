SPECIFICATION BootSpec
CONSTANTS
  null = null
  main = main
  ALL = ALL
  NoName <- null
  Name <- ServiceNames
  Tables <- ThisBuild
  Caller = {main}
  Request <- MainOnly
  Unreliable <- Suspects
  MountFaults = {"rw", "ro", "sd", "overlay"}
  MAX_THREADS = 64
  MAX_DEPENDENCIES = 8
  MAX_CALL_STACK_DEPTH = 32
INVARIANTS
  ContextHasOneOwner
  NetworkTriedFirst
PROPERTIES
  RestOfBmcComesUp
  ImplementsManager
