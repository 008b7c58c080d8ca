SPECIFICATION FairSpec
CONSTANTS
  tA = tA
  tB = tB
  tC = tC
  tD = tD
  ghost = ghost
  null = null
  main = main
  shell = shell
  ALL = ALL
  NoName <- null
  Name = {tA, tB, tC, tD, ghost}
  Tables <- Overlap
  Caller = {main, shell}
  Request <- MainAndShell
  Unreliable = {tB}
  MAX_THREADS = 3
  MAX_DEPENDENCIES = 2
  MAX_CALL_STACK_DEPTH = 4
INVARIANTS
  ReadyMeansSignalled
  NoInitBeforeSignal
PROPERTIES
  StartTerminates
