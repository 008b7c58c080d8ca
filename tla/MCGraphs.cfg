SPECIFICATION FairSpec
CONSTANTS
  tA = tA
  tB = tB
  tC = tC
  tD = tD
  ghost = ghost
  null = null
  main = main
  shell = shell
  ALL = ALL
  NoName <- null
  Name = {tA, tB, tC, tD, ghost}
  Tables <- AllBuilds
  Caller = {main}
  Request <- MainOnly
  Unreliable = {tA, tB}
  MAX_THREADS = 3
  MAX_DEPENDENCIES = 2
  MAX_CALL_STACK_DEPTH = 3
INVARIANTS
  TypeOK
  CallStackMirrors
  StartsAfterDeps
  InitAtMostOnce
  NobodyLeftBehind
  VerdictIsTrue
PROPERTIES
  StartTerminates
  ImplementsStartupOrder
