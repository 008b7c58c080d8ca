SPECIFICATION Spec
CONSTANTS
  Client = {c1, c2, c3}
  SEM_LIMIT = 3
  MAX_RETRIES = 2
INVARIANTS
  CountIsHonest
PROPERTIES
  EveryClientEnds
CHECK_DEADLOCK FALSE
