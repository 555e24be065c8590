SPECIFICATION Spec
CONSTANTS
  w1 = w1
  w2 = w2
  c1 = c1
  c2 = c2
  Workers = {w1, w2}
  Commands = {c1, c2}
  Poison = {c2}
  Prefetch = 1
  MaxEvents = 4
CHECK_DEADLOCK FALSE
INVARIANTS
  WorkerTypeOK
  NothingIsLost
  CleanStop
PROPERTIES
  StopEnds
  WaitsOnlyForTheDeaf
