\* Three workers, two connections, four tasks, a queue of two.
SPECIFICATION FairSpec
CONSTANTS
  w1 = w1
  w2 = w2
  w3 = w3
  x = x
  y = y
  a = a
  b = b
  c = c
  d = d
  Workers = {w1, w2, w3}
  Contexts = {x, y}
  Tasks = {a, b, c, d}
  Ctx <- MCCtx
  Limit <- MCLimit
  GLOBAL_LIMIT = 3
  MaxQueue = 2
  NoTask = NoTask
CHECK_DEADLOCK FALSE
INVARIANTS
  WithinLimits
  GateNeverWaits
  WorkConserving
PROPERTIES
  InOrder
  EveryTaskRuns
  ShutdownCompletes
