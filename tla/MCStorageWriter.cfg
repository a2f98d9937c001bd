CONSTANTS
  t1 = t1
  t2 = t2
  c1 = c1
  c2 = c2
  k1 = k1
  Tasks <- MCTwoTasks
  Callers <- MCOneCaller
  Checkpointers <- MCCheckpointer
  Writes = 1
  Capacity = 2
  BatchSize = 3
SPECIFICATION Spec
INVARIANTS LossReported
PROPERTIES WaiterAnswered
CHECK_DEADLOCK FALSE
