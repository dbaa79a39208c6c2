SPECIFICATION Spec
CONSTANTS
  m1 = m1
  NumWorkers = 2
  Monitors = {m1}
  FdRoom = 1
  MaxStarts = 1
  Faults = {}
INVARIANT WorkerListLocked
CHECK_DEADLOCK FALSE
