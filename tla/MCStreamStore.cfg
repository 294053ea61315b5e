SPECIFICATION StoreSpec
CONSTANTS
  Threads = {t1, t2}
  maxParallelRuns = 1
  maxInactiveControllers = 1
  MaxInputs = 3
  MaxAsides = 1
  MaxUpsets = 1
INVARIANTS
  EachInputOnce
  SlotsAddUp
  QueuesDrain
SYMMETRY Symmetry
CHECK_DEADLOCK FALSE
