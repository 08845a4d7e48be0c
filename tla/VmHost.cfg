SPECIFICATION FairSpec
CONSTANTS
  Vms = {v1, v2}
  Tasks = {"t1", "t2"}
  limit = 1
INVARIANTS Bounded FreeOnceFinished
PROPERTIES KeepsPromise AlwaysTold
CHECK_DEADLOCK FALSE
