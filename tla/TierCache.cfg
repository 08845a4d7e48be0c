SPECIFICATION Spec
CONSTANTS
  Addresses = {"p1", "p2", "p3"}
  Threshold = 2
  Functions = 2
  CounterCap = 2
  Pending = 1
  SlotOf <- SharedSlot
  MaxBodies = 4
  MaxRunning = 2
INVARIANTS NoFalseHit
PROPERTIES EmitsWhenAllowed
CHECK_DEADLOCK FALSE
