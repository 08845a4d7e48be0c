SPECIFICATION FairGuard
CONSTANTS
  Total = 40
  floor = 6
  sustained = 3
  FREE_DROP = 16
  LOOKAHEAD = 2
  Samples <- SomeSamples
  Takers = {"v1", "v2"}
  MaxTrips = 2
INVARIANTS OneStopPerTrip FreshFigures CaughtInWindow
PROPERTIES DropEnds InTime
CHECK_DEADLOCK FALSE
