SPECIFICATION Spec
CONSTANTS
  Main = "main"
  CountOf <- MCCountOf
  Strings = {"main", a, b}
  FreshNames = {a, b}
  Counts = {"one"}
  Datum = "main"
  NoData = "main"
  MaxItems = 3
  MaxLoad = 5
  MaxBusyLoad = 3
  MaxBench = 1
  MaxStacks = 3
  MaxCrossings = 1
  MaxContexts = 1
  MaxEpoch = 0
  a = a
  b = b
SYMMETRY Symmetric
PROPERTIES VisitorsReturn NothingLost
