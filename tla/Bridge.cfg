SPECIFICATION BridgeSpec
CONSTANTS
  Main = main
  CountOf <- MCCountOf
  Strings = {main, f, g}
  FreshNames = {f, g}
  Counts = {}
  Datum = main
  NoData = main
  MaxItems = 1
  MaxLoad = 3
  MaxBusyLoad = 3
  MaxBench = 0
  MaxStacks = 3
  MaxCrossings = 1
  MaxContexts = 1
  MaxEpoch = 2
  f = f
  g = g
  main = main
  MaxBridges = 2
SYMMETRY Symmetric
INVARIANTS OneRing SteadyEpoch OnlyTheProgramsStacks
PROPERTIES BridgesTurnAsReference CallerBack
