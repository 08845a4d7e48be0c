SPECIFICATION Spec
CONSTANTS
  Vms = {"v1", "v2"}
  Names = {"in", "a"}
  Values <- Kinds
  MAX_WIRE_DEPTH = 4
  ParserDepth = 2
  MaxSends = 2
INVARIANTS Delivered
PROPERTIES Rendezvous OnlyRobbed LockGivenBack
