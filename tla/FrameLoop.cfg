SPECIFICATION Spec
CONSTANTS
  Names = {a, b}
  MaxBody = 2
  MaxFrames = 4
  RustRoom = 7
SYMMETRY Symmetric
INVARIANTS RequestKept
PROPERTIES OwnFrames BackAgain ExitStops
CHECK_DEADLOCK FALSE
