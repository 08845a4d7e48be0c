SPECIFICATION Spec
CONSTANTS
  Names = {"n", "m"}
  Natives = {}
  Bodies = {"x", "deep"}
  Values = {"y", "deep", "json"}
  Refused = {"deep"}
  Unreadable = {"json", "old"}
  Rank <- MCRank
  Main = "main"
  MaxLinks = 3
  VMs = {"v", "z"}
  Files = {"w", "u"}
  Worlds <- MCWorlds
  StackNames = {"s"}
  Texts = {"define", "fail", "other", "again"}
  Does <- MCDoes
  ScriptNames = {"boot"}
  MaxEdits = 1
  MaxCalls = 2
  MaxFrames = 3
INVARIANTS RoundTrip
PROPERTIES ReadsAndWritesAtOnce WordsEnd
