CONSTANTS
  Calls = {1, 2}
  Docs = {"settings"}
  MaxDoc = 2
  applyEnv <- NoneSet
  Modes = {"open"}
  MaxForeign = 1
SPECIFICATION Spec
INVARIANTS MemoryIsDisk
