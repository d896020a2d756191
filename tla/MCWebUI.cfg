CONSTANTS
  Calls = {1, 2}
  Docs = {"rules", "settings"}
  MaxDoc = 1
  applyEnv <- NoneSet
  Modes = {"open", "password"}
  MaxForeign = 1
SPECIFICATION Spec
INVARIANTS TypeOK ShownIsStored
