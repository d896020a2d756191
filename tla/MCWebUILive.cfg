CONSTANTS
  Calls = {1}
  Docs = {"rules", "settings"}
  MaxDoc = 1
  applyEnv <- AllSet
  Modes = {"open", "password", "token"}
  MaxForeign = 1
SPECIFICATION Spec
PROPERTIES ExpiryNoticed LoginSticks Unblocked
