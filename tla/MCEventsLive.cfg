CONSTANTS
  Conns = {c1}
  a = a
  b = b
  Script <- Changing
  Messages <- Events3
  SendCap = 1
  OutCap = 1
  MaxLists = 1
  MaxBreaks = 2
SPECIFICATION Spec
INVARIANTS TypeOK NoPanic OneSocket
PROPERTIES Forgotten CatchesUp
