CONSTANTS
  Conns = {c1}
  a = a
  b = b
  Script <- Emptying
  Messages <- Events2
  SendCap = 1
  OutCap = 1
  MaxLists = 1
  MaxBreaks = 0
SPECIFICATION Spec
PROPERTY CatchesUpEmpty
