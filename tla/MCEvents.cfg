CONSTANTS
  Conns = {c1, c2}
  a = a
  b = b
  Script <- Starting
  Messages <- Events2
  SendCap = 1
  OutCap = 1
  MaxLists = 1
  MaxBreaks = 1
SPECIFICATION Spec
SYMMETRY ConnSymmetry
INVARIANTS TypeOK NoPanic OneSocket InOrder
