CONSTANTS
  b1 = b1
  b2 = b2
  Bufs = {b1, b2}
  Nil = Nil
  Root = Root
  Names = {""}
  MaxId = 2
  MaxLen = 2
  MaxTasks = 2
SPECIFICATION ReshapeSpec
SYMMETRY BufSymmetry
INVARIANTS
  CallsUnharmed
PROPERTIES
  EachIsShared
