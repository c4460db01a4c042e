CONSTANTS
  b1 = b1
  b2 = b2
  b3 = b3
  Bufs = {b1, b2, b3}
  Nil = Nil
  Root = Root
  Names = {""}
  MaxId = 3
  MaxLen = 4
  MaxTasks = 3
SPECIFICATION ReshapeSpec
SYMMETRY BufSymmetry
INVARIANTS
  RemovedFromBoth
