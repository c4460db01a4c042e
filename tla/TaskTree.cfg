CONSTANTS
  b1 = b1
  b2 = b2
  b3 = b3
  b4 = b4
  Bufs = {b1, b2, b3, b4}
  Nil = Nil
  Root = Root
  Names = {"", "a"}
  MaxId = 4
  MaxLen = 4
  MaxTasks = 4
SPECIFICATION UnbrokenSpec
SYMMETRY BufSymmetry
INVARIANTS
  IdsUnique
  ParentsOlder
  CallsHoldLiveTasks
  MemoryMirrorsTable
PROPERTIES
  NoAdoption
  KeepsTheTree
