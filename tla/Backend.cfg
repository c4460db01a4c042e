CONSTANTS
  b1 = b1
  b2 = b2
  b3 = b3
  Bufs = {b1, b2, b3}
  Nil = Nil
  Root = Root
  Names = {"", "a"}
  MaxId = 3
  MaxLen = 4
  MaxTasks = 3
SPECIFICATION FairWindowSpec
INVARIANTS
  BackendTypeOK
  CurrentStaysPut
  ListMirrorsTasks
  ListMirrorsTable
PROPERTIES
  HandlersEnd
  OnlyLiveReferences
