CONSTANTS
  c1 = c1
  c2 = c2
  Conns = {c1, c2}
  Names = {""}
  MaxId = 2
  MaxDepth = 2
SPECIFICATION FairFewMarksSpec
INVARIANTS
  StatementsTypeOK
  WaitingHoldsNothing
  OpenedWhole
PROPERTIES
  LocksAreReleased
  StatementsAreAtomic
