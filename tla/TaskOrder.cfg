CONSTANTS
  t1 = t1
  t2 = t2
  t3 = t3
  t4 = t4
  Ids = {t1, t2, t3, t4}
  MaxChildren = 4
  MaxTime = 1
SPECIFICATION Spec
SYMMETRY IdSymmetry
INVARIANTS
  TypeOK
  ListOrdered
PROPERTIES
  OthersKeepTheirOrder
