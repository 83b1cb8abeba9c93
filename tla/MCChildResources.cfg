SPECIFICATION Spec
CONSTANTS
  r1 = r1
  r2 = r2
  r3 = r3
  Default = Default
  MaxFailedSaves = 1
  Requests <- MCRequests
  Families <- MCFamilies
SYMMETRY MCSymmetry
INVARIANTS
  ParentsExist
PROPERTIES
  RollbackSparesOlder
  LoneRequestsAreAtomic
CHECK_DEADLOCK FALSE
