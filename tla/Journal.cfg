SPECIFICATION Spec
CONSTANTS
  None = None
  w1 = w1
  w2 = w2
  f1 = f1
  f2 = f2
  f3 = f3
  Writers = {w1, w2}
  DomainOf <- TwoDomains
  Files = {f1, f2, f3}
  UnsafeFiles = {f3}
  MaxSize = 2
  MaxEvents = 2
  Interferences = {"rename", "scribble", "power"}
  MaxHappened = 2
  PageLimit = 2
INVARIANTS
  TypeOK
  CleanSessionRecords
  ImportedIsApproved
PROPERTIES
  SealedWhileRead
  RefinesLog
CHECK_DEADLOCK FALSE
SYMMETRY FileSymmetry
