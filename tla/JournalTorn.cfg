SPECIFICATION Spec
CONSTANTS
  None = None
  w1 = w1
  w2 = w2
  f1 = f1
  f2 = f2
  f3 = f3
  Writers = {w1}
  DomainOf <- OneWriterDomain
  Files = {f1}
  UnsafeFiles = {}
  MaxSize = 3
  MaxEvents = 2
  Interferences = {}
  MaxHappened = 0
  PageLimit = 1
CHECK_DEADLOCK FALSE
INVARIANTS
  EmittedIsRecord
