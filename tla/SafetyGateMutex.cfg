SPECIFICATION FairSpec
CONSTANTS
  c1 = c1
  c2 = c2
  g1 = g1
  g2 = g2
  r1 = r1
  r2 = r2
  a1 = a1
  a2 = a2
  Callers = {c1, c2}
  BoundResource = r1
  MinimumLimit = 4
  MaximumLimit = 8
  Byte = 2
  Limits = {4, 8}
  Devices = {"plain", "resized"}
  Rests = {"free", "locked"}
  Rejected = {"locked"}
  NotRead = NotRead
  Gates = {g1}
  GateOf <- MutexGateOf
  FirstHolder = g1
  Resources = {r1, r2}
  EnvelopeOf <- MutexEnvelopeOf
  Approvals = {a1, a2}
  ApprovalOf <- MutexApprovalOf
  Requests <- MutexRequests
  Epsilon = 2
  LeaseTime = 1
  MaxTime = 0
  MaxGeneration = 1
  Nobody = Nobody
  NoAttempt = NoAttempt
INVARIANTS
  TypeOK
  FrozenExcluded
  AmbiguousWriteFreezes
PROPERTIES
  AppliedWasObserved
  EveryApplyReturns
