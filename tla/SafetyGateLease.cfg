SPECIFICATION Spec
CONSTANTS
  c1 = c1
  c2 = c2
  g1 = g1
  g2 = g2
  r1 = r1
  r2 = r2
  a1 = a1
  a2 = a2
  Callers = {c1, c2}
  BoundResource = r1
  MinimumLimit = 4
  MaximumLimit = 12
  Byte = 2
  Limits = {4, 8}
  Devices = {"plain", "resized"}
  Rests = {"tagged"}
  Rejected = {}
  NotRead = NotRead
  Gates = {g1, g2}
  GateOf <- LeaseGateOf
  FirstHolder = g1
  Resources = {r1}
  EnvelopeOf <- LeaseEnvelopeOf
  Approvals = {a1, a2}
  ApprovalOf <- LeaseApprovalOf
  Requests <- LeaseRequests
  Epsilon = 2
  LeaseTime = 1
  MaxTime = 1
  MaxGeneration = 2
  Nobody = Nobody
  NoAttempt = NoAttempt
PROPERTIES
  OutdatedNeverWrites
  WritesAreApproved
  OperatorEditSurvives
