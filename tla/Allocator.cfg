SPECIFICATION Spec
CONSTANTS
  Disks = {d1, d2, d3}
  Envelopes <- MCEnvelopes
  Budgets <- MCBudgets
  Grain = 2
INVARIANTS
  TypeOK
  EnvelopesRespected
  BudgetUsedExactly
  SharesByWeight
  RoundsBounded
CHECK_DEADLOCK FALSE
