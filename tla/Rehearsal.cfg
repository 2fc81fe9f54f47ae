SPECIFICATION Spec
CONSTANTS
  MaxRuns = 2
  MaxFaults = 1
  MaxBorn = 5
INVARIANTS
  TypeOK
  VerdictTrue
  CleanupSuffices
  ForeignUntouched
  EvidenceTrue
PROPERTIES
  NeverSwappedLive
  Ends
CHECK_DEADLOCK FALSE
