SPECIFICATION Spec
CONSTANTS
  Root = TRUE
  Production = TRUE
  AllowRoot = TRUE
  MaxLines = 3
  MaxOutput = 2
  MaxSwaps = 2
INVARIANTS
  TypeOK
  AllOutputJudged
  LaunchedAsApproved
PROPERTIES
  NoChildLeft
  Finishes
CHECK_DEADLOCK FALSE
