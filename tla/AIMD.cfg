SPECIFICATION FairSpec
CONSTANTS
  MinBudget = 5
  InitialBudget = 9
  MaxBudget = 16
  Increase = 4
  DecNum = 1
  DecDen = 2
  HealthyWait = 2
  TargetWait = 4
  EmergencyWait = 6
  HealthyWindows = 3
  BreachWindows = 2
  Cooldown = 2
  Grain = 3
  Feedbacks <- MCFeedbacks
INVARIANTS
  TypeOK
  DurableStateRestorable
PROPERTIES
  IncreaseIsEarned
  DecreaseIsEarned
  OverloadReachesMinimum
  CalmReachesMaximum
