SPECIFICATION Spec
CONSTANTS
  MinBudget = 2
  InitialBudget = 5
  MaxBudget = 8
  Increase = 3
  DecNum = 1
  DecDen = 2
  HealthyWait = 2
  TargetWait = 4
  EmergencyWait = 9
  HealthyWindows = 2
  BreachWindows = 2
  Cooldown = 7
  Interval = 3
  FixedBudget = 10
  PressureBudget = 4
  Models <- MCModels
  IncidentDemand = 10
  IncidentBackground = 3
  Samples <- MCSamples
INVARIANTS
  TypeOK
  OverloadEnds
  NeverWorseThanCaptured
PROPERTIES
  RaiseIsEarned
