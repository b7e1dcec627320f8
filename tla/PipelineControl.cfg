SPECIFICATION MCSpec
CONSTANTS
  MinPipelineSize = 2
  ResetUpper = 4
  UpperFactor = 2
  Demands <- MCDemands
  MaxDemands <- MCMaxDemands
  Cap = 5
  WordSize = 65536
  Kinds <- MCKinds
  SeedSize = 3
  MaxAsked = 2
  Failures <- MCAll
  WindowSize = 2
  MinOccurrences = 2
  Threshold = 30
  Period = 2
  Deltas = {0, 3}
  TimeoutWindow = 3
  MaxChanges = 2
  Garbage <- MCGarbage
INVARIANTS
  SessionsKeptApart
  SettledSizeIsFloor
  LimitsSound
  StabilityIsRecent
PROPERTIES
  BootstrapCompletes
  CommandsAwaitEffect
CHECK_DEADLOCK FALSE
