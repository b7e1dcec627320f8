SPECIFICATION Spec
CONSTANTS
  Threads = {"hd"}
  Capacity = 8
  SampleSizes = {3}
  PoolSize = 2
  MaxSamples = 4
  MaxCalls = 2
INVARIANTS
  HeaderSetOnce
CHECK_DEADLOCK FALSE
