SPECIFICATION FairSpec
CONSTANTS
  Threads = {"hd", "sd"}
  Capacity = 8
  SampleSizes = {1, 3}
  PoolSize = 2
  MaxSamples = 3
  MaxCalls = 4
INVARIANTS
  QuietAfterStop
  BundlesKept
PROPERTY
  ThreadsAnnounced
CHECK_DEADLOCK FALSE
