SPECIFICATION IQSpec
CONSTANTS
  Threads <- MCThreads
  Unknown = 9
  Kinds <- MCKinds
  Versions <- MCVersions
  Segments <- MCSegments
  MaxFailures = 2
  MaxSessions = 2
  QueueLimit = 2
  Deadlines = {1, 2}
  MaxInterests = 4
INVARIANTS
  MetaWholeOrAwaited
  InformsTheRunning
  WaitingIsDrained
PROPERTY
  PendedStartRuns
CHECK_DEADLOCK FALSE
