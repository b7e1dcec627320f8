SPECIFICATION FairSpec
CONSTANTS
  Ms = 3
  Interval <- MCInterval
  Lateness <- MCLateness
  FrameSize = 2
  FileSizes <- MCFileSizes
  Resolutions = {1, 2}
  MaxFrames = 3
  MaxRendered = 3
INVARIANTS
  SourcesOnPace
  UsesTheLiving
  SinkServes
PROPERTY
  ClientReturns
CHECK_DEADLOCK FALSE
