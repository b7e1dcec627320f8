SPECIFICATION FairSpec
CONSTANTS
  Frames <- MCFrames
  KeyFrames <- MCKeyFrames
  Ts <- MCTs
  Period = 2
  Ms = 2
  MinLevel = 2
  Levels <- MCLevels
  Ffwds <- MCFfwds
  Lateness <- MCLateness
  MaxClock = 14
INVARIANTS
  KeepsSchedule
  DecodesWholeGops
PROPERTY
  QueueDrains
CHECK_DEADLOCK FALSE
