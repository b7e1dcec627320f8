SPECIFICATION FairSpec
CONSTANTS
  None = None
  MaxFaces = 3
  Hosts = {h1, h2}
  Settings = {s1, s2, bad}
  BadSetting = bad
  MaxEdits = 3
  MaxFrames = 2
INVARIANTS
  StreamAsSet
  InformationIsTrue
PROPERTY
  TasksRun
CHECK_DEADLOCK FALSE
