SPECIFICATION RecorderSpec
CONSTANTS
  Gops <- MCGops
  GuessKey = 1
  GuessDelta = 1
  ParityKey = 1
  ParityDelta = 1
  nRtx = 1
  MaxLost = 2
  Pipeline = 2
  Latest = {1, 2}
  MaxNumber = 3
  MaxLoops = 2
  MaxStarts = 2
INVARIANTS
  FetchesWholeGopOnce
  RecordingIsWhole
PROPERTY
  OutcomeReported
CHECK_DEADLOCK FALSE
