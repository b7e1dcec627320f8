SPECIFICATION FairSpec
CONSTANTS
  Threads <- MCThreads
  hi = hi
  lo = lo
  Gop = 3
  PosMod = 4
  MaxCaptures = 4
  MaxFrames <- MCMaxFrames
  Garbage <- MCGarbage
INVARIANTS
  PublishedAsDescribed
  PairedNumbersMeet
  BootstrapsAtGopStart
PROPERTY
  PublishingDrains
CHECK_DEADLOCK FALSE
