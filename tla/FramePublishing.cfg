SPECIFICATION Spec
CONSTANTS
  ByteRange = 16
  SegmentPayload = 7
  Frames <- MCFrames
  Stream <- MCStream
  Threads <- MCThreads
  SyncStreams <- MCSyncStreams
  Recorded <- MCRecorded
  Asked = {0, 1}
  MaxEvents = 3
INVARIANTS
  ReadAsPublished
  OriginalForWaiting
  NamesResolve
CHECK_DEADLOCK FALSE
