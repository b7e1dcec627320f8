SPECIFICATION Spec
CONSTANTS
  Media = "video"
  Slots = {1, 2, 3, 4}
  Limit = 2
  StartLevel = 2
  MaxCopies = 2
  Failures = {"timeout", "nack", "starvation"}
  SpareSlots = 3
  NoSlot = NoSlot
  NoSample = NoSample
  d1 = d1
  d2 = d2
  k1 = k1
  k2 = k2
  DeltaNames <- MCDeltaNames
  KeyNames <- MCKeyNames
  Deltas <- MCDeltas
  Samples <- MCSamples
  Earlier <- MCEarlier
  Timestamp <- MCTimestamp
  NData <- MCNData
  NParity <- MCNParity
  EstData <- MCEstData
  EstParity <- MCEstParity
  Positions <- MCPositions
INVARIANTS
  CallbacksSucceed
  KeepsAsking
PROPERTIES
  DeltaOrder
  LostOnlyWhenRefetched
CHECK_DEADLOCK FALSE
