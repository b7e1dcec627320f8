SPECIFICATION ValidationSpec
CONSTANTS
  Slots = {1, 2}
  NoSlot = NoSlot
  NoSample = NoSample
  d1 = d1
  d2 = d2
  k1 = k1
  Samples <- MCSamples
  Deltas <- MCDeltas
  Earlier <- MCEarlier
  Timestamp <- MCTimestamp
  NData <- MCNData
  NParity <- MCNParity
  PoolSize = 1
  MaxFetches = 2
INVARIANTS
  SlotsConsistent
  ManifestsKeptApart
PROPERTY
  ImplementsSampleBuffer
