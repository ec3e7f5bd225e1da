CONSTANTS
  Pages = {0, 1, 2, 4, 5}
  PagesPerRegion = 2
  RegionsPerBlock = 4
  MaxFetchLevel = 2
  PrefetchDisabled = FALSE
  Capacity = 3
  PhysFrames = 9
  AccessCounterEnabled = FALSE
  LazyRemotePTE = FALSE
  EvictionDisabled = FALSE
  MaxSendQueue = 2
  None = None
SPECIFICATION FairSpec
PROPERTIES ServicesEnd
