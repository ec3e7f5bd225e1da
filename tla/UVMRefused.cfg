CONSTANTS
  Pages = {0, 1, 2}
  PagesPerRegion = 1
  RegionsPerBlock = 4
  MaxFetchLevel = 2
  PrefetchDisabled = FALSE
  Capacity = 2
  PhysFrames = 9
  AccessCounterEnabled = FALSE
  LazyRemotePTE = FALSE
  EvictionDisabled = TRUE
  MaxSendQueue = 2
  None = None
SPECIFICATION Spec
PROPERTIES RetiredIsAnswered
