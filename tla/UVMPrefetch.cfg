CONSTANTS
  Pages = {0, 1, 2}
  PagesPerRegion = 1
  RegionsPerBlock = 4
  MaxFetchLevel = 2
  PrefetchDisabled = FALSE
  Capacity = 2
  PhysFrames = 9
  AccessCounterEnabled = TRUE
  LazyRemotePTE = FALSE
  EvictionDisabled = FALSE
  MaxSendQueue = 2
  None = None
SPECIFICATION FairSpec
INVARIANTS FaultsQueuedOnce SingleService MappingMatchesResidency
PROPERTIES StarvedByEvictionsOnly EvictionsEnd ImplementsResidency
