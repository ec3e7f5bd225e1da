CONSTANTS
  Pages = {0, 1, 2, 3}
  PagesPerRegion = 2
  RegionsPerBlock = 4
  MaxFetchLevel = 1
  PrefetchDisabled = TRUE
  Capacity = 3
  PhysFrames = 9
  AccessCounterEnabled = TRUE
  LazyRemotePTE = TRUE
  EvictionDisabled = FALSE
  MaxSendQueue = 2
  None = None
SPECIFICATION Spec
INVARIANTS TypeOK MappingMatchesResidency
