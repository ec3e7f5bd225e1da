CONSTANTS
  Pages = {0, 1, 2, 4, 5, 6}
  PagesPerRegion = 2
  RegionsPerBlock = 4
  MaxFetchLevel = 2
  PrefetchDisabled = TRUE
  Capacity = 4
  PhysFrames = 9
  AccessCounterEnabled = FALSE
  LazyRemotePTE = FALSE
  EvictionDisabled = FALSE
  MaxSendQueue = 2
  None = None
SPECIFICATION Spec
INVARIANTS EvictionOwnsRegion EvictingAccounted ResidentIsEvictable FramesAccounted
PROPERTIES RetiredIsAnswered ImplementsResidency
