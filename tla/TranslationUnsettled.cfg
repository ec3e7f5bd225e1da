CONSTANTS
  A = A
  B = B
  P = P
  Q = Q
  R = R
  L2 = L2
  None = None
  Pages = {P}
  Ways = {1}
  WaysOf <- AllWays
  MSHRCapacity = 1
  BufferSize = 1
  Regions = {R}
  RegionOf <- OneRegion
  TLBNames = {A, B, L2}
  MaxWalks = 1
  Cores = {A, B}
  Programs <- Shared
  InTLBMSHRMax = 1
  AccessCounterEnabled = TRUE
  LazyRemotePTE = TRUE
  MaxEvictions = 1
SPECIFICATION Spec
INVARIANTS SettledBeforeCopy
CHECK_DEADLOCK FALSE
