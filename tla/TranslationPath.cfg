CONSTANTS
  A = A
  B = B
  P = P
  Q = Q
  R = R
  L2 = L2
  None = None
  Pages = {P, Q}
  Ways = {1}
  WaysOf <- AllWays
  MSHRCapacity = 1
  BufferSize = 1
  Regions = {R}
  RegionOf <- OneRegion
  TLBNames = {A, B, L2}
  MaxWalks = 1
  Cores = {A, B}
  Programs <- Any
  InTLBMSHRMax = 1
  AccessCounterEnabled = TRUE
  LazyRemotePTE = TRUE
  MaxEvictions = 1
SPECIFICATION MCSpec
INVARIANTS TypeOK EachAccessOnce EachMissOnce SetsConsistent L2NeverStale NoFaultForgotten
