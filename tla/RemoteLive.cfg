CONSTANTS
  A = A
  B = B
  Keys = {A}
  Requests <- Pair
  Threshold = 2
  MaxOutstanding = 1
  BufferSize = 1
  ReqPerCycle = 2
  Repeats = FALSE
  GMMUStalls = TRUE
  MaxCommands = 1
SPECIFICATION FairSpec
INVARIANTS EachRequestOnce SnapshotAuthoritative HeldIsCaredFor
PROPERTIES AccessesEnd DrainsEnd
