CONSTANTS
  A = A
  B = B
  Keys = {A, B}
  Requests <- Double
  Threshold = 2
  MaxOutstanding = 1
  BufferSize = 1
  ReqPerCycle = 2
  Repeats = TRUE
  GMMUStalls = FALSE
  MaxCommands = 1
SPECIFICATION Spec
SYMMETRY Swapped
INVARIANTS TypeOK EachRequestOnce SnapshotAuthoritative AskedOnce HeldIsCaredFor
