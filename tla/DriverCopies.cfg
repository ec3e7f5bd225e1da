CONSTANTS
  A = A
  B = B
  None = None
  Queues = {A, B}
  Pages = {1, 2, 3}
  Managed = {1, 2}
  Program <- TwoQueues
  Cycles = 1
  Dispatchers = 1
  MaxCopies = 2
  MaxMoves = 2
SPECIFICATION FairSpec
INVARIANTS TypeOK OwedOnce CopiesSeeMemory
PROPERTIES CommandsEnd
CHECK_DEADLOCK FALSE
