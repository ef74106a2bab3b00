SPECIFICATION MCSpec
CONSTANTS
  Parts = {"loops", "heap"}
  Clients = {c1, c2}
  Records = {r1, r2, r3, r4}
  None = None
  Timeout = 1
  MaxLag = 0
  QueueSize = 2
  ChanSize = 1
  Weight <- MCWeight
  MaxEncoded = 4
  MaxWrites = 4
  MaxQueries = 2
  Another = c3
  Callers = {t1}
  Stashed = {1}
  HeapTimeout = 2
  HeapLag = 1
  MaxTime = 3
SYMMETRY LoopSymmetry
VIEW LiveView
INVARIANT NeverStuck
INVARIANT IndexConsistent
PROPERTY ImplementsDownstream
PROPERTY LossOnlyByExpiry
PROPERTY ImplementsMap
