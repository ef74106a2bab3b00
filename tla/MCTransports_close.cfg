SPECIFICATION MCSpec
CONSTANTS
  NumSenders = 2
  QueueSize = 2
  PollLimit = 2
  InitDelay = 1
  MaxDelay = 2
  Longer <- MCLonger
  Pacing = TRUE
  MinPacing = 1
  MaxWrites = 3
  Parts = {"polling"}
  Workers = {w1, w2}
  Nobody = Nobody
  MaxQueries = 4
  MaxNow = 5
  MaxAhead = 2
  Default = 1
  MaxDials = 3
  Room = 2
PROPERTY ClosedFallsSilent
CHECK_DEADLOCK FALSE
