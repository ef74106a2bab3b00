SPECIFICATION MCSpec
CONSTANTS
  Handlers = {h1, h2}
  Pools = {p1, p2}
  NumResolvers = 2
  MaxPending = 1
  None = None
  Conns = {c1, c2}
  Keys = {k1, k2}
  NumTunnels = 2
  Parts = {"fallback", "accept", "session"}
INVARIANT OnlyCurrentOpen
INVARIANT PoolsSeenWhole
PROPERTY MCPoolComesBack
PROPERTY ConnectionsAnswered
PROPERTY ShutdownCompletes
PROPERTY NothingIsLeft
CHECK_DEADLOCK FALSE
