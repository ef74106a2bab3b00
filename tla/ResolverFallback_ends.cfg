SPECIFICATION FairSpec
CONSTANTS
  Handlers = {h1, h2}
  Pools = {p1, p2}
  NumResolvers = 2
  MaxPending = 2
  None = None
PROPERTY SwitchesOnFailure
CHECK_DEADLOCK FALSE
