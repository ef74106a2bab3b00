SPECIFICATION ObservedFairSpec
CONSTANTS
  Addrs = {a1, a2}
  Callers = {t1, t2}
  Records = {r1, r2, r3}
  Packets = {p1}
  None = None
  Timeout = 2
  MaxLag = 1
INVARIANT NoOrphanQueue
PROPERTY LookedUpPeersTracked
PROPERTY IdlePeersReclaimed
