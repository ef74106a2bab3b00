SPECIFICATION Spec
CONSTANTS
  Addrs = {a1}
  Records = {r1, r2, r3}
  None = None
  Timeout = 1
  MaxLag = 0
  Writers = {w1}
  Senders = {s1}
  Producers = {d1}
  Readers = {g1}
  Closers = {k1, k2}
  QueueSize = 1
INVARIANT ExpiryOnlyLosesPackets
