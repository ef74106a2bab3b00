SPECIFICATION Spec
CONSTANTS
  Threads = {t1, t2}
  Starters = {t1}
  Stoppers = {t2}
  Addresses = {a1}
  None = None
  MaxStarts = 2
INVARIANT StopStops
