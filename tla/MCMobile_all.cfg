SPECIFICATION MCSpec
CONSTANTS
  Threads = {t1, t2, t3}
  Starters = {t1, t2}
  Stoppers = {t1, t3}
  Addresses = {a1}
  None = None
  MaxStarts = 3
  Resolvers = {s1, s2, s3}
  Workers = {w1, w2}
  MaxToTest = 2
  MaxLatency = 5
  SearchLatencies = {1, 6, 7}
  Modes = {"auto", "best", "first"}
  Limit1 = 2
  Limit2 = 2
  Room = 2
  Slow = 5
  TesterLatencies = {1, 6}
  Handlers = {"handle", "handleSOCKS"}
  MaxData = 1
  Parts = {"client", "search", "tester", "relay"}
INVARIANT NothingLeaked
INVARIANT StatusTruthful
INVARIANT SearchSound
INVARIANT TesterSound
INVARIANT TunnelsClosed
INVARIANT CutShortOnlyByReply
PROPERTY StopsTesting
PROPERTY SearchesEnd
PROPERTY RelaysReturn
CHECK_DEADLOCK FALSE
