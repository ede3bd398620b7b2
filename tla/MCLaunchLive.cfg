SPECIFICATION FairSpec
CONSTANTS
  Threads = {t1, t2}
  Devices = {d1, d2}
  Knobs = {off}
  p1 = p1
  p2 = p2
  Parts = {p1}
  Sources = {s1}
  SourcesOf <- AnySource
  MaxDepth = 2
  MaxLoads = 2
  NoThread = NoThread
  NoSource = NoSource
INVARIANT LaunchRight
PROPERTIES CallsReturn
CHECK_DEADLOCK FALSE
