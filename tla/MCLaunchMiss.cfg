SPECIFICATION Spec
CONSTANTS
  Threads = {t1, t2}
  Devices = {d1}
  Knobs = {off, on}
  p1 = p1
  p2 = p2
  Parts = {p1, p2}
  Sources = {s1, s2}
  SourcesOf <- Drift
  MaxDepth = 2
  MaxLoads = 2
  NoThread = NoThread
  NoSource = NoSource
SYMMETRY Symmetry
INVARIANTS LockCountsLoads RecordsOwned RewalkHits OneInputPerKey
CHECK_DEADLOCK FALSE
