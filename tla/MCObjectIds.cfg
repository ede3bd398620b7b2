SPECIFICATION Spec
CONSTANTS
  Threads = {t1, t2}
  Slots = {s1, s2}
  Addrs = {a1, a2}
  Values <- MCValues
  NoAddr = NoAddr
  NoValue = NoValue
  NoThread = NoThread
SYMMETRY Symmetry
INVARIANTS IdsDistinct MemoTrue AnswerTrue
PROPERTIES IdsStay
CHECK_DEADLOCK FALSE
