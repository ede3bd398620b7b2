SPECIFICATION Spec
CONSTANTS
  Threads = {t1, t2}
  Keys = {k0, k1, k2}
  ZeroKey = k0
  Kernels = {v1, v2}
  NoKernel = NoKernel
  HashValues <- MCHashValues
  Cap = 2
  NoSlot = NoSlot
SYMMETRY Symmetry
INVARIANTS HalfFull ProbeChains MemoGood ReadersPinned FreedUnseen
PROPERTY IsDictionary
CHECK_DEADLOCK FALSE
