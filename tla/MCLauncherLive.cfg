SPECIFICATION FairSpec
CONSTANTS
  Threads = {t1, t2}
  Launchers = {h1, h2}
  Ops = {"call", "edit"}
  MaxDepth = 2
  MaxEdits = 0
  NoThread = NoThread
  NoLauncher = NoLauncher
  NoOptions = NoOptions
PROPERTIES
  EveryOperationReturns
CHECK_DEADLOCK FALSE
