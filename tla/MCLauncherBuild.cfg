SPECIFICATION Spec
CONSTANTS
  Threads = {t1, t2, t3}
  Launchers = {h1, h2}
  Ops = {"call", "check", "edit", "resolve"}
  MaxDepth = 2
  MaxEdits = 1
  NoThread = NoThread
  NoLauncher = NoLauncher
  NoOptions = NoOptions
SYMMETRY Symmetry
INVARIANTS
  WaitersHoldNothing
  EntryIsBacked
  FailedBuildLeavesNothing
PROPERTIES
  LauncherLives
CHECK_DEADLOCK FALSE
