CONSTANTS
  Resolution = 2
  PageSize = 1
  Timeouts = {0, 3}
  MaxPages = 2
  MaxAfter = 2
  MaxTicks = 1
  MaxWait = 20
  MaxLag = 2
  Nodes = {n1}
  RootBits = 3
  LevelBits = 1
  MaxOverdue = 7
  Workers = {a, b, c}
  Threads = {t1, t2}
  Null = Null
  Mins = {0}
  Maxes = {0, 1, 2}
  MaxInvokes = 1
SPECIFICATION MCFairSpec
INVARIANTS TimersExact HiveExact
PROPERTIES AllCalledBack  HiveProgress
CHECK_DEADLOCK FALSE
