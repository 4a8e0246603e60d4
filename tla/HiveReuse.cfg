CONSTANTS
  Workers = {a, b}
  Threads = {t1, t2}
  Null = Null
  Mins = {0}
  Maxes = {1, 2}
  MaxInvokes = 2
SPECIFICATION HiveSpec
INVARIANT WorkerSerial
CHECK_DEADLOCK FALSE
