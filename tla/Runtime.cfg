CONSTANTS
  Producers = {w1, w2}
  MaxOps = 4
  MaxMessages = 3
  MaxMarks = 3
  MaxUser = 1
  Size = 4
  Lengths = {1, 2, 3, 4, 5}
  MaxBytes = 9
  Loggers = {worker}
  Traces = {1}
  Secs = {1, 2}
  Bytes = {"n", "a"}
  InitExp = 1
  MaxHeld = 3
  Values = {v1, v2, v3}
  InitialCap = 2
  MaxItems = 3
  Counts = {1, 3}
  Limits = {2}
  MaxRecv = 2
  MaxSend = 2
SPECIFICATION MCFairSpec
INVARIANTS TriggerExact  ContainersExact 
PROPERTIES ImplementsQueue MonitorExact RuntimeProgress
CHECK_DEADLOCK FALSE
