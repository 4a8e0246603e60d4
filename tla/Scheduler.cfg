CONSTANTS
  Tasks = {t1, t2, t3}
  Values = {v1, v2, v3}
  Nil = Nil
  None = None
  Traces = {1}
  Keys = {k1, k2}
  Locks = {l1, l2}
  Proxies = {p1, p2, p3}
  MaxRef = 2
  Consumer = t1
  MaxPush = 3
  MaxForks = 3
  FlightKeys = {k1, k2}
  Flights = {f1, f2}
  Users = {1, 2}
  MaxOps = 3
  MaxOpen = 1
  MaxConns = 2
  MaxIdle = 1
SPECIFICATION MCFairSpec
INVARIANTS ReadyExact TasksApart MutexExact ChannelExact GroupExact FlightExact 
PROPERTIES TaskReadyRuns
CHECK_DEADLOCK FALSE
