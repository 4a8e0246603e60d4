CONSTANTS
  Callers = {1, 2}
  MaxCalls = 3
  MaxFds = 1
  ACK_BIT = 2
  SessionStart = 2
SPECIFICATION Spec
INVARIANT OwnAnswer
CHECK_DEADLOCK FALSE
