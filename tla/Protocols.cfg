CONSTANTS
  Clients = {1}
  MaxReqs = 2
  MaxConns = 2
  MaxIdle = 1
  MaxBody = 2
  FlushAt = 2
  Sizes = {0, 1}
  Roles = {"client", "server"}
  MaxStreamId = 9
  StreamWin = 1
  PeerWins = {0, 1}
  MaxWindow = 4
  ClosedMax = 1
  MaxUsers = 2
  Needs = {2}
  Limit = 4
  CacheLimit = 5
  PruneAt = 1
  MaxBlock = 2
  Bodies = {0, 1, 2, 3, 4, 5, 6, 7}
  FrameSize = 3
  MaxSymbols = 2
  MAX_NAME = 6
  PTR_DEPTH = 6
  MaxRaw = 5
  BUFFERSIZE = 30
  MAX_DEPTH = 2
  LLONG_MAX = 127
  MaxDigits = 5
  MaxTokens = 4
  MAX_RECURSIVE = 3
  BUFFSIZE = 8
  MAX_FF = 2
  MaxLen = 9
  Callers = {1, 2}
  Names = {1}
  MaxLookups = 2
  MaxConf = 1
  Attempts = 2
  MaxHops = 4
  MaxDeep = 3
  Sockets = {1, 2}
  Interests = {{"IN"}, {"OUT", "ONESHOT"}}
  Conditions = {"SEND", "DISCONNECT"}
  MAX_GROUP_SIZE = 2
  MaxEvents = 2
  MaxStates = 2
  MaxCtl = 3
  MaxReady = 1
  MaxFaults = 1
  MaxKey = 8
SPECIFICATION MCSpec
INVARIANTS     WepollExact
CHECK_DEADLOCK FALSE
