CONSTANTS
  Callers = {1, 2}
  MaxCalls = 3
  MaxFds = 2
  ACK_BIT = 9
  SessionStart = 0
  Tasks = {1, 2, 3}
  MaxCommands = 1
  MaxSocks = 2
  MaxWatchers = 1
  MaxStreams = 3
  MaxRevision = 3
  Revisions = {0, 1}
  MessageSizes = {0, 65535, 65536, 131073}
  MaxMsgs = 2
  MaxControls = 1
  Endpoints = {1}
  CallSlots = {1, 2}
  MaxChannels = 2
  HEADER_SIZE = 2
  QUEUE_SIZE = 2
  MinSize = 1
  MinRequest = 2
  HardLimit = 2
  MaxPackets = 2
  NodeFds = {1, 2}
SPECIFICATION MCFairSpec
INVARIANTS ClusterExact RedisExact   GrpcExact
PROPERTY RequestsEnd
CHECK_DEADLOCK FALSE
