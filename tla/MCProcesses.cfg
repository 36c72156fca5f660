CONSTANTS
  Conn = {"c1", "c2"}
  Stream = {"s1"}
  MaxConns = 2
  NumShards = 1
  ShardConns = 1
  ErrCap = 2
  Call = {"l1"}
  Managed = {"fcm", "channels"}
  Mobile = {"fcm"}
  WireCap = 1
  MaxWrites = 2
  MaxBreaks = 1
  Process = {"gateway", "provisioning", "push", "worker", "server"}
  MaxCalls = 1
SPECIFICATION MCSpec
PROPERTY ServerStops
PROPERTY ProxyReturns
PROPERTY EnabledIsConsumed
PROPERTY StopsInOrder
CHECK_DEADLOCK FALSE
