CONSTANTS
  Conn = {"c1", "c2"}
  Tenant = {"t1"}
  Token <- MCToken
  Revocation <- MCRevocation
  Limit = 1
  MaxUpdates = 2
  Feed = {"f1", "f2"}
  MaxPos = 4
  MaxConnects = 3
  SendCap = 2
  MaxReplayMessages = 2
  EveryN = 2
  Channel = {"a", "b"}
  Claim = {"public", "full", "some"}
  Public = "public"
  Burst = 1
  MaxMsgs = 4
  MaxLost = 1
  Request = {"r1", "r2"}
  IP = {"i1"}
  MaxAge = 1
  PublishTime = 3
  Entry = {"e1"}
  Shard = {"s1"}
  Buffer = 1
  MsgChanSize = 1
  MaxFailures = 1
SPECIFICATION MCSpec
INVARIANT NoSurvivor
INVARIANT NoSilentLoss
 
INVARIANT PublishBounded
INVARIANT BulkReaches
INVARIANT GivenBack
CHECK_DEADLOCK FALSE
