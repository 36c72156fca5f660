CONSTANTS
  Client = {c1}
  Lease = {l1, l2}
  MaxConns = 1
  SendCap = 1
  None = None
  Channel = {a, b}
  DeliveryCap = 2
  GapCap = 2
  SlowClientMaxAttempts = 3
  MaxMsgs = 5
  Msg = {m1, m2, m3}
  FanoutWorkers = 1
  FanoutQueueSize = 1
  DLQWorkers = 1
  DLQCap = 1
  MaxFailures = 1
  HalfOpenReqs = 1
  BrokerHangs = TRUE
  Webhook = {"w1", "w2"}
  Event = {"e1"}
  Worker = {"n1", "n2"}
  AlreadyDegraded = {}
  MaxRetries = 2
  QueueSize = 1
  IntakeSize = 2
  MaxDegraded = 2
  MaxEdits = 1
  Device = {"d1", "d2"}
  PushRetries = 1
  MaxRecords = 2
  Pod = {"p1", "p2"}
  Viewer = {"v1", "v2"}
SPECIFICATION MCSpec
INVARIANT SlotsBalanced
INVARIANT HelperOwnsClient
 
INVARIANT EgressSurfaced
INVARIANT TaskInOnePlace
INVARIANT NoJobAfterClose
INVARIANT CountedOnce
CHECK_DEADLOCK FALSE
