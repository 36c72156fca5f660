CONSTANTS
  Channel = {a, b}
  Foreign = f
  Bad = Bad
  SendCap = 2
  MaxChannelsPerClient = 1
  MaxReplayMessages = 2
  HistoryMaxLimit = 1
  MaxLog = 3
  MaxRequests = 1
  MaxFaults = 1
  IP = {"i1"}
  Upgrade = {"u1", "u2"}
  IPBurst = 1
  GlobalBurst = 3
  IPTTL = 1
  AdmitTime = 2
  MaxAdmits = 3
SYMMETRY Channels
SPECIFICATION MCSpec
INVARIANT NoSeam
INVARIANT VerdictIsTrue
INVARIANT RateBounded
CHECK_DEADLOCK FALSE
