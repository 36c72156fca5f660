CONSTANTS
  Pod = {p, q}
  LockTTL = 3
  MaxFailures = 2
  WorkCap = 2
  Batch = 1
  MaxMsgs = 2
  MaxFaults = 2
  None = None
SPECIFICATION FairSpec
INVARIANT ActiveHoldsLock
PROPERTY NoTheft
PROPERTY Drained
