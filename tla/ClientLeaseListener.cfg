CONSTANTS
  Client = {c1}
  Lease = {l1}
  MaxConns = 1
  SendCap = 1
  None = None
SPECIFICATION Spec
INVARIANT ListenerSurvives
CHECK_DEADLOCK FALSE
