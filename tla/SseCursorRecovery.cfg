CONSTANTS
  Channel = {a}
  MaxPos = 3
  MaxConnects = 3
  SendCap = 2
  MaxReplayMessages = 2
  EveryN = 2
SPECIFICATION Spec
INVARIANT RecoveredIsWhole
CHECK_DEADLOCK FALSE
