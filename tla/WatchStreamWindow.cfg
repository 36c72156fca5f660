CONSTANTS
  Item = {i1, i2}
  Kind = {"topics"}
  BufferSize = 2
  WireCap = 1
  MaxChanges = 1
  MaxOthers = 0
  MaxFaults = 0
SPECIFICATION FairSpec
PROPERTY Current
CHECK_DEADLOCK FALSE
