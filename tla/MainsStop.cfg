CONSTANTS
  Process = {"gateway", "server"}
  MaxCalls = 1
SPECIFICATION PatientSpec
PROPERTY StopEnds
CHECK_DEADLOCK FALSE
