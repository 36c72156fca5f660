CONSTANTS
  Client = {k1, k2}
  None = None
  BufferSize = 1
  BroadcastCap = 1
  Tenant = {t1}
  All = All
  MaxRefs = 1
  MaxCalls = 3
  MaxFaults = 1
  ReplyLoss = FALSE
  LicenseKey = {"k0", "k2", "k3"}
  NoKey = "none"
  Iat <- MCIat
  EditionOf <- MCEdition
  Override <- MCOverride
  Request = {"q1"}
  Env <- MCEnv
  Perishable = {"k2"}
  MaxRestarts = 1
  MaxBreaks = 1
SPECIFICATION MCSpec
INVARIANT ConvergedIsConfirmed
INVARIANT ConnectedIsForwarded
PROPERTY EventuallyConverged
PROPERTY PublishCompletes
PROPERTY NeverLowered
CHECK_DEADLOCK FALSE
