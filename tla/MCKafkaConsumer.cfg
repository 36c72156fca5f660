CONSTANTS
  Partition = {p1}
  Member = {m1, m2}
  NoMember = NoMember
  LogLen = 2
  BatchSize = 2
  BatchEnabled = TRUE
  MaxFaults = 2
  t1 = t1
  t2 = t2
  a = a
  Topic = {t1, t2}
  Tenant = {a}
  Owner <- OneOwner
  Shared = Shared
  None = None
  MaxChanges = 1
  MaxDeletes = 1
  MaxFails = 1
SPECIFICATION MCSpec
INVARIANT CommittedAccounted
INVARIANT NoOvertaking
INVARIANT FollowsRegistry
PROPERTY AllAccounted
PROPERTY ImplementsAtLeastOnce
PROPERTY StopReturned
CHECK_DEADLOCK FALSE
