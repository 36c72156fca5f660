CONSTANTS
  Rule <- MCRules
  Worker = {w1, w2}
  NoWorker = NoWorker
  MaxRules = 1
  MaxTopics = 2
  MaxTopicsPerRule = 2
  Quota = {0, 1}
  MaxRequests = 3
  Tenant = {t1, t2}
  NoTenant = NoTenant
  SigningKey = {k1}
  ApiKey = {a1}
  Slug = {s1, s2, s3}
  NoSlug = NoSlug
  Reserved = {s3}
  MaxTenants = 2
  MaxTenantRequests = 3
  MaxTenantFaults = 1
  MaxRenames = 3
  MaxRenameFaults = 1
  Item = {i1, i2}
  Kind = {"keys", "apiKeys", "tenantConfig", "topics", "revocations"}
  BufferSize = 2
  WireCap = 1
  StreamChanges = 2
  MaxOthers = 1
  StreamFaults = 1
SPECIFICATION MCSpec
INVARIANT EgressDisjoint
INVARIANT NoKeyOutlivesTenant
INVARIANT PendingOwned
PROPERTY StatusPath
PROPERTY DeprovisionCompletes
PROPERTY CurrentOrMissed
CHECK_DEADLOCK FALSE
