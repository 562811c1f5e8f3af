\* Two threads, no replica or one that lags, endpoints and Redis that come and go.
CONSTANTS
  Threads = {w1, w2}
  Groups = {"administrators"}
  Deployment = {}
  Administrators = "administrators"
  TenantAdmin = "tenant_admin"
  MayLackReplica = TRUE
  RoleTTL = 2
  Cooldown = 2
  StoreDelay = 1
  MaxChanges = 3
  MaxTime = 4
SPECIFICATION Spec
SYMMETRY Symmetry
INVARIANTS
  TypeOK
  RolesWereHeld
  RolesAreComplete
  RefusalIsExcused
  ReplicaIsExcused
