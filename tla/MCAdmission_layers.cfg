\* One key, one tenant, addresses inside the trusted network and outside: two threads
\* while the origin gate is off; one while it is on and fails closed, or fails open.
CONSTANTS
  Threads = {w1, w2}
  Tenants = {acme}
  Keys = {k1}
  lan = lan
  cafe = cafe
  proxy = proxy
  edge = edge
  Ips = {lan, cafe, proxy, edge}
  Proxies = {proxy, edge}
  Routes <- MCRoutes
  Trusted = {lan}
  Matching <- MCMatching
  Configs <- MCConfigs
  AdmitTTL = 2
  RefuseTTL = 1
  VerifyTTL = 2
  SessionTTL = 1
  MaxChanges = 3
  MaxTime = 3
SPECIFICATION AdmissionSpec
CONSTRAINT SharedOrGated
SYMMETRY Perms
INVARIANTS
  AdmissionTypeOK
  AdmittedWasLive
  RefusedWasShut
  TenantWasLive
  KeyWasAccepted
  OriginWasKnown
