\* One thread, one key, two tenants, which the key is accepted for or not;
\* the origin gate off.
CONSTANTS
  Threads = {w1}
  Tenants = {acme, zeta}
  Keys = {k1}
  lan = lan
  cafe = cafe
  proxy = proxy
  edge = edge
  Ips = {cafe}
  Proxies = {}
  Routes <- MCDirect
  Trusted = {}
  Matching <- MCMatching
  Configs <- OnlyOff
  AdmitTTL = 2
  RefuseTTL = 1
  VerifyTTL = 2
  SessionTTL = 1
  MaxChanges = 0
  MaxTime = 2
SPECIFICATION AdmissionSpec
INVARIANTS
  KeyWasValid
