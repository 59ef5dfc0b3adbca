SPECIFICATION Spec
CONSTANTS
  None = None
  l3 = l3
  l0 = l0
  Requests = {r1, r2}
  ip1 = ip1
  Clients = {ip1}
  Limits = {10}
  CandidateLayers <- MCCandidates
  CacheTtlMs = 1
  TimeoutMs = 1
  RateLimitWindowMs = 1
  RateLimitMax = 3
  MaxVersions = 2
  MaxTime = 3
SYMMETRY Symmetric
INVARIANTS
  QueriedAtIsHonest
  WindowsAreFair
CHECK_DEADLOCK FALSE
