SPECIFICATION FairSpec
CONSTANTS
  None = None
  c1 = c1
  c2 = c2
  c3 = c3
  c4 = c4
  t1 = t1
  t2 = t2
  owner = owner
  property = property
  k1 = k1
  l1 = l1
  Calls = {c1, c2, c3, c4}
  Tenants = {t1, t2}
  Targets = {owner, property}
  TenantOf <- MCTenantOf
  Op <- MCOp
  Target <- MCTarget
  LockKeys = {k1}
  LockKey <- MCCollidingKeys
  Legacy <- MCLegacy
CHECK_DEADLOCK FALSE
INVARIANTS
  ChainLinear
  HeadIsTail
  TrailMatchesData
PROPERTIES
  CallsEnd
  ImplementsLedger
