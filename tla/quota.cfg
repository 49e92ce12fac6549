\* Refs are finite: no deadlock check.
SPECIFICATION QuotaFairSpec
CONSTANTS
  t1 = t1
  t2 = t2
  u1 = u1
  u2 = u2
  u3 = u3
  s1 = s1
  s2 = s2
  s3 = s3
  s4 = s4
  d1 = d1
  d2 = d2
  r1 = r1
  r2 = r2
  r3 = r3
  None = None
  Tenants = {t1, t2}
  Users = {u1, u2, u3}
  TenantOf <- TwoTenants
  Sessions = {s1, s2, s3, s4}
  OwnerOf <- ThreeOwners
  Refs = {r1, r2, r3}
  Documents = {d1, d2}
  Size <- Sizes
  Scanned = {d2}
  SessionLimit = 4
  UserLimit = 4
  TenantLimit = 5
  GlobalLimit = 6
CHECK_DEADLOCK FALSE

INVARIANTS
  BytesWithinLimits

PROPERTIES
  QuotaIsGivenBack
