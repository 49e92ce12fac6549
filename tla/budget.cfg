\* Attempts are finite: no deadlock check.
SPECIFICATION Spec
CONSTANTS
  u1 = u1
  u2 = u2
  i1 = i1
  i2 = i2
  i3 = i3
  i4 = i4
  Attempts = {i1, i2, i3, i4}
  Tenants = {1, 2}
  Users = {u1, u2}
  TenantFor <- TenantsOf
  ActorOf <- ActorsOf
  Pages <- PagesOf
  Bytes <- BytesOf
  Reservation = 2
  Takes = {1, 2}
  Limit <- Limits
  MaxDay = 2
CHECK_DEADLOCK FALSE

INVARIANTS
  SpendWithinLimits
  ChargeIsTrue
