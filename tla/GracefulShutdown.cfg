\* No failure of any kind, and not a minute passes between the signal and the exit.
CONSTANTS
  r1 = r1
  r2 = r2
  s1 = s1
  c1 = c1
  c2 = c2
  t = t
  u = u
  Requests = {r1, r2, s1}
  Tenants = {t, u}
  TenantOf <- MCTenantOf
  Limit = 1
  MaxMinute = 0
  Contexts = {c1, c2}
  MaxFaults = 0
  MaxFailures = 0
  Nobody = Nobody
SPECIFICATION ServerSpec
SYMMETRY MCSymmetry
INVARIANTS
  GracefulShutdown
CHECK_DEADLOCK FALSE
