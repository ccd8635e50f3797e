\* No failure of any kind: the request is answered and its audit goroutine ends.
CONSTANTS
  r1 = r1
  r2 = r2
  s1 = s1
  c1 = c1
  c2 = c2
  t = t
  u = u
  Requests = {r1, r2, s1}
  Tenants = {t, u}
  TenantOf <- MCTenantOf
  Limit = 1
  MaxMinute = 0
  Contexts = {c1, c2}
  MaxFaults = 0
  MaxFailures = 0
  Nobody = Nobody
SPECIFICATION ServerSpec
SYMMETRY MCSymmetry
INVARIANTS
  EveryRequestLogged
CHECK_DEADLOCK FALSE
