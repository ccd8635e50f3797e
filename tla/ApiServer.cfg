\* A limit of one request, two minutes; one lost answer of Redis, and one failing insert
\* or handler that panics.
CONSTANTS
  r1 = r1
  r2 = r2
  s1 = s1
  c1 = c1
  c2 = c2
  t = t
  u = u
  Requests = {r1, r2, s1}
  Tenants = {t, u}
  TenantOf <- MCTenantOf
  Limit = 1
  MaxMinute = 1
  Contexts = {c1, c2}
  MaxFaults = 1
  MaxFailures = 1
  Nobody = Nobody
SPECIFICATION ServerSpec
SYMMETRY MCSymmetry
INVARIANTS
  ServerTypeOK
  TypeOK
  
  LimitedForCause
PROPERTIES
  OwnRowUntilReused
  
\* All requests are served, or the process is gone.
CHECK_DEADLOCK FALSE
