\* A limit of one request, two calendar minutes, and no failure of Redis.
CONSTANTS
  r1 = r1
  r2 = r2
  t = t
  Requests = {r1, r2}
  Tenants = {t}
  TenantOf <- MCTenantOf
  Limit = 1
  MaxMinute = 1
  MaxFaults = 0
SPECIFICATION WindowSpec
INVARIANTS
  SlidingWindow
CHECK_DEADLOCK FALSE
