\* Retry is submitted twice at once.
SPECIFICATION Spec
CONSTANTS
  Projects = {p1}
  Users = {ann}
  Threads = {t1, t2}
  Tenants = {T1, T2, T3}
  TbUsers = {b1, b2}
  Tickets = {k1}
  None = None
  MaxSlug = 1
  MaxFaults = 1
  MaxAborts = 0
  ConcurrentRetry = TRUE
INVARIANT MembersShareTenant
