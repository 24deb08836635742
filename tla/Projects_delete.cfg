\* One crash while a project is being deleted.
SPECIFICATION FairSpec
CONSTANTS
  Projects = {p1}
  Users = {ann}
  Threads = {t1}
  Tenants = {T1, T2}
  TbUsers = {b1, b2}
  Tickets = {k1}
  None = None
  MaxSlug = 1
  MaxFaults = 0
  MaxAborts = 1
  ConcurrentRetry = FALSE
PROPERTY DeleteCompletes
