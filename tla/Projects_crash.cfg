\* One failed call and one crash: provisioning is retried for ever.
SPECIFICATION FairSpec
CONSTANTS
  Projects = {p1}
  Users = {ann}
  Threads = {t1}
  Tenants = {T1, T2}
  TbUsers = {b1, b2}
  Tickets = {k1}
  None = None
  MaxSlug = 1
  MaxFaults = 1
  MaxAborts = 1
  ConcurrentRetry = FALSE
PROPERTY Repairable
