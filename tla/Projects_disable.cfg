\* Two invites for one person, no failure at all.
SPECIFICATION Spec
CONSTANTS
  Projects = {p1}
  Users = {ann, bob}
  Threads = {t1}
  Tenants = {T1}
  TbUsers = {b1, b2}
  Tickets = {k1, k2}
  None = None
  MaxSlug = 1
  MaxFaults = 0
  MaxAborts = 0
  ConcurrentRetry = FALSE
PROPERTY OnlyOwnerEnables
