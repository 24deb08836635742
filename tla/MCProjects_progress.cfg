\* An owner who retries; two projects of one name, with a crash; and logins with two
\* invites pending.
SPECIFICATION ScenesFairSpec
CONSTANTS
  Scenes = {"repair", "names", "logins"}
  Projects = {1, 2}
  Users = {1, 2}
  Threads = {t1, t2}
  Tenants = {1, 2, 3}
  TbUsers = {1, 2, 3}
  Tickets = {1, 2}
  None = None
  MaxSlug = 2
  MaxFaults = 2
  MaxAborts = 1
  ConcurrentRetry = FALSE
PROPERTIES RequestsEnd RepairableAlive
