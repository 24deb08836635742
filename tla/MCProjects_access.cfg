\* Two people in one project; and two projects of one name, with a crash.
SPECIFICATION ScenesSpec
CONSTANTS
  Scenes = {"access", "reuse"}
  Projects = {1, 2}
  Users = {1, 2}
  Threads = {t1, t2}
  Tenants = {1, 2, 3}
  TbUsers = {1, 2, 3}
  Tickets = {1, 2}
  None = None
  MaxSlug = 2
  MaxFaults = 1
  MaxAborts = 1
  ConcurrentRetry = FALSE
SYMMETRY Symmetry
INVARIANTS TypeOK TenantIsolation SlugsDistinct ExactlyOneOwner ProvisionedIsUsable MembersShareTenant OrphanRowsInert
PROPERTIES StableIdentity AccessKept
