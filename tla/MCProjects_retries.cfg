\* Retries, admissions and deletions, any two of them at once, retries submitted twice.
SPECIFICATION ScenesSpec
CONSTANTS
  Scenes = {"retries"}
  Projects = {1, 2}
  Users = {1, 2}
  Threads = {t1, t2}
  Tenants = {1, 2, 3}
  TbUsers = {1, 2, 3}
  Tickets = {1, 2}
  None = None
  MaxSlug = 2
  MaxFaults = 1
  MaxAborts = 1
  ConcurrentRetry = TRUE
PROPERTIES TornOnlyByMakers LiveOnlyByMakers
