\* One project, one handler and the culler; nothing fails.
SPECIFICATION FairSpec
CONSTANTS
  Projects = {p1}
  Threads = {t1}
  None = None
  MaxFaults = 0
  MaxRestarts = 0
PROPERTY IdleInstancesStop
