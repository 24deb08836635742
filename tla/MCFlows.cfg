\* One project, two handlers and the culler; two failing calls, one restart with a new image.
SPECIFICATION FairSpec
CONSTANTS
  Projects = {p1}
  Threads = {t1, t2}
  None = None
  MaxFaults = 2
  MaxRestarts = 1
INVARIANTS TypeOK StartedIsCurrent
PROPERTIES CurrentKept IdleRowsSettle
