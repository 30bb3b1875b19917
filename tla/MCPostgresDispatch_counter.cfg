\* A cancel beside the scheduler.
SPECIFICATION Spec
CONSTANTS
  Tasks = {t1}
  Hosts = {h1}
  Clients = {c1}
  Scheduler = scheduler
  NoTask = NoTask
  NoHost = NoHost
  NoOwner = NoOwner
  GlobalLimit = 1
  MaxSlots = 1
  MaxLaunches = 2
  ClientOps = {"cancel"}
SYMMETRY TaskSymmetry
\* All tasks have ended, and nothing is left to do.
CHECK_DEADLOCK FALSE
INVARIANTS
  CountersSettle
