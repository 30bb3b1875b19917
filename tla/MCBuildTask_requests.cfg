\* Two tasks, one host, the scheduler and one request at a time that may ask for anything.
SPECIFICATION Spec
CONSTANTS
  Tasks = {t1, t2}
  Hosts = {h1}
  Clients = {c1}
  Scheduler = scheduler
  NoTask = NoTask
  NoHost = NoHost
  NoOwner = NoOwner
  GlobalLimit = 1
  MaxSlots = 2
  MaxRestarts = 0
  MaxSecond = 0
  Requestable = {NoHost}
  ClientOps = {"create", "retry", "dispatch", "next", "start", "cancel"}
  AdminOps = {}
  Faults = {"lookup", "prepare", "record"}
SYMMETRY TaskSymmetry
\* A transaction the scheduler leaves open stops everything: see the run leak.
CHECK_DEADLOCK FALSE
INVARIANTS
  TypeOK
  HostSlots
  GlobalLimitHeld
  LaunchedOnce
  GoroutineNeverLeaks
  ActiveIsExecuted
