\* Two hosts that are switched and resized; tasks and their retries may ask for one.
SPECIFICATION Spec
CONSTANTS
  Tasks = {t1, t2}
  Hosts = {h1, h2}
  Clients = {c1}
  Scheduler = scheduler
  NoTask = NoTask
  NoHost = NoHost
  NoOwner = NoOwner
  GlobalLimit = 2
  MaxSlots = 2
  MaxRestarts = 0
  MaxSecond = 0
  Requestable = {NoHost, h1}
  ClientOps = {"create", "retry"}
  AdminOps = {"switch", "resize"}
  Faults = {}
SYMMETRY TaskSymmetry
\* A transaction the scheduler leaves open stops everything: see the run leak.
CHECK_DEADLOCK FALSE
INVARIANTS
  RequestedHostUsed
PROPERTIES
  LifecycleSpec
