\* Requests create and retry; the host is switched and checked; the server may die once.
SPECIFICATION FairSpec
CONSTANTS
  Tasks = {t1, t2}
  Hosts = {h1}
  Clients = {c1}
  Scheduler = scheduler
  NoTask = NoTask
  NoHost = NoHost
  NoOwner = NoOwner
  GlobalLimit = 1
  MaxSlots = 1
  MaxRestarts = 1
  MaxSecond = 0
  Requestable = {NoHost}
  ClientOps = {"create", "retry"}
  AdminOps = {"switch", "check"}
  Faults = {"prepare", "record"}
\* All tasks end, and the server then waits for requests.
CHECK_DEADLOCK FALSE
PROPERTIES
  QueuedTasksEnd
  DispatchingTasksStart
