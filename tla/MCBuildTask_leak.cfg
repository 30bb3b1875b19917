\* A queued task is canceled between the scheduler's SELECT and its transaction.
SPECIFICATION FairSpec
CONSTANTS
  Tasks = {t1}
  Hosts = {h1}
  Clients = {c1}
  Scheduler = scheduler
  NoTask = NoTask
  NoHost = NoHost
  NoOwner = NoOwner
  GlobalLimit = 1
  MaxSlots = 1
  MaxRestarts = 0
  MaxSecond = 0
  Requestable = {NoHost}
  ClientOps = {"create", "cancel"}
  AdminOps = {}
  Faults = {}
\* All tasks end, and the server then waits for requests.
CHECK_DEADLOCK FALSE
PROPERTIES
  HealthRecovers
