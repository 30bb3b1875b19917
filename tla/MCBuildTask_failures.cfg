\* One task; two requests race on it while the server restarts, requests are cut off, lookups fail and the host is deleted.
SPECIFICATION Spec
CONSTANTS
  Tasks = {t1}
  Hosts = {h1}
  Clients = {c1, c2}
  Scheduler = scheduler
  NoTask = NoTask
  NoHost = NoHost
  NoOwner = NoOwner
  GlobalLimit = 1
  MaxSlots = 1
  MaxRestarts = 1
  MaxSecond = 0
  Requestable = {NoHost}
  ClientOps = {"create", "start", "cancel", "dispatch"}
  AdminOps = {"delete"}
  Faults = {"lookup", "sql", "prepare", "abort", "record"}
\* A transaction the scheduler leaves open stops everything: see the run leak.
CHECK_DEADLOCK FALSE
INVARIANTS
  PublishedStatus
  SuccessHasArtifact
PROPERTIES
  LifecycleSpec
