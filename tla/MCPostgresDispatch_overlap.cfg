\* Requests dispatch, start and cancel beside the scheduler.
SPECIFICATION Spec
CONSTANTS
  Tasks = {t1, t2}
  Hosts = {h1}
  Clients = {c1}
  Scheduler = scheduler
  NoTask = NoTask
  NoHost = NoHost
  NoOwner = NoOwner
  GlobalLimit = 1
  MaxSlots = 1
  MaxLaunches = 3
  ClientOps = {"dispatch", "start", "cancel"}
SYMMETRY TaskSymmetry
CONSTRAINT FewLaunches
\* All tasks have ended, and nothing is left to do.
CHECK_DEADLOCK FALSE
INVARIANTS
  OvershootBounded
  HostOvershootBounded
  LaunchesBounded
  LocksAreReleased
