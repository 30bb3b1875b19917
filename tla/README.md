# Verification of the image build platform

TLA+ models of the Go server in `src/`, checked with TLC on small instances and,
where it says so, proved with TLAPS for every value of the constants.

## 1. The system

One Go process serves a REST API, runs a scheduler and executes `docker build`
and `docker push` for image projects, on the local Docker socket or over SSH.
All durable state is in one database: SQLite with a pool of **one** connection
(`storage.Open`), or Postgres with ten. Nothing else coordinates the parts:
there is no lock shared by two requests, and most operations are several
statements, each a transaction of its own.

| Component (source under `src/`) | State | Operations | Talks to | Correct when |
| --- | --- | --- | --- | --- |
| build tasks, `internal/buildtask` | `build_tasks`; in memory the cancel functions of running commands | Create, Retry, Dispatch, DispatchNext, Start, Cancel, the scheduler's tick, `runBuild` | all of the below | slots and limits are exact, a task is built once, ends once, and ends as what happened |
| executor, `buildtask/executor.go` | key files, directories, docker configurations, images on a host | Build, Push, Repush, Cancel | docker, ssh | it uses the credentials it was given, cleans up, pushes what it built |
| log streaming, `buildtask/http.go` | an offset per viewer | poll, send, stop on a final status | the log file the build appends to | a viewer gets the log, in order, to its end |
| build hosts, `internal/buildhost` | `build_hosts`, their SSH keys | Create, Update, Delete (soft), Enable, Disable, Check | SSH/Docker probe; the scheduler reads and counts on the rows | keys are not shared, decisions of administrators stand |
| registries, `internal/registry` | `registries`, two default flags, credentials | Create, Update, Delete, Enable, Disable, Check | credentials | one default of a kind, references resolve, decisions stand |
| image projects, `internal/imageproject` | projects, branches with start and head, nodes with Dockerfiles | CreateProject, CreateBranch, CreateNode, UpdateNode, Archive, Graph, DiffNodes | build tasks freeze a node's Dockerfile | the graph is connected, heads are right, answers fit together |
| artifacts, `internal/imageartifact` | artifacts, push events, latest artifact of a node | RecordPushed, Repush, Archive, Deprecate | executor, registries | history, artifacts and registry agree |
| authentication, `internal/auth` | users, sessions | InitializeAdmin, Login, Logout, CreateUser, UpdateUser, ResetPassword | every request | an administrator stays, a reset is kept |
| audit and middlewares, `internal/audit`, `internal/server` | `audit_logs` | timeout, recovery, CSRF check, session, handler, audit row | every request | each change has one true row |
| retention, `internal/retention` | files under the log and context directories | RunOnce every 24 h | settings; shares files with builds | a build keeps its files |
| migrations, `internal/storage` | `schema_migrations` with a dirty flag | RunMigrations at start | other processes on the database | no schema is served half migrated |
| settings, credentials | rows | read and written one at a time | - | - |
| Dockerfile generation, dashboard, configuration, web UI | pure functions, views, a client | - | - | - |

### What is hard here

- **Interleavings.** The scheduler, any number of requests and one goroutine
  per build act on the same rows. `DispatchNext` selects a task in one statement
  and places it in another; `Start` reads, dispatches, reads again, prepares
  files and then updates; `Cancel` kills a command and only then changes the row;
  a check of a host or a registry takes seconds between its read and its write.
- **The one connection.** A transaction that is not closed stops the server.
  `DispatchTaskWithOptions`, `Cancel`, `CompleteBuild` and `CompletePush`
  return `ErrInvalidState` *without assigning it to* `err`, so the deferred
  rollback does not run; when the COUNT of `DispatchTaskWithOptions` fails, its
  `err` is a variable of the inner block, with the same effect. `database/sql` closes the transaction when its context
  ends: at the end of a request, never for the scheduler or a goroutine.
- **Counters.** `current_running` is maintained by hand on six paths.
- **Half-done operations.** Credentials before rows, rows before the clearing of
  defaults, pushes before their records: each may be cut off in between.
- **Files without locks.** Builds, starts, viewers and the cleaner use one
  directory; docker configurations and image references are shared by a host.
- **Crashes.** Goroutines die with the process and nothing repairs the rows. A
  goroutine also ends, with its task as it is, when a statement of its own fails.
- **Late answers.** A command may end well after it was canceled or timed out.

`PROJECT.json` lists the hazards at their lines with the properties about them.

## 2. The modules

| Module | What it is |
| --- | --- |
| `TaskLifecycle` | the abstract specification: what a task may go through, when it may be placed, when it may be reported as pushed |
| `BuildTask` | the service: rows, scheduler, requests, goroutines, cancel registry, connection |
| `PostgresDispatch` | the dispatch, cancel and completion transactions statement by statement, as they overlap on Postgres |
| `VersionGraph` | projects, branches and nodes, and the requests on them |
| `Registries` | registries, default flags and credentials |
| `TaskCreation` | `Service.Create` and `Service.Retry` over `VersionGraph` and `Registries`, which it composes |
| `HostRegistry` | build hosts and SSH keys as administrators manage them |
| `Accounts` | users, sessions, the requests of administrators |
| `ApiRequests` | the chain of middlewares, over `Accounts`, which it composes |
| `Artifacts` | artifacts, push events and repushes |
| `Executor` | build, push and repush as sequences of docker and ssh commands |
| `BuildFiles` | context directories, logs, log streams and the retention cleaner |
| `Migration` | the migrations of processes that start side by side |
| `BuildTaskProofs`, `LifecycleProofs` | theorems about `BuildTask`: rows, counters, launches and goroutines; the life of a task and the refinement of `TaskLifecycle` |
| `PostgresDispatchProofs`, `VersionGraphProofs` | theorems about the modules they are named after |
| `CatalogProofs` | theorems about `Registries` and `TaskCreation` |
| `AdministrationProofs` | theorems about `HostRegistry`, `Accounts`, `ApiRequests` and `Migration` |
| `ExecutionProofs` | theorems about `Artifacts`, `BuildFiles` and `Executor` |
| `PlatformProofs` | that `MCPlatform`, which puts the parts of the two modules above side by side, keeps what is proved of each |
| `MCBuildTask`, `MCPostgresDispatch`, `MCCatalog`, `MCPlatform` + `.cfg` files | the instances TLC checks |

The modules meet where the code does: `BuildTask` treats the lookups of `Create`,
the files, the executor and the artifact as steps that succeed or fail, and
`TaskCreation`, `BuildFiles`, `Executor` and `Artifacts` look inside those steps
with everybody else who touches the same rows, files or images.

**Conventions.** In the modules other than `BuildTask` an operation of several
statements is a record per request (`viewing`, `saving`, `asking`, `working`,
`acting`, `repushing`, `starting`, `stream`) with the step it stands at and what
it has read; between two steps anything may happen. Every request can be cut off
at every step (`AbandonSave`, `DropRequest`, `EndRequest`, `RepushTimesOut`,
`Answer`): its statement fails, its client is gone, or its 60 s are over. Rows
have an identifier from a constant set; those of projects, branches, nodes and
users are never deleted, as in the code, those of hosts and registries only get a
mark.

### How `BuildTask` corresponds to the code

**Grain.** With one connection transactions cannot overlap, so a transaction is
one step, guarded by `ConnFree`. Between two transactions anything may happen.
A call stands at a position (`pc`) named after what it does next:

| Step | Code |
| --- | --- |
| `Create`, `Retry` (`Insert`) | `Service.Create`, `Service.Retry`: one INSERT; a retry copies the requested host |
| `Pick`, then `Dispatch` | the SELECT of `DispatchNextWithOptions`, then the transaction of `DispatchTaskWithOptions` |
| `StartRead`, `Dispatch`, `StartRead`, `StartHost`, `StartPrepare`, `StartFail`, `StartBuild`, `Launch` | `Service.Start` in its order; `Launch` is the `FindByID` of `StartBuild` followed by `go runBuild` |
| `CallFails` (`StatementFails`, `CountFails`) | a statement of a call fails: what was not committed is rolled back, except after a failed COUNT, and the call returns the error |
| `CallCancel`, `CancelTx` | `executor.Cancel`, then the transaction of `Repository.Cancel` |
| `EndRequest` | the request's context ends and rolls its abandoned transaction back |
| `Abort` | the client leaves, or the 60 s timeout of `timeoutExceptLogStreams` fires |
| `Tick`, `Scan`, `Pick`, `Dispatch`, ... | `scheduleOnce`: start the tasks found dispatching (newest first), then `DispatchNext` and `Start`, at most as often as the global limit |
| `RunLoad`, `RunCommand`, `RunStartPush`, `RunPushLoad`, `RunRecord`, `RunEnd` | `runBuild`, `pushBuild` and the executor; `RunLost` is the exit that only logs, after a `FindByID`, an UPDATE or a closing transaction failed |
| `SwitchHost`, `CheckHost`, `ResizeHost`, `DeleteHost` | Enable/Disable, `UpdateCheckResult`, Update, Delete of hosts |
| `Restart` | the process ends; rows stay, everything else goes |

`Settle` is the tail that `Cancel`, `FailTask`, `CompleteBuild` and
`CompletePush` share: new status, slot back. `decrementHostRunning` touches no
row when the host is deleted, and the whole transaction is rolled back then
(`SlotReleasable`). `Complete` has the exit that leaves the transaction open,
with the goroutine as the owner of `conn`. `ReturnLeaking` is the same exit of
`DispatchTaskWithOptions` and `Cancel`.

**Host selection.** `Candidates` are the hosts `selectHost` accepts (the
requested one or any; not deleted, not disabled, no other architecture, a free
slot), `BestHosts` those its ORDER BY puts first: online before others, known
architecture before unknown, then the fewest running. `created_at` is stored
with a resolution of one second, so ties are broken arbitrarily; the same holds
for `queued_at`, which is why `queuedAt` is a number of seconds that tasks may
share (`MaxSecond`).

**Abstractions.** All tasks are built for one architecture; a host's is
"same", "other" or not known. "offline" stands for offline and unavailable,
which no code tells apart. `DockerfileSnapshot`, labels and messages are left
out. The goroutine's `killed` set records that a user canceled a registered
command; a killed command may still end well, badly or by the deadline, since
the kill may come after its work is done.

**Failures.** `Faults` says what may go wrong: a `"lookup"` of a host, registry or
credential, which closes the task; a statement on the task rows (`"sql"`), which
does not: the call returns, or the goroutine ends, and the row stays as the last
commit left it; the files (`"prepare"`), the artifact (`"record"`), the request
(`"abort"`).

**Dead code.** The statuses `created`, `preparing_context` and `build_success`
are in the status sets, as in the code, and never reached: no caller completes
a build with success, and `StartBuild` goes from dispatching to building. The
branch `UNSUPPORTED_HOST` of `Start` cannot be taken because host types are
validated on input, and has no action. The branch `HOST_NOT_FOUND` can be taken,
but only for a deleted host, and then giving the slot back fails, so that it
succeeds only for a task that already ended.

### How `BuildTask` implements `TaskLifecycle`

`LifecycleSpec` instantiates the abstract module with `capacity <- maxSlots`;
the other variables have the same names. The abstract module knows no counter,
no request and no connection: it counts the active tasks themselves. So the
refinement says that the counters, the SELECT outside its transaction, the
races of starts, the late completions and the rolled-back releases never amount
to a placement above a limit, a second beginning, a second end, an end the
stage does not allow, or a success without a published artifact.

### How `PostgresDispatch` corresponds to the code

With ten connections at READ COMMITTED a SELECT sees committed rows and locks
none; an UPDATE waits for the row, keeps it, and is visible with the COMMIT. So
each statement is a step (`ReadTask` = `findByID`, `CountRunning`, `SelectHost`,
`UpdateHost` = `incrementHostRunning`/`decrementHostRunning`, `UpdateTask`,
`Commit`), and the counter, which the UPDATE computes from the locked row,
changes with the commit. `MayProceed` is what each transaction requires of the
status it *read*; only `StartBuild` and `StartPush` put that condition in the
UPDATE. A task may therefore be placed, and its build launched, again: each
launch has a goroutine of its own (`Goroutines`, bounded by `MaxLaunches`).
The failures of `Start` and changes of hosts are left to `BuildTask`.

`ApartSpec` has the behaviours of this module in which no two calls that have read
their task and not yet committed (`Decided`) work on one task. All that goes wrong
with a task on Postgres, a counter that drifts, a second launch, a final status
that is overwritten, takes such an overlap: of `ApartSpec` the opposite is proved. A
`findByID` that locks the row it reads (`SELECT ... FOR UPDATE`) would make
`ApartSpec` the whole behaviour. The misses of the limit and of a host's capacity are
of another kind, between different tasks, and remain.

### How `VersionGraph` corresponds to the code

`CreateProject` is the transaction of `CreateProjectWithInitial`; `CreateNode`
is the service's reading of the branch head, `CreateNodeTx` the transaction of
`Repository.CreateNode`, so that two requests can read one head. Since rows of
these tables are never deleted, a lookup that only asks whether a row exists is
part of the step that needs it. `inserted` and `at` are the order in which nodes
were inserted. `GraphProject`, `GraphBranches`, `GraphNodes` are the three queries
of `Graph`, `DiffLeft` and `DiffRight` the two of `DiffNodes`. A Dockerfile is a
sequence of lines, of which `FromLines` are FROM instructions, and `Hash` is an
injective function. Names, descriptions, form snapshots and lists are left out.

### How `Registries` and `TaskCreation` correspond to the code

`CreateRegistry` stores the credential, `InsertRegistry` the row; `ReadForUpdate`
and `UpdateRegistry` are the same for Update; `ClearPull` and `ClearPush` are the
two statements of `clearDefaults`. `at` is `created_at`, taken before the row is
written, so rows created at one time compare equal; `FindDefaultPush` and
`FindDefaultPull` take a newest one. `torn` remembers that a request was cut off
within the clearing. The steps of `TaskCreation` are the lookups of
`Service.Create` in their order (`AskProject`, `AskNode`, `AskRegistry`,
`AskPull`), then the transaction (`CreateTask`); `gone` remembers which registries
were deleted when the request began.

### How `HostRegistry`, `Accounts` and `ApiRequests` correspond to the code

`CreateHost`/`InsertHost`, `ReadHost`/`UpdateHost` and `CheckHost`/`StoreCheck`
are the two halves of Create, Update and Check; `RestartServer` ends every request
and runs `EnsureDefaultLocalHost`. `checkSSH` ends well with the last command of
its script, so a host that can be reached is online, with Docker or without
(`CheckSSH`). `RequireAdmin` admits a request with the user as it is at that
moment; `UpdateUser` is the check of the service and `UpdateUserRow` the
statement. A session that expires is like one that was deleted.

A request of `ApiRequests` goes through `CsrfCheck`, `Authenticate`, `Handle` and
`Record`. `Handle` may answer with any status the handlers use and may have
changed something even if it then fails. `late` is set by the timeout or by a
client that left, and ends neither the handler nor the audit row, which is
written in a context of its own; `lost` is set when the INSERT of the row fails,
the handler panics or the process ends. `Areas` are the route groups with their
roles; the artifact routes are mounted without the audit middleware.

### How `Artifacts`, `Executor` and `BuildFiles` correspond to the code

`RecordPushed` is one transaction, of a build (`BuildPushed`) or at the end of a
repush (`RepushRecorded`). A repush runs in the request's context, so
`RepushTimesOut` may strike after the image has reached the registry.

Each call of the executor is the sequence of its commands (`BuildLocal`,
`BuildSSH`, `PushLocal`, ...). A command that succeeds pushes its deferred cleanup
(`DeferredFor`), `CommandFails` may have had its effect or not, and `Unwind` runs
the cleanups, of which those that are commands themselves may fail. `login` is the
set of docker configurations that hold credentials: that of the operation, `home`
of the server's user and `remoteHome` of the SSH user; `UsedConfig` says which one
a command reads. `image` is what a reference names on a host, and `moved` remembers
that another operation gave the reference away.

In `BuildFiles` a line of a log is known by its number, a file or directory is
`fresh` or `old`, and `TimePasses` makes the files of a task old when nothing works
on them: no build and no start outlives the retention period. `MakeContext` leaves
the time of a directory that exists as it is, which is what `os.MkdirAll` does.

### How `Migration` corresponds to the code

Each server walks through the versions: read the mark, insert it dirty, commit the
SQL, mark clean. It may die at any point, and others run side by side. The INSERT
fails when the row exists. A dirty migration ends every later start.

## 3. What is checked

| Run | Question | Instance |
| --- | --- | --- |
| `requests` | do counters, limits, single launch and live goroutines survive every interleaving? | 2 tasks, 1 host, scheduler and 1 arbitrary request; capacity up to 2, limit 1; lookups, preparation and recording may fail |
| `failures` | do artifact, status and life cycle survive lost requests, failing steps, a deleted host and a restart? | 1 task, 2 racing requests, 1 restart, every fault |
| `placement` | does a task, or its retry, only run where it asked to, and never on a full host? | 2 tasks, 2 hosts that are switched and resized, limit 2, capacity up to 2 |
| `progress` | does every queued task end, and is a task left dispatching by a dead server taken up? | 2 tasks, 1 host that is switched and checked, limit 1, 1 restart; fairness |
| `pg_overlap` | on Postgres, how far off can the limit and the capacity of a host be, how often is one build launched, and do transactions always end? | 2 tasks, 1 host with 1 slot, scheduler and 1 arbitrary request, 3 launches |
| `catalog` | are graph, defaults, credentials and the snapshots of tasks right under overlapping requests? | 2 projects, 2 branches, 3 nodes; 2 registries, 2 credentials; 2 tasks; 2 requests of each kind, 1 that creates tasks |
| `platform` | are hosts, accounts, requests, artifacts, the executor, files and migrations right, each in every interleaving? | 2 hosts, keys and requests; 2 users, 1 session, 2 requests; 2 API requests; 3 artifacts, 2 repushes; 2 operations of the executor on 2 references; 1 task with 2 starts, 1 viewer, 4 log lines; 3 processes, 3 migrations |
| `leak` | *violation*: the connection always comes back | 1 task, scheduler, 1 cancel |
| `pg_counter` | *violation*: counters return to normal on Postgres | 1 task, scheduler and 1 cancel |
| `lastadmin` | *violation*: an active administrator stays | 2 users, 2 requests |
| `sharedlogin` | *violation*: a local build has the credentials of its pull registry | 2 operations |
| `remotelogin` | *violation*: a remote build uses the configuration that was logged in for it | 1 operation |

Each violated property quotes the document that states it; see "findings" in
`PROJECT.json`.

**One instance, several parts.** `MCCatalog` and `MCPlatform` hold parts that
share no state as they are modelled. Their variable `focus` is chosen in the
initial state and says which part a behaviour explores; the others do not move.
What is checked of each part is what a run of its own would check.

**Bounds, and why they are enough.** Two tasks compete for one slot, one limit
and one queue head, and a third adds another waiter of the same kind. Races on
one task need two actors besides its goroutine: `requests` has the scheduler and
a request, `failures` two requests and the scheduler. One restart strikes at
every position of every other actor. A capacity of two is the least that can be
lowered under a running task. `MaxSecond = 0` makes all tasks tie in the queue,
which allows every order. `pg_overlap` follows a behaviour up to three launches
(`MaxLaunches` of one task, `FewLaunches` of both together), one more than its two
dispatchers can cause for one task, so that a launch too many would be seen; its
four properties are proved for any number of launches.

In `catalog` three nodes are the root of a project and two that race on its
branch, or the roots of two projects and one node that might cross over; two
registries are enough for two defaults of a kind; two tasks are a task and its
retry, or two that race. In `platform` two hosts and two keys can be swapped or
shared; two operations of the executor share a reference or a configuration, or
do not; three processes are two that race and a third that starts after a death.
A log of four lines is written, truncated and written again under a viewer.

What is cut for size, and why it loses nothing that a property tells apart:

- `InOrder`: an unused identifier is taken in order, since which one `id.New`
  returns does not matter. It stands for symmetry, and so does `SYMMETRY`, over
  requests, which is sound because the properties of these runs are safety
  properties.
- `FewContents`: only one node changes its content, as `DiffNodes` alone tells
  contents apart.
- `FirstChecked`: a check touches one row; only the first host is checked.
- `Usual`: the second API request is an ordinary write; the first is of any form.
- `Seeded`: tasks are created from a database with a project, a registry that is
  both defaults, and one the project names, while rows are archived, rewritten,
  disabled and deleted.
- In `catalog` nothing is explored after a request was cut off within the clearing of
  defaults (`torn`), which leaves two defaults until the next save.

`CHECK_DEADLOCK FALSE` is set where a run really may stop: all tasks may have
ended, the scheduler may have taken the connection for good (run `leak`), or the
instance has used its identifiers up.

**Fairness.** `FairSpec` of `BuildTask` assumes weak fairness of the scheduler, of
each goroutine and of a request under way: the ticker fires, goroutines are
scheduled, requests are answered. An external command ends because the deadline
of `runBuild` bounds it, which supposes a positive `build.timeout_minutes` (a
value of zero or less removes the deadline). Users and administrators owe
nothing, and no statement fails: a goroutine that its own statement ends keeps the
slot for which others wait. `QueuedTasksEnd` is checked with requests that only create and retry:
requests that keep the connection busy without end could starve a goroutine
under weak fairness alone. The other modules promise no progress: their operations are
requests, which end or are cut off.

**What the properties are about.**

- `HostSlots`: `current_running` of a host equals its active tasks, always.
- `GlobalLimitHeld`: scheduler, dispatch and start requests together respect
  the limit, because counting and placing are one transaction. With Postgres
  transactions overlap, and `OvershootBounded` says by how much the limit is missed.
- `LaunchedOnce`: `runBuild` is launched at most once per task, thanks to the
  status condition of the UPDATE in `StartBuild`.
- `ActiveIsExecuted`: a building or pushing task has its goroutine. Checked
  without restarts, aborted requests, failing statements and deleted hosts, which
  break it: a request aborted between the UPDATE and the SELECT of `StartBuild`, or
  a goroutine whose own statement fails, leaves the task building for ever, and a
  restart or a deleted host does the same. `LifecycleSpec` of run `failures`
  covers those cases: the task is not begun again nor ended as something else.
- `GoroutineNeverLeaks`: no goroutine takes the `ErrInvalidState` exit of the
  completions. The leaking code is there; this says that no interleaving reaches
  it from a goroutine, while `leak` shows that one reaches it from the scheduler.
- `PublishedStatus`, `SuccessHasArtifact`: late completions,
  timeouts and cancels against the recorded artifact. `PublishedStatus` admits
  `preparing_context_failed`: of two concurrent starts the later one may fail to
  prepare its files and close a task the other is already pushing.
- `RequestedHostUsed`: also through a retry, and whatever happened to the host.
- `LifecycleSpec`: the refinement above; also that a task that ended keeps its status,
  which `EndIsFinal` says by itself and theorem `EndsAreFinal` proves.
- `OvershootBounded` (Postgres): a counted transaction that has not placed yet
  may miss the limit by its one task, but misses do not add up over time.
- `HostOvershootBounded` (Postgres): the same for the slots of a host, which
  `selectHost` reads before the UPDATE that takes one; the bound is on the counter.
- `LaunchesBounded` (Postgres): `markDispatching` looks at no status, so each caller
  that read its task queued may place it and have it launched again, but no more:
  nothing puts a task back into the queue.
- `CountersExact`, `LaunchedOnce`, `PathsKept` (Postgres, of `ApartSpec`; proved, without
  a run): a counter
  is the number of active tasks in the middle of calls too, a build is launched
  once, and a status follows the paths of docs/07:102 although the UPDATEs look at
  none: the goroutine that reports a failed build is the only one of its task, so
  that nobody begins the push meanwhile. `pg_counter` shows what one overlap does:
  a dispatch and a cancel that both read the task queued leave a slot counted.
- `LocksAreReleased` (Postgres): every transaction locks the host before the
  task, so none waits in a circle, and no return leaves a locked row behind,
  because the returns without rollback all precede the first UPDATE.
- `GraphConnected`, `HeadsAreLast`: every version descends from the one root of its
  project; heads and the latest version are the nodes inserted last, although the
  parent was read before.
- `AnswersAreSound`: `Graph` refers to no node it does not contain, because it reads
  the project first and the nodes last; a diff reconstructs both sides.
- `ArchiveIsFinal`: an update that read the row before does not undo an archiving.
- `OneDefaultAtRest`: requests that set defaults at one time leave one or none.
- `CredentialStored`: no registry refers to a credential that is not there.
- `DecisionStands`, `HostDecisionStands`: late results never touch a deleted row, and
  enable a disabled one only if they had read it before.
- `TaskRecords`: content, hash and project of a task are of one row, a retry builds the
  same, the latest pointers are right. `NoTaskOnDeletedRegistry`: a request that
  begins after the deletion of a registry does not end up using it.
- `KeyIsOwn`: no two hosts share an SSH key, which an update would overwrite.
- `LastAdminByStaleActor`: the last administrator is only removed by one whose own
  standing has gone since; `lastadmin` shows that this happens. `ResetIsKept`: an update
  of a user does not bring the old password back.
- `AuditIsTrue`: one row per request with the user that was admitted and the status
  that was answered, and none missing unless a panic, a failed INSERT or the end of the
  process took it.
- `ArtifactHistory`: artifacts, successful events and what is in the registry agree.
- `PushLoggedIn`, `LeftoversFailed`, `OwnImage`: the executor's credentials, cleanups and
  images when operations share a machine.
- `RunningKeepsFiles`, `StreamIsFaithful`: the cleaner and the starts against a build
  and its viewers; the exceptions, files that were old before and a truncated log, are
  named in the properties.
- `SchemaWhole`: each migration is committed once, in order, and nobody serves before.

## 4. What is proved

For every value of the constants that meets the named assumptions, hence for any
number of tasks, hosts, nodes, registries, users, processes and requests:

| Theorem | Statement | Argument |
| --- | --- | --- |
| `BuildTaskProofs.TypeCorrect` | `Spec => []TypeOK` | `TypeOK` is inductive; lemma `ArgTyped` says that a call standing at a position that uses its task has one |
| `EndsAreFinal` | `Spec => EndIsFinal` | lemma `StepHasShape`: every step moves at most one task, along one of the arrows of the life cycle, and no arrow leaves a final status |
| `CountersAreRight` | `Spec => []HostSlots` | `SlotInvariant`: the counters are right *and* every active task is on a host (`Housed`); without the second part a settled task could give a slot to nobody. From `StepHasShape` a step adds one holder, removes one, or leaves the sets alone, and the cardinality follows |
| `LimitHolds` | `Spec => []GlobalLimitHeld` | only a placement enters the active set, and it counts first in the same transaction |
| `OneLaunch`, `GoroutinesNeverLeak` | `Spec => []LaunchedOnce`, `Spec => []GoroutineNeverLeaks` | `RunnerInv` below |
| `ImplementsLifecycle` | `Spec => LifecycleSpec` | lemma `StepHasKind`: besides the arrow it takes, what a step does to the host, the launch and the artifact of its task; with `ProgressInv` below each kind is a step of the abstract life cycle, or a stutter |
| `PublishedAreNotFailed`, `SuccessIsRecorded` | `Spec => []PublishedStatus`, `Spec => []SuccessHasArtifact` | `ProgressInv`: once the artifact is recorded the goroutine stands at `recorded` or is gone, and the row is pushing, succeeded or closed from outside |
| `RequestsAreHonoured` | `Spec => []RequestedHostUsed` | a step that gives a task a host is a placement, which looks at the requested one; a retry copies the request |
| `ActiveTasksAreExecuted` | `ASSUME Calm PROVE Spec => []ActiveIsExecuted` | `Calm`: no restart, no abandoned request, no failing statement on the task rows, no deleted host. Each of the four breaks the property, and run `requests` has the same four hypotheses; lookups, preparation and recording may fail. The end of a goroutine then always ends its task |
| `PostgresDispatchProofs.TypeCorrect`, `LocksReleased` | Postgres: `Spec => []TypeOK`, `Spec => []LocksAreReleased` | with `RecordInv`, what the position of a call says of the rest of its record |
| `OvershootIsBounded` | Postgres: `Spec => []OvershootBounded` | a commit that places moves one from the counted transactions to the active tasks; counting resets the sum, since the counted are at most all dispatchers |
| `SchedulerAloneHoldsLimit` | if requests do not dispatch, `Spec => []GlobalLimitHeld` on Postgres | the bound above with one dispatcher |
| `HostOvershootIsBounded` | Postgres: `Spec => []HostOvershootBounded` | as for the limit, with `PickInv` (who has not selected yet has no host); an UPDATE computes the counter from the locked row, so that no increment is lost |
| `LaunchesAreBounded`, `SchedulerAloneLaunchesOnce` | Postgres: `Spec => []LaunchesBounded`; `[]LaunchedOnce` if requests do not dispatch | `LaunchInv`: the launches of a task, the one a dispatching task has to come, and the dispatchers that still believe it queued (`Stale`) number at most all dispatchers; once it has left the queue, no one joins them |
| `ApartCountersAreExact`, `ApartLaunchesOnce`, `ApartEndsAreFinal` | Postgres: `ApartSpec => []CountersExact`, `[]LaunchedOnce`, `EndIsFinal` | `ApartInv`: what a call has read of its task is true until it commits; the statements that are transactions of their own only advance a stage, which takes no slot and ends nothing |
| `ApartKeepsPaths` | Postgres: `ApartSpec => PathsKept` | `GoroutineInv` (a goroutine was launched under a number of its own, and reports on its own task as it ends) and `OnceInv` make it the only one of its task; with them `ExpectInv`: from the status a task has *now* to what a call will set it to is a path |
| `SchedulerAloneFillsHosts` | if requests do not dispatch, `ApartSpec => [](\A h : at most MaxSlots holders)` | exact counters and the bound on them give a bound on the tasks themselves |
| `GraphStaysConnected` | `GraphSpec => []GraphConnected` | a new node hangs below a node of its project: a set closed under children holds, without the new node, all old ones, so its parent, so the node itself |
| `HeadsStayLast` | `GraphSpec => []HeadsAreLast` | `NodeInv` and `BranchInv`: references stay in one project, and no node is newer than the count of insertions |
| `ArchivingIsFinal` | `GraphSpec => ArchiveIsFinal` | case by case, with the rows `InsertInv` says a request has found |
| `ServedIsSound` | `GraphSpec => []AnswersAreSound` | `ReadInv`: what `Graph` read first are nodes of the project, and `NodesRemain`; lemma `DiffLines` for `unifiedDiff`, of any two files |
| `OneDefaultHolds` | `RegistrySpec => []OneDefaultAtRest` | `DefaultInv`: whenever there are two defaults of a kind, a request exists that will clear the others, or one was cut off there |
| `CredentialsAreStored`, `RegistryDecisionsStand` | `RegistrySpec => []CredentialStored`, `RegistrySpec => DecisionStands` | `RegistryInv`: what the step of a request says of its record, and that a row that does not exist is blank |
| `CreationIncludesParts` | `CreationSpec => GraphSpec /\ RegistrySpec` | a step of a creation changes neither part: all theorems about them hold while tasks are created |
| `CatalogTyped`, `RecordsAreTrue`, `DeletedStayUnused` | `CreationSpec => []CatalogTypeOK`, `[]TaskRecords`, `[]NoTaskOnDeletedRegistry` | `CreationInv` = `HashInv` (a hash is of its content), `AskingInv` (what a request has looked up is of one row, and no registry that was gone when it began), `TaskInv` (rows are numbered in the order of insertion, so a new row is the last) |
| `KeysAreOwn` | `HostSpec => []KeyIsOwn` | `ClaimInv`: a key is claimed by the row that refers to it and by the request that is about to write it, and no two hosts claim one |
| `HostDecisionsStand` | `HostSpec => HostDecisionStands` | with `HostInv`, as for registries |
| `LastAdminNeedsStaleActor` | `AccountSpec => LastAdminByStaleActor` | `ActingInv`: a request that updates its own user leaves it an active administrator, so whoever removes the last one is another, who is none any more |
| `ResetsAreKept` | `AccountSpec => ResetIsKept` | of the steps that write users only one writes the password of a user that exists |
| `ApiIncludesAccounts` | `ApiSpec => AccountSpec` | requests use accounts only by the operations of accounts |
| `RequestsTyped`, `AuditTellsTruth` | `ApiSpec => []ApiTypeOK`, `ApiSpec => []AuditIsTrue` | `ApiInv`: a row is of a request that is over, at most one each, with its user and status; a request that changed something is on its way to the log, or in it, or lost its row |
| `HistoriesAgree` | `ArtifactSpec => []ArtifactHistory` | `ArtifactInv`: a repush that has pushed knows an artifact that exists and what it pushed is in the registry; identifiers are drawn in order |
| `FilesAreKept`, `StreamsAreFaithful` | `FileSpec => []RunningKeepsFiles`, `FileSpec => []StreamIsFaithful` | `FileInv` below |
| `PushesAreLoggedIn`, `LeftoversAreFailures`, `ImagesAreOwn` | `ExecSpec => []PushLoggedIn`, `[]LeftoversFailed`, `[]OwnImage` | `ExecInv` below |
| `SchemaIsWhole` | `MigrationSpec => []SchemaWhole` | `StepInv` and `OneHolder`: the versions before that of a process are clean, and the INSERT of a mark is won by one process for good |
| `PlatformIncludesParts`, `PlatformKeepsPromises` | `PlatformSpec => HostSpec /\ ArtifactSpec /\ ExecSpec /\ FileSpec /\ MigrationSpec`, and the properties run `platform` checks of them | a step of the platform is a step of a part or leaves it alone, and it begins where the part begins |
| `PlatformTyped`, `PlatformAudited`, `PlatformLastAdmin`, `PlatformResets` | `PlatformSpec => []PlatformTypeOK`, `[]AuditIsTrue`, `LastAdminByStaleActor`, `ResetIsKept` | requests begin with anyone signed in, and users are disabled beside them, so `AccountSpec` does not hold; `AccountInv` and `ApiInv` do, step by step (`InitUsers`, `DisabledKeeps`) |

`RunnerInv` relates the three records of a task's progress that the code keeps
apart: the position of its goroutine fixes which statuses the row can have
(`StageInv`), a task that was never launched and is not yet building has no
goroutine (`LaunchInv`), and at most one call is between the UPDATE of
`StartBuild` and `go runBuild`, for a task not launched before (`ClaimInv`).
None of the three is inductive alone.

`ProgressInv` adds what the row, the goroutine and the artifact say of each other
at each stage (`AtStage`) and afterwards (`AtEnd`). It needs `Reached` (the statuses
`created`, `preparing_context` and `build_success` exist in the code but no row
ever has them, so no row leaves them), `CallInv` (a call that prepares or closes a
task has seen it placed, and a task is not placed twice) and `RunnerInv`.

In the modules with requests of several statements the induction has one shape.
The property speaks of rows; a statement writes what its request read earlier; so
the invariant says of each position of a request what is still true of what it
has read (`InsertInv`, `SavingInv`, `AskingInv`, `WorkInv`, `ActingInv`, `StepInv`,
`RepushInv`), and the steps of the others must keep that. Where a row can be deleted
or changed in between, the invariant says less, and the property is as weak as the
code is: the actor of an update may have lost his standing, a check may have read
a host before it was disabled.

`FileInv` is of that shape too, with the cleaner as one more reader: what it has
decided to remove is old still (`RemoveInv`), what a build or a start uses is not old
(`KeepInv`), unless the task is one whose files were old before, which the property
excepts. A stream has sent a prefix of the log as long as its offset (`StreamInv`), and
one that saw its task ended found a log nothing appends to any more (`EndedInv`).

`ExecInv` is an induction over sequences that are not known: what is left of a call
depends on where it was cut. It says what the rest of a call still holds and in
which order. Lemma `PlansHold` describes the sequence each call begins with (`Plan`:
the commands it holds, `Ordered`: which may follow which), `TailElems` and
`ConcatElems` carry that over steps, and each part of the invariant relates commands
to come, deferred cleanups and failures:

- `LoginInv`: before its push a call has a login to come or is logged in;
- `LeftInv`: what is on a host has a cleanup deferred or something failed, and there
  are as many key files as deferred removals of one (`CountOf`);
- `HomeInv`: the user's own configuration is logged in by a build that will log out;
- `ImageInv`: once nothing is to be built or tagged, the reference names the image of
  the operation, unless it was moved.

Theorem `ExecTyped` adds `KeyInv`: key files there and to come are at most two.

The proofs use the named assumptions of the modules and no others: of `BuildTask`
finitely many tasks, a natural limit, a positive bound on the capacity, distinct
names; of `PostgresDispatch` finitely many tasks and requests, natural limits,
distinct names; of the other modules that the constants for "no row", "no token",
"no image" and the like are no identifiers (`NoCredentialIsNoId`, `NoneIsNoRegistry`,
`NoArtifactIsNoId`, `NoImageIsNoOp`, ...) and the names of the shared docker
configurations no operations (`HomeIsNoOp`), that the inputs considered are well formed
(`InputsAreRows`, `ResultsAreChecks`, `StatusesAreValid`, `SecretsAreFlags`), that there
are finitely many registries (`created_at` counts them) and some password, token and
reference, in `MCPlatform` some user (`SomePassword`, `SomeToken`, `SomeRef`, `SomeUser`), and that what is counted is a number
(`LastIsNumber`, `DaysAreNumbers`, `MaxLinesIsNumber`, `ArtifactIdsAreNumbers`). TLC
evaluates them in the runs of the module. `Calm` is no assumption of a module but a
hypothesis of the one theorem that names it.

**Only model-checked:** the liveness properties `QueuedTasksEnd` and
`DispatchingTasksStart`, which like all statements about fairness are out of the
reach of the proof system. Every other property of a passing run is a theorem. The
properties of the *violation* runs do not hold of the code; `CountersSettle`, which
`CountersExact` implies, holds of `ApartSpec`. **Only proved**, without a run: what the
table says of `ApartSpec`, what it says of a scheduler that alone dispatches,
`EndIsFinal`, which the refinement implies, and the type invariant of
`PostgresDispatch`.

## 5. What is not modelled

In the core: failing statements of `Create` and `Retry` (rolled back with their
transaction) and of the settings (defaults are used), changes of the global limit at run
time (it is a constant, possibly zero), the page size of 100 in `startDispatchingTasks`.
Of the other modelled parts: lists, pages, filters, names, labels, descriptions,
endpoints, encryption and hashing, the framing of the log events and the offset a viewer
may ask for. What a probe of a host or a registry finds is arbitrary.

Not at all: Dockerfile generation (a pure function whose subject is wording), the
dashboard (read-only counting queries), configuration (read once), the web
interface (it keeps no state the server relies on).

### Seen while modelling, without a run of its own

The models reach, or the code plainly shows:

- a host that answers SSH is online even if it has no Docker, because the check's
  script ends with another command; offline hosts are chosen when no other is left
  (docs/07:584);
- a killed build is reported as whatever the goroutine saw first (docs/11:55); a task
  on a deleted host cannot be canceled (docs/06:979); slots of a dead server stay
  counted (docs/07:577);
- on Postgres the global limit can be exceeded (docs/07:561), by as much as
  `OvershootBounded` says, and the slots of a host by as much as `HostOvershootBounded` says
  (docs/07:563); a build can be launched again, as often as `LaunchesBounded` says;
- the cleaner looks at ages only, not at whether a task runs (docs/07:220), and a context
  directory that is prepared again does not get any younger;
- a goroutine that cannot read its task, move it on to pushing or close it logs the
  error and ends: the task stays building or pushing with its slot until somebody
  cancels it (service.go:420, 509, 552, 558); `FindByID` after a committed UPDATE is
  one of these reads (repository.go:315, 441);
- a COUNT that fails leaves the dispatch transaction open (repository.go:189), as
  `ErrInvalidState` does;
- the remote directory stays when an upload fails halfway (docs/07:299);
- a request cut off within `clearDefaults` leaves two defaults; the newest is used;
- two first requests create two administrators;
- artifact and authentication routes leave no audit rows (docs/08-security.md:391 lists
  login, logout and repush), nor does a handler that panics;
- the endpoint of a registry can change between the reference of an image and its login.

## 6. Plan

Modelling is complete as far as section 5 says, and every safety and action property
that a passing run checks is a theorem. What would be worth adding as the code
changes:

1. If `findByID` comes to lock its row, `ReadTask` takes the lock, `ApartSpec` gives way
   to `Spec`, and run `pg_counter` has to turn into a passing one.
2. Today nothing writes what a task was created with, nor an artifact's origin. Once
   something does, an action property that says when.
