---------------------------- MODULE TaskCreation ----------------------------
(***************************************************************************)
(* Creating build tasks: Service.Create and Service.Retry of the build     *)
(* task service, over the version graph and the registries that            *)
(* maintainers and administrators change meanwhile.  Create makes four     *)
(* lookups, each its own query, before the transaction that inserts.       *)
(***************************************************************************)
EXTENDS VersionGraph, Registries

CONSTANTS Builds,   \* identifiers of build_tasks rows
          Builders  \* requests that create tasks, in flight at one time

ASSUME NoneIsNoRegistry == None \notin Registries

VARIABLES task,       \* what Create copies into build_tasks
          latestTask, \* latest_build_task_id of projects and of nodes
          asking      \* what each request has found so far

taskVars == <<task, latestTask>>
creationVars == <<graphVars, registryVars, taskVars, asking>>

NoTask == [exists |-> FALSE]

Asking(c, step) == asking[c].step = step
Refuse(c) == asking' = [asking EXCEPT ![c] = Idle]
Found(c, a) == asking' = [asking EXCEPT ![c] = a]

\* mutant: a deleted registry is found
RegistryFoundDeleted(r) == r \in Registries /\ registry[r].exists

\* registry.Repository.FindByID
RegistryFound(r) == r \in Registries /\ Live(r)

\* The project must be active; its default registry is kept.
AskProject(c, p, n, named, namedPull) ==
    /\ Asking(c, "idle")
    /\ project[p].status = "active"
    /\ asking' = [asking EXCEPT ![c] =
         [step |-> "node", project |-> p, node |-> n, file |-> None, hash |-> Hash(None),
          pull |-> namedPull,
          registry |-> IF named = None THEN project[p].registry ELSE named,
          gone |-> {r \in Registries : registry[r].deleted}]]
    /\ UNCHANGED <<graphVars, registryVars, taskVars>>

\* The node must be of the project and not archived; Dockerfile and hash are
\* the ones of this row.
AskNode(c) ==
    LET a == asking[c]
        n == a.node
    IN /\ Asking(c, "node")
       /\ IF FindNode(a.project, n) /\ node[n].status # "archived"
            THEN Found(c, [a EXCEPT !.step = "registry", !.file = node[n].file,
                                    !.hash = node[n].hash])
            ELSE Refuse(c)
       /\ UNCHANGED <<graphVars, registryVars, taskVars>>

\* resolveRegistry: the named registry, else the project's, else a default.
Resolved(r) == IF r # None THEN {q \in {r} : RegistryFound(q)} ELSE DefaultPush

AskRegistry(c) ==
    /\ Asking(c, "registry")
    /\ \/ \E r \in Resolved(asking[c].registry) :
            IF registry[r].push /\ registry[r].status # "disabled"
              THEN Found(c, [asking[c] EXCEPT !.step = "pull", !.registry = r])
              ELSE Refuse(c)
       \/ Resolved(asking[c].registry) = {} /\ Refuse(c)
    /\ UNCHANGED <<graphVars, registryVars, taskVars>>

\* normalizePullRegistryID: without a named registry or a default, none.
PullCandidates(r) == IF r # None THEN {q \in {r} : RegistryFound(q)} ELSE DefaultPull

AskPull(c) ==
    LET a == asking[c]
        named == a.pull
    IN /\ Asking(c, "pull")
       /\ \/ \E r \in PullCandidates(named) :
               IF registry[r].pull /\ registry[r].status # "disabled"
                 THEN Found(c, [a EXCEPT !.step = "insert", !.pull = r])
                 ELSE Refuse(c)
          \/ /\ PullCandidates(named) = {}
             /\ IF named = None THEN Found(c, [a EXCEPT !.step = "insert"]) ELSE Refuse(c)
       /\ UNCHANGED <<graphVars, registryVars, taskVars>>

\* Repository.Create: the row and updateLatestTask, in one transaction.
InsertTask(t, row) ==
    /\ ~task[t].exists
    /\ task' = [task EXCEPT ![t] = row]
    /\ latestTask' = [latestTask EXCEPT !.project[row.project] = t, !.node[row.node] = t]

NextAt == Cardinality({t \in Builds : task[t].exists}) + 1

\* mutant: the content is read again when the task is inserted
CreateTaskRereads(c, t) ==
    LET a == asking[c]
    IN /\ Asking(c, "insert")
       /\ InsertTask(t, [exists |-> TRUE, project |-> a.project, node |-> a.node,
                         registry |-> a.registry, pull |-> a.pull, file |-> node[a.node].file,
                         hash |-> a.hash, retryOf |-> None, at |-> NextAt])
       /\ Refuse(c)
       /\ UNCHANGED <<graphVars, registryVars>>

CreateTask(c, t) ==
    LET a == asking[c]
    IN /\ Asking(c, "insert")
       /\ InsertTask(t, [exists |-> TRUE, project |-> a.project, node |-> a.node,
                         registry |-> a.registry, pull |-> a.pull, file |-> a.file,
                         hash |-> a.hash, retryOf |-> None, at |-> NextAt])
       /\ Refuse(c)
       /\ UNCHANGED <<graphVars, registryVars>>

\* Retry copies the row of the task: node and registry are not looked up again.
RetryTask(t, u) ==
    /\ task[u].exists
    /\ InsertTask(t, [task[u] EXCEPT !.retryOf = u, !.at = NextAt])
    /\ UNCHANGED <<graphVars, registryVars, asking>>

-----------------------------------------------------------------------------

TaskInit == /\ task = [t \in Builds |-> NoTask]
            /\ latestTask = [project |-> [p \in Projects |-> None], node |-> [n \in Nodes |-> None]]
            /\ asking = [c \in Builders |-> Idle]

TaskNext ==
    \/ \E c \in Builders, p \in Projects, n \in Nodes :
          \E r, q \in Registries \union {None} : AskProject(c, p, n, r, q)
    \/ \E c \in Builders : AskNode(c) \/ AskRegistry(c) \/ AskPull(c)
    \/ \E c \in Builders, t \in Builds : CreateTask(c, t)
    \/ \E t, u \in Builds : RetryTask(t, u)

CreationInit == GraphInit /\ RegistryInit /\ TaskInit
CreationNext == \/ TaskNext
                \/ GraphNext /\ UNCHANGED <<registryVars, taskVars, asking>>
                \/ RegistryNext /\ UNCHANGED <<graphVars, taskVars, asking>>
CreationSpec == CreationInit /\ [][CreationNext]_creationVars

-----------------------------------------------------------------------------
(* Properties *)

\* The version graph and the registries stay well typed.
CatalogTypeOK == GraphTypeOK /\ RegistryTypeOK

Created == {t \in Builds : task[t].exists}

\* The Dockerfile a task will build and the hash recorded with it belong to one
\* another, and its node to its project, though the node is rewritten while the
\* request goes on (Create copies both from one row).
SnapshotConsistent ==
    \A t \in Created : /\ task[t].hash = Hash(task[t].file)
                       /\ node[task[t].node].project = task[t].project

\* A retry builds what the retried task built: content, hash and registries are
\* copied, though node and registries changed since.
RetrySameBuild ==
    \A t \in Created : task[t].retryOf # None =>
        LET u == task[task[t].retryOf]
        IN <<task[t].node, task[t].file, task[t].hash, task[t].registry, task[t].pull>>
             = <<u.node, u.file, u.hash, u.registry, u.pull>>

\* latest_build_task_id of a project and of a node is the task inserted last for
\* it (updateLatestTask in the transaction of the insertion).
LatestTaskIsLast ==
    LET IsLast(latest, own) == IF own = {} THEN latest = None
                               ELSE latest \in own /\ \A t \in own : task[t].at <= task[latest].at
    IN /\ \A p \in Projects : IsLast(latestTask.project[p], {t \in Created : task[t].project = p})
       /\ \A n \in Nodes : IsLast(latestTask.node[n], {t \in Created : task[t].node = n})

\* What the rows say of a task is what it will build and when it was created.
TaskRecords == SnapshotConsistent /\ RetrySameBuild /\ LatestTaskIsLast

\* A request that begins after a registry was deleted creates no task that pulls
\* from it or pushes to it, not even where a project still names it as its
\* default (the deleted_at filter of the lookups).
NoTaskOnDeletedRegistry ==
    \A c \in Builders : Asking(c, "insert") =>
        {asking[c].registry, asking[c].pull} \intersect asking[c].gone = {}

=============================================================================
