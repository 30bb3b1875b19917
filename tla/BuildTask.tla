------------------------------ MODULE BuildTask ------------------------------
(***************************************************************************)
(* The build task service on its SQLite deployment: the build_tasks and    *)
(* build_hosts rows, the scheduler, the HTTP requests that act on tasks,   *)
(* the goroutine that executes a build, the registry of cancel functions   *)
(* of the executor, and the one connection of the database pool.           *)
(*                                                                         *)
(* A database transaction is one step: the pool holds a single connection, *)
(* so transactions never overlap.  Everything the Go code does between two *)
(* statements (an external command, another goroutine, a lost request, the *)
(* death of the process) may happen between two steps.                     *)
(***************************************************************************)
EXTENDS Naturals, FiniteSets

CONSTANTS Tasks,        \* identifiers of build_tasks rows
          Hosts,        \* identifiers of build_hosts rows
          Clients,      \* HTTP requests in flight at one time
          Scheduler,    \* the goroutine of RunScheduler
          NoTask, NoHost, NoOwner,
          GlobalLimit,  \* scheduler.global_concurrency
          MaxSlots,     \* bound: max_concurrency values considered
          MaxRestarts,  \* bound: restarts of the server considered
          MaxSecond,    \* bound: seconds in which tasks are created
          Requestable,  \* requested hosts considered, NoHost for automatic
          ClientOps,    \* task operations the requests may ask for
          AdminOps,     \* host operations an administrator may perform
          Faults        \* failures of the environment that may occur

AllClientOps == {"create", "retry", "dispatch", "next", "start", "cancel"}
AllAdminOps == {"switch", "check", "resize", "delete"}
\* "lookup": a host, a registry or a credential is missing, refused or cannot be
\* read; "sql": a statement on the task rows fails; "prepare", "record": files and
\* artifact cannot be written; "abort": the request is cut off.
AllFaults == {"lookup", "sql", "prepare", "abort", "record"}

ASSUME TasksFinite == IsFiniteSet(Tasks)
ASSUME LimitIsNat == GlobalLimit \in Nat
ASSUME SlotsIsPositive == MaxSlots \in Nat \ {0}
ASSUME BoundsAreNat == MaxRestarts \in Nat /\ MaxSecond \in Nat
ASSUME RequestableHosts == Requestable \subseteq Hosts \union {NoHost}
ASSUME NamesAreDistinct == /\ NoTask \notin Tasks
                           /\ NoHost \notin Hosts
                           /\ Scheduler \notin Clients
                           /\ NoOwner \notin Tasks \union Clients \union {Scheduler}
                           /\ Tasks \intersect (Clients \union {Scheduler}) = {}

VARIABLES
    \* build_tasks
    status, host, wanted, queuedAt,
    \* build_hosts
    hostStatus, arch, maxSlots, running, deleted,
    \* image_artifacts: tasks with an artifact recorded as pushed
    published,
    \* one runBuild goroutine per task: its position, and how often it was launched
    runner, launched,
    \* tasks whose registered command a user canceled, until the goroutine ends
    killed,
    \* Start, Cancel, Dispatch and DispatchNext calls: position and task
    pc, arg,
    \* the scheduler's pass over dispatching tasks, and its remaining iterations
    scanning, todo, left,
    \* who left a transaction open on the only connection
    conn,
    restarts

taskVars == <<status, host, wanted, queuedAt>>
adminVars == <<hostStatus, arch, maxSlots, deleted>>
hostVars == <<adminVars, running>>
runVars == <<runner, launched, killed, published>>
callVars == <<pc, arg>>
loopVars == <<scanning, todo, left>>
vars == <<taskVars, hostVars, runVars, callVars, loopVars, conn, restarts>>

Callers == Clients \union {Scheduler}

Statuses == {"absent", "created", "queued", "dispatching", "preparing_context",
             "building", "build_success", "pushing", "push_success",
             "preparing_context_failed", "dispatch_failed", "build_failed",
             "push_failed", "canceled", "timeout"}

\* terminalStatus
TerminalStatuses == {"build_success", "push_success", "preparing_context_failed",
                     "dispatch_failed", "build_failed", "push_failed", "canceled",
                     "timeout"}

\* holdsHostSlot, and the statuses countRunning counts
SlotStatuses == {"dispatching", "preparing_context", "building", "build_success",
                 "pushing"}

\* retryableStatus
RetryableStatuses == {"preparing_context_failed", "dispatch_failed", "build_failed",
                      "push_failed", "canceled", "timeout"}

\* "offline" stands for offline and unavailable, which nothing tells apart.
HostStatuses == {"online", "unknown", "offline", "disabled"}

\* The architecture of a host compared with the one the tasks are built for:
\* "" before a check has found it.
Archs == {"", "same", "other"}

CallSteps == {"idle", "scan", "pick", "pickTx", "read", "startTx", "reread", "host",
              "failHost", "prepare", "failPrep", "startBuild", "launch",
              "cancelTx", "respond"}

RunnerSteps == {"none", "load", "toBuild", "building", "built", "buildErr",
                "pushLoad", "toPush", "pushing", "pushed", "recorded", "pushErr",
                "timeout"}

Exists(t) == status[t] # "absent"
Terminal(t) == status[t] \in TerminalStatuses
HoldsSlot(t) == status[t] \in SlotStatuses

\* The tasks countRunning counts.
Active == {t \in Tasks : HoldsSlot(t)}

\* The tasks that occupy a slot of h.
SlotHolders(h) == {t \in Tasks : HoldsSlot(t) /\ host[t] = h}

-----------------------------------------------------------------------------
(* Effects of the transactions *)

\* decrementHostRunning updates no row when the host was deleted, and the
\* transaction is then rolled back.
SlotReleasable(t) == HoldsSlot(t) => ~deleted[host[t]]

\* mutant: a task is closed without giving its slot back
SettleKeepsSlot(t, s) == /\ status' = [status EXCEPT ![t] = s]
                         /\ running' = running

\* The common tail of Cancel, FailTask, CompleteBuild and CompletePush.
Settle(t, s) ==
    /\ status' = [status EXCEPT ![t] = s]
    /\ running' = IF HoldsSlot(t)
                    THEN [running EXCEPT ![host[t]] = IF @ > 0 THEN @ - 1 ELSE 0]
                    ELSE running

\* mutant: a task that already ended is overwritten
FailTaskAnyStatus(t, s) ==
    IF SlotReleasable(t) THEN Settle(t, s) ELSE UNCHANGED <<status, running>>

\* FailTask: a terminal task is left alone; a deleted host rolls it back.
FailTask(t, s) ==
    IF ~Terminal(t) /\ SlotReleasable(t)
      THEN Settle(t, s)
      ELSE UNCHANGED <<status, running>>

FailTaskOK(t) == Terminal(t) \/ SlotReleasable(t)

\* CompleteBuild and CompletePush: like FailTask, but a task that is neither
\* terminal nor in the stage makes them return ErrInvalidState, which leaves
\* the transaction open in the hands of a goroutine that never cancels it.
Complete(t, stage, s) ==
    IF Terminal(t) \/ status[t] = stage
      THEN FailTask(t, s) /\ conn' = conn
      ELSE UNCHANGED <<status, running>> /\ conn' = t

\* mutant: the host's max_concurrency is not looked at
AcceptsFull(h) == ~deleted[h] /\ hostStatus[h] # "disabled" /\ arch[h] # "other"

\* Hosts that selectHost accepts, and the order it takes them in; hosts that
\* compare equal are told apart by created_at, which ties within a second.
Accepts(h) == /\ ~deleted[h]
              /\ hostStatus[h] # "disabled"
              /\ arch[h] # "other"
              /\ running[h] < maxSlots[h]

\* mutant: any host will do
CandidatesAny(t) == {h \in Hosts : Accepts(h)}

Candidates(t) == {h \in Hosts : wanted[t] \in {NoHost, h} /\ Accepts(h)}

\* The key of the ORDER BY of selectHost.
Key(h) == <<IF hostStatus[h] = "online" THEN 0 ELSE 1,
            IF arch[h] = "same" THEN 0 ELSE 1,
            running[h]>>

Preferred(g, h) == \E i \in 1..3 : /\ Key(g)[i] < Key(h)[i]
                                   /\ \A j \in 1..(i - 1) : Key(g)[j] = Key(h)[j]

BestHosts(t) == {h \in Candidates(t) : \A g \in Candidates(t) : ~Preferred(g, h)}

\* mutant: one more task than the limit
GlobalRoomOffByOne == Cardinality(Active) <= GlobalLimit

GlobalRoom == Cardinality(Active) < GlobalLimit

\* incrementHostRunning and markDispatching
Place(t, h) == /\ host' = [host EXCEPT ![t] = h]
               /\ status' = [status EXCEPT ![t] = "dispatching"]
               /\ running' = [running EXCEPT ![h] = @ + 1]

-----------------------------------------------------------------------------
(* Calls: bookkeeping *)

Goto(c, step) == pc' = [pc EXCEPT ![c] = step]

\* A call returns.  A request is answered.  The scheduler goes on with its
\* pass after a success; an error ends the pass over dispatching tasks
\* (startDispatchingTasks) or the whole iteration (scheduleOnce).
Return(c, ok) ==
    /\ arg' = [arg EXCEPT ![c] = NoTask]
    /\ Goto(c, CASE c # Scheduler        -> "idle"
                 [] c = Scheduler /\ scanning -> "scan"
                 [] OTHER                -> IF ok THEN "pick" ELSE "idle")
    /\ todo' = IF c = Scheduler /\ ~ok THEN {} ELSE todo
    /\ UNCHANGED <<scanning, left>>

\* ErrInvalidState is returned without being assigned to err: the deferred
\* rollback does not run and the transaction keeps the connection, until the
\* request's context ends or, for the scheduler, until shutdown.
ReturnLeaking(c) ==
    /\ conn' = c
    /\ IF c = Scheduler
         THEN Return(c, FALSE)
         ELSE /\ arg' = [arg EXCEPT ![c] = NoTask]
              /\ Goto(c, "respond")
              /\ UNCHANGED loopVars

ConnFree == conn = NoOwner

-----------------------------------------------------------------------------
(* Calls: requests *)

\* Create inserts a queued task; its requested host is not looked up.
Insert(t, h) ==
    /\ ConnFree
    /\ ~Exists(t)
    /\ status' = [status EXCEPT ![t] = "queued"]
    /\ wanted' = [wanted EXCEPT ![t] = h]
    /\ \E n \in 0..MaxSecond :
         /\ \A u \in Tasks : queuedAt[u] <= n
         /\ queuedAt' = [queuedAt EXCEPT ![t] = n]
    /\ UNCHANGED <<host, hostVars, runVars, callVars, loopVars, conn, restarts>>

Create(t) == "create" \in ClientOps /\ \E h \in Requestable : Insert(t, h)

\* Retry copies the requested host; the retried task is left as it is.
Retry(t) == /\ "retry" \in ClientOps
            /\ \E u \in Tasks : status[u] \in RetryableStatuses /\ Insert(t, wanted[u])

\* A request enters one of the multi-step operations.
Call(c, op, t, step) == /\ op \in ClientOps
                        /\ pc[c] = "idle"
                        /\ Exists(t)
                        /\ Goto(c, step)
                        /\ arg' = [arg EXCEPT ![c] = t]
                        /\ UNCHANGED <<taskVars, hostVars, loopVars, conn, restarts>>

CallStart(c, t) == Call(c, "start", t, "read") /\ UNCHANGED runVars

CallDispatch(c, t) == Call(c, "dispatch", t, "pickTx") /\ UNCHANGED runVars

\* Service.Cancel first cancels the external command, if one is registered.
CallCancel(c, t) == /\ Call(c, "cancel", t, "cancelTx")
                    /\ killed' = IF runner[t] \in {"building", "pushing"}
                                   THEN killed \union {t} ELSE killed
                    /\ UNCHANGED <<runner, launched, published>>

\* Repository.Cancel
CancelTx(c) ==
    LET t == arg[c]
    IN /\ pc[c] = "cancelTx"
       /\ ConnFree
       /\ IF Terminal(t)
            THEN ReturnLeaking(c) /\ UNCHANGED <<status, running>>
            ELSE FailTask(t, "canceled") /\ Return(c, TRUE) /\ conn' = conn
       /\ UNCHANGED <<host, wanted, queuedAt, adminVars, runVars, restarts>>

\* The handler has answered, the middlewares have run and the request's
\* context ends: database/sql rolls the open transaction back.
EndRequest(c) == /\ pc[c] = "respond"
                 /\ Goto(c, "idle")
                 /\ conn' = NoOwner
                 /\ UNCHANGED <<taskVars, hostVars, runVars, arg, loopVars, restarts>>

\* The client goes away or the 60 s timeout fires: the next statement fails.
Abort(c) == /\ "abort" \in Faults
            /\ c # Scheduler
            /\ pc[c] \notin {"idle", "respond"}
            /\ Return(c, FALSE)
            /\ UNCHANGED <<taskVars, hostVars, runVars, conn, restarts>>

-----------------------------------------------------------------------------
(* Calls: dispatch *)

\* The task DispatchNext tries: the oldest queued one, ties in any order.
QueueHeads == {t \in Tasks : /\ status[t] = "queued"
                             /\ \A u \in Tasks : status[u] = "queued" => queuedAt[t] <= queuedAt[u]}

CallNext(c) == /\ "next" \in ClientOps
               /\ pc[c] = "idle"
               /\ Goto(c, "pick")
               /\ UNCHANGED <<taskVars, hostVars, runVars, arg, loopVars, conn, restarts>>

\* mutant: the loop of scheduleOnce is not bounded
PickUnbounded(c) ==
    /\ pc[c] = "pick"
    /\ ConnFree
    /\ \E t \in QueueHeads :
         /\ Goto(c, "pickTx")
         /\ arg' = [arg EXCEPT ![c] = t]
    /\ left' = IF c = Scheduler THEN left - 1 ELSE left
    /\ UNCHANGED <<taskVars, hostVars, runVars, scanning, todo, conn, restarts>>

\* The SELECT of DispatchNext, outside the transaction that follows it.
Pick(c) ==
    /\ pc[c] = "pick"
    /\ ConnFree
    /\ IF QueueHeads = {} \/ (c = Scheduler /\ left = 0)
         THEN Goto(c, "idle") /\ UNCHANGED <<arg, left>>
         ELSE \E t \in QueueHeads :
                /\ Goto(c, "pickTx")
                /\ arg' = [arg EXCEPT ![c] = t]
                /\ left' = IF c = Scheduler THEN left - 1 ELSE left
    /\ UNCHANGED <<taskVars, hostVars, runVars, scanning, todo, conn, restarts>>

\* Where a call goes when DispatchTask placed its task.
AfterPlacing(c) ==
    IF pc[c] = "pickTx" /\ c # Scheduler
      THEN Return(c, TRUE)
      ELSE /\ Goto(c, IF pc[c] = "pickTx" THEN "read" ELSE "reread")
           /\ UNCHANGED <<arg, loopVars>>

\* DispatchTaskWithOptions
Dispatch(c) ==
    LET t == arg[c]
        notDispatched == Return(c, pc[c] = "startTx") /\ conn' = conn
    IN /\ pc[c] \in {"pickTx", "startTx"}
       /\ ConnFree
       /\ \/ /\ status[t] \notin {"queued", "created"}
             /\ UNCHANGED <<status, host, running>>
             /\ ReturnLeaking(c)
          \/ /\ status[t] \in {"queued", "created"}
             /\ ~GlobalRoom
             /\ UNCHANGED <<status, host, running>>
             /\ notDispatched
          \/ /\ status[t] \in {"queued", "created"}
             /\ GlobalRoom
             /\ Candidates(t) = {}
             /\ status' = [status EXCEPT ![t] = "dispatch_failed"]
             /\ UNCHANGED <<host, running>>
             /\ notDispatched
          \/ /\ status[t] \in {"queued", "created"}
             /\ GlobalRoom
             /\ \E h \in BestHosts(t) : Place(t, h)
             /\ AfterPlacing(c)
             /\ conn' = conn
       /\ UNCHANGED <<wanted, queuedAt, adminVars, runVars, restarts>>

-----------------------------------------------------------------------------
(* Calls: Service.Start *)

\* FindByID: at the entry ("read"), or after the dispatch ("reread").
StartRead(c) ==
    LET s == status[arg[c]]
    IN /\ pc[c] \in {"read", "reread"}
       /\ ConnFree
       /\ CASE pc[c] = "read" /\ s \in {"queued", "created"} ->
                 Goto(c, "startTx") /\ UNCHANGED <<arg, loopVars>>
            [] s = "dispatching" ->
                 Goto(c, "host") /\ UNCHANGED <<arg, loopVars>>
            [] OTHER -> Return(c, s = "dispatch_failed")
       /\ UNCHANGED <<taskVars, hostVars, runVars, conn, restarts>>

\* hostForExecution: the host row, and the SSH credential it names.
StartHost(c) ==
    /\ pc[c] = "host"
    /\ ConnFree
    /\ \/ /\ Goto(c, IF deleted[host[arg[c]]] THEN "failHost" ELSE "prepare")
          /\ UNCHANGED <<arg, loopVars>>
       \/ "lookup" \in Faults /\ Return(c, FALSE)
    /\ UNCHANGED <<taskVars, hostVars, runVars, conn, restarts>>

\* prepareBuildContext: files only.
StartPrepare(c) ==
    /\ pc[c] = "prepare"
    /\ \/ Goto(c, "startBuild")
       \/ "prepare" \in Faults /\ Goto(c, "failPrep")
    /\ UNCHANGED <<taskVars, hostVars, runVars, arg, loopVars, conn, restarts>>

\* The FailTask calls of Start, whose result Start returns.
StartFail(c) ==
    LET t == arg[c]
    IN /\ pc[c] \in {"failHost", "failPrep"}
       /\ ConnFree
       /\ FailTask(t, IF pc[c] = "failHost" THEN "dispatch_failed"
                                            ELSE "preparing_context_failed")
       /\ \/ Return(c, FailTaskOK(t))
          \/ "sql" \in Faults /\ Return(c, FALSE)  \* its FindByID after the commit
       /\ UNCHANGED <<host, wanted, queuedAt, adminVars, runVars,
                      conn, restarts>>

\* mutant: the UPDATE of StartBuild loses its status condition
StartBuildUnguarded(c) ==
    LET t == arg[c]
    IN /\ pc[c] = "startBuild"
       /\ ConnFree
       /\ status' = [status EXCEPT ![t] = "building"]
       /\ Goto(c, "launch")
       /\ UNCHANGED <<host, wanted, queuedAt, hostVars, runVars, arg, loopVars, conn, restarts>>

\* The UPDATE of StartBuild, conditional on the status.
StartBuild(c) ==
    LET t == arg[c]
    IN /\ pc[c] = "startBuild"
       /\ ConnFree
       /\ IF status[t] = "dispatching"
            THEN /\ status' = [status EXCEPT ![t] = "building"]
                 /\ Goto(c, "launch")
                 /\ UNCHANGED <<arg, loopVars>>
            ELSE status' = status /\ Return(c, FALSE)
       /\ UNCHANGED <<host, wanted, queuedAt, hostVars, runVars, conn, restarts>>

\* The FindByID of StartBuild, then go runBuild.
Launch(c) ==
    LET t == arg[c]
    IN /\ pc[c] = "launch"
       /\ ConnFree
       /\ runner' = [runner EXCEPT ![t] = "load"]
       /\ launched' = [launched EXCEPT ![t] = @ + 1]
       /\ Return(c, TRUE)
       /\ UNCHANGED <<taskVars, hostVars, killed, published, conn, restarts>>

\* A statement of a call fails, any from the SELECT of DispatchNext to the FindByID
\* that follows the UPDATE of StartBuild.  What was not committed is rolled back,
\* what was stays, and the call returns the error.
StatementFails(c) ==
    /\ "sql" \in Faults
    /\ ConnFree
    /\ pc[c] \in {"pick", "pickTx", "startTx", "read", "reread", "host", "failHost",
                  "failPrep", "startBuild", "launch", "cancelTx"}
    /\ Return(c, FALSE)
    /\ UNCHANGED <<taskVars, hostVars, runVars, conn, restarts>>

\* The COUNT of DispatchTaskWithOptions fails.  Its err is another variable than
\* the one the deferred function looks at: nothing is rolled back.
CountFails(c) ==
    /\ "sql" \in Faults
    /\ ConnFree
    /\ pc[c] \in {"pickTx", "startTx"}
    /\ status[arg[c]] \in {"queued", "created"}
    /\ ReturnLeaking(c)
    /\ UNCHANGED <<taskVars, hostVars, runVars, restarts>>

CallFails(c) == StatementFails(c) \/ CountFails(c)

StartStep(c) == \/ StartRead(c) \/ StartHost(c) \/ StartPrepare(c)
                \/ StartFail(c) \/ StartBuild(c) \/ Launch(c)

-----------------------------------------------------------------------------
(* The scheduler: scheduleOnce *)

\* mutant: a pass no longer starts with the tasks found dispatching
TickSkipsDispatching ==
    /\ pc[Scheduler] = "idle"
    /\ ConnFree
    /\ Goto(Scheduler, "scan")
    /\ scanning' = TRUE
    /\ todo' = {}
    /\ UNCHANGED <<taskVars, hostVars, runVars, arg, left, conn, restarts>>

\* The ticker fires: startDispatchingTasks lists the dispatching tasks.
Tick ==
    /\ pc[Scheduler] = "idle"
    /\ ConnFree
    /\ Goto(Scheduler, "scan")
    /\ scanning' = TRUE
    /\ \/ todo' = {t \in Tasks : status[t] = "dispatching"}
       \/ "sql" \in Faults /\ todo' = {}
    /\ UNCHANGED <<taskVars, hostVars, runVars, arg, left, conn, restarts>>

\* The next listed task, newest first, is started; after the last one the
\* limit is read and the loop over DispatchNext begins.
Scan ==
    /\ pc[Scheduler] = "scan"
    /\ IF todo = {}
         THEN /\ Goto(Scheduler, "pick")
              /\ scanning' = FALSE
              /\ left' = IF GlobalLimit < 1 THEN 1 ELSE GlobalLimit
              /\ UNCHANGED <<arg, todo>>
         ELSE /\ \E t \in todo :
                   /\ \A u \in todo : queuedAt[u] <= queuedAt[t]
                   /\ arg' = [arg EXCEPT ![Scheduler] = t]
                   /\ todo' = todo \ {t}
              /\ Goto(Scheduler, "read")
              /\ UNCHANGED <<scanning, left>>
    /\ UNCHANGED <<taskVars, hostVars, runVars, conn, restarts>>

SchedulerStep == \/ Tick \/ Scan \/ Pick(Scheduler)
                 \/ Dispatch(Scheduler) \/ StartStep(Scheduler)

ClientCall(c) == \/ CallNext(c)
                 \/ \E t \in Tasks : CallStart(c, t) \/ CallDispatch(c, t) \/ CallCancel(c, t)

\* What a request under way does next.
ClientStep(c) == \/ Pick(c) \/ Dispatch(c) \/ StartStep(c) \/ CancelTx(c) \/ EndRequest(c)

-----------------------------------------------------------------------------
(* The build goroutine: runBuild and pushBuild *)

RunnerAt(t, from, to) == /\ runner[t] = from
                         /\ runner' = [runner EXCEPT ![t] = to]

\* The goroutine logs an error of the database and returns: its task stays as it
\* is, with its slot, and nothing will take it up again.
RunLost(t, from) == "sql" \in Faults /\ RunnerAt(t, from, "none")

\* The FindByID of runBuild, then the host and the pull registry are read.
RunLoad(t) ==
    /\ ConnFree
    /\ \/ RunnerAt(t, "load", "toBuild") /\ ~deleted[host[t]]
       \/ /\ RunnerAt(t, "load", "buildErr")
          /\ deleted[host[t]] \/ "lookup" \in Faults
       \/ RunLost(t, "load")
    /\ UNCHANGED <<taskVars, hostVars, launched, killed, published, callVars, loopVars, conn, restarts>>

\* Executor.Build and Executor.Push: register the cancel function, run the
\* external commands, unregister.  A command ends well, ends badly, or runs
\* into the deadline; a canceled one may already have done its work.
RunCommand(t) ==
    /\ \/ RunnerAt(t, "toBuild", "building")
       \/ \E end \in {"built", "buildErr", "timeout"} : RunnerAt(t, "building", end)
       \/ RunnerAt(t, "toPush", "pushing")
       \/ \E end \in {"pushed", "pushErr", "timeout"} : RunnerAt(t, "pushing", end)
    /\ UNCHANGED <<taskVars, hostVars, launched, killed, published, callVars, loopVars, conn, restarts>>

\* The UPDATE of StartPush, conditional on the status; when it fails or matches
\* no row the goroutine logs and ends.
RunStartPush(t) ==
    /\ ConnFree
    /\ \/ /\ status[t] = "building"
          /\ RunnerAt(t, "built", "pushLoad")
          /\ status' = [status EXCEPT ![t] = "pushing"]
       \/ /\ (status[t] # "building" /\ RunnerAt(t, "built", "none")) \/ RunLost(t, "built")
          /\ status' = status
    /\ killed' = killed \ {t}
    /\ UNCHANGED <<host, wanted, queuedAt, hostVars, launched, published, callVars, loopVars, conn, restarts>>

\* The FindByID of StartPush, after which the goroutine also ends when it fails;
\* then the push registry and its secret are read.
RunPushLoad(t) ==
    /\ ConnFree
    /\ \/ RunnerAt(t, "pushLoad", "toPush")
       \/ "lookup" \in Faults /\ RunnerAt(t, "pushLoad", "pushErr")
       \/ RunLost(t, "pushLoad")
    /\ UNCHANGED <<taskVars, hostVars, launched, killed, published, callVars, loopVars, conn, restarts>>

\* mutant: success is reported without recording the artifact
RunRecordNothing(t) ==
    /\ ConnFree
    /\ RunnerAt(t, "pushed", "recorded")
    /\ UNCHANGED <<published, taskVars, hostVars, launched, killed, callVars, loopVars, conn, restarts>>

\* mutant: the deadline is looked at once more after the artifact is recorded
RunRecordThenTimeout(t) ==
    /\ ConnFree
    /\ \/ \E next \in {"recorded", "timeout"} : RunnerAt(t, "pushed", next)
          /\ published' = published \union {t}
       \/ "record" \in Faults /\ RunnerAt(t, "pushed", "pushErr") /\ published' = published
    /\ UNCHANGED <<taskVars, hostVars, launched, killed, callVars, loopVars, conn, restarts>>

\* RecordPushed: artifact, push event and latest artifact in one transaction.
RunRecord(t) ==
    /\ ConnFree
    /\ \/ RunnerAt(t, "pushed", "recorded") /\ published' = published \union {t}
       \/ "record" \in Faults /\ RunnerAt(t, "pushed", "pushErr") /\ published' = published
    /\ UNCHANGED <<taskVars, hostVars, launched, killed, callVars, loopVars, conn, restarts>>

\* mutant: the failed push is closed by the completion of the build
RunEndWrongStage(t) ==
    /\ ConnFree
    /\ \/ RunnerAt(t, "timeout", "none") /\ FailTask(t, "timeout") /\ conn' = conn
       \/ RunnerAt(t, "buildErr", "none") /\ Complete(t, "building", "build_failed")
       \/ RunnerAt(t, "pushErr", "none") /\ Complete(t, "building", "push_failed")
       \/ RunnerAt(t, "recorded", "none") /\ Complete(t, "pushing", "push_success")
    /\ killed' = killed \ {t}
    /\ UNCHANGED <<host, wanted, queuedAt, adminVars, launched, published,
                   callVars, loopVars, restarts>>

\* mutant: a deadline is logged and nothing else
RunEndForgetsTimeout(t) ==
    /\ ConnFree
    /\ \/ RunnerAt(t, "timeout", "none") /\ UNCHANGED <<status, running, conn>>
       \/ RunnerAt(t, "buildErr", "none") /\ Complete(t, "building", "build_failed")
       \/ RunnerAt(t, "pushErr", "none") /\ Complete(t, "pushing", "push_failed")
       \/ RunnerAt(t, "recorded", "none") /\ Complete(t, "pushing", "push_success")
    /\ killed' = killed \ {t}
    /\ UNCHANGED <<host, wanted, queuedAt, adminVars, launched, published,
                   callVars, loopVars, restarts>>

\* timeoutTask, completeBuild, completePush and the final CompletePush; an
\* error of these is logged and the goroutine ends all the same.
RunEnd(t) ==
    /\ ConnFree
    /\ \/ RunnerAt(t, "timeout", "none") /\ FailTask(t, "timeout") /\ conn' = conn
       \/ RunnerAt(t, "buildErr", "none") /\ Complete(t, "building", "build_failed")
       \/ RunnerAt(t, "pushErr", "none") /\ Complete(t, "pushing", "push_failed")
       \/ RunnerAt(t, "recorded", "none") /\ Complete(t, "pushing", "push_success")
       \/ /\ \E from \in {"timeout", "buildErr", "pushErr", "recorded"} : RunLost(t, from)
          /\ UNCHANGED <<status, running, conn>>
    /\ killed' = killed \ {t}
    /\ UNCHANGED <<host, wanted, queuedAt, adminVars, launched, published,
                   callVars, loopVars, restarts>>

RunnerStep(t) == \/ RunLoad(t) \/ RunCommand(t) \/ RunStartPush(t)
                 \/ RunPushLoad(t) \/ RunRecord(t) \/ RunEnd(t)

-----------------------------------------------------------------------------
(* The administrator and the process *)

\* Enable and Disable; neither looks at the tasks.
SwitchHost(h) ==
    /\ "switch" \in AdminOps
    /\ ConnFree
    /\ ~deleted[h]
    /\ \E s \in {"unknown", "disabled"} : hostStatus' = [hostStatus EXCEPT ![h] = s]
    /\ UNCHANGED <<taskVars, arch, maxSlots, running, deleted, runVars, callVars, loopVars, conn, restarts>>

\* UpdateCheckResult at the end of Check.  Check began, perhaps long ago, when
\* the host was not disabled; its UPDATE does not ask whether it still is not.
CheckHost(h) ==
    /\ "check" \in AdminOps
    /\ ConnFree
    /\ ~deleted[h]
    /\ \/ /\ hostStatus' = [hostStatus EXCEPT ![h] = "online"]
          /\ \E a \in Archs : arch' = [arch EXCEPT ![h] = a]
       \/ /\ hostStatus' = [hostStatus EXCEPT ![h] = "offline"]
          /\ arch' = [arch EXCEPT ![h] = ""]
    /\ UNCHANGED <<taskVars, maxSlots, running, deleted, runVars, callVars, loopVars, conn, restarts>>

\* Update: max_concurrency may drop below the slots in use; a host that is not
\* disabled becomes unknown, and its architecture is forgotten.
ResizeHost(h) ==
    /\ "resize" \in AdminOps
    /\ ConnFree
    /\ ~deleted[h]
    /\ \E n \in 1..MaxSlots : maxSlots' = [maxSlots EXCEPT ![h] = n]
    /\ hostStatus' = [hostStatus EXCEPT ![h] = IF @ = "disabled" THEN @ ELSE "unknown"]
    /\ arch' = [arch EXCEPT ![h] = ""]
    /\ UNCHANGED <<taskVars, running, deleted, runVars, callVars, loopVars, conn, restarts>>

\* Delete: soft, and whether or not tasks run there.
DeleteHost(h) ==
    /\ "delete" \in AdminOps
    /\ ConnFree
    /\ ~deleted[h]
    /\ deleted' = [deleted EXCEPT ![h] = TRUE]
    /\ UNCHANGED <<taskVars, hostStatus, arch, maxSlots, running, runVars, callVars, loopVars, conn, restarts>>

\* The process ends and comes back: goroutines, requests and open
\* transactions are gone, rows stay; nothing repairs them at startup.
Restart ==
    /\ restarts < MaxRestarts
    /\ restarts' = restarts + 1
    /\ runner' = [t \in Tasks |-> "none"]
    /\ killed' = {}
    /\ pc' = [c \in Callers |-> "idle"]
    /\ arg' = [c \in Callers |-> NoTask]
    /\ scanning' = FALSE
    /\ todo' = {}
    /\ left' = 0
    /\ conn' = NoOwner
    /\ UNCHANGED <<taskVars, hostVars, launched, published>>

Init ==
    /\ status = [t \in Tasks |-> "absent"]
    /\ host = [t \in Tasks |-> NoHost]
    /\ wanted = [t \in Tasks |-> NoHost]
    /\ queuedAt = [t \in Tasks |-> 0]
    /\ hostStatus = [h \in Hosts |-> "unknown"]
    /\ arch = [h \in Hosts |-> ""]
    /\ maxSlots \in [Hosts -> 1..MaxSlots]
    /\ running = [h \in Hosts |-> 0]
    /\ deleted = [h \in Hosts |-> FALSE]
    /\ published = {}
    /\ runner = [t \in Tasks |-> "none"]
    /\ launched = [t \in Tasks |-> 0]
    /\ killed = {}
    /\ pc = [c \in Callers |-> "idle"]
    /\ arg = [c \in Callers |-> NoTask]
    /\ scanning = FALSE
    /\ todo = {}
    /\ left = 0
    /\ conn = NoOwner
    /\ restarts = 0

Next == \/ SchedulerStep
        \/ \E c \in Clients : ClientCall(c) \/ ClientStep(c) \/ Abort(c)
        \/ \E c \in Callers : CallFails(c)
        \/ \E t \in Tasks : Create(t) \/ Retry(t) \/ RunnerStep(t)
        \/ \E h \in Hosts : SwitchHost(h) \/ CheckHost(h) \/ ResizeHost(h) \/ DeleteHost(h)
        \/ Restart

Spec == Init /\ [][Next]_vars

\* The ticker keeps firing and goroutines keep running; an external command
\* ends because the deadline of runBuild (build.timeout_minutes) bounds it,
\* and a request goes on until it is answered.  Users owe nothing.
Fairness == /\ WF_vars(SchedulerStep)
            /\ \A t \in Tasks : WF_vars(RunnerStep(t))
            /\ \A c \in Clients : WF_vars(ClientStep(c))

FairSpec == Spec /\ Fairness

-----------------------------------------------------------------------------
(* Properties *)

\* Type invariant.
TypeOK ==
    /\ status \in [Tasks -> Statuses]
    /\ host \in [Tasks -> Hosts \union {NoHost}]
    /\ wanted \in [Tasks -> Hosts \union {NoHost}]
    /\ queuedAt \in [Tasks -> Nat]
    /\ hostStatus \in [Hosts -> HostStatuses]
    /\ arch \in [Hosts -> Archs]
    /\ maxSlots \in [Hosts -> 1..MaxSlots]
    /\ running \in [Hosts -> Nat]
    /\ deleted \in [Hosts -> BOOLEAN]
    /\ published \subseteq Tasks
    /\ runner \in [Tasks -> RunnerSteps]
    /\ launched \in [Tasks -> Nat]
    /\ killed \subseteq Tasks
    /\ pc \in [Callers -> CallSteps]
    /\ arg \in [Callers -> Tasks \union {NoTask}]
    /\ scanning \in BOOLEAN
    /\ todo \subseteq Tasks
    /\ left \in Nat
    /\ conn \in Callers \union Tasks \union {NoOwner}
    /\ restarts \in Nat

\* The counter of every host equals the number of its tasks that hold a slot,
\* whatever requests, goroutines, the scheduler and restarts interleave: no
\* transaction pays a slot twice, forgets one, or meets the floor of
\* decrementHostRunning.
HostSlots == \A h \in Hosts : running[h] = Cardinality(SlotHolders(h))

\* The scheduler and the requests together never have more tasks under way
\* than scheduler.global_concurrency.
GlobalLimitHeld == Cardinality(Active) <= GlobalLimit

\* However many Start calls race for a task, and whatever restarts, runBuild
\* is launched for it at most once.
LaunchedOnce == \A t \in Tasks : launched[t] <= 1

\* The build goroutine never takes the ErrInvalidState exit of CompleteBuild
\* or CompletePush, which would keep the only connection for good: a task it
\* finds neither ended nor in its stage does not exist.
GoroutineNeverLeaks == conn \notin Tasks

\* An image whose push was recorded as an artifact belongs to a task that is
\* still pushing, succeeded, was canceled, or was closed by a second Start
\* whose preparation failed; it is never reported build_failed, push_failed,
\* timeout or dispatch_failed.
PublishedStatus ==
    \A t \in published : status[t] \in {"pushing", "push_success", "canceled",
                                        "preparing_context_failed"}

\* A task reported as pushed has its artifact.
SuccessHasArtifact == \A t \in Tasks : status[t] = "push_success" => t \in published

\* A task that ended keeps its status: no late completion, timeout, start or
\* cancel overwrites it.
EndIsFinal == [][\A t \in Tasks : Terminal(t) => status'[t] = status[t]]_vars

\* A task with a slot is on the host it asked for, if it asked for one: also a
\* retry, which inherits the request, and whatever became of the host meanwhile.
RequestedHostUsed ==
    \A t \in Tasks : HoldsSlot(t) /\ wanted[t] # NoHost => host[t] = wanted[t]

\* The service implements the life cycle of tasks: see TaskLifecycle.
Lifecycle == INSTANCE TaskLifecycle WITH capacity <- maxSlots
LifecycleSpec == Lifecycle!Spec

\* A task that is being built or pushed has a goroutine that will end it, or a
\* Start about to launch one: also when a rival Start, a cancel and the
\* goroutine itself race.  After a restart, an aborted Start, a failed statement
\* or the deletion of the host it is false: nothing takes such a task up again.
ActiveIsExecuted ==
    \A t \in Tasks : status[t] \in {"building", "pushing"} =>
        runner[t] # "none" \/ \E c \in Callers : pc[c] = "launch" /\ arg[c] = t

\* Every task that is queued ends, given a scheduler that keeps ticking, as
\* long as the server lives.
QueuedTasksEnd ==
    \A t \in Tasks : (status[t] = "queued" /\ restarts = 0) ~> (Terminal(t) \/ restarts > 0)

\* A task left dispatching by a server that died is started, or closed, by
\* the scheduler of the next one.
DispatchingTasksStart == \A t \in Tasks : (status[t] = "dispatching") ~> (status[t] # "dispatching")

-----------------------------------------------------------------------------
(* What a document says and the code does not do; the run leak refutes it. *)

\* docs/11-acceptance.md:8: /healthz answers ok.  It pings the database, so
\* it can only when the connection is not held by an abandoned transaction.
HealthRecovers == []<>(conn = NoOwner)
=============================================================================
