--------------------------- MODULE PostgresDispatch ---------------------------
(***************************************************************************)
(* Dispatch, cancel and completion of build tasks on the Postgres          *)
(* deployment, where the pool has ten connections and transactions overlap *)
(* at READ COMMITTED.  Each statement is a step.  A SELECT sees what is    *)
(* committed; an UPDATE waits for the lock of its row, keeps it to the end *)
(* of its transaction, and becomes visible with the commit.  No SELECT of  *)
(* the code says FOR UPDATE, and only the UPDATEs of StartBuild and        *)
(* StartPush look at the status they change.                               *)
(*                                                                         *)
(* A transaction abandoned on ErrInvalidState holds no lock here, since no *)
(* UPDATE precedes it: it is a return.  The ten connections are not        *)
(* counted.  Hosts are neither edited nor deleted; BuildTask covers that.  *)
(***************************************************************************)
EXTENDS Integers, FiniteSets

CONSTANTS Tasks,        \* identifiers of build_tasks rows
          Hosts,        \* identifiers of build_hosts rows
          Clients,      \* HTTP requests in flight at one time
          Scheduler,    \* the goroutine of RunScheduler
          NoTask, NoHost, NoOwner,
          GlobalLimit,  \* scheduler.global_concurrency
          MaxSlots,     \* max_concurrency of every host
          MaxLaunches,  \* bound: launches of a task considered
          ClientOps     \* operations the requests may ask for

AllClientOps == {"dispatch", "start", "cancel"}

ASSUME RowsAndRequestsFinite == IsFiniteSet(Tasks) /\ IsFiniteSet(Clients)
ASSUME LimitsAreNat == GlobalLimit \in Nat /\ MaxSlots \in Nat /\ MaxLaunches \in Nat

\* The goroutines of runBuild: one for each launch of a task.
Goroutines == Tasks \X (1..MaxLaunches)
Callers == Clients \union {Scheduler}
Actors == Callers \union Goroutines

ASSUME NamesAreDistinct == /\ NoTask \notin Tasks
                           /\ NoHost \notin Hosts
                           /\ NoOwner \notin Actors
                           /\ Callers \intersect Goroutines = {}

VARIABLES
    \* committed columns
    status, host, running,
    \* who locks a row
    taskLock, hostLock,
    \* the call of each actor: position, kind, task, and what its SELECTs found
    at, op, task, pick,
    \* goroutines: their position; how often each task was launched
    runner, launched

rows == <<status, host, running>>
locks == <<taskLock, hostLock>>
calls == <<at, op, task, pick>>
vars == <<rows, locks, calls, runner, launched>>

Statuses == {"queued", "dispatching", "building", "pushing", "push_success",
             "dispatch_failed", "build_failed", "push_failed", "canceled", "timeout"}
TerminalStatuses == {"push_success", "dispatch_failed", "build_failed", "push_failed",
                     "canceled", "timeout"}
SlotStatuses == {"dispatching", "building", "pushing"}
Positions == {"idle", "read", "count", "select", "lockHost", "lockTask", "commit", "start"}

\* What a transaction sets the status to; "place" for the one that dispatches.
Outcomes == {"build_failed", "push_failed", "push_success", "timeout"}
Ops == {"place", "placeAndStart", "start", "canceled", "dispatch_failed"} \union Outcomes

Terminal(t) == status[t] \in TerminalStatuses
HoldsSlot(t) == status[t] \in SlotStatuses
Active == {t \in Tasks : HoldsSlot(t)}

Placing(a) == op[a] \in {"place", "placeAndStart"}

Goto(a, position) == at' = [at EXCEPT ![a] = position]
Return(a) == /\ Goto(a, "idle")
             /\ op' = [op EXCEPT ![a] = "start"]
             /\ task' = [task EXCEPT ![a] = NoTask]
             /\ pick' = [pick EXCEPT ![a] = NoHost]

-----------------------------------------------------------------------------
(* Beginning of calls *)

Enter(a, position, kind, t) == /\ at[a] = "idle"
                               /\ Goto(a, position)
                               /\ op' = [op EXCEPT ![a] = kind]
                               /\ task' = [task EXCEPT ![a] = t]
                               /\ pick' = [pick EXCEPT ![a] = NoHost]
                               /\ UNCHANGED <<rows, locks, launched>>

\* startDispatchingTasks, and the SELECT of DispatchNext; tasks queued in the
\* same second come in any order.
Schedule(t) == /\ \/ status[t] = "dispatching" /\ Enter(Scheduler, "start", "start", t)
                  \/ status[t] = "queued" /\ Enter(Scheduler, "read", "placeAndStart", t)
               /\ UNCHANGED runner

Request(c, t) ==
    /\ \/ "dispatch" \in ClientOps /\ Enter(c, "read", "place", t)
       \/ /\ "start" \in ClientOps
          /\ \/ status[t] = "queued" /\ Enter(c, "read", "placeAndStart", t)
             \/ status[t] = "dispatching" /\ Enter(c, "start", "start", t)
       \/ "cancel" \in ClientOps /\ Enter(c, "read", "canceled", t)
    /\ UNCHANGED runner

\* The last call of a goroutine: CompleteBuild, CompletePush or FailTask.
Finish(g) == /\ \/ runner[g] = "building" /\ \E s \in {"build_failed", "timeout"} : Enter(g, "read", s, g[1])
                \/ runner[g] = "pushing" /\ \E s \in {"push_failed", "push_success", "timeout"} :
                                              Enter(g, "read", s, g[1])
             /\ runner' = [runner EXCEPT ![g] = "none"]

-----------------------------------------------------------------------------
(* Statements of the transactions *)

\* What each operation requires of the status it read.
MayProceed(a) ==
    /\ ~Terminal(task[a])
    /\ Placing(a) => status[task[a]] = "queued"
    /\ op[a] = "build_failed" => status[task[a]] = "building"
    /\ op[a] \in {"push_failed", "push_success"} => status[task[a]] = "pushing"

\* findByID.  A task that holds a slot has its host decremented next.
ReadTask(a) ==
    LET t == task[a]
    IN /\ at[a] = "read"
       /\ \/ ~MayProceed(a) /\ Return(a)
          \/ /\ MayProceed(a)
             /\ Goto(a, IF Placing(a) THEN "count"
                        ELSE IF HoldsSlot(t) THEN "lockHost" ELSE "lockTask")
             /\ pick' = [pick EXCEPT ![a] = IF HoldsSlot(t) THEN host[t] ELSE NoHost]
             /\ UNCHANGED <<op, task>>
       /\ UNCHANGED <<rows, locks, runner, launched>>

\* mutant: one more task than the limit
CountRunningOffByOne(a) ==
    /\ at[a] = "count"
    /\ \/ Cardinality(Active) <= GlobalLimit /\ Goto(a, "select") /\ UNCHANGED <<op, task, pick>>
       \/ Cardinality(Active) > GlobalLimit /\ Return(a)
    /\ UNCHANGED <<rows, locks, runner, launched>>

\* countRunning
CountRunning(a) ==
    /\ at[a] = "count"
    /\ \/ Cardinality(Active) < GlobalLimit /\ Goto(a, "select") /\ UNCHANGED <<op, task, pick>>
       \/ Cardinality(Active) >= GlobalLimit /\ Return(a)
    /\ UNCHANGED <<rows, locks, runner, launched>>

\* mutant: a host that is full has room for one more
SelectHostOffByOne(a) ==
    /\ at[a] = "select"
    /\ \E h \in Hosts : /\ running[h] <= MaxSlots
                        /\ \A g \in Hosts : running[h] <= running[g]
                        /\ pick' = [pick EXCEPT ![a] = h]
                        /\ Goto(a, "lockHost")
    /\ UNCHANGED <<rows, locks, op, task, runner, launched>>

\* selectHost: of the hosts with room, one with the fewest running tasks.
SelectHost(a) ==
    LET free == {h \in Hosts : running[h] < MaxSlots}
    IN /\ at[a] = "select"
       /\ \/ /\ free = {}
             /\ Goto(a, "lockTask")
             /\ op' = [op EXCEPT ![a] = "dispatch_failed"]
             /\ pick' = pick
          \/ \E h \in free : /\ \A g \in free : running[h] <= running[g]
                             /\ pick' = [pick EXCEPT ![a] = h]
                             /\ Goto(a, "lockHost")
                             /\ op' = op
       /\ UNCHANGED <<rows, locks, task, runner, launched>>

\* incrementHostRunning and decrementHostRunning
UpdateHost(a) ==
    /\ at[a] = "lockHost"
    /\ hostLock[pick[a]] = NoOwner
    /\ hostLock' = [hostLock EXCEPT ![pick[a]] = a]
    /\ Goto(a, "lockTask")
    /\ UNCHANGED <<rows, taskLock, op, task, pick, runner, launched>>

\* mutant: a task found ended after all is left by a return without rollback
UpdateTaskLeaks(a) ==
    /\ at[a] = "lockTask"
    /\ taskLock[task[a]] = NoOwner
    /\ \/ Terminal(task[a]) /\ Return(a) /\ UNCHANGED taskLock
       \/ /\ ~Terminal(task[a])
          /\ taskLock' = [taskLock EXCEPT ![task[a]] = a]
          /\ Goto(a, "commit")
          /\ UNCHANGED <<op, task, pick>>
    /\ UNCHANGED <<rows, hostLock, runner, launched>>

\* markDispatching, markDispatchFailed, and the UPDATEs that end a task.
UpdateTask(a) ==
    /\ at[a] = "lockTask"
    /\ taskLock[task[a]] = NoOwner
    /\ taskLock' = [taskLock EXCEPT ![task[a]] = a]
    /\ Goto(a, "commit")
    /\ UNCHANGED <<rows, hostLock, op, task, pick, runner, launched>>

\* How decrementHostRunning counts: not below zero.
Decremented(n) == IF n > 0 THEN n - 1 ELSE 0

Commit(a) ==
    LET t == task[a]
        h == pick[a]
    IN /\ at[a] = "commit"
       /\ status' = [status EXCEPT ![t] = IF Placing(a) THEN "dispatching" ELSE op[a]]
       /\ host' = [host EXCEPT ![t] = IF Placing(a) THEN h ELSE @]
       /\ running' = [g \in Hosts |->
                        IF g # h THEN running[g]
                        ELSE IF Placing(a) THEN running[g] + 1
                                           ELSE Decremented(running[g])]
       /\ taskLock' = [taskLock EXCEPT ![t] = NoOwner]
       /\ hostLock' = [g \in Hosts |-> IF g = h THEN NoOwner ELSE hostLock[g]]
       /\ \/ op[a] # "placeAndStart" /\ Return(a)
          \/ /\ op[a] = "placeAndStart"
             /\ Goto(a, "start")
             /\ op' = [op EXCEPT ![a] = "start"]
             /\ pick' = [pick EXCEPT ![a] = NoHost]
             /\ task' = task
       /\ UNCHANGED <<runner, launched>>

-----------------------------------------------------------------------------
(* UPDATEs that are transactions of their own *)

\* mutant: the UPDATE does not look at the status
StartBuildUnguarded(a) ==
    LET t == task[a]
    IN /\ at[a] = "start"
       /\ taskLock[t] = NoOwner
       /\ launched[t] < MaxLaunches
       /\ status' = [status EXCEPT ![t] = "building"]
       /\ launched' = [launched EXCEPT ![t] = @ + 1]
       /\ runner' = [runner EXCEPT ![<<t, launched'[t]>>] = "building"]
       /\ Return(a)
       /\ UNCHANGED <<host, running, locks>>

\* The rest of Start: StartBuild, then go runBuild; reading the host and
\* preparing the files are left out, with their failures.
StartBuild(a) ==
    LET t == task[a]
    IN /\ at[a] = "start"
       /\ taskLock[t] = NoOwner
       /\ \/ /\ status[t] = "dispatching"
             /\ launched[t] < MaxLaunches
             /\ status' = [status EXCEPT ![t] = "building"]
             /\ launched' = [launched EXCEPT ![t] = @ + 1]
             /\ runner' = [runner EXCEPT ![<<t, launched'[t]>>] = "building"]
          \/ status[t] # "dispatching" /\ UNCHANGED <<status, launched, runner>>
       /\ Return(a)
       /\ UNCHANGED <<host, running, locks>>

\* StartPush
StartPush(g) ==
    LET t == g[1]
    IN /\ runner[g] = "building"
       /\ taskLock[t] = NoOwner
       /\ \/ /\ status[t] = "building"
             /\ status' = [status EXCEPT ![t] = "pushing"]
             /\ runner' = [runner EXCEPT ![g] = "pushing"]
          \/ /\ status[t] # "building"
             /\ runner' = [runner EXCEPT ![g] = "none"]
             /\ status' = status
       /\ UNCHANGED <<host, running, locks, calls, launched>>

-----------------------------------------------------------------------------
Init == /\ status = [t \in Tasks |-> "queued"]
        /\ host = [t \in Tasks |-> NoHost]
        /\ running = [h \in Hosts |-> 0]
        /\ taskLock = [t \in Tasks |-> NoOwner]
        /\ hostLock = [h \in Hosts |-> NoOwner]
        /\ at = [a \in Actors |-> "idle"]
        /\ op = [a \in Actors |-> "start"]
        /\ task = [a \in Actors |-> NoTask]
        /\ pick = [a \in Actors |-> NoHost]
        /\ runner = [g \in Goroutines |-> "none"]
        /\ launched = [t \in Tasks |-> 0]

CallStep(a) == \/ ReadTask(a) \/ CountRunning(a) \/ SelectHost(a) \/ UpdateHost(a)
               \/ UpdateTask(a) \/ Commit(a) \/ StartBuild(a)

GoroutineStep(g) == StartPush(g) \/ Finish(g)

Next == \/ \E t \in Tasks : Schedule(t) \/ \E c \in Clients : Request(c, t)
        \/ \E g \in Goroutines : GoroutineStep(g)
        \/ \E a \in Actors : CallStep(a)

Spec == Init /\ [][Next]_vars

\* The calls that have read their task and not yet committed.  None of them
\* looks at the task again.
Decided == {a \in Actors : at[a] \in {"count", "select", "lockHost", "lockTask", "commit"}}

\* The behaviours in which no two of them work on one task: those of the code
\* when requests for a task happen not to overlap, and all of them if findByID
\* locked the row it reads.
Apart == \A a, b \in Decided : a # b => task[a] # task[b]
ApartSpec == Init /\ [][Next /\ Apart']_vars

-----------------------------------------------------------------------------
(* Properties *)

\* The callers that dispatch, and the transactions that counted below the limit
\* and have not committed.
Dispatchers == {Scheduler} \union
               (IF ClientOps \intersect {"dispatch", "start"} = {} THEN {} ELSE Clients)
Counted == {a \in Dispatchers : Placing(a) /\ at[a] \in {"select", "lockHost", "lockTask", "commit"}}

\* Type invariant.  That a counter is never negative is decrementHostRunning's
\* doing: a cancel and a completion may both give one slot back.
TypeOK ==
    /\ status \in [Tasks -> Statuses]
    /\ host \in [Tasks -> Hosts \union {NoHost}]
    /\ running \in [Hosts -> Nat]
    /\ taskLock \in [Tasks -> Actors \union {NoOwner}]
    /\ hostLock \in [Hosts -> Actors \union {NoOwner}]
    /\ at \in [Actors -> Positions]
    /\ op \in [Actors -> Ops]
    /\ task \in [Actors -> Tasks \union {NoTask}]
    /\ pick \in [Actors -> Hosts \union {NoHost}]
    /\ runner \in [Goroutines -> {"none", "building", "pushing"}]
    /\ launched \in [Tasks -> 0..MaxLaunches]

\* Each transaction that has counted and not yet placed may overshoot the
\* limit by its one task, but no history adds up more: the tasks under way and
\* those about to be number at most the limit and the dispatchers beside the
\* one that counted last.  With the scheduler alone the limit itself holds,
\* whatever users cancel meanwhile.
OvershootBounded ==
    Cardinality(Active) + Cardinality(Counted) < GlobalLimit + Cardinality(Dispatchers)

\* The same for the capacity of a host: what its counter says and those about to
\* increment it number at most the capacity and the dispatchers beside the one
\* that selected the host last.
Placers(h) == {a \in Counted : pick[a] = h}
HostOvershootBounded ==
    \A h \in Hosts : running[h] + Cardinality(Placers(h)) < MaxSlots + Cardinality(Dispatchers)

\* A build may be launched again, since each dispatcher that read its task queued
\* places it, but it is launched at most once for each dispatcher: nothing puts
\* a task back into the queue.
LaunchesBounded == \A t \in Tasks : launched[t] <= Cardinality(Dispatchers)

\* Transactions never wait for each other in a circle, and none leaves a locked
\* row behind: the owner of a host's row at most waits for its task's row, and
\* the owner of a task's row only has to commit.
LocksAreReleased ==
    /\ \A h \in Hosts : hostLock[h] # NoOwner =>
          pick[hostLock[h]] = h /\ at[hostLock[h]] \in {"lockTask", "commit"}
    /\ \A t \in Tasks : taskLock[t] # NoOwner =>
          task[taskLock[t]] = t /\ at[taskLock[t]] = "commit"

\* Of ApartSpec: the counter of a host is the number of its active tasks, also in
\* the middle of calls; every departure from that takes two transactions that
\* overlap on one task.
CountersExact ==
    \A h \in Hosts : running[h] = Cardinality({t \in Tasks : HoldsSlot(t) /\ host[t] = h})

\* The paths of docs/07-build-execution.md:102 that this module has.
Paths == {<<"queued", "dispatching">>, <<"dispatching", "building">>, <<"building", "pushing">>,
          <<"pushing", "push_success">>, <<"queued", "dispatch_failed">>,
          <<"building", "build_failed">>, <<"pushing", "push_failed">>}
           \union ((Statuses \ TerminalStatuses) \X {"canceled"})
           \union ({"building", "pushing"} \X {"timeout"})

\* Of ApartSpec: a status changes along these paths only (docs/07:134), whichever
\* of the UPDATEs that look at no status comes last; a goroutine that fails or is
\* timed out says so of the stage its task is in.
PathsKept == [][\A t \in Tasks : status'[t] = status[t] \/ <<status[t], status'[t]>> \in Paths]_vars

\* Of ApartSpec: a build is launched once, whoever dispatches and starts it.
LaunchedOnce == \A t \in Tasks : launched[t] <= 1

-----------------------------------------------------------------------------
(* What documents say and the code does not do on Postgres. *)

\* docs/07-build-execution.md:561: the scheduler never exceeds the global
\* limit.  OvershootBounded says by how much it can; the scheduler alone does not.
GlobalLimitHeld == Cardinality(Active) <= GlobalLimit

\* docs/07-build-execution.md:134: a status changes along the allowed paths only,
\* none of which leaves a final status.  Holds of ApartSpec.
EndIsFinal == [][\A t \in Tasks : Terminal(t) => status'[t] = status[t]]_vars

\* docs/11-acceptance.md:27: the counter of a host returns to its normal value
\* when tasks end.  Looked at when nothing is under way.
CountersSettle ==
    (\A a \in Actors : at[a] = "idle") =>
        \A h \in Hosts : running[h] = Cardinality({t \in Tasks : HoldsSlot(t) /\ host[t] = h})
=============================================================================
