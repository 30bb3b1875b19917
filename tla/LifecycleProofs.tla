--------------------------- MODULE LifecycleProofs ---------------------------
(***************************************************************************)
(* Theorems about the life of a task from its creation to its end: what a  *)
(* call knows of its task, how far goroutine and artifact have come when a *)
(* call closes the task, that the service implements TaskLifecycle, that a *)
(* task runs on the host it asked for, and that no task under way is       *)
(* forgotten while the server lives.                                       *)
(***************************************************************************)
EXTENDS BuildTaskProofs

-----------------------------------------------------------------------------
(* Calls and the tasks they work on *)

\* The steps of a Start that come after it saw its task placed.
PlacedSteps == {"host", "failHost", "prepare", "failPrep", "startBuild", "launch"}

Dispatched(t) == status[t] \notin {"absent", "queued", "created"}

\* What a call at step s knows of its task t.
Known(s, t) == /\ s \in TaskSteps => t \in Tasks /\ Exists(t)
               /\ s \in PlacedSteps => Dispatched(t) /\ host[t] \in Hosts
               /\ s = "failHost" => deleted[host[t]]

CallInv == \A c \in Callers : Known(pc[c], arg[c])

\* The tasks the scheduler has listed exist.
Listed == \A t \in todo : Exists(t)

\* What a call knows does not cease to be true: a task is not placed twice, and
\* neither its row nor the mark of a deleted host goes away.
Lasting == /\ \A t \in Tasks : /\ Exists(t) => Exists(t)'
                               /\ Dispatched(t) => Dispatched(t)' /\ host'[t] = host[t]
           /\ \A h \in Hosts : deleted[h] => deleted'[h]

\* A status given to a task, other than at its creation, undoes neither mark.
LEMMA StatusLasts ==
    ASSUME TypeOK, NEW t \in Tasks, NEW s \in Statuses, s \notin {"absent", "created"},
           s = "queued" => ~Exists(t), status' = [status EXCEPT ![t] = s]
    PROVE  \A u \in Tasks : (Exists(u) => Exists(u)') /\ (Dispatched(u) => Dispatched(u)')
BY DEF TypeOK, Exists, Dispatched

\* A call that a failing statement ends changes nothing but the call itself.
LEMMA FailedCall ==
    ASSUME NEW c \in Callers, CallFails(c)
    PROVE  /\ UNCHANGED <<taskVars, hostVars, runVars, restarts>>
           /\ ReturnLeaking(c) \/ \E ok \in BOOLEAN : Return(c, ok)
BY DEF CallFails, StatementFails, CountFails

\* No step undoes what calls know.
LEMMA StepLasts == TypeOK /\ ArgTyped /\ [Next]_vars => Lasting
<1> SUFFICES ASSUME TypeOK, ArgTyped, [Next]_vars PROVE Lasting
  OBVIOUS
<1>1. \A h \in Hosts : deleted[h] => deleted'[h]
  <2>1. deleted' = deleted \/ \E h \in Hosts : deleted' = [deleted EXCEPT ![h] = TRUE]
    <3> USE DEF hostVars, adminVars
    <3>1. ASSUME NEW c \in Callers, Pick(c) \/ Dispatch(c) \/ StartStep(c) PROVE deleted' = deleted
      BY <3>1 DEF Pick, Dispatch, StartStep, StartRead, StartHost, StartPrepare, StartFail,
                  StartBuild, Launch
    <3>2. ASSUME NEW c \in Clients, ClientCall(c) \/ CancelTx(c) \/ EndRequest(c) \/ Abort(c)
          PROVE  deleted' = deleted
      BY <3>2 DEF ClientCall, CallNext, CallStart, CallDispatch, CallCancel, Call, CancelTx,
                  EndRequest, Abort
    <3>3. ASSUME NEW t \in Tasks, Create(t) \/ Retry(t) \/ RunnerStep(t) PROVE deleted' = deleted
      BY <3>3 DEF Create, Retry, Insert, RunnerStep, RunLoad, RunCommand, RunStartPush,
                  RunPushLoad, RunRecord, RunEnd
    <3>4. CASE Tick \/ Scan \/ Restart \/ UNCHANGED vars
      BY <3>4 DEF Tick, Scan, Restart, vars
    <3>5. ASSUME NEW h \in Hosts, SwitchHost(h) \/ CheckHost(h) \/ ResizeHost(h) \/ DeleteHost(h)
          PROVE  deleted' = deleted \/ deleted' = [deleted EXCEPT ![h] = TRUE]
      BY <3>5 DEF SwitchHost, CheckHost, ResizeHost, DeleteHost
    <3>6. ASSUME NEW c \in Callers, CallFails(c) PROVE deleted' = deleted
      BY <3>6, FailedCall
    <3> QED BY <3>1, <3>2, <3>3, <3>4, <3>5, <3>6 DEF Next, SchedulerStep, ClientStep, Callers
  <2> QED BY <2>1 DEF TypeOK
<1>2. StepShape
  BY StepHasShape
<1>3. CASE Kept
  BY <1>1, <1>3 DEF Kept, Lasting, Exists, Dispatched
<1>4. ASSUME NEW t \in Tasks, Queued(t) PROVE Lasting
  BY <1>1, <1>4, StatusLasts DEF Queued, Lasting, Exists, Statuses
<1>5. ASSUME NEW t \in Tasks, NEW h \in Hosts, Placed(t, h) PROVE Lasting
  <2>1. \A u \in Tasks : Dispatched(u) => host'[u] = host[u]
    BY <1>5 DEF Placed, Place, Dispatched, TypeOK
  <2> QED BY <1>1, <1>5, <2>1, StatusLasts DEF Placed, Place, Lasting, Statuses
<1>6. ASSUME NEW t \in Tasks,
             Moved(t, "dispatching", "building") \/ Moved(t, "building", "pushing")
      PROVE  Lasting
  BY <1>1, <1>6, StatusLasts DEF Moved, Lasting, Statuses
<1>7. ASSUME NEW t \in Tasks, Ended(t) PROVE Lasting
  <2>1. PICK s \in Endings : status' = [status EXCEPT ![t] = s] /\ UNCHANGED host
    BY <1>7 DEF Ended, Settle
  <2>2. s \in Statuses /\ s \notin {"absent", "created", "queued"}
    BY DEF Endings, TerminalStatuses, Statuses
  <2> QED BY <1>1, <2>1, <2>2, StatusLasts DEF Lasting
<1> QED BY <1>2, <1>3, <1>4, <1>5, <1>6, <1>7 DEF StepShape

\* One call moves, to a step whose knowledge it has; the others know what they knew.
LEMMA KnownMove ==
    ASSUME TypeOK, CallInv, Lasting, NEW c \in Callers, NEW s, NEW t, Goto(c, s), Known(s, t),
           arg'[c] = t, \A d \in Callers \ {c} : arg'[d] = arg[d]
    PROVE  CallInv'
<1>1. ASSUME NEW d \in Callers
      PROVE  \E r, u : /\ pc'[d] = r /\ arg'[d] = u
                       /\ r \in TaskSteps => u \in Tasks /\ Exists(u)
                       /\ r \in PlacedSteps => Dispatched(u) /\ host[u] \in Hosts
                       /\ r = "failHost" => deleted[host[u]]
  <2>1. CASE d = c
    <3>1. pc'[d] = s /\ arg'[d] = t
      BY <2>1 DEF Goto, TypeOK
    <3> QED BY <3>1 DEF Known
  <2>2. CASE d # c
    <3>1. pc'[d] = pc[d] /\ arg'[d] = arg[d]
      BY <2>2 DEF Goto, TypeOK
    <3> QED BY <3>1 DEF CallInv, Known
  <2> QED BY <2>1, <2>2
<1>2. ASSUME NEW d \in Callers
      PROVE  /\ pc'[d] \in TaskSteps => arg'[d] \in Tasks /\ status'[arg'[d]] # "absent"
             /\ pc'[d] \in PlacedSteps => /\ status'[arg'[d]] \notin {"absent", "queued", "created"}
                                          /\ host'[arg'[d]] \in Hosts
             /\ pc'[d] = "failHost" => deleted'[host'[arg'[d]]]
  <2>1. PICK r, u : /\ pc'[d] = r /\ arg'[d] = u
                    /\ r \in TaskSteps => u \in Tasks /\ Exists(u)
                    /\ r \in PlacedSteps => Dispatched(u) /\ host[u] \in Hosts
                    /\ r = "failHost" => deleted[host[u]]
    BY <1>1
  <2>2. PlacedSteps \subseteq TaskSteps /\ "failHost" \in PlacedSteps
    BY DEF PlacedSteps, TaskSteps, CallSteps
  <2>3. r \in TaskSteps => u \in Tasks /\ status'[u] # "absent"
    BY <2>1 DEF Lasting, Exists
  <2>4. r \in PlacedSteps => /\ status'[u] \notin {"absent", "queued", "created"}
                             /\ host'[u] = host[u]
    BY <2>1, <2>2 DEF Lasting, Dispatched
  <2>5. r = "failHost" => deleted'[host'[u]]
    BY <2>1, <2>2, <2>4 DEF Lasting
  <2> QED BY <2>1, <2>3, <2>4, <2>5
<1> QED BY <1>2 DEF CallInv, Known, Exists, Dispatched

\* A call that returns needs to know nothing.
LEMMA KnownReturn ==
    ASSUME TypeOK, CallInv, Lasting, NEW c \in Callers, NEW ok, Return(c, ok) \/ ReturnLeaking(c)
    PROVE  CallInv'
<1>1. (\E s \in {"idle", "scan", "pick", "respond"} : Goto(c, s)) /\ arg'[c] = NoTask
  BY DEF Return, ReturnLeaking, TypeOK
<1>2. \A d \in Callers \ {c} : arg'[d] = arg[d]
  BY DEF Return, ReturnLeaking, TypeOK
<1>3. \A s \in {"idle", "scan", "pick", "respond"} : Known(s, NoTask)
  BY DEF Known, TaskSteps, PlacedSteps
<1> QED BY <1>1, <1>2, <1>3, KnownMove

\* A call that goes on with the task it has, or with none.
LEMMA KnownGoto ==
    ASSUME TypeOK, CallInv, Lasting, NEW c \in Callers, NEW s, Goto(c, s), UNCHANGED arg,
           Known(s, arg[c])
    PROVE  CallInv'
BY KnownMove

\* The steps of Start and of the dispatches establish what their next step goes by.
LEMMA CallsKnow ==
    ASSUME TypeOK, CallInv, Lasting, Housed, NEW c \in Callers,
           Pick(c) \/ Dispatch(c) \/ StartStep(c)
    PROVE  CallInv'
<1> DEFINE t == arg[c]
<1>1. Known(pc[c], t)
  BY DEF CallInv
<1>2. CASE \E ok \in BOOLEAN : Return(c, ok)
  BY <1>2, KnownReturn
<1>3. CASE ReturnLeaking(c)
  BY <1>3, KnownReturn
<1>4. ASSUME NEW s \in {"idle", "read", "startTx", "reread", "pick"}, Goto(c, s), UNCHANGED arg,
             s \in TaskSteps => pc[c] \in TaskSteps
      PROVE  CallInv'
  <2>1. Known(s, t)
    BY <1>1, <1>4 DEF Known, PlacedSteps
  <2> QED BY <1>4, <2>1, KnownGoto
<1>5. CASE Pick(c)
  <2>1. CASE Goto(c, "idle") /\ UNCHANGED arg
    BY <1>4, <2>1 DEF TaskSteps
  <2>2. CASE \E u \in QueueHeads : Goto(c, "pickTx") /\ arg' = [arg EXCEPT ![c] = u]
    <3>1. PICK u \in QueueHeads : Goto(c, "pickTx") /\ arg' = [arg EXCEPT ![c] = u]
      BY <2>2
    <3>2. Known("pickTx", u)
      BY <3>1 DEF Known, QueueHeads, Exists, PlacedSteps
    <3> QED BY <3>1, <3>2, KnownMove DEF TypeOK
  <2> QED BY <1>5, <2>1, <2>2 DEF Pick
<1>6. CASE Dispatch(c)
  <2>1. CASE \E s \in {"read", "reread"} : Goto(c, s) /\ UNCHANGED arg
    BY <1>4, <1>6, <2>1 DEF Dispatch, TaskSteps, CallSteps
  <2> QED BY <1>2, <1>3, <1>6, <2>1 DEF Dispatch, AfterPlacing, loopVars
<1>7. CASE StartRead(c)
  <2>1. CASE Goto(c, "startTx") /\ UNCHANGED arg
    BY <1>4, <1>7, <2>1 DEF StartRead, TaskSteps, CallSteps
  <2>2. CASE Goto(c, "host") /\ UNCHANGED arg /\ status[t] = "dispatching"
    <3>1. t \in Tasks
      BY <1>1, <1>7 DEF Known, StartRead, TaskSteps, CallSteps
    <3>2. host[t] \in Hosts
      BY <2>2, <3>1 DEF Housed, HoldsSlot, SlotStatuses
    <3>3. Known("host", t)
      BY <2>2, <3>1, <3>2 DEF Known, Exists, Dispatched
    <3> QED BY <2>2, <3>3, KnownGoto
  <2> QED BY <1>2, <1>7, <2>1, <2>2 DEF StartRead
<1>8. ASSUME NEW s \in {"prepare", "failPrep", "startBuild", "launch"}, Goto(c, s), UNCHANGED arg,
             pc[c] \in PlacedSteps
      PROVE  CallInv'
  <2>1. Known(s, t)
    BY <1>1, <1>8 DEF Known, PlacedSteps, TaskSteps, CallSteps
  <2> QED BY <1>8, <2>1, KnownGoto
<1>9. CASE StartHost(c)
  <2>1. CASE Goto(c, "failHost") /\ UNCHANGED arg /\ deleted[host[t]]
    <3>1. Known("failHost", t)
      BY <1>1, <1>9, <2>1 DEF Known, StartHost, PlacedSteps, TaskSteps, CallSteps
    <3> QED BY <2>1, <3>1, KnownGoto
  <2>2. CASE Goto(c, "prepare") /\ UNCHANGED arg
    BY <1>8, <1>9, <2>2 DEF StartHost, PlacedSteps
  <2> QED BY <1>2, <1>9, <2>1, <2>2 DEF StartHost
<1>10. CASE StartPrepare(c)
  BY <1>8, <1>10 DEF StartPrepare, PlacedSteps
<1>11. CASE StartBuild(c)
  BY <1>2, <1>8, <1>11 DEF StartBuild, PlacedSteps
<1>12. CASE StartFail(c)
  BY <1>12, KnownReturn DEF StartFail
<1>13. CASE Launch(c)
  BY <1>2, <1>13 DEF Launch
<1> QED BY <1>5, <1>6, <1>7, <1>9, <1>10, <1>11, <1>12, <1>13 DEF StartStep

\* Every call knows what it goes by, also after others have had their turn.
LEMMA CallInvStep ==
    TypeOK /\ ArgTyped /\ Housed /\ Listed /\ CallInv /\ [Next]_vars => CallInv'
<1> SUFFICES ASSUME TypeOK, ArgTyped, Housed, Listed, CallInv, [Next]_vars PROVE CallInv'
  OBVIOUS
<1>1. Lasting
  BY StepLasts
<1>2. \A s \in {"idle", "scan", "pick", "respond"} : \A t : Known(s, t)
  BY DEF Known, TaskSteps, PlacedSteps
<1>3. ASSUME NEW c \in Callers, Pick(c) \/ Dispatch(c) \/ StartStep(c) PROVE CallInv'
  BY <1>1, <1>3, CallsKnow
<1>4. CASE Tick
  BY <1>1, <1>2, <1>4, KnownGoto DEF Tick, Callers
<1>5. CASE Scan
  <2>1. CASE todo = {}
    BY <1>1, <1>2, <1>5, <2>1, KnownGoto DEF Scan, Callers
  <2>2. CASE todo # {}
    <3>1. PICK t \in todo : arg' = [arg EXCEPT ![Scheduler] = t]
      BY <1>5, <2>2 DEF Scan
    <3>2. Known("read", t)
      BY <3>1 DEF Known, PlacedSteps, Listed, TypeOK
    <3> QED BY <1>1, <1>5, <2>2, <3>1, <3>2, KnownMove DEF Scan, Callers, TypeOK
  <2> QED BY <2>1, <2>2
<1>6. ASSUME NEW c \in Clients, CallNext(c) \/ EndRequest(c) PROVE CallInv'
  BY <1>1, <1>2, <1>6, KnownGoto DEF CallNext, EndRequest, Callers
<1>7. ASSUME NEW c \in Clients, NEW t \in Tasks,
             CallStart(c, t) \/ CallDispatch(c, t) \/ CallCancel(c, t)
      PROVE  CallInv'
  <2>1. /\ \E s \in {"read", "pickTx", "cancelTx"} : Goto(c, s)
        /\ arg' = [arg EXCEPT ![c] = t] /\ Exists(t)
    BY <1>7 DEF CallStart, CallDispatch, CallCancel, Call
  <2>2. \A s \in {"read", "pickTx", "cancelTx"} : Known(s, t)
    BY <2>1 DEF Known, PlacedSteps
  <2> QED BY <1>1, <2>1, <2>2, KnownMove DEF Callers, TypeOK
<1>8. ASSUME NEW c \in Clients, CancelTx(c) \/ Abort(c) PROVE CallInv'
  BY <1>1, <1>8, KnownReturn DEF CancelTx, Abort, Callers
<1>9. CASE UNCHANGED callVars
  BY <1>1, <1>9 DEF callVars, CallInv, Known, Lasting, Exists, Dispatched, PlacedSteps, TaskSteps, CallSteps
<1>10. CASE Restart
  BY <1>10 DEF Restart, CallInv, Known, TaskSteps, PlacedSteps
<1>11. ASSUME NEW t \in Tasks, Create(t) \/ Retry(t) \/ RunnerStep(t) PROVE UNCHANGED callVars
  BY <1>11 DEF Create, Retry, Insert, RunnerStep, RunLoad, RunCommand, RunStartPush,
               RunPushLoad, RunRecord, RunEnd, callVars
<1>12. ASSUME NEW h \in Hosts, SwitchHost(h) \/ CheckHost(h) \/ ResizeHost(h) \/ DeleteHost(h)
       PROVE  UNCHANGED callVars
  BY <1>12 DEF SwitchHost, CheckHost, ResizeHost, DeleteHost, callVars
<1>13. CASE UNCHANGED vars
  BY <1>9, <1>13 DEF vars
<1>14. ASSUME NEW c \in Callers, CallFails(c) PROVE CallInv'
  BY <1>1, <1>14, FailedCall, KnownReturn
<1> QED BY <1>3, <1>4, <1>5, <1>6, <1>7, <1>8, <1>9, <1>10, <1>11, <1>12, <1>13, <1>14
        DEF Next, SchedulerStep, ClientCall, ClientStep, Callers

\* The scheduler's list shrinks, or is made of tasks that exist.
LEMMA ListedStep ==
    TypeOK /\ ArgTyped /\ Listed /\ [Next]_vars => Listed'
<1> SUFFICES ASSUME TypeOK, ArgTyped, Listed, [Next]_vars PROVE Listed'
  OBVIOUS
<1>1. Lasting
  BY StepLasts
<1>2. CASE todo' \subseteq todo
  BY <1>1, <1>2 DEF Listed, Lasting, TypeOK, Exists
<1>3. CASE Tick
  BY <1>3 DEF Tick, Listed, Exists, taskVars
<1>4. ASSUME NEW c \in Callers, NEW ok, Return(c, ok) \/ ReturnLeaking(c)
      PROVE  todo' \subseteq todo
  BY <1>4 DEF Return, ReturnLeaking, loopVars
<1>5. ASSUME NEW c \in Callers, Pick(c) \/ Dispatch(c) PROVE todo' \subseteq todo
  BY <1>4, <1>5 DEF Pick, Dispatch, AfterPlacing, loopVars
<1>6. ASSUME NEW c \in Callers, StartStep(c) PROVE todo' \subseteq todo
  BY <1>4, <1>6 DEF StartStep, StartRead, StartHost, StartPrepare, StartFail, StartBuild, Launch, loopVars
<1>7. ASSUME NEW c \in Clients, ClientCall(c) \/ CancelTx(c) \/ EndRequest(c) \/ Abort(c)
      PROVE  todo' \subseteq todo
  BY <1>4, <1>7 DEF ClientCall, CallNext, CallStart, CallDispatch, CallCancel, Call, CancelTx,
                    EndRequest, Abort, loopVars, Callers
<1>8. CASE Scan \/ Restart \/ UNCHANGED vars
  BY <1>2, <1>8 DEF Scan, Restart, vars, loopVars
<1>9. ASSUME NEW t \in Tasks, Create(t) \/ Retry(t) \/ RunnerStep(t) PROVE todo' = todo
  BY <1>9 DEF Create, Retry, Insert, RunnerStep, RunLoad, RunCommand, RunStartPush,
              RunPushLoad, RunRecord, RunEnd, loopVars
<1>10. ASSUME NEW h \in Hosts, SwitchHost(h) \/ CheckHost(h) \/ ResizeHost(h) \/ DeleteHost(h)
       PROVE  todo' = todo
  BY <1>10 DEF SwitchHost, CheckHost, ResizeHost, DeleteHost, loopVars
<1>11. ASSUME NEW c \in Callers, CallFails(c) PROVE todo' \subseteq todo
  BY <1>4, <1>11, FailedCall
<1> QED BY <1>2, <1>3, <1>5, <1>6, <1>7, <1>8, <1>9, <1>10, <1>11
        DEF Next, SchedulerStep, ClientStep, Callers

\* What calls know and the scheduler has listed, in every run.
LEMMA CallsStayKnowing == Spec => [](CallInv /\ Listed)
<1>1. Init => CallInv /\ Listed
  BY DEF Init, CallInv, Known, Listed, TaskSteps, PlacedSteps
<1>2. SlotInvariant => Housed
  BY DEF SlotInvariant
<1>3. Spec => []Housed
  BY <1>2, InitSlots, SlotStep, TypeCorrect, CallsHaveTasks, PTL DEF Spec
<1> QED BY <1>1, <1>3, CallInvStep, ListedStep, TypeCorrect, CallsHaveTasks, PTL DEF Spec

-----------------------------------------------------------------------------
(* How far a task has come *)

\* The statuses that a call gives to a task which a goroutine still works on:
\* a user canceled it, or the preparation of a second Start failed.
Closed == {"canceled", "preparing_context_failed"}

\* The statuses no operation gives.
NeverGiven == {"created", "preparing_context", "build_success"}

Reached == \A t \in Tasks : status[t] \notin NeverGiven

\* The arrows of a task t that calls and the queue are answerable for.
Refused(t) == /\ status[t] \in {"queued", "created"}
              /\ status' = [status EXCEPT ![t] = "dispatch_failed"]
              /\ UNCHANGED host
ClosedBy(t, s) == /\ Exists(t) /\ ~Terminal(t)
                  /\ s = "preparing_context_failed" => Dispatched(t)
                  /\ status' = [status EXCEPT ![t] = s]
                  /\ UNCHANGED host

CallShape == \/ UNCHANGED <<status, host>>
             \/ \E t \in Tasks : \/ Queued(t)
                                 \/ \E h \in Hosts : Placed(t, h)
                                 \/ Refused(t)
                                 \/ Moved(t, "dispatching", "building")
                                 \/ \E s \in Closed : ClosedBy(t, s)

\* The transactions of calls move a task along one of these arrows.  That Start
\* finds the host of its task deleted changes nothing: FailTask is rolled back.
LEMMA CallHasShape ==
    ASSUME TypeOK, CallInv, Reached, NEW c \in Callers, Dispatch(c) \/ StartStep(c) \/ CancelTx(c)
    PROVE  CallShape
<1> DEFINE t == arg[c]
<1>1. Known(pc[c], t)
  BY DEF CallInv
<1>2. ASSUME t \in Tasks, Exists(t), NEW s \in Closed, FailTask(t, s), UNCHANGED host,
             s = "preparing_context_failed" => Dispatched(t)
      PROVE  CallShape
  BY <1>2 DEF FailTask, Settle, CallShape, ClosedBy
<1>3. CASE Dispatch(c)
  <2>1. t \in Tasks
    BY <1>1, <1>3 DEF Dispatch, Known, TaskSteps, CallSteps
  <2>2. CASE \E h \in BestHosts(t) : Place(t, h) /\ GlobalRoom /\ status[t] \in {"queued", "created"}
    BY <2>1, <2>2 DEF CallShape, Placed, BestHosts, Candidates
  <2>3. CASE Refused(t)
    BY <2>1, <2>3 DEF CallShape
  <2>4. CASE UNCHANGED <<status, host>>
    BY <2>4 DEF CallShape
  <2> QED BY <1>3, <2>2, <2>3, <2>4 DEF Dispatch, Refused
<1>4. CASE StartFail(c)
  <2>1. t \in Tasks /\ Exists(t) /\ Dispatched(t)
    BY <1>1, <1>4 DEF StartFail, Known, PlacedSteps, TaskSteps, CallSteps
  <2>2. CASE pc[c] = "failHost"
    <3>1. Terminal(t) \/ ~SlotReleasable(t)
      <4>1. deleted[host[t]]
        BY <1>1, <2>2 DEF Known
      <4>2. CASE status[t] \in {"dispatching", "building", "pushing"}
        BY <4>1, <4>2 DEF SlotReleasable, HoldsSlot, SlotStatuses
      <4>3. CASE status[t] \notin {"dispatching", "building", "pushing"}
        BY <2>1, <4>3 DEF TypeOK, Statuses, Reached, NeverGiven, Dispatched, Terminal, TerminalStatuses
      <4> QED BY <4>2, <4>3
    <3> QED BY <1>4, <3>1 DEF StartFail, FailTask, CallShape
  <2>3. CASE pc[c] = "failPrep"
    <3>1. FailTask(t, "preparing_context_failed") /\ UNCHANGED host
      BY <1>4, <2>3 DEF StartFail
    <3> QED BY <1>2, <2>1, <3>1 DEF Closed
  <2> QED BY <1>4, <2>2, <2>3 DEF StartFail
<1>5. CASE StartBuild(c)
  <2>1. t \in Tasks
    BY <1>1, <1>5 DEF StartBuild, Known, TaskSteps, CallSteps
  <2> QED BY <1>5, <2>1 DEF StartBuild, CallShape, Moved, hostVars, adminVars
<1>6. CASE StartRead(c) \/ StartHost(c) \/ StartPrepare(c) \/ Launch(c)
  BY <1>6 DEF StartRead, StartHost, StartPrepare, Launch, CallShape, taskVars
<1>7. CASE CancelTx(c)
  <2>1. t \in Tasks /\ Exists(t)
    BY <1>1, <1>7 DEF CancelTx, Known, TaskSteps, CallSteps
  <2>2. CASE Terminal(t)
    BY <1>7, <2>2 DEF CancelTx, CallShape
  <2>3. CASE ~Terminal(t)
    <3>1. FailTask(t, "canceled") /\ UNCHANGED host
      BY <1>7, <2>3 DEF CancelTx
    <3> QED BY <1>2, <2>1, <3>1 DEF Closed
  <2> QED BY <2>2, <2>3
<1> QED BY <1>3, <1>4, <1>5, <1>6, <1>7 DEF StartStep

\* What the steps of calls, queue, administrator and restarts leave alone.
Aside == /\ UNCHANGED <<launched, published>>
         /\ \A t \in Tasks : runner'[t] \in {runner[t], "none"}
         /\ \A c \in Callers : pc'[c] = "launch" =>
               (pc[c] = "launch" /\ arg'[c] = arg[c]) \/ status'[arg'[c]] = "building"

Resized(h) == \E n \in 1..MaxSlots : maxSlots' = [maxSlots EXCEPT ![h] = n]

\* Every step is one of four kinds.
StepKind == \/ CallShape /\ Aside /\ UNCHANGED maxSlots
            \/ UNCHANGED <<status, host>> /\ Aside /\ \E h \in Hosts : Resized(h)
            \/ \E c \in Callers : Launch(c)
            \/ \E t \in Tasks : RunnerStep(t)

\* The steps of a call, except the launch, leave goroutines and artifacts alone.
LEMMA CallAside ==
    ASSUME TypeOK, ArgTyped, NEW c \in Callers,
           \/ Pick(c) \/ Dispatch(c) \/ StartRead(c) \/ StartHost(c) \/ StartPrepare(c)
           \/ StartFail(c) \/ StartBuild(c) \/ CancelTx(c) \/ EndRequest(c) \/ Abort(c)
           \/ (c \in Clients /\ ClientCall(c))
    PROVE  Aside
<1> USE DEF runVars, taskVars, hostVars, adminVars, loopVars
<1>1. UNCHANGED <<runner, launched, published>>
  BY DEF Pick, Dispatch, StartRead, StartHost, StartPrepare, StartFail, StartBuild, CancelTx,
         EndRequest, Abort, ClientCall, CallNext, CallStart, CallDispatch, CallCancel, Call
<1>2. CASE NoClaim
  BY <1>1, <1>2 DEF NoClaim, Aside
<1>3. ASSUME NEW ok, Return(c, ok) \/ ReturnLeaking(c) PROVE Aside
  BY <1>2, <1>3, ReturnClaims
<1>4. ASSUME NEW s, Goto(c, s), s # "launch", \A d \in Callers \ {c} : arg'[d] = arg[d]
      PROVE  Aside
  BY <1>2, <1>4, GotoClaims
<1>5. CASE Pick(c)
  <2>1. (\E s \in {"idle", "pickTx"} : Goto(c, s)) /\ \A d \in Callers \ {c} : arg'[d] = arg[d]
    BY <1>5 DEF Pick, TypeOK
  <2> QED BY <1>4, <2>1
<1>6. CASE Dispatch(c)
  BY <1>3, <1>4, <1>6 DEF Dispatch, AfterPlacing
<1>7. CASE StartRead(c) \/ StartHost(c) \/ StartPrepare(c)
  BY <1>3, <1>4, <1>7 DEF StartRead, StartHost, StartPrepare
<1>8. CASE StartFail(c)
  BY <1>3, <1>8 DEF StartFail
<1>9. CASE StartBuild(c)
  <2>1. CASE Return(c, FALSE)
    BY <1>3, <2>1
  <2>2. CASE /\ Goto(c, "launch") /\ UNCHANGED arg
             /\ status' = [status EXCEPT ![arg[c]] = "building"]
    <3>1. arg[c] \in Tasks
      BY <1>9 DEF StartBuild, ArgTyped, TaskSteps, CallSteps
    <3> QED BY <1>1, <2>2, <3>1 DEF Goto, TypeOK, Aside
  <2> QED BY <1>9, <2>1, <2>2 DEF StartBuild
<1>10. CASE CancelTx(c)
  BY <1>3, <1>10 DEF CancelTx
<1>11. CASE EndRequest(c) \/ Abort(c)
  BY <1>3, <1>4, <1>11 DEF EndRequest, Abort
<1>12. CASE c \in Clients /\ ClientCall(c)
  <2>1. (\E s \in {"pick", "read", "pickTx", "cancelTx"} : Goto(c, s))
         /\ \A d \in Callers \ {c} : arg'[d] = arg[d]
    BY <1>12 DEF ClientCall, CallNext, CallStart, CallDispatch, CallCancel, Call, TypeOK
  <2> QED BY <1>4, <2>1
<1> QED BY <1>5, <1>6, <1>7, <1>8, <1>9, <1>10, <1>11, <1>12

\* So every step of the service is of one of the four kinds.
LEMMA StepHasKind == TypeOK /\ ArgTyped /\ CallInv /\ Reached /\ [Next]_vars => StepKind
<1> SUFFICES ASSUME TypeOK, ArgTyped, CallInv, Reached, [Next]_vars PROVE StepKind
  OBVIOUS
<1> USE DEF runVars, taskVars, hostVars, adminVars, callVars, loopVars
<1>1. ASSUME NEW c \in Callers, Dispatch(c) \/ StartStep(c) \/ CancelTx(c) PROVE StepKind
  <2>1. UNCHANGED maxSlots
    BY <1>1 DEF Dispatch, StartStep, StartRead, StartHost, StartPrepare, StartFail, StartBuild,
                Launch, CancelTx
  <2>2. CASE Launch(c)
    BY <2>2 DEF StepKind
  <2>3. CASE ~Launch(c)
    <3>1. Aside
      BY <1>1, <2>3, CallAside DEF StartStep
    <3> QED BY <1>1, <2>1, <3>1, CallHasShape DEF StepKind
  <2> QED BY <2>2, <2>3
<1>2. CASE UNCHANGED <<status, host, maxSlots>> /\ Aside
  BY <1>2 DEF StepKind, CallShape
<1>3. ASSUME NEW c \in Callers, Pick(c) \/ (c \in Clients /\ (ClientCall(c) \/ EndRequest(c) \/ Abort(c)))
      PROVE  StepKind
  <2>1. UNCHANGED <<status, host, maxSlots>>
    BY <1>3 DEF Pick, ClientCall, CallNext, CallStart, CallDispatch, CallCancel, Call,
                EndRequest, Abort
  <2> QED BY <1>2, <1>3, <2>1, CallAside
<1>4. CASE Tick \/ Scan
  <2>1. UNCHANGED <<status, host, maxSlots, runner, launched, published>>
    BY <1>4 DEF Tick, Scan
  <2>2. NoClaim
    <3>1. (\E s \in {"scan", "pick", "read"} : Goto(Scheduler, s))
          /\ \A d \in Callers \ {Scheduler} : arg'[d] = arg[d]
      BY <1>4 DEF Tick, Scan, TypeOK
    <3> QED BY <3>1, GotoClaims DEF Callers
  <2> QED BY <1>2, <2>1, <2>2 DEF Aside, NoClaim
<1>5. CASE Restart
  <2>1. Aside
    BY <1>5 DEF Restart, Aside
  <2> QED BY <1>2, <1>5, <2>1 DEF Restart
<1>6. ASSUME NEW t \in Tasks, Create(t) \/ Retry(t) PROVE StepKind
  <2>1. Queued(t) /\ UNCHANGED <<maxSlots, runner, launched, published, pc, arg>>
    BY <1>6 DEF Create, Retry, Insert, Exists, Queued
  <2>2. Aside
    BY <2>1 DEF Aside
  <2> QED BY <2>1, <2>2 DEF StepKind, CallShape
<1>7. ASSUME NEW t \in Tasks, RunnerStep(t) PROVE StepKind
  BY <1>7 DEF StepKind
<1>8. ASSUME NEW h \in Hosts, SwitchHost(h) \/ CheckHost(h) \/ DeleteHost(h) PROVE StepKind
  <2>1. UNCHANGED <<status, host, maxSlots, runner, launched, published, pc, arg>>
    BY <1>8 DEF SwitchHost, CheckHost, DeleteHost
  <2> QED BY <1>2, <2>1 DEF Aside
<1>9. ASSUME NEW h \in Hosts, ResizeHost(h) PROVE StepKind
  <2>1. UNCHANGED <<status, host, runner, launched, published, pc, arg>>
    BY <1>9 DEF ResizeHost
  <2>2. Resized(h)
    BY <1>9 DEF ResizeHost, Resized
  <2>3. Aside
    BY <2>1 DEF Aside
  <2>4. UNCHANGED <<status, host>> /\ Aside /\ \E g \in Hosts : Resized(g)
    BY <2>1, <2>2, <2>3
  <2> QED BY <2>4 DEF StepKind
<1>10. CASE UNCHANGED vars
  BY <1>2, <1>10 DEF vars, Aside
<1>11. CASE SchedulerStep
  BY <1>1, <1>3, <1>4, <1>11 DEF SchedulerStep, Callers
<1>12. ASSUME NEW c \in Clients, ClientCall(c) \/ ClientStep(c) \/ Abort(c) PROVE StepKind
  BY <1>1, <1>3, <1>12 DEF ClientStep, Callers
<1>13. ASSUME NEW c \in Callers, CallFails(c) PROVE StepKind
  <2>1. NoClaim
    BY <1>13, FailedCall, ReturnClaims
  <2> QED BY <1>2, <1>13, <2>1, FailedCall DEF NoClaim, Aside
<1> HIDE DEF StepKind, runVars, taskVars, hostVars, adminVars, callVars, loopVars
<1> QED BY <1>5, <1>6, <1>7, <1>8, <1>9, <1>10, <1>11, <1>12, <1>13 DEF Next

\* No transaction writes one of these statuses.
LEMMA ReachedStep == TypeOK /\ ArgTyped /\ Reached /\ [Next]_vars => Reached'
<1> SUFFICES ASSUME TypeOK, ArgTyped, Reached, [Next]_vars PROVE Reached'
  OBVIOUS
<1>1. StepShape
  BY StepHasShape
<1>2. ASSUME NEW t \in Tasks, NEW s, s \notin NeverGiven, status' = [status EXCEPT ![t] = s]
      PROVE  Reached'
  BY <1>2 DEF Reached, TypeOK
<1>3. CASE Kept
  BY <1>3 DEF Kept, Reached
<1>4. ASSUME NEW t \in Tasks,
             \/ Queued(t) \/ (\E h \in Hosts : Placed(t, h)) \/ Ended(t)
             \/ Moved(t, "dispatching", "building") \/ Moved(t, "building", "pushing")
      PROVE  Reached'
  <2>1. \E s : s \notin NeverGiven /\ status' = [status EXCEPT ![t] = s]
    BY <1>4 DEF Queued, Placed, Place, Ended, Settle, Moved, Endings, TerminalStatuses,
                SlotStatuses, NeverGiven
  <2> QED BY <1>2, <2>1
<1> QED BY <1>1, <1>3, <1>4 DEF StepShape

\* A goroutine's position, and what was published, tell how far the task has
\* come: it is still in the stage, or a call closed it.
AtStage(t) ==
    /\ runner[t] \in BuildSteps => status[t] \in {"building"} \union Closed
    /\ runner[t] \in PushSteps => status[t] \in {"pushing"} \union Closed
    /\ runner[t] = "timeout" => status[t] \in {"building", "pushing"} \union Closed
    /\ runner[t] = "recorded" => t \in published

AtEnd(t) ==
    /\ t \in published => /\ launched[t] = 1
                          /\ runner[t] \in {"recorded", "none"}
                          /\ status[t] \in {"pushing", "push_success"} \union Closed
    /\ status[t] = "push_success" => t \in published

ProgressInv ==
    /\ \A t \in Tasks : AtStage(t) /\ AtEnd(t)
    /\ \A c \in Callers : pc[c] = "launch" => status[arg[c]] \in {"building"} \union Closed

\* A task that a goroutine works on only changes by being closed; nothing but
\* a goroutine reports a success.
Closes(t) == \/ status'[t] = status[t]
             \/ (status[t] \in {"building", "pushing"} /\ status'[t] \in Closed)
             \/ (~Begun(t) /\ status'[t] # "push_success")

\* The arrows of calls change a begun task only by closing it.
LEMMA ShapeCloses ==
    ASSUME TypeOK, Reached, CallShape, NEW t \in Tasks
    PROVE  Closes(t)
<1>1. CASE UNCHANGED <<status, host>>
  BY <1>1 DEF Closes
<1>2. ASSUME NEW u \in Tasks, NEW s, status' = [status EXCEPT ![u] = s], s # "push_success",
             ~Begun(u) \/ (status[u] \in {"building", "pushing"} /\ s \in Closed)
      PROVE  Closes(t)
  BY <1>2 DEF Closes, TypeOK
<1>3. ASSUME NEW u \in Tasks,
             \/ Queued(u) \/ (\E h \in Hosts : Placed(u, h)) \/ Refused(u)
             \/ Moved(u, "dispatching", "building")
      PROVE  Closes(t)
  <2>1. /\ \E s \in {"queued", "dispatching", "dispatch_failed", "building"} :
             status' = [status EXCEPT ![u] = s]
        /\ status[u] \in {"absent", "queued", "created", "dispatching"}
    BY <1>3 DEF Queued, Placed, Place, Refused, Moved
  <2>2. ~Begun(u)
    BY <2>1 DEF Begun, Terminal, TerminalStatuses
  <2> QED BY <1>2, <2>1, <2>2
<1>4. ASSUME NEW u \in Tasks, NEW s \in Closed, ClosedBy(u, s) PROVE Closes(t)
  <2>1. ~Begun(u) \/ status[u] \in {"building", "pushing"}
    BY <1>4 DEF ClosedBy, Begun
  <2>2. status' = [status EXCEPT ![u] = s] /\ s # "push_success"
    BY <1>4 DEF ClosedBy, Closed
  <2> QED BY <1>2, <2>1, <2>2
<1> QED BY <1>1, <1>3, <1>4 DEF CallShape

\* What is begun is in no status before that.
LEMMA BegunStatuses == \A t \in Tasks : status[t] \in {"building", "pushing", "push_success"} \union Closed => Begun(t)
BY DEF Begun, Terminal, TerminalStatuses, Closed

\* Steps that leave the goroutines aside keep position, status and artifact in line.
LEMMA AsideProgress ==
    ASSUME TypeOK, CallInv, RunnerInv, ProgressInv, Aside, \A t \in Tasks : Closes(t)
    PROVE  ProgressInv'
<1>1. ASSUME NEW t \in Tasks, NEW S, status[t] \in S,
             S \subseteq {"building", "pushing", "push_success"} \union Closed,
             Closed \subseteq S
      PROVE  status'[t] \in S
  BY <1>1, BegunStatuses DEF Closes
<1>a. ASSUME NEW t \in Tasks
      PROVE  /\ status[t] \in {"building"} \union Closed => status'[t] \in {"building"} \union Closed
             /\ status[t] \in {"pushing"} \union Closed => status'[t] \in {"pushing"} \union Closed
             /\ status[t] \in {"building", "pushing"} \union Closed
                  => status'[t] \in {"building", "pushing"} \union Closed
             /\ status[t] \in {"pushing", "push_success"} \union Closed
                  => status'[t] \in {"pushing", "push_success"} \union Closed
  BY <1>1
<1>2. ASSUME NEW t \in Tasks PROVE AtStage(t)'
  <2>1. runner'[t] # "none" => runner'[t] = runner[t]
    BY DEF Aside
  <2>2. runner'[t] \in BuildSteps => status'[t] \in {"building"} \union Closed
    BY <1>a, <2>1 DEF BuildSteps, ProgressInv, AtStage
  <2>3. runner'[t] \in PushSteps => status'[t] \in {"pushing"} \union Closed
    BY <1>a, <2>1 DEF PushSteps, ProgressInv, AtStage
  <2>4. runner'[t] = "timeout" => status'[t] \in {"building", "pushing"} \union Closed
    BY <1>a, <2>1 DEF ProgressInv, AtStage
  <2>5. runner'[t] = "recorded" => t \in published'
    BY <2>1 DEF Aside, ProgressInv, AtStage
  <2> QED BY <2>2, <2>3, <2>4, <2>5 DEF AtStage
<1>3. ASSUME NEW t \in Tasks PROVE AtEnd(t)'
  <2>1. t \in published => status'[t] \in {"pushing", "push_success"} \union Closed
    BY <1>a DEF ProgressInv, AtEnd
  <2>2. t \in published' => launched'[t] = 1 /\ runner'[t] \in {"recorded", "none"}
    BY DEF Aside, ProgressInv, AtEnd
  <2>3. status'[t] = "push_success" => t \in published'
    BY DEF Closes, Closed, Aside, ProgressInv, AtEnd
  <2> QED BY <2>1, <2>2, <2>3 DEF AtEnd, Aside
<1>4. ASSUME NEW c \in Callers, pc'[c] = "launch"
      PROVE  status'[arg'[c]] \in {"building"} \union Closed
  <2>1. CASE pc[c] = "launch" /\ arg'[c] = arg[c]
    <3>1. arg[c] \in Tasks
      BY <2>1 DEF CallInv, Known, TaskSteps, CallSteps
    <3> QED BY <1>a, <2>1, <3>1 DEF ProgressInv
  <2> QED BY <1>4, <2>1 DEF Aside
<1> QED BY <1>2, <1>3, <1>4 DEF ProgressInv

\* The goroutine starts with the task in its stage, and nothing is published.
LEMMA LaunchProgress ==
    ASSUME TypeOK, CallInv, RunnerInv, ProgressInv, NEW c \in Callers, Launch(c)
    PROVE  ProgressInv'
<1>1. PICK t \in Tasks : t = arg[c] /\ pc[c] = "launch"
  BY DEF Launch, CallInv, Known, TaskSteps, CallSteps
<1>2. /\ UNCHANGED <<status, published>>
      /\ runner'[t] = "load" /\ \A u \in Tasks \ {t} : runner'[u] = runner[u]
      /\ \A u \in Tasks \ {t} : launched'[u] = launched[u]
      /\ \A d \in Callers \ {c} : pc'[d] = pc[d] /\ arg'[d] = arg[d]
      /\ pc'[c] # "launch"
  BY <1>1 DEF Launch, Return, Goto, TypeOK, taskVars
<1>3. launched[t] = 0 /\ status[t] \in {"building"} \union Closed
  BY <1>1 DEF RunnerInv, ClaimInv, ProgressInv
<1>4. t \notin published
  BY <1>1, <1>3 DEF ProgressInv, AtEnd
<1>5. AtStage(t)' /\ AtEnd(t)'
  <2>1. runner'[t] = "load" /\ status'[t] \in {"building"} \union Closed /\ t \notin published'
    BY <1>2, <1>3, <1>4
  <2>2. AtStage(t)'
    BY <2>1 DEF AtStage, PushSteps
  <2>3. status'[t] # "push_success"
    BY <2>1 DEF Closed
  <2> QED BY <2>1, <2>2, <2>3 DEF AtEnd
<1>6. \A u \in Tasks \ {t} : AtStage(u)' /\ AtEnd(u)'
  BY <1>2 DEF ProgressInv, AtStage, AtEnd
<1>7. \A d \in Callers : pc'[d] = "launch" => status'[arg'[d]] \in {"building"} \union Closed
  <2>1. \A d \in Callers : pc'[d] = "launch" => pc[d] = "launch" /\ arg'[d] = arg[d]
    BY <1>2
  <2> QED BY <1>2, <2>1 DEF ProgressInv
<1> QED BY <1>5, <1>6, <1>7 DEF ProgressInv

\* The ways a goroutine goes on: with a command, with its push, with the record
\* of the artifact, or by ending its task.
Proceeds(t, from, to) == /\ runner[t] = from
                         /\ runner' = [runner EXCEPT ![t] = to]
                         /\ UNCHANGED <<status, published>>
BeginsPush(t) == /\ runner[t] = "built"
                 /\ runner' = [runner EXCEPT ![t] = "pushLoad"]
                 /\ Moved(t, "building", "pushing") /\ UNCHANGED published
Publishes(t) == /\ runner[t] = "pushed"
                /\ runner' = [runner EXCEPT ![t] = "recorded"]
                /\ published' = published \union {t} /\ UNCHANGED status
EndsWith(t, s) == /\ runner' = [runner EXCEPT ![t] = "none"]
                  /\ ~Terminal(t)
                  /\ \/ runner[t] = "timeout" /\ s = "timeout"
                     \/ runner[t] = "buildErr" /\ s = "build_failed"
                     \/ runner[t] = "pushErr" /\ s = "push_failed"
                     \/ runner[t] = "recorded" /\ s = "push_success"
                  /\ status' = [status EXCEPT ![t] = s] /\ UNCHANGED published

Progression(from, to) == \/ from = "load" /\ to \in {"toBuild", "buildErr"}
                         \/ from = "toBuild" /\ to = "building"
                         \/ from = "building" /\ to \in {"built", "buildErr", "timeout"}
                         \/ from = "pushLoad" /\ to \in {"toPush", "pushErr"}
                         \/ from = "toPush" /\ to = "pushing"
                         \/ from = "pushing" /\ to \in {"pushed", "pushErr", "timeout"}
                         \/ from = "pushed" /\ to = "pushErr"
                         \/ to = "none"

RunnerShape(t) == \/ \E from, to : Progression(from, to) /\ Proceeds(t, from, to)
                  \/ BeginsPush(t)
                  \/ Publishes(t)
                  \/ \E s : EndsWith(t, s)

\* The goroutine's steps are of these four shapes.
LEMMA RunnerHasShape ==
    ASSUME TypeOK, NEW t \in Tasks, RunnerStep(t)
    PROVE  RunnerShape(t) /\ UNCHANGED <<host, maxSlots, launched, pc, arg>>
<1> USE DEF taskVars, hostVars, adminVars, callVars
<1>0. UNCHANGED <<host, maxSlots, launched, pc, arg>>
  BY DEF RunnerStep, RunLoad, RunCommand, RunStartPush, RunPushLoad, RunRecord, RunEnd
<1>1. ASSUME NEW from, NEW to, Progression(from, to), RunnerAt(t, from, to),
             UNCHANGED <<status, published>>
      PROVE  RunnerShape(t)
  <2>1. Proceeds(t, from, to)
    BY <1>1 DEF RunnerAt, Proceeds
  <2> QED BY <1>1, <2>1 DEF RunnerShape
<1>2. CASE RunLoad(t)
  BY <1>0, <1>1, <1>2 DEF RunLoad, RunLost, Progression
<1>3. CASE RunCommand(t)
  <2>1. UNCHANGED <<status, published>>
    BY <1>3 DEF RunCommand
  <2>2. \/ RunnerAt(t, "toBuild", "building") \/ RunnerAt(t, "toPush", "pushing")
        \/ \E end \in {"built", "buildErr", "timeout"} : RunnerAt(t, "building", end)
        \/ \E end \in {"pushed", "pushErr", "timeout"} : RunnerAt(t, "pushing", end)
    BY <1>3 DEF RunCommand
  <2>3. /\ Progression("toBuild", "building") /\ Progression("toPush", "pushing")
        /\ \A end \in {"built", "buildErr", "timeout"} : Progression("building", end)
        /\ \A end \in {"pushed", "pushErr", "timeout"} : Progression("pushing", end)
    BY DEF Progression
  <2>4. \E from, to : Progression(from, to) /\ RunnerAt(t, from, to)
    BY <2>2, <2>3
  <2> QED BY <1>0, <1>1, <2>1, <2>4
<1>4. CASE RunStartPush(t)
  <2>1. CASE /\ status[t] = "building"
             /\ RunnerAt(t, "built", "pushLoad")
             /\ status' = [status EXCEPT ![t] = "pushing"]
    BY <1>0, <1>4, <2>1 DEF RunStartPush, RunnerAt, RunnerShape, BeginsPush, Moved
  <2>2. CASE RunnerAt(t, "built", "none") /\ status' = status
    <3>1. published' = published /\ Progression("built", "none")
      BY <1>4 DEF RunStartPush, Progression
    <3> QED BY <1>0, <1>1, <2>2, <3>1
  <2> QED BY <1>4, <2>1, <2>2 DEF RunStartPush, RunLost
<1>5. CASE RunPushLoad(t)
  BY <1>0, <1>1, <1>5 DEF RunPushLoad, RunLost, Progression
<1>6. CASE RunRecord(t)
  <2>1. CASE RunnerAt(t, "pushed", "recorded") /\ published' = published \union {t}
    BY <1>0, <1>6, <2>1 DEF RunRecord, RunnerAt, RunnerShape, Publishes
  <2>2. CASE RunnerAt(t, "pushed", "pushErr") /\ published' = published
    BY <1>0, <1>1, <1>6, <2>2 DEF RunRecord, Progression
  <2> QED BY <1>0, <1>6, <2>1, <2>2 DEF RunRecord
<1>7. CASE RunEnd(t)
  <2>1. ASSUME NEW from, NEW s,
               \/ from = "timeout" /\ s = "timeout"
               \/ from = "buildErr" /\ s = "build_failed"
               \/ from = "pushErr" /\ s = "push_failed"
               \/ from = "recorded" /\ s = "push_success",
               RunnerAt(t, from, "none"),
               FailTask(t, s) \/ UNCHANGED status
        PROVE  RunnerShape(t)
    <3>1. published' = published
      BY <1>7 DEF RunEnd
    <3>2. CASE UNCHANGED status
      <4>1. Proceeds(t, from, "none")
        BY <2>1, <3>1, <3>2 DEF RunnerAt, Proceeds
      <4> QED BY <4>1 DEF RunnerShape, Progression
    <3>3. CASE ~Terminal(t) /\ status' = [status EXCEPT ![t] = s]
      <4>1. EndsWith(t, s)
        BY <2>1, <3>1, <3>3 DEF RunnerAt, EndsWith
      <4> QED BY <4>1 DEF RunnerShape
    <3> QED BY <2>1, <3>2, <3>3 DEF FailTask, Settle
  <2>2. CASE \E from : RunLost(t, from) /\ UNCHANGED status
    BY <1>1, <1>7, <2>2 DEF RunEnd, RunLost, Progression
  <2> QED BY <1>0, <1>7, <2>1, <2>2 DEF RunEnd, Complete
<1> QED BY <1>0, <1>2, <1>3, <1>4, <1>5, <1>6, <1>7 DEF RunnerStep

\* The goroutine's own steps keep position and task together.
LEMMA RunnerProgress ==
    ASSUME TypeOK, CallInv, RunnerInv, Reached, ProgressInv, NEW t \in Tasks, RunnerStep(t)
    PROVE  ProgressInv'
<1>1. RunnerShape(t) /\ UNCHANGED <<launched, pc, arg>>
  BY RunnerHasShape
<1>2. \A u \in Tasks \ {t} : /\ runner'[u] = runner[u] /\ status'[u] = status[u]
                             /\ u \in published' <=> u \in published
  BY <1>1 DEF RunnerShape, Proceeds, BeginsPush, Moved, Publishes, EndsWith, TypeOK
<1>3. runner[t] # "none"
  BY DEF RunnerStep, RunLoad, RunCommand, RunStartPush, RunPushLoad, RunRecord, RunEnd, RunLost,
         RunnerAt
<1>4. launched[t] = 1
  BY <1>3 DEF RunnerInv, LaunchInv
<1>5. \A u \in Tasks \ {t} : AtStage(u)' /\ AtEnd(u)'
  BY <1>1, <1>2 DEF ProgressInv, AtStage, AtEnd
<1>6. \A c \in Callers : pc'[c] = "launch" => status'[arg'[c]] \in {"building"} \union Closed
  <2>1. ASSUME NEW c \in Callers, pc[c] = "launch" PROVE arg[c] \in Tasks \ {t}
    BY <1>4, <2>1 DEF RunnerInv, ClaimInv, CallInv, Known, TaskSteps, CallSteps
  <2> QED BY <1>1, <1>2, <2>1 DEF ProgressInv
<1>7. AtStage(t) /\ AtEnd(t)
  BY DEF ProgressInv
<1>8. ASSUME NEW from, NEW to, Proceeds(t, from, to),
             Progression(from, to)
      PROVE  AtStage(t)' /\ AtEnd(t)'
  <2>1. runner[t] = from /\ runner'[t] = to /\ UNCHANGED <<status, published>>
    BY <1>8 DEF Proceeds, TypeOK
  <2>2. AtStage(t)'
    BY <1>7, <1>8, <2>1 DEF AtStage, Progression, BuildSteps, PushSteps
  <2>3. AtEnd(t)'
    BY <1>1, <1>7, <1>8, <2>1 DEF AtEnd, Progression
  <2> QED BY <2>2, <2>3
<1>9. ASSUME BeginsPush(t) PROVE AtStage(t)' /\ AtEnd(t)'
  <2>1. /\ status'[t] = "pushing" /\ runner[t] = "built" /\ runner'[t] = "pushLoad"
        /\ UNCHANGED published
    BY <1>9 DEF BeginsPush, Moved, TypeOK
  <2>2. t \notin published
    BY <1>7, <2>1 DEF AtEnd
  <2>3. AtStage(t)'
    BY <2>1 DEF AtStage, BuildSteps
  <2> QED BY <2>1, <2>2, <2>3 DEF AtEnd
<1>10. ASSUME Publishes(t) PROVE AtStage(t)' /\ AtEnd(t)'
  <2>1. /\ UNCHANGED status /\ runner[t] = "pushed" /\ runner'[t] = "recorded" /\ t \in published'
    BY <1>10 DEF Publishes, TypeOK
  <2>2. status[t] \in {"pushing"} \union Closed
    BY <1>7, <2>1 DEF AtStage, PushSteps
  <2>3. AtStage(t)'
    BY <2>1, <2>2 DEF AtStage, BuildSteps
  <2>4. AtEnd(t)'
    BY <1>1, <1>4, <2>1, <2>2 DEF AtEnd, Closed
  <2> QED BY <2>3, <2>4
<1>11. ASSUME NEW s, EndsWith(t, s) PROVE AtStage(t)' /\ AtEnd(t)'
  <2>1. /\ runner'[t] = "none" /\ status'[t] = s /\ UNCHANGED published
        /\ s = "push_success" => runner[t] = "recorded"
    BY <1>11 DEF EndsWith, TypeOK
  <2>2. AtStage(t)'
    BY <2>1 DEF AtStage, BuildSteps, PushSteps
  <2>3. t \in published => s = "push_success"
    BY <1>7, <1>11 DEF EndsWith, AtEnd
  <2>4. s = "push_success" => t \in published
    BY <1>7, <2>1 DEF AtStage
  <2> QED BY <1>1, <1>4, <2>1, <2>2, <2>3, <2>4 DEF AtEnd
<1>12. AtStage(t)' /\ AtEnd(t)'
  BY <1>1, <1>8, <1>9, <1>10, <1>11 DEF RunnerShape
<1> QED BY <1>5, <1>6, <1>12 DEF ProgressInv

\* Every step keeps goroutine, status and artifact in line.
LEMMA ProgressStep ==
    TypeOK /\ ArgTyped /\ CallInv /\ RunnerInv /\ Reached /\ ProgressInv /\ [Next]_vars
      => ProgressInv'
<1> SUFFICES ASSUME TypeOK, ArgTyped, CallInv, RunnerInv, Reached, ProgressInv, [Next]_vars
             PROVE  ProgressInv'
  OBVIOUS
<1>1. StepKind
  BY StepHasKind
<1>2. CASE CallShape /\ Aside
  BY <1>2, ShapeCloses, AsideProgress
<1>3. CASE UNCHANGED <<status, host>> /\ Aside
  BY <1>3, AsideProgress DEF Closes
<1> QED BY <1>1, <1>2, <1>3, LaunchProgress, RunnerProgress DEF StepKind

\* What is known of the tasks together, in every run.
ProgressKnown == TypeOK /\ ArgTyped /\ CallInv /\ SlotInvariant /\ RunnerInv /\ Reached /\ ProgressInv

\* All of it holds in every run; the theorems below read it off.
LEMMA ProgressHolds == Spec => []ProgressKnown
<1>1. Init => Reached /\ ProgressInv
  BY DEF Init, Reached, NeverGiven, ProgressInv, AtStage, AtEnd, BuildSteps, PushSteps, Closed
<1>2. Spec => []SlotInvariant
  BY InitSlots, SlotStep, TypeCorrect, CallsHaveTasks, PTL DEF Spec
<1>3. Spec => [](Reached /\ ProgressInv)
  BY <1>1, ReachedStep, ProgressStep, TypeCorrect, CallsHaveTasks, CallsStayKnowing,
     RunnersStayInStage, PTL DEF Spec
<1> QED BY <1>2, <1>3, TypeCorrect, CallsHaveTasks, CallsStayKnowing, RunnersStayInStage, PTL
        DEF ProgressKnown

\* A task whose image is recorded as pushed is never reported as failed, timed
\* out or refused: a late failure or deadline of the goroutine cannot come.
THEOREM PublishedAreNotFailed == Spec => []PublishedStatus
<1>1. ProgressKnown => PublishedStatus
  BY DEF ProgressKnown, TypeOK, ProgressInv, AtEnd, PublishedStatus, Closed
<1> QED BY <1>1, ProgressHolds, PTL

\* CompletePush reports a success only after RecordPushed committed.
THEOREM SuccessIsRecorded == Spec => []SuccessHasArtifact
<1>1. ProgressKnown => SuccessHasArtifact
  BY DEF ProgressKnown, ProgressInv, AtEnd, SuccessHasArtifact
<1> QED BY <1>1, ProgressHolds, PTL

-----------------------------------------------------------------------------
(* The service implements the life cycle of tasks *)

\* The life cycle counts with the same Cardinality.
LEMMA SameCardinality == \A S : Lifecycle!Cardinality(S) = Cardinality(S)
BY DEF Cardinality, Lifecycle!Cardinality

\* The active tasks of the life cycle are those that hold a slot, and the
\* counter of a host is what the life cycle counts on it.
LEMMA SameCounts ==
    ASSUME ProgressKnown
    PROVE  /\ Lifecycle!Active = Active
           /\ \A h \in Hosts : Cardinality(Lifecycle!On(h)) = running[h]
<1>1. \A t \in Tasks : HoldsSlot(t) <=> status[t] \in Lifecycle!ActiveStatuses
  BY DEF ProgressKnown, Reached, NeverGiven, HoldsSlot, SlotStatuses, Lifecycle!ActiveStatuses
<1>2. Lifecycle!Active = Active
  BY <1>1 DEF Active, Lifecycle!Active
<1>3. \A h \in Hosts : Lifecycle!On(h) = SlotHolders(h)
  BY <1>2 DEF Active, Lifecycle!On, SlotHolders
<1> QED BY <1>2, <1>3 DEF ProgressKnown, SlotInvariant, HostSlots

\* An arrow of a call is a step of the life cycle, or none.
LEMMA ShapeRefines ==
    ASSUME ProgressKnown, CallShape, UNCHANGED <<published, maxSlots>>
    PROVE  [Lifecycle!Next]_Lifecycle!vars
<1> USE DEF Lifecycle!Move
<1>1. CASE UNCHANGED <<status, host>>
  BY <1>1 DEF Lifecycle!vars
<1>2. ASSUME NEW t \in Tasks, Queued(t) PROVE Lifecycle!Next
  <2>1. Lifecycle!Submit(t)
    BY <1>2 DEF Queued, Lifecycle!Submit
  <2> QED BY <2>1 DEF Lifecycle!Next
<1>3. ASSUME NEW t \in Tasks, NEW h \in Hosts, Placed(t, h) PROVE Lifecycle!Next
  <2>1. status[t] = "queued"
    BY <1>3 DEF Placed, ProgressKnown, Reached, NeverGiven
  <2>2. Cardinality(Lifecycle!Active) < GlobalLimit /\ Cardinality(Lifecycle!On(h)) < maxSlots[h]
    BY <1>3, SameCounts DEF Placed, GlobalRoom, Candidates, Accepts
  <2>3. /\ host' = [host EXCEPT ![t] = h]
        /\ status' = [status EXCEPT ![t] = "dispatching"]
    BY <1>3 DEF Placed, Place
  <2>4. Lifecycle!Place(t, h)
    BY <2>1, <2>2, <2>3, SameCardinality DEF Lifecycle!Place
  <2> QED BY <2>4 DEF Lifecycle!Next
<1>4. ASSUME NEW t \in Tasks, Refused(t) PROVE Lifecycle!Next
  <2>1. status[t] = "queued"
    BY <1>4 DEF Refused, ProgressKnown, Reached, NeverGiven
  <2>2. "dispatch_failed" \in Lifecycle!Outcomes(t)
    BY <2>1 DEF Lifecycle!Outcomes
  <2>3. Lifecycle!End(t)
    BY <1>4, <2>2 DEF Refused, Lifecycle!End
  <2> QED BY <2>3 DEF Lifecycle!Next
<1>5. ASSUME NEW t \in Tasks, Moved(t, "dispatching", "building") PROVE Lifecycle!Next
  <2>1. Lifecycle!Begin(t)
    BY <1>5 DEF Moved, Lifecycle!Begin
  <2> QED BY <2>1 DEF Lifecycle!Next
<1>6. ASSUME NEW t \in Tasks, NEW s \in Closed, ClosedBy(t, s) PROVE Lifecycle!Next
  <2>1. status[t] \in {"queued", "dispatching", "building", "pushing"}
    BY <1>6 DEF ClosedBy, Exists, Terminal, TerminalStatuses, ProgressKnown, Reached, NeverGiven,
                TypeOK, Statuses
  <2>2. s \in Lifecycle!Outcomes(t)
    BY <1>6, <2>1 DEF ClosedBy, Closed, Dispatched, Lifecycle!Outcomes
  <2>3. Lifecycle!End(t)
    BY <1>6, <2>2 DEF ClosedBy, Lifecycle!End
  <2> QED BY <2>3 DEF Lifecycle!Next
<1> QED BY <1>1, <1>2, <1>3, <1>4, <1>5, <1>6 DEF CallShape

\* So is a step of a goroutine: the stage it finds allows the end it reports.
LEMMA RunnerRefines ==
    ASSUME ProgressKnown, NEW t \in Tasks, RunnerShape(t), UNCHANGED <<host, maxSlots>>
    PROVE  [Lifecycle!Next]_Lifecycle!vars
<1> USE DEF Lifecycle!Move
<1>1. AtStage(t) /\ AtEnd(t)
  BY DEF ProgressKnown, ProgressInv
<1>2. CASE UNCHANGED <<status, published>>
  BY <1>2 DEF Lifecycle!vars
<1>3. CASE BeginsPush(t)
  <2>1. Lifecycle!BeginPush(t)
    BY <1>3 DEF BeginsPush, Moved, Lifecycle!BeginPush
  <2> QED BY <2>1 DEF Lifecycle!Next
<1>4. CASE Publishes(t)
  <2>1. t \notin published
    BY <1>1, <1>4 DEF Publishes, AtEnd
  <2>2. status[t] \in {"pushing", "canceled", "preparing_context_failed"}
    BY <1>1, <1>4 DEF Publishes, AtStage, PushSteps, Closed
  <2>3. Lifecycle!Publish(t)
    BY <1>4, <2>1, <2>2 DEF Publishes, Lifecycle!Publish
  <2> QED BY <2>3 DEF Lifecycle!Next
<1>5. ASSUME NEW s, EndsWith(t, s) PROVE Lifecycle!Next
  <2>0. ~Terminal(t)
    BY <1>5 DEF EndsWith
  <2>1. status[t] \notin Closed
    BY <2>0 DEF Terminal, TerminalStatuses, Closed
  <2>2. CASE runner[t] = "timeout" /\ s = "timeout"
    <3>1. status[t] \in {"building", "pushing"} /\ t \notin published
      BY <1>1, <2>1, <2>2 DEF AtStage, AtEnd
    <3> QED BY <1>5, <2>2, <3>1 DEF EndsWith, Lifecycle!Outcomes, Lifecycle!End, Lifecycle!Next
  <2>3. CASE runner[t] = "buildErr" /\ s = "build_failed"
    <3>1. status[t] = "building"
      BY <1>1, <2>1, <2>3 DEF AtStage, BuildSteps
    <3> QED BY <1>5, <2>3, <3>1 DEF EndsWith, Lifecycle!Outcomes, Lifecycle!End, Lifecycle!Next
  <2>4. CASE runner[t] = "pushErr" /\ s = "push_failed"
    <3>1. status[t] = "pushing" /\ t \notin published
      BY <1>1, <2>1, <2>4 DEF AtStage, PushSteps, AtEnd
    <3> QED BY <1>5, <2>4, <3>1 DEF EndsWith, Lifecycle!Outcomes, Lifecycle!End, Lifecycle!Next
  <2>5. CASE runner[t] = "recorded" /\ s = "push_success"
    <3>1. status[t] = "pushing" /\ t \in published
      BY <1>1, <2>1, <2>5 DEF AtStage, PushSteps
    <3> QED BY <1>5, <2>5, <3>1 DEF EndsWith, Lifecycle!Outcomes, Lifecycle!End, Lifecycle!Next
  <2> QED BY <1>5, <2>2, <2>3, <2>4, <2>5 DEF EndsWith
<1> QED BY <1>2, <1>3, <1>4, <1>5 DEF RunnerShape, Proceeds

\* Every step of the service is a step of the life cycle, or none.
LEMMA StepRefines == ProgressKnown /\ [Next]_vars => [Lifecycle!Next]_Lifecycle!vars
<1> SUFFICES ASSUME ProgressKnown, [Next]_vars PROVE [Lifecycle!Next]_Lifecycle!vars
  OBVIOUS
<1>1. StepKind
  BY StepHasKind DEF ProgressKnown
<1>2. CASE CallShape /\ Aside /\ UNCHANGED maxSlots
  BY <1>2, ShapeRefines DEF Aside
<1>3. CASE UNCHANGED <<status, host>> /\ Aside /\ \E h \in Hosts : Resized(h)
  BY <1>3 DEF Aside, Resized, Lifecycle!Resize, Lifecycle!Next
<1>4. ASSUME NEW c \in Callers, Launch(c) PROVE [Lifecycle!Next]_Lifecycle!vars
  BY <1>4 DEF Launch, taskVars, hostVars, adminVars, Lifecycle!vars
<1>5. ASSUME NEW t \in Tasks, RunnerStep(t) PROVE [Lifecycle!Next]_Lifecycle!vars
  BY <1>5, RunnerHasShape, RunnerRefines DEF ProgressKnown
<1> QED BY <1>1, <1>2, <1>3, <1>4, <1>5 DEF StepKind

\* The service, with all its requests, goroutines, restarts and transactions
\* left open, does nothing to a task that the life cycle does not allow: see
\* TaskLifecycle for what that is.
THEOREM ImplementsLifecycle == Spec => LifecycleSpec
<1>1. Init => Lifecycle!Init
  BY DEF Init, Lifecycle!Init
<1> QED BY <1>1, StepRefines, ProgressHolds, PTL DEF Spec, LifecycleSpec, Lifecycle!Spec

-----------------------------------------------------------------------------
(* Requested hosts *)

\* The host a task asks for is fixed when the task is created.
LEMMA RequestStays == TypeOK /\ [Next]_vars => \A t \in Tasks : Exists(t) => wanted'[t] = wanted[t]
<1> SUFFICES ASSUME TypeOK, [Next]_vars
             PROVE  \A t \in Tasks : Exists(t) => wanted'[t] = wanted[t]
  OBVIOUS
<1> USE DEF taskVars
<1>1. ASSUME NEW t \in Tasks, Create(t) \/ Retry(t)
      PROVE  \A u \in Tasks : Exists(u) => wanted'[u] = wanted[u]
  <2>1. ~Exists(t) /\ \E h : wanted' = [wanted EXCEPT ![t] = h]
    BY <1>1 DEF Create, Retry, Insert
  <2> QED BY <2>1 DEF TypeOK
<1>2. ASSUME NEW t \in Tasks, RunnerStep(t) PROVE wanted' = wanted
  BY <1>2 DEF RunnerStep, RunLoad, RunCommand, RunStartPush, RunPushLoad, RunRecord, RunEnd
<1>3. ASSUME NEW c \in Callers, Pick(c) \/ Dispatch(c) \/ StartStep(c) PROVE wanted' = wanted
  BY <1>3 DEF Pick, Dispatch, StartStep, StartRead, StartHost, StartPrepare, StartFail,
              StartBuild, Launch
<1>4. ASSUME NEW c \in Clients, ClientCall(c) \/ CancelTx(c) \/ EndRequest(c) \/ Abort(c)
      PROVE  wanted' = wanted
  BY <1>4 DEF ClientCall, CallNext, CallStart, CallDispatch, CallCancel, Call, CancelTx,
              EndRequest, Abort
<1>5. ASSUME NEW h \in Hosts, SwitchHost(h) \/ CheckHost(h) \/ ResizeHost(h) \/ DeleteHost(h)
      PROVE  wanted' = wanted
  BY <1>5 DEF SwitchHost, CheckHost, ResizeHost, DeleteHost
<1>6. CASE Tick \/ Scan \/ Restart \/ UNCHANGED vars
  BY <1>6 DEF Tick, Scan, Restart, vars
<1>7. ASSUME NEW c \in Callers, CallFails(c) PROVE wanted' = wanted
  BY <1>7, FailedCall
<1> QED BY <1>1, <1>2, <1>3, <1>4, <1>5, <1>6, <1>7 DEF Next, SchedulerStep, ClientStep, Callers

\* selectHost only offers the requested host, and nothing moves a task later.
LEMMA RequestStep ==
    TypeOK /\ ArgTyped /\ RequestedHostUsed /\ [Next]_vars => RequestedHostUsed'
<1> SUFFICES ASSUME TypeOK, ArgTyped, RequestedHostUsed, [Next]_vars,
                    NEW t \in Tasks, HoldsSlot(t)', wanted'[t] # NoHost
             PROVE  host'[t] = wanted'[t]
  BY DEF RequestedHostUsed
<1>1. StepShape
  BY StepHasShape
<1>2. CASE HoldsSlot(t) /\ host'[t] = host[t]
  <2>1. wanted'[t] = wanted[t]
    BY <1>2, RequestStays DEF HoldsSlot, SlotStatuses, Exists
  <2> QED BY <1>2, <2>1 DEF RequestedHostUsed
<1>3. CASE UNCHANGED <<status, host>>
  BY <1>2, <1>3 DEF HoldsSlot
<1>4. ASSUME NEW u \in Tasks, NEW s, status' = [status EXCEPT ![u] = s], UNCHANGED host,
             s \in SlotStatuses => HoldsSlot(u)
      PROVE  host'[t] = wanted'[t]
  BY <1>2, <1>4 DEF HoldsSlot, TypeOK
<1>5. ASSUME NEW u \in Tasks, NEW h \in Hosts, Placed(u, h) PROVE host'[t] = wanted'[t]
  <2>1. CASE t = u
    <3>1. host'[t] = h /\ wanted[t] \in {NoHost, h}
      BY <1>5, <2>1 DEF Placed, Place, Candidates, TypeOK
    <3>2. wanted'[t] = wanted[t]
      BY <1>5, <2>1, RequestStays DEF Placed, Exists
    <3> QED BY <3>1, <3>2
  <2>2. CASE t # u
    BY <1>2, <1>5, <2>2 DEF Placed, Place, HoldsSlot, TypeOK
  <2> QED BY <2>1, <2>2
<1>6. ASSUME NEW u \in Tasks,
             \/ Queued(u) \/ Ended(u)
             \/ Moved(u, "dispatching", "building") \/ Moved(u, "building", "pushing")
      PROVE  host'[t] = wanted'[t]
  <2>1. \E s : /\ status' = [status EXCEPT ![u] = s] /\ UNCHANGED host
               /\ s \in SlotStatuses => HoldsSlot(u)
    BY <1>6 DEF Queued, Ended, Settle, Moved, Endings, HoldsSlot, SlotStatuses
  <2> QED BY <1>4, <2>1
<1> QED BY <1>1, <1>3, <1>5, <1>6 DEF StepShape, Kept

\* Whoever dispatches a task, and whatever administrators do meanwhile, it runs
\* on the host it was created for.
THEOREM RequestsAreHonoured == Spec => []RequestedHostUsed
<1>1. Init => RequestedHostUsed
  BY DEF Init, RequestedHostUsed, HoldsSlot, SlotStatuses
<1> QED BY <1>1, RequestStep, TypeCorrect, CallsHaveTasks, PTL DEF Spec

-----------------------------------------------------------------------------
(* Tasks under way are executed *)

\* The environment of the run requests: the server does not die, requests are
\* not abandoned halfway, the statements on the task rows do not fail, and hosts
\* are not deleted under their tasks.  Without any of these the theorem is false.
Calm == /\ MaxRestarts = 0
        /\ {"abort", "sql"} \intersect Faults = {}
        /\ "delete" \notin AdminOps

\* Then no host is deleted, so that nothing rolls the end of a task back.
NoneDeleted == restarts = 0 /\ \A h \in Hosts : ~deleted[h]

\* In a calm environment no host is ever deleted.
LEMMA CalmStep == ASSUME Calm PROVE TypeOK /\ NoneDeleted /\ [Next]_vars => NoneDeleted'
<1> SUFFICES ASSUME TypeOK, NoneDeleted, [Next]_vars PROVE NoneDeleted'
  OBVIOUS
<1> USE DEF hostVars, adminVars
<1>1. ASSUME UNCHANGED <<deleted, restarts>> PROVE NoneDeleted'
  BY <1>1 DEF NoneDeleted
<1>2. ASSUME NEW c \in Callers, Pick(c) \/ Dispatch(c) \/ StartStep(c) PROVE NoneDeleted'
  BY <1>1, <1>2 DEF Pick, Dispatch, StartStep, StartRead, StartHost, StartPrepare, StartFail,
                    StartBuild, Launch
<1>3. ASSUME NEW c \in Clients, ClientCall(c) \/ CancelTx(c) \/ EndRequest(c) \/ Abort(c)
      PROVE  NoneDeleted'
  BY <1>1, <1>3 DEF ClientCall, CallNext, CallStart, CallDispatch, CallCancel, Call, CancelTx,
                    EndRequest, Abort
<1>4. ASSUME NEW t \in Tasks, Create(t) \/ Retry(t) \/ RunnerStep(t) PROVE NoneDeleted'
  BY <1>1, <1>4 DEF Create, Retry, Insert, RunnerStep, RunLoad, RunCommand, RunStartPush,
                    RunPushLoad, RunRecord, RunEnd
<1>5. ASSUME NEW h \in Hosts, SwitchHost(h) \/ CheckHost(h) \/ ResizeHost(h) PROVE NoneDeleted'
  BY <1>1, <1>5 DEF SwitchHost, CheckHost, ResizeHost
<1>6. ~Restart /\ \A h \in Hosts : ~DeleteHost(h)
  BY BoundsAreNat DEF Calm, Restart, DeleteHost, NoneDeleted
<1>7. CASE Tick \/ Scan \/ UNCHANGED vars
  BY <1>1, <1>7 DEF Tick, Scan, vars
<1>8. ASSUME NEW c \in Callers, CallFails(c) PROVE NoneDeleted'
  BY <1>1, <1>8, FailedCall
<1> QED BY <1>2, <1>3, <1>4, <1>5, <1>6, <1>7, <1>8 DEF Next, SchedulerStep, ClientStep, Callers

Building(t) == status[t] \in {"building", "pushing"}
Launching(c, t) == pc[c] = "launch" /\ arg[c] = t

\* A step that neither begins a build nor takes a goroutine or a launch away.
LEMMA ExecutionFrame ==
    ASSUME TypeOK, ActiveIsExecuted, UNCHANGED runner,
           \A t \in Tasks : Building(t)' => Building(t),
           \A c \in Callers : pc[c] = "launch" => pc'[c] = "launch" /\ arg'[c] = arg[c]
    PROVE  ActiveIsExecuted'
BY DEF ActiveIsExecuted, Building

\* StartBuild and Launch hand the task over without a gap; no other call begins a build.
LEMMA CallExecution ==
    ASSUME TypeOK, ArgTyped, ActiveIsExecuted, NEW c \in Callers,
           \/ Pick(c) \/ Dispatch(c) \/ StartStep(c) \/ CancelTx(c) \/ EndRequest(c)
           \/ (c \in Clients /\ ClientCall(c))
    PROVE  ActiveIsExecuted'
<1> USE DEF runVars, taskVars, hostVars, adminVars, callVars, loopVars
<1>1. \A d \in Callers \ {c} : pc'[d] = pc[d] /\ arg'[d] = arg[d]
  <2>1. ASSUME NEW ok, Return(c, ok) \/ ReturnLeaking(c)
        PROVE  \A d \in Callers \ {c} : pc'[d] = pc[d] /\ arg'[d] = arg[d]
    BY <2>1 DEF Return, ReturnLeaking, Goto, TypeOK
  <2>2. ASSUME NEW s, Goto(c, s), (\E t : arg' = [arg EXCEPT ![c] = t]) \/ UNCHANGED arg
        PROVE  \A d \in Callers \ {c} : pc'[d] = pc[d] /\ arg'[d] = arg[d]
    BY <2>2 DEF Goto, TypeOK
  <2>3. CASE Pick(c) \/ Dispatch(c) \/ CancelTx(c) \/ EndRequest(c)
    BY <2>1, <2>2, <2>3 DEF Pick, Dispatch, AfterPlacing, CancelTx, EndRequest
  <2>4. CASE StartStep(c)
    BY <2>1, <2>2, <2>4 DEF StartStep, StartRead, StartHost, StartPrepare, StartFail, StartBuild, Launch
  <2>5. CASE c \in Clients /\ ClientCall(c)
    BY <2>2, <2>5 DEF ClientCall, CallNext, CallStart, CallDispatch, CallCancel, Call
  <2> QED BY <2>3, <2>4, <2>5
<1>2. CASE Launch(c)
  <2>1. PICK t \in Tasks : t = arg[c]
    BY <1>2 DEF Launch, ArgTyped, TaskSteps, CallSteps
  <2>2. /\ UNCHANGED status
        /\ runner'[t] = "load" /\ \A u \in Tasks \ {t} : runner'[u] = runner[u]
    BY <1>2, <2>1 DEF Launch, TypeOK
  <2> QED BY <1>1, <2>1, <2>2 DEF ActiveIsExecuted
<1>3. ASSUME ~Launch(c) PROVE UNCHANGED runner /\ pc[c] # "launch"
  BY <1>3 DEF Pick, Dispatch, StartStep, StartRead, StartHost, StartPrepare, StartFail,
              StartBuild, CancelTx, EndRequest, ClientCall, CallNext, CallStart, CallDispatch,
              CallCancel, Call
<1>4. CASE StartBuild(c) /\ status[arg[c]] = "dispatching"
  <2>1. PICK t \in Tasks : t = arg[c]
    BY <1>4 DEF StartBuild, ArgTyped, TaskSteps, CallSteps
  <2>2. /\ \A u \in Tasks \ {t} : status'[u] = status[u]
        /\ pc'[c] = "launch" /\ arg'[c] = t
    BY <1>4, <2>1 DEF StartBuild, Goto, TypeOK
  <2>3. UNCHANGED runner /\ pc[c] # "launch"
    BY <1>4 DEF StartBuild
  <2> QED BY <1>1, <2>1, <2>2, <2>3 DEF ActiveIsExecuted
<1>5. CASE ~Launch(c) /\ ~(StartBuild(c) /\ status[arg[c]] = "dispatching")
  <2>1. \A t \in Tasks : Building(t)' => Building(t)
    <3>1. CASE status' = status
      BY <3>1 DEF Building
    <3>2. ASSUME NEW s, status' = [status EXCEPT ![arg[c]] = s], s \notin {"building", "pushing"}
          PROVE  \A t \in Tasks : Building(t)' => Building(t)
      BY <3>2 DEF Building, TypeOK
    <3>3. CASE Dispatch(c)
      BY <3>1, <3>2, <3>3 DEF Dispatch, Place
    <3>4. CASE StartFail(c)
      BY <3>1, <3>2, <3>4 DEF StartFail, FailTask, Settle
    <3>5. CASE CancelTx(c)
      BY <3>1, <3>2, <3>5 DEF CancelTx, FailTask, Settle
    <3>6. CASE \/ Pick(c) \/ StartRead(c) \/ StartHost(c) \/ StartPrepare(c) \/ EndRequest(c)
               \/ (c \in Clients /\ ClientCall(c))
      BY <3>1, <3>6 DEF Pick, StartRead, StartHost, StartPrepare, EndRequest, ClientCall, CallNext,
                        CallStart, CallDispatch, CallCancel, Call
    <3>7. CASE StartBuild(c)
      BY <1>5, <3>1, <3>7 DEF StartBuild
    <3> QED BY <1>5, <3>3, <3>4, <3>5, <3>6, <3>7 DEF StartStep
  <2>2. \A d \in Callers : pc[d] = "launch" => pc'[d] = "launch" /\ arg'[d] = arg[d]
    BY <1>1, <1>3, <1>5
  <2> QED BY <1>3, <1>5, <2>1, <2>2, ExecutionFrame
<1> QED BY <1>2, <1>4, <1>5

\* A goroutine that ends leaves no task under way: the closing transaction is
\* not rolled back, since the host is there and no statement fails.
LEMMA RunnerExecution ==
    ASSUME Calm, TypeOK, RunnerInv, Housed, NoneDeleted, ActiveIsExecuted, NEW t \in Tasks, RunnerStep(t)
    PROVE  ActiveIsExecuted'
<1>1. RunnerShape(t) /\ UNCHANGED <<pc, arg>>
  BY RunnerHasShape
<1>2. \A u \in Tasks \ {t} : runner'[u] = runner[u] /\ status'[u] = status[u]
  BY <1>1 DEF RunnerShape, Proceeds, BeginsPush, Moved, Publishes, EndsWith, TypeOK
<1>3. runner'[t] = "none" => status'[t] \notin {"building", "pushing"}
  <2>0. \A from : ~RunLost(t, from)
    BY DEF Calm, RunLost
  <2>1. ASSUME Terminal(t), status' = status PROVE status'[t] \notin {"building", "pushing"}
    BY <2>1 DEF Terminal, TerminalStatuses
  <2>2. ASSUME NEW s \in {"timeout", "build_failed", "push_failed", "push_success"}, FailTask(t, s)
        PROVE  status'[t] \notin {"building", "pushing"}
    <3>1. SlotReleasable(t)
      BY DEF SlotReleasable, Housed, NoneDeleted
    <3>2. CASE Terminal(t)
      BY <2>1, <2>2, <3>2 DEF FailTask
    <3>3. CASE ~Terminal(t)
      BY <2>2, <3>1, <3>3 DEF FailTask, Settle, TypeOK
    <3> QED BY <3>2, <3>3
  <2>3. CASE RunEnd(t)
    <3>1. runner[t] = "buildErr" => status[t] = "building" \/ Terminal(t)
      BY DEF RunnerInv, StageInv, BuildSteps
    <3>2. runner[t] \in {"pushErr", "recorded"} => status[t] = "pushing" \/ Terminal(t)
      BY DEF RunnerInv, StageInv, PushSteps
    <3>3. \E s \in {"timeout", "build_failed", "push_failed", "push_success"} : FailTask(t, s)
      BY <2>0, <2>3, <3>1, <3>2 DEF RunEnd, RunnerAt, Complete
    <3> QED BY <2>2, <3>3
  <2>4. CASE RunStartPush(t)
    <3>1. status[t] = "building" \/ Terminal(t)
      BY <2>0, <2>4 DEF RunStartPush, RunnerAt, RunnerInv, StageInv, BuildSteps
    <3>2. CASE RunnerAt(t, "built", "pushLoad")
      BY <3>2 DEF RunnerAt, TypeOK
    <3>3. CASE status[t] # "building" /\ status' = status
      BY <2>1, <3>1, <3>3
    <3> QED BY <2>0, <2>4, <3>2, <3>3 DEF RunStartPush
  <2>5. CASE RunLoad(t) \/ RunCommand(t) \/ RunPushLoad(t) \/ RunRecord(t)
    BY <2>0, <2>5 DEF RunLoad, RunCommand, RunPushLoad, RunRecord, RunnerAt, TypeOK
  <2> QED BY <2>3, <2>4, <2>5 DEF RunnerStep
<1> QED BY <1>1, <1>2, <1>3 DEF ActiveIsExecuted

\* So no step of a calm environment leaves a task under way unexecuted.
LEMMA ExecutionStep ==
    ASSUME Calm
    PROVE  TypeOK /\ ArgTyped /\ RunnerInv /\ SlotInvariant /\ NoneDeleted
             /\ ActiveIsExecuted /\ [Next]_vars => ActiveIsExecuted'
<1> SUFFICES ASSUME TypeOK, ArgTyped, RunnerInv, SlotInvariant, NoneDeleted, ActiveIsExecuted,
                    [Next]_vars
             PROVE  ActiveIsExecuted'
  OBVIOUS
<1> USE DEF taskVars, runVars, callVars
<1>1. ASSUME NEW c \in Callers, \/ Pick(c) \/ Dispatch(c) \/ StartStep(c) \/ CancelTx(c) \/ EndRequest(c)
                                \/ (c \in Clients /\ ClientCall(c))
      PROVE  ActiveIsExecuted'
  BY <1>1, CallExecution
<1>2. ASSUME NEW t \in Tasks, RunnerStep(t) PROVE ActiveIsExecuted'
  BY <1>2, RunnerExecution DEF SlotInvariant
<1>3. ASSUME NEW t \in Tasks, Create(t) \/ Retry(t) PROVE ActiveIsExecuted'
  <2>1. status' = [status EXCEPT ![t] = "queued"] /\ UNCHANGED <<runner, pc, arg>>
    BY <1>3 DEF Create, Retry, Insert
  <2>2. \A u \in Tasks : Building(u)' => Building(u)
    BY <2>1 DEF Building, TypeOK
  <2> QED BY <2>1, <2>2, ExecutionFrame
<1>4. CASE UNCHANGED <<status, runner, pc, arg>>
  BY <1>4 DEF ActiveIsExecuted
<1>5. CASE Tick \/ Scan
  <2>1. UNCHANGED <<status, runner>>
    BY <1>5 DEF Tick, Scan
  <2>2. /\ pc[Scheduler] # "launch"
        /\ \A d \in Callers \ {Scheduler} : pc'[d] = pc[d] /\ arg'[d] = arg[d]
    BY <1>5 DEF Tick, Scan, Goto, TypeOK
  <2> QED BY <2>1, <2>2, ExecutionFrame DEF Building
<1>6. ASSUME NEW h \in Hosts, SwitchHost(h) \/ CheckHost(h) \/ ResizeHost(h) \/ DeleteHost(h)
      PROVE  ActiveIsExecuted'
  BY <1>4, <1>6 DEF SwitchHost, CheckHost, ResizeHost, DeleteHost
<1>7. ~Restart /\ \A c \in Clients : ~Abort(c)
  <2>1. ~Restart
    BY BoundsAreNat DEF Calm, Restart, NoneDeleted
  <2>2. \A c \in Clients : ~Abort(c)
    BY DEF Calm, Abort
  <2> QED BY <2>1, <2>2
<1>8. CASE UNCHANGED vars
  BY <1>4, <1>8 DEF vars
<1>9. \A c \in Callers : ~CallFails(c)
  BY DEF Calm, CallFails, StatementFails, CountFails
<1> QED BY <1>1, <1>2, <1>3, <1>5, <1>6, <1>7, <1>8, <1>9 DEF Next, SchedulerStep, ClientStep, Callers

\* As long as the server lives, requests are answered, statements on the task
\* rows succeed and hosts are kept, a task under way has a goroutine that will
\* end it, or a Start about to launch one, whichever lookups of its host, registry
\* or credential fail and however Starts, cancels and the goroutine itself race.
THEOREM ActiveTasksAreExecuted == ASSUME Calm PROVE Spec => []ActiveIsExecuted
<1>1. Init => NoneDeleted /\ ActiveIsExecuted
  BY DEF Init, NoneDeleted, ActiveIsExecuted
<1>2. Spec => []SlotInvariant
  BY InitSlots, SlotStep, TypeCorrect, CallsHaveTasks, PTL DEF Spec
<1> QED BY <1>1, <1>2, CalmStep, ExecutionStep, TypeCorrect, CallsHaveTasks, RunnersStayInStage,
           PTL DEF Spec
=============================================================================
