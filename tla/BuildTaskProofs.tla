--------------------------- MODULE BuildTaskProofs ---------------------------
(***************************************************************************)
(* Theorems about the build task service, for any number of tasks, hosts   *)
(* and requests, any limit and any bound, with machine-checked proofs.     *)
(***************************************************************************)
EXTENDS BuildTask, FiniteSetTheorems, TLAPS

-----------------------------------------------------------------------------
(* Types *)

\* The part of the type invariant that calls and the scheduler change.
CallTypeOK == /\ pc \in [Callers -> CallSteps]
              /\ arg \in [Callers -> Tasks \union {NoTask}]
              /\ scanning \in BOOLEAN
              /\ todo \subseteq Tasks
              /\ left \in Nat

\* The part of the type invariant that the closing transactions change.
TaskTypeOK == /\ status \in [Tasks -> Statuses]
              /\ running \in [Hosts -> Nat]

\* Return, the end of every call, keeps the bookkeeping well typed.
LEMMA ReturnType ==
    ASSUME TypeOK, NEW c \in Callers, NEW ok \in BOOLEAN, Return(c, ok)
    PROVE  CallTypeOK'
BY DEF TypeOK, CallTypeOK, Return, Goto, CallSteps

\* So does the exit that leaves a transaction open, which c then owns.
LEMMA ReturnLeakingType ==
    ASSUME TypeOK, NEW c \in Callers, ReturnLeaking(c)
    PROVE  CallTypeOK' /\ conn' \in Callers \union Tasks \union {NoOwner}
<1>1. CASE c = Scheduler
  BY <1>1, ReturnType DEF ReturnLeaking
<1>2. CASE c # Scheduler
  BY <1>2 DEF ReturnLeaking, TypeOK, CallTypeOK, Goto, CallSteps, loopVars
<1> QED BY <1>1, <1>2 DEF ReturnLeaking

\* Closing a task gives it a status and leaves every counter a natural number.
LEMMA FailTaskType ==
    ASSUME TypeOK, NEW t, NEW s \in Statuses, FailTask(t, s)
    PROVE  TaskTypeOK'
<1>1. CASE Settle(t, s)
  <2>1. status' \in [Tasks -> Statuses]
    BY <1>1 DEF Settle, TypeOK
  <2>2. running' \in [Hosts -> Nat]
    <3>1. ASSUME NEW h \in Hosts
          PROVE  (IF running[h] > 0 THEN running[h] - 1 ELSE 0) \in Nat
      BY DEF TypeOK
    <3>2. CASE HoldsSlot(t) /\ host[t] \in Hosts
      BY <1>1, <3>1, <3>2 DEF Settle, TypeOK
    <3>3. CASE ~HoldsSlot(t) \/ host[t] \notin Hosts
      BY <1>1, <3>3 DEF Settle, TypeOK
    <3> QED BY <3>2, <3>3
  <2> QED BY <2>1, <2>2 DEF TaskTypeOK
<1>2. CASE UNCHANGED <<status, running>>
  BY <1>2 DEF TypeOK, TaskTypeOK
<1> QED BY <1>1, <1>2 DEF FailTask

\* Completing one does the same, and may leave the connection to the task.
LEMMA CompleteType ==
    ASSUME TypeOK, NEW t \in Tasks, NEW stage, NEW s \in Statuses, Complete(t, stage, s)
    PROVE  TaskTypeOK' /\ conn' \in Callers \union Tasks \union {NoOwner}
<1>1. CASE FailTask(t, s) /\ conn' = conn
  BY <1>1, FailTaskType DEF TypeOK
<1>2. CASE UNCHANGED <<status, running>> /\ conn' = t
  BY <1>2 DEF TypeOK, TaskTypeOK
<1> QED BY <1>1, <1>2 DEF Complete

\* The type invariant holds initially: nothing exists and nobody runs.
LEMMA InitType == Init => TypeOK
<1> SUFFICES ASSUME Init PROVE TypeOK
  OBVIOUS
<1>1. /\ status \in [Tasks -> Statuses]
      /\ runner \in [Tasks -> RunnerSteps]
  BY DEF Init, Statuses, RunnerSteps
<1>2. /\ hostStatus \in [Hosts -> HostStatuses]
      /\ arch \in [Hosts -> Archs]
      /\ pc \in [Callers -> CallSteps]
  BY DEF Init, HostStatuses, Archs, CallSteps
<1> QED BY <1>1, <1>2 DEF Init, TypeOK

\* Steps that requests and the scheduler have in common keep the types.
LEMMA CallStepType ==
    ASSUME TypeOK, NEW c \in Callers, Pick(c) \/ Dispatch(c) \/ StartStep(c)
    PROVE  TypeOK'
<1> DEFINE t == arg[c]
<1>1. CASE Pick(c)
  BY <1>1 DEF Pick, QueueHeads, Goto, TypeOK, CallSteps,
              taskVars, hostVars, adminVars, runVars
<1>2. CASE Dispatch(c)
  <2> USE DEF taskVars, hostVars, adminVars, runVars, callVars, loopVars
  <2>1. /\ status' \in [Tasks -> Statuses]
        /\ host' \in [Tasks -> Hosts \union {NoHost}]
        /\ running' \in [Hosts -> Nat]
    <3>1. CASE UNCHANGED <<status, host, running>>
      BY <3>1 DEF TypeOK
    <3>2. CASE status' = [status EXCEPT ![t] = "dispatch_failed"] /\ UNCHANGED <<host, running>>
      BY <3>2 DEF TypeOK, Statuses
    <3>3. CASE \E h \in BestHosts(t) : Place(t, h)
      <4>1. PICK h \in Hosts : Place(t, h)
        BY <3>3 DEF BestHosts, Candidates
      <4>2. status' \in [Tasks -> Statuses] /\ host' \in [Tasks -> Hosts \union {NoHost}]
        BY <4>1 DEF Place, TypeOK, Statuses
      <4>3. running[h] + 1 \in Nat
        BY DEF TypeOK
      <4>4. running' \in [Hosts -> Nat]
        BY <4>1, <4>3 DEF Place, TypeOK
      <4> QED BY <4>2, <4>4
    <3> QED BY <1>2, <3>1, <3>2, <3>3 DEF Dispatch
  <2>2. CallTypeOK' /\ conn' \in Callers \union Tasks \union {NoOwner}
    <3>1. CASE ReturnLeaking(c)
      BY <3>1, ReturnLeakingType
    <3>2. CASE (\E ok \in BOOLEAN : Return(c, ok)) /\ conn' = conn
      BY <3>2, ReturnType DEF TypeOK
    <3>3. CASE (\E s \in CallSteps : Goto(c, s)) /\ UNCHANGED <<arg, loopVars>> /\ conn' = conn
      BY <3>3 DEF Goto, TypeOK, CallTypeOK
    <3> QED BY <1>2, <3>1, <3>2, <3>3 DEF Dispatch, AfterPlacing, CallSteps
  <2> QED BY <1>2, <2>1, <2>2 DEF Dispatch, TypeOK, CallTypeOK
<1>3. CASE StartStep(c)
  <2> USE DEF taskVars, hostVars, adminVars, runVars, callVars, loopVars
  <2>1. CASE StartRead(c)
    <3>1. CallTypeOK'
      <4>1. CASE \E ok \in BOOLEAN : Return(c, ok)
        BY <4>1, ReturnType
      <4>2. CASE (\E s \in CallSteps : Goto(c, s)) /\ UNCHANGED <<arg, loopVars>>
        BY <4>2 DEF Goto, TypeOK, CallTypeOK
      <4> QED BY <2>1, <4>1, <4>2 DEF StartRead, CallSteps
    <3> QED BY <2>1, <3>1 DEF StartRead, TypeOK, CallTypeOK
  <2>2. CASE StartHost(c)
    <3>1. CallTypeOK'
      <4>1. CASE Return(c, FALSE)
        BY <4>1, ReturnType
      <4>2. CASE (\E s \in CallSteps : Goto(c, s)) /\ UNCHANGED <<arg, loopVars>>
        BY <4>2 DEF Goto, TypeOK, CallTypeOK
      <4> QED BY <2>2, <4>1, <4>2 DEF StartHost, CallSteps
    <3> QED BY <2>2, <3>1 DEF StartHost, TypeOK, CallTypeOK
  <2>3. CASE StartPrepare(c)
    BY <2>3 DEF StartPrepare, Goto, TypeOK, CallSteps
  <2>4. CASE StartFail(c)
    <3>1. TaskTypeOK'
      BY <2>4, FailTaskType DEF StartFail, Statuses
    <3>2. FailTaskOK(t) \in BOOLEAN
      BY DEF FailTaskOK, Terminal, SlotReleasable
    <3>3. CallTypeOK'
      <4>1. CASE Return(c, FailTaskOK(t))
        BY <3>2, <4>1, ReturnType
      <4>2. CASE Return(c, FALSE)
        BY <4>2, ReturnType
      <4> QED BY <2>4, <4>1, <4>2 DEF StartFail
    <3> QED BY <2>4, <3>1, <3>3 DEF StartFail, TypeOK, CallTypeOK, TaskTypeOK
  <2>5. CASE StartBuild(c)
    <3>1. status' \in [Tasks -> Statuses]
      BY ZenonT(40), <2>5 DEF StartBuild, TypeOK, Statuses
    <3>2. CallTypeOK'
      <4>1. CASE Return(c, FALSE)
        BY <4>1, ReturnType
      <4>2. CASE Goto(c, "launch") /\ UNCHANGED <<arg, loopVars>>
        BY <4>2 DEF Goto, TypeOK, CallTypeOK, CallSteps
      <4> QED BY <2>5, <4>1, <4>2 DEF StartBuild
    <3> QED BY <2>5, <3>1, <3>2 DEF StartBuild, TypeOK, CallTypeOK
  <2>6. CASE Launch(c)
    <3>1. runner' \in [Tasks -> RunnerSteps]
      BY <2>6 DEF Launch, TypeOK, RunnerSteps
    <3>2. launched' \in [Tasks -> Nat]
      <4>1. \A u \in Tasks : launched[u] \in Nat /\ launched[u] + 1 \in Nat
        BY DEF TypeOK
      <4>2. launched' = [launched EXCEPT ![t] = @ + 1]
        BY <2>6 DEF Launch
      <4>3. CASE t \in Tasks
        BY <4>1, <4>2, <4>3 DEF TypeOK
      <4>4. CASE t \notin Tasks
        BY <4>2, <4>4 DEF TypeOK
      <4> QED BY <4>3, <4>4
    <3>3. CallTypeOK'
      BY <2>6, ReturnType DEF Launch
    <3> QED BY <2>6, <3>1, <3>2, <3>3 DEF Launch, TypeOK, CallTypeOK
  <2> QED BY <1>3, <2>1, <2>2, <2>3, <2>4, <2>5, <2>6 DEF StartStep
<1> QED BY <1>1, <1>2, <1>3

\* Steps that only requests take keep the types.
LEMMA RequestStepType ==
    ASSUME TypeOK, NEW c \in Clients,
           ClientCall(c) \/ CancelTx(c) \/ EndRequest(c) \/ Abort(c)
    PROVE  TypeOK'
<1> DEFINE t == arg[c]
<1> USE DEF taskVars, hostVars, adminVars, runVars, callVars, loopVars
<1>1. CASE ClientCall(c)
  BY <1>1 DEF ClientCall, CallNext, CallStart, CallDispatch, CallCancel, Call, Goto,
              TypeOK, CallSteps
<1>2. CASE CancelTx(c)
  <2>1. CASE Terminal(t)
    <3>1. CallTypeOK' /\ conn' \in Callers \union Tasks \union {NoOwner}
      BY <1>2, <2>1, ReturnLeakingType DEF CancelTx, Callers
    <3> QED BY <1>2, <2>1, <3>1 DEF CancelTx, TypeOK, CallTypeOK
  <2>2. CASE ~Terminal(t)
    <3>1. TaskTypeOK'
      BY <1>2, <2>2, FailTaskType DEF CancelTx, Statuses
    <3>2. CallTypeOK'
      BY <1>2, <2>2, ReturnType DEF CancelTx, Callers
    <3> QED BY <1>2, <2>2, <3>1, <3>2 DEF CancelTx, TypeOK, CallTypeOK, TaskTypeOK
  <2> QED BY <2>1, <2>2
<1>3. CASE EndRequest(c)
  BY <1>3 DEF EndRequest, Goto, TypeOK, CallSteps
<1>4. CASE Abort(c)
  <2>1. CallTypeOK'
    BY <1>4, ReturnType DEF Abort, Callers
  <2> QED BY <1>4, <2>1 DEF Abort, TypeOK, CallTypeOK
<1> QED BY <1>1, <1>2, <1>3, <1>4

\* A call that a failing statement ends keeps the types.
LEMMA CallFailsType ==
    ASSUME TypeOK, NEW c \in Callers, CallFails(c)
    PROVE  TypeOK'
<1> USE DEF taskVars, hostVars, adminVars, runVars, callVars, loopVars
<1>1. CASE StatementFails(c)
  <2>1. CallTypeOK'
    BY <1>1, ReturnType DEF StatementFails
  <2> QED BY <1>1, <2>1 DEF StatementFails, TypeOK, CallTypeOK
<1>2. CASE CountFails(c)
  <2>1. CallTypeOK' /\ conn' \in Callers \union Tasks \union {NoOwner}
    BY <1>2, ReturnLeakingType DEF CountFails
  <2> QED BY <1>2, <2>1 DEF CountFails, TypeOK, CallTypeOK
<1> QED BY <1>1, <1>2 DEF CallFails

\* Creating and retrying tasks, and the build goroutine, keep the types.
LEMMA TaskStepType ==
    ASSUME TypeOK, NEW t \in Tasks, Create(t) \/ Retry(t) \/ RunnerStep(t)
    PROVE  TypeOK'
<1> USE DEF taskVars, hostVars, adminVars, runVars, callVars, loopVars
<1>1. ASSUME NEW h \in Hosts \union {NoHost}, Insert(t, h) PROVE TypeOK'
  <2>1. status' \in [Tasks -> Statuses]
    BY <1>1 DEF Insert, TypeOK, Statuses
  <2>2. PICK n \in 0..MaxSecond : queuedAt' = [queuedAt EXCEPT ![t] = n]
    BY <1>1 DEF Insert
  <2>3. queuedAt' \in [Tasks -> Nat]
    BY <2>2, BoundsAreNat DEF TypeOK
  <2> QED BY <1>1, <2>1, <2>3 DEF Insert, TypeOK
<1>2. CASE Create(t)
  BY <1>1, <1>2, RequestableHosts DEF Create
<1>3. CASE Retry(t)
  BY <1>1, <1>3 DEF Retry, TypeOK
<1>4. CASE RunLoad(t) \/ RunCommand(t) \/ RunPushLoad(t)
  <2>1. runner' \in [Tasks -> RunnerSteps]
    BY <1>4 DEF RunLoad, RunCommand, RunPushLoad, RunLost, RunnerAt, TypeOK, RunnerSteps
  <2> QED BY <1>4, <2>1 DEF RunLoad, RunCommand, RunPushLoad, TypeOK
<1>5. CASE RunStartPush(t)
  <2>1. status' \in [Tasks -> Statuses] /\ runner' \in [Tasks -> RunnerSteps]
    BY <1>5 DEF RunStartPush, RunLost, RunnerAt, TypeOK, Statuses, RunnerSteps
  <2> QED BY <1>5, <2>1 DEF RunStartPush, TypeOK
<1>6. CASE RunRecord(t)
  <2>1. runner' \in [Tasks -> RunnerSteps] /\ published' \subseteq Tasks
    BY <1>6 DEF RunRecord, RunnerAt, TypeOK, RunnerSteps
  <2> QED BY <1>6, <2>1 DEF RunRecord, TypeOK
<1>7. CASE RunEnd(t)
  <2>1. runner' \in [Tasks -> RunnerSteps]
    BY <1>7 DEF RunEnd, RunLost, RunnerAt, TypeOK, RunnerSteps
  <2>2. TaskTypeOK' /\ conn' \in Callers \union Tasks \union {NoOwner}
    <3>1. CASE FailTask(t, "timeout") /\ conn' = conn
      BY <3>1, FailTaskType DEF TypeOK, Statuses
    <3>2. CASE \/ Complete(t, "building", "build_failed")
               \/ Complete(t, "pushing", "push_failed")
               \/ Complete(t, "pushing", "push_success")
      BY <3>2, CompleteType DEF Statuses
    <3>3. CASE UNCHANGED <<status, running, conn>>
      BY <1>7, <3>3 DEF RunEnd, TypeOK, TaskTypeOK
    <3> QED BY <1>7, <3>1, <3>2, <3>3 DEF RunEnd
  <2> QED BY <1>7, <2>1, <2>2 DEF RunEnd, TypeOK, TaskTypeOK
<1> QED BY <1>2, <1>3, <1>4, <1>5, <1>6, <1>7 DEF RunnerStep

\* The scheduler's own steps, the administrator and a restart keep the types.
LEMMA OtherStepType ==
    ASSUME TypeOK,
           \/ Tick \/ Scan \/ Restart
           \/ \E h \in Hosts : SwitchHost(h) \/ CheckHost(h) \/ ResizeHost(h) \/ DeleteHost(h)
    PROVE  TypeOK'
<1> USE DEF taskVars, hostVars, adminVars, runVars, callVars, loopVars
<1>1. CASE Tick
  BY <1>1 DEF Tick, Goto, TypeOK, CallSteps
<1>2. CASE Scan
  <2>1. pc' \in [Callers -> CallSteps]
    BY <1>2 DEF Scan, Goto, TypeOK, CallSteps
  <2>2. arg' \in [Callers -> Tasks \union {NoTask}] /\ todo' \subseteq Tasks
    BY <1>2 DEF Scan, TypeOK
  <2>3. left' \in Nat /\ scanning' \in BOOLEAN
    <3>1. CASE todo = {}
      <4>1. (IF GlobalLimit < 1 THEN 1 ELSE GlobalLimit) \in Nat
        BY LimitIsNat
      <4> QED BY <1>2, <3>1, <4>1 DEF Scan
    <3>2. CASE todo # {}
      BY <1>2, <3>2 DEF Scan, TypeOK
    <3> QED BY <3>1, <3>2
  <2> QED BY <1>2, <2>1, <2>2, <2>3 DEF Scan, TypeOK
<1>3. CASE Restart
  <2>1. pc' \in [Callers -> CallSteps] /\ runner' \in [Tasks -> RunnerSteps]
    BY <1>3 DEF Restart, CallSteps, RunnerSteps
  <2>2. arg' \in [Callers -> Tasks \union {NoTask}]
    BY <1>3 DEF Restart
  <2>3. restarts' \in Nat
    BY <1>3 DEF Restart, TypeOK
  <2>4. /\ left' \in Nat
        /\ conn' \in Callers \union Tasks \union {NoOwner}
        /\ killed' \subseteq Tasks /\ todo' \subseteq Tasks /\ scanning' \in BOOLEAN
    BY <1>3 DEF Restart
  <2> QED BY <1>3, <2>1, <2>2, <2>3, <2>4 DEF Restart, TypeOK
<1>4. ASSUME NEW h \in Hosts, SwitchHost(h) \/ CheckHost(h) PROVE TypeOK'
  <2>1. hostStatus' \in [Hosts -> HostStatuses]
    BY <1>4 DEF SwitchHost, CheckHost, TypeOK, HostStatuses
  <2>2. arch' \in [Hosts -> Archs]
    BY <1>4 DEF SwitchHost, CheckHost, TypeOK, Archs
  <2>3. /\ UNCHANGED <<taskVars, maxSlots, running, deleted, runVars, callVars, loopVars>>
        /\ UNCHANGED <<conn, restarts>>
    BY <1>4 DEF SwitchHost, CheckHost
  <2> QED BY <2>1, <2>2, <2>3 DEF TypeOK
<1>5. ASSUME NEW h \in Hosts, ResizeHost(h) PROVE TypeOK'
  <2>1. hostStatus' \in [Hosts -> HostStatuses]
    BY <1>5 DEF ResizeHost, TypeOK, HostStatuses
  <2>2. maxSlots' \in [Hosts -> 1..MaxSlots] /\ arch' \in [Hosts -> Archs]
    BY <1>5 DEF ResizeHost, TypeOK, Archs
  <2> QED BY <1>5, <2>1, <2>2 DEF ResizeHost, TypeOK
<1>6. ASSUME NEW h \in Hosts, DeleteHost(h) PROVE TypeOK'
  BY <1>6 DEF DeleteHost, TypeOK
<1> QED BY <1>1, <1>2, <1>3, <1>4, <1>5, <1>6

\* Every step keeps the types.
LEMMA NextType == TypeOK /\ [Next]_vars => TypeOK'
<1> SUFFICES ASSUME TypeOK, [Next]_vars PROVE TypeOK'
  OBVIOUS
<1>1. CASE SchedulerStep
  BY <1>1, CallStepType, OtherStepType DEF SchedulerStep, Callers
<1>2. ASSUME NEW c \in Clients, ClientCall(c) \/ ClientStep(c) \/ Abort(c) PROVE TypeOK'
  BY <1>2, CallStepType, RequestStepType DEF ClientStep, Callers
<1>3. ASSUME NEW t \in Tasks, Create(t) \/ Retry(t) \/ RunnerStep(t) PROVE TypeOK'
  BY <1>3, TaskStepType
<1>4. CASE Restart \/ \E h \in Hosts : SwitchHost(h) \/ CheckHost(h) \/ ResizeHost(h) \/ DeleteHost(h)
  BY <1>4, OtherStepType
<1>5. CASE UNCHANGED vars
  BY <1>5 DEF vars, taskVars, hostVars, adminVars, runVars, callVars, loopVars, TypeOK
<1>6. ASSUME NEW c \in Callers, CallFails(c) PROVE TypeOK'
  BY <1>6, CallFailsType
<1> QED BY <1>1, <1>2, <1>3, <1>4, <1>5, <1>6 DEF Next

\* Every variable keeps its type, for any instance of the constants.
THEOREM TypeCorrect == Spec => []TypeOK
BY InitType, NextType, PTL DEF Spec

-----------------------------------------------------------------------------
(* What a step can do to a task *)

\* The positions of a call at which it works on a task.
TaskSteps == CallSteps \ {"idle", "scan", "pick", "respond"}

ArgTyped == \A c \in Callers : pc[c] \in TaskSteps => arg[c] \in Tasks

\* A step that moves one call and gives it a task where it needs one.
LEMMA ArgMove ==
    ASSUME TypeOK, ArgTyped, NEW c \in Callers, NEW s, Goto(c, s),
           s \in TaskSteps => arg'[c] \in Tasks,
           \A d \in Callers \ {c} : arg'[d] = arg[d]
    PROVE  ArgTyped'
BY DEF TypeOK, ArgTyped, Goto

\* A call that returns needs no task any more,
LEMMA ArgReturn ==
    ASSUME TypeOK, ArgTyped, NEW c \in Callers, NEW ok, Return(c, ok)
    PROVE  ArgTyped'
<1>1. \E s \in CallSteps \ TaskSteps : Goto(c, s)
  BY DEF Return, CallSteps, TaskSteps
<1>2. \A d \in Callers \ {c} : arg'[d] = arg[d]
  BY DEF Return, TypeOK
<1> QED BY <1>1, <1>2, ArgMove

\* nor does one that returns without its rollback.
LEMMA ArgReturnLeaking ==
    ASSUME TypeOK, ArgTyped, NEW c \in Callers, ReturnLeaking(c)
    PROVE  ArgTyped'
<1>1. CASE c = Scheduler
  BY <1>1, ArgReturn DEF ReturnLeaking
<1>2. CASE c # Scheduler
  <2>1. Goto(c, "respond") /\ \A d \in Callers \ {c} : arg'[d] = arg[d]
    BY <1>2 DEF ReturnLeaking, TypeOK
  <2> QED BY <2>1, ArgMove DEF TaskSteps
<1> QED BY <1>1, <1>2

\* A call goes on with the task it has.
LEMMA ArgCallStep ==
    ASSUME TypeOK, ArgTyped, NEW c \in Callers, Pick(c) \/ Dispatch(c) \/ StartStep(c)
    PROVE  ArgTyped'
<1> DEFINE Stays == (\E s \in CallSteps : Goto(c, s)) /\ UNCHANGED arg /\ pc[c] \in TaskSteps
<1>1. ASSUME Stays PROVE ArgTyped'
  <2>1. arg[c] \in Tasks
    BY <1>1 DEF ArgTyped
  <2> QED BY <1>1, <2>1, ArgMove
<1>2. CASE Pick(c)
  <2>1. CASE Goto(c, "idle") /\ UNCHANGED arg
    BY <2>1, ArgMove DEF TaskSteps
  <2>2. CASE \E t \in QueueHeads : Goto(c, "pickTx") /\ arg' = [arg EXCEPT ![c] = t]
    BY <2>2, ArgMove DEF QueueHeads, TypeOK
  <2> QED BY <1>2, <2>1, <2>2 DEF Pick
<1>3. CASE Dispatch(c)
  <2>1. CASE AfterPlacing(c)
    <3>1. CASE \E ok \in BOOLEAN : Return(c, ok)
      BY <3>1, ArgReturn
    <3>2. CASE (\E s \in CallSteps : Goto(c, s)) /\ UNCHANGED arg
      BY <1>1, <1>3, <3>2 DEF Dispatch, TaskSteps, CallSteps
    <3> QED BY <2>1, <3>1, <3>2 DEF AfterPlacing, CallSteps
  <2>2. CASE ReturnLeaking(c) \/ \E ok \in BOOLEAN : Return(c, ok)
    BY <2>2, ArgReturnLeaking, ArgReturn
  <2> QED BY <1>3, <2>1, <2>2 DEF Dispatch
<1>4. CASE StartStep(c)
  <2>1. CASE \E ok \in BOOLEAN : Return(c, ok)
    BY <2>1, ArgReturn
  <2>2. CASE StartRead(c) /\ ~\E ok \in BOOLEAN : Return(c, ok)
    BY <1>1, <2>2 DEF StartRead, TaskSteps, CallSteps
  <2>3. CASE StartHost(c) /\ ~\E ok \in BOOLEAN : Return(c, ok)
    BY <1>1, <2>3 DEF StartHost, TaskSteps, CallSteps
  <2>4. CASE StartPrepare(c)
    BY <1>1, <2>4 DEF StartPrepare, TaskSteps, CallSteps
  <2>5. CASE StartBuild(c) /\ ~\E ok \in BOOLEAN : Return(c, ok)
    BY <1>1, <2>5 DEF StartBuild, TaskSteps, CallSteps
  <2>6. CASE StartFail(c)
    BY <2>6, ArgReturn DEF StartFail
  <2>7. CASE Launch(c)
    BY <2>7, ArgReturn DEF Launch
  <2> QED BY <1>4, <2>1, <2>2, <2>3, <2>4, <2>5, <2>6, <2>7 DEF StartStep
<1> QED BY <1>2, <1>3, <1>4

\* A call has a task at every position at which it uses one.
LEMMA ArgInvariant == TypeOK /\ ArgTyped /\ [Next]_vars => ArgTyped'
<1> SUFFICES ASSUME TypeOK, ArgTyped, [Next]_vars PROVE ArgTyped'
  OBVIOUS
<1>1. ASSUME NEW c \in Callers, Pick(c) \/ Dispatch(c) \/ StartStep(c) PROVE ArgTyped'
  BY <1>1, ArgCallStep
<1>2. CASE Tick
  BY <1>2, ArgMove DEF Tick, TaskSteps, Callers
<1>3. CASE Scan
  <2>1. CASE todo = {}
    BY <1>3, <2>1, ArgMove DEF Scan, TaskSteps, Callers
  <2>2. CASE todo # {}
    <3>1. PICK t \in Tasks : arg' = [arg EXCEPT ![Scheduler] = t]
      BY <1>3, <2>2 DEF Scan, TypeOK
    <3> QED BY <1>3, <2>2, <3>1, ArgMove DEF Scan, Callers, TypeOK
  <2> QED BY <2>1, <2>2
<1>4. ASSUME NEW c \in Clients, CallNext(c) PROVE ArgTyped'
  BY <1>4, ArgMove DEF CallNext, TaskSteps, Callers
<1>5. ASSUME NEW c \in Clients, NEW t \in Tasks,
             CallStart(c, t) \/ CallDispatch(c, t) \/ CallCancel(c, t)
      PROVE  ArgTyped'
  <2>1. (\E s \in CallSteps : Goto(c, s)) /\ arg' = [arg EXCEPT ![c] = t]
    BY <1>5 DEF CallStart, CallDispatch, CallCancel, Call, CallSteps
  <2> QED BY <2>1, ArgMove DEF Callers, TypeOK
<1>6. ASSUME NEW c \in Clients, CancelTx(c) PROVE ArgTyped'
  BY <1>6, ArgReturn, ArgReturnLeaking DEF CancelTx, Callers
<1>7. ASSUME NEW c \in Clients, EndRequest(c) PROVE ArgTyped'
  BY <1>7, ArgMove DEF EndRequest, TaskSteps, Callers
<1>8. ASSUME NEW c \in Clients, Abort(c) PROVE ArgTyped'
  BY <1>8, ArgReturn DEF Abort, Callers
<1>9. CASE UNCHANGED callVars
  BY <1>9 DEF callVars, ArgTyped
<1>10. CASE Restart
  BY <1>10 DEF Restart, ArgTyped, TaskSteps
<1>11. ASSUME NEW t \in Tasks, Create(t) \/ Retry(t) \/ RunnerStep(t) PROVE UNCHANGED callVars
  BY <1>11 DEF Create, Retry, Insert, RunnerStep, RunLoad, RunCommand, RunStartPush,
               RunPushLoad, RunRecord, RunEnd, callVars
<1>12. ASSUME NEW h \in Hosts, SwitchHost(h) \/ CheckHost(h) \/ ResizeHost(h) \/ DeleteHost(h)
       PROVE  UNCHANGED callVars
  BY <1>12 DEF SwitchHost, CheckHost, ResizeHost, DeleteHost, callVars
<1>13. CASE UNCHANGED vars
  BY <1>13, <1>9 DEF vars
<1>14. ASSUME NEW c \in Callers, CallFails(c) PROVE ArgTyped'
  BY <1>14, ArgReturn, ArgReturnLeaking DEF CallFails, StatementFails, CountFails
<1> QED BY <1>1, <1>2, <1>3, <1>4, <1>5, <1>6, <1>7, <1>8, <1>9, <1>10, <1>11, <1>12, <1>13,
           <1>14
        DEF Next, SchedulerStep, ClientCall, ClientStep, Callers

\* The final statuses that are given: CompleteBuild is never called for a success,
\* so build_success, which holdsHostSlot would still count, is not one of them.
Endings == TerminalStatuses \ SlotStatuses

\* The ways a step may change the status, the host and the slot of a task t.
Kept == UNCHANGED <<status, host, running>>
Queued(t) == /\ status[t] = "absent"
             /\ status' = [status EXCEPT ![t] = "queued"]
             /\ UNCHANGED <<host, running>>
Placed(t, h) == /\ status[t] \in {"queued", "created"}
                /\ GlobalRoom
                /\ h \in Candidates(t)
                /\ Place(t, h)
Moved(t, from, to) == /\ status[t] = from
                      /\ status' = [status EXCEPT ![t] = to]
                      /\ UNCHANGED <<host, running>>
Ended(t) == /\ ~Terminal(t)
            /\ \E s \in Endings : Settle(t, s)
            /\ UNCHANGED host

StepShape == \/ Kept
             \/ \E t \in Tasks : \/ Queued(t)
                                 \/ \E h \in Hosts : Placed(t, h)
                                 \/ Moved(t, "dispatching", "building")
                                 \/ Moved(t, "building", "pushing")
                                 \/ Ended(t)

\* FailTask, the body of every closing transaction, closes t or does nothing.
LEMMA FailTaskShape ==
    ASSUME NEW t \in Tasks, NEW s \in Endings, FailTask(t, s), UNCHANGED host
    PROVE  StepShape
BY DEF FailTask, StepShape, Ended, Kept

\* The steps of calls move a task along an arrow of its life cycle,
LEMMA CallStepShape ==
    ASSUME TypeOK, ArgTyped, NEW c \in Callers, Dispatch(c) \/ StartStep(c) \/ CancelTx(c)
    PROVE  StepShape
<1> DEFINE t == arg[c]
<1>1. pc[c] \in TaskSteps => t \in Tasks
  BY DEF ArgTyped
<1>2. CASE Dispatch(c)
  <2>1. t \in Tasks
    BY <1>1, <1>2 DEF Dispatch, TaskSteps, CallSteps
  <2>2. CASE \E h \in BestHosts(t) : Place(t, h) /\ GlobalRoom /\ status[t] \in {"queued", "created"}
    BY <2>1, <2>2 DEF StepShape, Placed, BestHosts, Candidates
  <2>3. CASE /\ status[t] \in {"queued", "created"}
             /\ status' = [status EXCEPT ![t] = "dispatch_failed"]
             /\ UNCHANGED <<host, running>>
    BY <2>1, <2>3 DEF StepShape, Ended, Settle, Terminal, Endings, TerminalStatuses, HoldsSlot, SlotStatuses
  <2>4. CASE UNCHANGED <<status, host, running>>
    BY <2>4 DEF StepShape, Kept
  <2> QED BY <1>2, <2>2, <2>3, <2>4 DEF Dispatch
<1>3. CASE StartStep(c)
  <2>1. CASE StartFail(c)
    BY <1>1, <2>1, FailTaskShape DEF StartFail, TaskSteps, CallSteps, Endings, TerminalStatuses,
                                                 SlotStatuses
  <2>2. CASE StartBuild(c)
    <3>1. t \in Tasks
      BY <1>1, <2>2 DEF StartBuild, TaskSteps, CallSteps
    <3>2. CASE status[t] = "dispatching"
      BY <2>2, <3>1, <3>2 DEF StartBuild, StepShape, Moved, hostVars, adminVars
    <3>3. CASE status[t] # "dispatching"
      BY <2>2, <3>3 DEF StartBuild, StepShape, Kept, hostVars, adminVars
    <3> QED BY <3>2, <3>3
  <2>3. CASE StartRead(c) \/ StartHost(c) \/ StartPrepare(c) \/ Launch(c)
    BY <2>3 DEF StartRead, StartHost, StartPrepare, Launch, StepShape, Kept, taskVars, hostVars, adminVars
  <2> QED BY <1>3, <2>1, <2>2, <2>3 DEF StartStep
<1>4. CASE CancelTx(c)
  <2>1. CASE Terminal(t)
    BY <1>4, <2>1 DEF CancelTx, StepShape, Kept
  <2>2. CASE ~Terminal(t)
    BY <1>1, <1>4, <2>2, FailTaskShape DEF CancelTx, TaskSteps, CallSteps, Endings, TerminalStatuses,
                                                 SlotStatuses
  <2> QED BY <2>1, <2>2
<1> QED BY <1>2, <1>3, <1>4

\* and so do those of its goroutine.
LEMMA RunnerStepShape ==
    ASSUME NEW t \in Tasks, RunnerStep(t)
    PROVE  StepShape
<1>1. CASE RunLoad(t) \/ RunCommand(t) \/ RunPushLoad(t) \/ RunRecord(t)
  BY <1>1 DEF RunLoad, RunCommand, RunPushLoad, RunRecord, StepShape, Kept, taskVars, hostVars, adminVars
<1>2. CASE RunStartPush(t)
  <2>1. CASE status[t] = "building" /\ status' = [status EXCEPT ![t] = "pushing"]
    BY <1>2, <2>1 DEF RunStartPush, StepShape, Moved, hostVars, adminVars
  <2>2. CASE status' = status
    BY <1>2, <2>2 DEF RunStartPush, StepShape, Kept, hostVars, adminVars
  <2> QED BY <1>2, <2>1, <2>2 DEF RunStartPush
<1>3. CASE RunEnd(t)
  <2>1. CASE \E s \in Endings : FailTask(t, s)
    BY <1>3, <2>1, FailTaskShape DEF RunEnd
  <2>2. CASE UNCHANGED <<status, running>>
    BY <1>3, <2>2 DEF RunEnd, StepShape, Kept
  <2> QED BY <1>3, <2>1, <2>2 DEF RunEnd, Complete, Endings, TerminalStatuses, SlotStatuses
<1> QED BY <1>1, <1>2, <1>3 DEF RunnerStep

\* Every step of the service moves at most one task, and along one arrow.
LEMMA StepHasShape == TypeOK /\ ArgTyped /\ [Next]_vars => StepShape
<1> SUFFICES ASSUME TypeOK, ArgTyped, [Next]_vars PROVE StepShape
  OBVIOUS
<1> USE DEF taskVars, hostVars, adminVars
<1>1. ASSUME UNCHANGED <<taskVars, hostVars, adminVars>> \/ UNCHANGED <<taskVars, running>>
      PROVE  StepShape
  BY <1>1 DEF StepShape, Kept
<1>2. CASE SchedulerStep
  <2>1. CASE Tick \/ Scan \/ Pick(Scheduler)
    BY <1>1, <2>1 DEF Tick, Scan, Pick
  <2> QED BY <1>2, <2>1, CallStepShape DEF SchedulerStep, Callers
<1>3. ASSUME NEW c \in Clients, ClientCall(c) \/ ClientStep(c) \/ Abort(c) PROVE StepShape
  <2>1. CASE ClientCall(c)
    BY <1>1, <2>1 DEF ClientCall, CallNext, CallStart, CallDispatch, CallCancel, Call
  <2>2. CASE Pick(c) \/ EndRequest(c) \/ Abort(c)
    BY <1>1, <2>2 DEF Pick, EndRequest, Abort
  <2> QED BY <1>3, <2>1, <2>2, CallStepShape DEF ClientStep, Callers
<1>4. ASSUME NEW t \in Tasks, Create(t) \/ Retry(t) PROVE StepShape
  BY <1>4 DEF Create, Retry, Insert, Exists, StepShape, Queued
<1>5. ASSUME NEW t \in Tasks, RunnerStep(t) PROVE StepShape
  BY <1>5, RunnerStepShape
<1>6. CASE \E h \in Hosts : SwitchHost(h) \/ CheckHost(h) \/ ResizeHost(h) \/ DeleteHost(h)
  BY <1>1, <1>6 DEF SwitchHost, CheckHost, ResizeHost, DeleteHost
<1>7. CASE Restart \/ UNCHANGED vars
  BY <1>1, <1>7 DEF Restart, vars
<1>8. ASSUME NEW c \in Callers, CallFails(c) PROVE StepShape
  BY <1>1, <1>8 DEF CallFails, StatementFails, CountFails
<1> QED BY <1>2, <1>3, <1>4, <1>5, <1>6, <1>7, <1>8 DEF Next

-----------------------------------------------------------------------------
(* Ends are final *)

\* Only Ended gives a task a new status, and only to a task that has not
\* ended, so no late completion, timeout, start or cancel overwrites an end.
LEMMA EndStep ==
    TypeOK /\ ArgTyped /\ [Next]_vars
      => [\A t \in Tasks : Terminal(t) => status'[t] = status[t]]_vars
<1> SUFFICES ASSUME TypeOK, ArgTyped, [Next]_vars, NEW t \in Tasks, Terminal(t)
             PROVE  status'[t] = status[t]
  OBVIOUS
<1>1. StepShape
  BY StepHasShape
<1>2. CASE Kept
  BY <1>2 DEF Kept
<1>3. ASSUME NEW u \in Tasks, u # t,
             Queued(u) \/ (\E h \in Hosts : Placed(u, h)) \/ Ended(u)
               \/ Moved(u, "dispatching", "building") \/ Moved(u, "building", "pushing")
      PROVE  status'[t] = status[t]
  BY <1>3 DEF Queued, Placed, Place, Ended, Settle, Moved, TypeOK
<1>4. /\ ~Queued(t) /\ ~Ended(t)
      /\ ~\E h \in Hosts : Placed(t, h)
      /\ ~Moved(t, "dispatching", "building") /\ ~Moved(t, "building", "pushing")
  BY DEF Queued, Placed, Ended, Moved, Terminal, TerminalStatuses
<1> QED BY <1>1, <1>2, <1>3, <1>4 DEF StepShape

\* At first no call is under way.
LEMMA InitArg == Init => ArgTyped
BY DEF Init, ArgTyped, TaskSteps

\* A call always has the task it works on.
LEMMA CallsHaveTasks == Spec => []ArgTyped
BY InitArg, ArgInvariant, TypeCorrect, PTL DEF Spec

\* A task that ended keeps its status in every run of every instance.
THEOREM EndsAreFinal == Spec => EndIsFinal
BY EndStep, TypeCorrect, CallsHaveTasks, PTL DEF Spec, EndIsFinal

-----------------------------------------------------------------------------
(* The counters of the hosts *)

\* A task with a slot has it on a host: why decrementHostRunning finds a row.
Housed == \A t \in Tasks : HoldsSlot(t) => host[t] \in Hosts

\* The counters and the placements are an invariant together: the counter that
\* Ended decrements is the one that Placed incremented.
SlotInvariant == HostSlots /\ Housed

\* The tasks on a host can be counted.
LEMMA HoldersFinite == \A h \in Hosts : IsFiniteSet(SlotHolders(h))
BY TasksFinite, FS_Subset DEF SlotHolders

\* A status outside the slot statuses replaced by another one is invisible to
\* the counters, and so is a move between two of them.
LEMMA SameHolders ==
    ASSUME TypeOK, SlotInvariant, NEW t \in Tasks, NEW s,
           status' = [status EXCEPT ![t] = s],
           status[t] \in SlotStatuses <=> s \in SlotStatuses,
           UNCHANGED <<host, running>>
    PROVE  SlotInvariant'
<1>1. \A u \in Tasks : HoldsSlot(u)' <=> HoldsSlot(u)
  BY DEF TypeOK, HoldsSlot
<1>2. \A h \in Hosts : SlotHolders(h)' = SlotHolders(h)
  BY <1>1 DEF SlotHolders
<1> QED BY <1>1, <1>2 DEF SlotInvariant, HostSlots, Housed

\* DispatchTask takes one slot of the host it chose.
LEMMA PlacingCounts ==
    ASSUME TypeOK, SlotInvariant, NEW t \in Tasks, NEW h \in Hosts, Placed(t, h)
    PROVE  SlotInvariant'
<1>1. ~HoldsSlot(t)
  BY DEF Placed, HoldsSlot, SlotStatuses
<1>2. /\ HoldsSlot(t)' /\ host'[t] = h
      /\ \A u \in Tasks \ {t} : (HoldsSlot(u)' <=> HoldsSlot(u)) /\ host'[u] = host[u]
  BY DEF Placed, Place, TypeOK, HoldsSlot, SlotStatuses
<1>3. SlotHolders(h)' = SlotHolders(h) \union {t} /\ t \notin SlotHolders(h)
  BY <1>1, <1>2 DEF SlotHolders
<1>4. \A g \in Hosts \ {h} : SlotHolders(g)' = SlotHolders(g)
  BY <1>1, <1>2 DEF SlotHolders
<1>5. Cardinality(SlotHolders(h)') = Cardinality(SlotHolders(h)) + 1
  BY <1>3, HoldersFinite, FS_AddElement
<1>6. running'[h] = running[h] + 1 /\ \A g \in Hosts \ {h} : running'[g] = running[g]
  BY DEF Placed, Place, TypeOK
<1>7. HostSlots'
  BY <1>4, <1>5, <1>6 DEF SlotInvariant, HostSlots
<1>8. Housed'
  BY <1>2 DEF SlotInvariant, Housed
<1> QED BY <1>7, <1>8 DEF SlotInvariant

\* A closing transaction gives back the slot the task holds, if it holds one.
LEMMA EndingCounts ==
    ASSUME TypeOK, SlotInvariant, NEW t \in Tasks, Ended(t)
    PROVE  SlotInvariant'
<1>1. PICK s \in Endings : Settle(t, s)
  BY DEF Ended
<1>2. ~HoldsSlot(t)' /\ \A u \in Tasks \ {t} : HoldsSlot(u)' <=> HoldsSlot(u)
  BY <1>1 DEF Settle, TypeOK, HoldsSlot, Endings
<1>3. Housed'
  BY <1>2 DEF SlotInvariant, Housed, Ended
<1>4. CASE HoldsSlot(t)
  <2>0. PICK h \in Hosts : h = host[t]
    BY <1>4 DEF SlotInvariant, Housed
  <2>1. t \in SlotHolders(h)
    BY <1>4, <2>0 DEF SlotHolders
  <2>2. SlotHolders(h)' = SlotHolders(h) \ {t}
    BY <1>2, <2>0 DEF SlotHolders, Ended
  <2>3. \A g \in Hosts \ {h} : SlotHolders(g)' = SlotHolders(g)
    BY <1>2, <2>0 DEF SlotHolders, Ended
  <2>4. /\ Cardinality(SlotHolders(h)') = Cardinality(SlotHolders(h)) - 1
        /\ Cardinality(SlotHolders(h)) \in Nat
    BY <2>1, <2>2, HoldersFinite, FS_RemoveElement, FS_CardinalityType
  <2>5. Cardinality(SlotHolders(h)) # 0
    BY <2>1, HoldersFinite, FS_EmptySet
  <2>6. running'[h] = running[h] - 1 /\ \A g \in Hosts \ {h} : running'[g] = running[g]
    BY <1>1, <1>4, <2>0, <2>1, <2>4, <2>5 DEF Settle, TypeOK, SlotInvariant, HostSlots
  <2>7. HostSlots'
    <3>1. running'[h] = Cardinality(SlotHolders(h)')
      BY <2>1, <2>4, <2>6 DEF SlotInvariant, HostSlots
    <3>2. \A g \in Hosts \ {h} : running'[g] = Cardinality(SlotHolders(g)')
      BY <2>3, <2>6 DEF SlotInvariant, HostSlots
    <3> QED BY <3>1, <3>2 DEF HostSlots
  <2> QED BY <1>3, <2>7 DEF SlotInvariant
<1>5. CASE ~HoldsSlot(t)
  <2>1. \A h \in Hosts : SlotHolders(h)' = SlotHolders(h)
    BY <1>2, <1>5 DEF SlotHolders, Ended
  <2>2. running' = running
    BY <1>1, <1>5 DEF Settle
  <2> QED BY <1>3, <2>1, <2>2 DEF SlotInvariant, HostSlots
<1> QED BY <1>4, <1>5

\* Every step keeps the counters and the active tasks in agreement.
LEMMA SlotStep == TypeOK /\ ArgTyped /\ SlotInvariant /\ [Next]_vars => SlotInvariant'
<1> SUFFICES ASSUME TypeOK, ArgTyped, SlotInvariant, [Next]_vars PROVE SlotInvariant'
  OBVIOUS
<1>1. StepShape
  BY StepHasShape
<1>2. CASE Kept
  BY <1>2 DEF Kept, SlotInvariant, HostSlots, Housed, SlotHolders, HoldsSlot
<1>3. ASSUME NEW t \in Tasks, Queued(t) PROVE SlotInvariant'
  BY <1>3, SameHolders DEF Queued, SlotStatuses
<1>4. ASSUME NEW t \in Tasks,
             Moved(t, "dispatching", "building") \/ Moved(t, "building", "pushing")
      PROVE  SlotInvariant'
  BY <1>4, SameHolders DEF Moved, SlotStatuses
<1> QED BY <1>1, <1>2, <1>3, <1>4, PlacingCounts, EndingCounts DEF StepShape

\* At first all counters are zero and no task is active.
LEMMA InitSlots == Init => SlotInvariant
<1> SUFFICES ASSUME Init PROVE SlotInvariant
  OBVIOUS
<1>1. \A t \in Tasks : ~HoldsSlot(t)
  BY DEF Init, HoldsSlot, SlotStatuses
<1>2. \A h \in Hosts : SlotHolders(h) = {}
  BY <1>1 DEF SlotHolders
<1> QED BY <1>1, <1>2, FS_EmptySet DEF Init, SlotInvariant, HostSlots, Housed

\* The running counter of every host is the number of its tasks with a slot.
THEOREM CountersAreRight == Spec => []HostSlots
<1>1. SlotInvariant => HostSlots
  BY DEF SlotInvariant
<1> QED BY <1>1, InitSlots, SlotStep, TypeCorrect, CallsHaveTasks, PTL DEF Spec

-----------------------------------------------------------------------------
(* The global limit *)

\* Only a placement enters the active set, and it has counted before.
LEMMA LimitStep ==
    TypeOK /\ ArgTyped /\ GlobalLimitHeld /\ [Next]_vars => GlobalLimitHeld'
<1> SUFFICES ASSUME TypeOK, ArgTyped, GlobalLimitHeld, [Next]_vars PROVE GlobalLimitHeld'
  OBVIOUS
<1>1. IsFiniteSet(Active) /\ Cardinality(Active) \in Nat
  BY TasksFinite, FS_Subset, FS_CardinalityType DEF Active
<1>2. StepShape
  BY StepHasShape
<1>3. ASSUME Active' \subseteq Active PROVE GlobalLimitHeld'
  <2>1. Cardinality(Active') <= Cardinality(Active) /\ Cardinality(Active') \in Nat
    BY <1>1, <1>3, FS_Subset, FS_CardinalityType
  <2> QED BY <1>1, <2>1, LimitIsNat DEF GlobalLimitHeld
<1>4. CASE Kept
  BY <1>3, <1>4 DEF Kept, Active, HoldsSlot
<1>5. ASSUME NEW t \in Tasks, Queued(t) \/ Ended(t) PROVE GlobalLimitHeld'
  BY <1>3, <1>5 DEF Queued, Ended, Settle, Endings, TypeOK, Active, HoldsSlot, SlotStatuses
<1>6. ASSUME NEW t \in Tasks,
             Moved(t, "dispatching", "building") \/ Moved(t, "building", "pushing")
      PROVE  GlobalLimitHeld'
  BY <1>3, <1>6 DEF Moved, TypeOK, Active, HoldsSlot, SlotStatuses
<1>7. ASSUME NEW t \in Tasks, NEW h \in Hosts, Placed(t, h) PROVE GlobalLimitHeld'
  <2>1. Active' = Active \union {t} /\ t \notin Active
    BY <1>7 DEF Placed, Place, TypeOK, Active, HoldsSlot, SlotStatuses
  <2>2. Cardinality(Active') = Cardinality(Active) + 1
    BY <1>1, <2>1, FS_AddElement
  <2> QED BY <1>1, <1>7, <2>2, LimitIsNat DEF Placed, GlobalRoom, GlobalLimitHeld
<1> QED BY <1>2, <1>4, <1>5, <1>6, <1>7 DEF StepShape

\* At first no task is active.
LEMMA InitLimit == Init => GlobalLimitHeld
<1> SUFFICES ASSUME Init PROVE GlobalLimitHeld
  OBVIOUS
<1>1. Active = {}
  BY DEF Init, Active, HoldsSlot, SlotStatuses
<1> QED BY <1>1, FS_EmptySet, LimitIsNat DEF GlobalLimitHeld

\* Never more tasks under way than the limit, whoever dispatches them.
THEOREM LimitHolds == Spec => []GlobalLimitHeld
BY InitLimit, LimitStep, TypeCorrect, CallsHaveTasks, PTL DEF Spec

-----------------------------------------------------------------------------
(* The goroutine that executes a build: it is launched once per task, and   *)
(* it always finds its task in the stage it is working on or ended.         *)

BuildSteps == {"load", "toBuild", "building", "built", "buildErr"}
PushSteps == {"pushLoad", "toPush", "pushing", "pushed", "recorded", "pushErr"}

\* The statuses StartBuild leads to, at once or later.
Begun(t) == status[t] \in {"building", "pushing"} \/ Terminal(t)

\* A goroutine's position tells the stage of its task, unless the task ended.
StageInv == \A t \in Tasks :
              /\ runner[t] \in BuildSteps => status[t] = "building" \/ Terminal(t)
              /\ runner[t] \in PushSteps => status[t] = "pushing" \/ Terminal(t)

\* A goroutine exists for tasks launched once, which are past dispatching.
LaunchInv == \A t \in Tasks : /\ launched[t] \in {0, 1}
                              /\ runner[t] # "none" => launched[t] = 1
                              /\ launched[t] = 1 => Begun(t)

\* Of the Start calls of a task only the one whose UPDATE of StartBuild found
\* it dispatching reaches the launch, and nothing was launched before.
ClaimInv == /\ \A c \in Callers :
                 pc[c] = "launch" => /\ launched[arg[c]] = 0
                                     /\ status[arg[c]] = "building" \/ Terminal(arg[c])
            /\ \A c, d \in Callers :
                 pc[c] = "launch" /\ pc[d] = "launch" /\ arg[c] = arg[d] => c = d

RunnerInv == StageInv /\ LaunchInv /\ ClaimInv

-----------------------------------------------------------------------------
(* Steps that leave the goroutines where they are *)

\* No status changes, except of tasks that were not begun, or by ending.
Respects == \A t \in Tasks : status'[t] = status[t] \/ Terminal(t)' \/ ~Begun(t)

\* No call reaches the launch of a goroutine.
NoClaim == \A c \in Callers : pc'[c] = "launch" => pc[c] = "launch" /\ arg'[c] = arg[c]

\* A step that leaves goroutines alone and claims no launch keeps the invariant, if
\* it respects the statuses.
LEMMA RunnerFrame ==
    ASSUME TypeOK, ArgTyped, RunnerInv, UNCHANGED <<runner, launched>>, Respects, NoClaim
    PROVE  RunnerInv'
<1>1. ASSUME NEW t \in Tasks, status[t] = "building" \/ Terminal(t)
      PROVE  (status[t] = "building" \/ Terminal(t))'
  BY <1>1 DEF Respects, Begun, Terminal
<1>2. ASSUME NEW t \in Tasks, status[t] = "pushing" \/ Terminal(t)
      PROVE  (status[t] = "pushing" \/ Terminal(t))'
  BY <1>2 DEF Respects, Begun, Terminal
<1>3. ASSUME NEW t \in Tasks, Begun(t) PROVE Begun(t)'
  BY <1>1, <1>2, <1>3 DEF Begun
<1>4. StageInv'
  BY <1>1, <1>2 DEF RunnerInv, StageInv
<1>5. LaunchInv'
  BY <1>3 DEF RunnerInv, LaunchInv
<1>6. ClaimInv'
  <2>1. ASSUME NEW c \in Callers, pc'[c] = "launch"
        PROVE  arg[c] \in Tasks /\ pc[c] = "launch" /\ arg'[c] = arg[c]
    BY <2>1 DEF NoClaim, ArgTyped, TaskSteps, CallSteps
  <2> QED BY <1>1, <2>1 DEF RunnerInv, ClaimInv
<1> QED BY <1>4, <1>5, <1>6 DEF RunnerInv

\* A call that returns claims no launch,
LEMMA ReturnClaims ==
    ASSUME TypeOK, NEW c \in Callers, NEW ok, Return(c, ok) \/ ReturnLeaking(c)
    PROVE  NoClaim
<1>1. \A d \in Callers \ {c} : pc'[d] = pc[d] /\ arg'[d] = arg[d]
  BY DEF Return, ReturnLeaking, Goto, TypeOK
<1>2. pc'[c] # "launch"
  BY DEF Return, ReturnLeaking, Goto, TypeOK
<1> QED BY <1>1, <1>2 DEF NoClaim

\* nor does one that goes anywhere but to the launch.
LEMMA GotoClaims ==
    ASSUME TypeOK, NEW c \in Callers, NEW s, Goto(c, s), s # "launch",
           \A d \in Callers \ {c} : arg'[d] = arg[d]
    PROVE  NoClaim
BY DEF Goto, TypeOK, NoClaim

\* A task that is closed with a final status is respected.
LEMMA FailTaskRespects ==
    ASSUME TypeOK, NEW t, NEW s \in TerminalStatuses, FailTask(t, s)
    PROVE  Respects
BY DEF FailTask, Settle, TypeOK, Respects, Terminal

-----------------------------------------------------------------------------
(* Every step *)

\* The steps of the scheduler's and the requests' calls,
LEMMA CallKeepsRunners ==
    ASSUME TypeOK, ArgTyped, RunnerInv, NEW c \in Callers,
           Pick(c) \/ Dispatch(c) \/ StartStep(c)
    PROVE  RunnerInv'
<1> DEFINE t == arg[c]
<1> USE DEF taskVars, runVars, loopVars
<1>1. CASE Pick(c)
  <2>1. NoClaim
    BY <1>1, GotoClaims DEF Pick, TypeOK
  <2>2. Respects /\ UNCHANGED <<runner, launched>>
    BY <1>1 DEF Pick, Respects
  <2> QED BY <2>1, <2>2, RunnerFrame
<1>2. CASE Dispatch(c)
  <2>1. NoClaim
    <3>1. CASE ReturnLeaking(c) \/ \E ok \in BOOLEAN : Return(c, ok)
      BY <3>1, ReturnClaims
    <3>2. CASE (\E s \in {"read", "reread"} : Goto(c, s)) /\ UNCHANGED arg
      BY <3>2, GotoClaims
    <3> QED BY <1>2, <3>1, <3>2 DEF Dispatch, AfterPlacing
  <2>2. Respects
    <3>1. CASE status' = status
      BY <3>1 DEF Respects
    <3>2. CASE /\ status[t] \in {"queued", "created"}
               /\ \E s \in {"dispatch_failed", "dispatching"} : status' = [status EXCEPT ![t] = s]
      BY <3>2 DEF Respects, Begun, Terminal, TerminalStatuses, TypeOK
    <3> QED BY <1>2, <3>1, <3>2 DEF Dispatch, Place
  <2> QED BY <1>2, <2>1, <2>2, RunnerFrame DEF Dispatch
<1>3. CASE StartRead(c) \/ StartHost(c) \/ StartPrepare(c)
  <2>1. CASE \E ok \in BOOLEAN : Return(c, ok)
    BY <1>3, <2>1, ReturnClaims, RunnerFrame
       DEF StartRead, StartHost, StartPrepare, Respects
  <2>2. CASE /\ \E s \in {"startTx", "host", "failHost", "prepare", "startBuild", "failPrep"} : Goto(c, s)
             /\ UNCHANGED arg
    BY <1>3, <2>2, GotoClaims, RunnerFrame
       DEF StartRead, StartHost, StartPrepare, Respects
  <2> QED BY <1>3, <2>1, <2>2 DEF StartRead, StartHost, StartPrepare
<1>4. CASE StartFail(c)
  BY <1>4, FailTaskRespects, ReturnClaims, RunnerFrame DEF StartFail, TerminalStatuses
<1>5. CASE StartBuild(c)
  <2>1. CASE status[t] # "dispatching"
    BY <1>5, <2>1, ReturnClaims, RunnerFrame DEF StartBuild, Respects
  <2>2. CASE status[t] = "dispatching"
    <3>0. t \in Tasks
      BY <1>5 DEF StartBuild, ArgTyped, TaskSteps, CallSteps
    <3>1. /\ status' = [status EXCEPT ![t] = "building"]
          /\ pc' = [pc EXCEPT ![c] = "launch"]
          /\ UNCHANGED <<arg, runner, launched>>
      BY <1>5, <2>2 DEF StartBuild, Goto
    <3>2. /\ ~Begun(t) /\ Begun(t)'
          /\ \A u \in Tasks \ {t} : status'[u] = status[u]
      BY <2>2, <3>0, <3>1 DEF Begun, Terminal, TerminalStatuses, TypeOK
    <3>3. launched[t] = 0 /\ runner[t] = "none"
      BY <3>0, <3>2 DEF RunnerInv, LaunchInv
    <3>4. \A d \in Callers : pc[d] = "launch" => arg[d] # t
      BY <2>2, <3>2 DEF RunnerInv, ClaimInv, Begun
    <3>5. StageInv'
      BY <3>1, <3>2, <3>3 DEF RunnerInv, StageInv, Terminal, BuildSteps, PushSteps
    <3>6. LaunchInv'
      BY <3>1, <3>2, <3>3 DEF RunnerInv, LaunchInv, Begun, Terminal
    <3>7. ClaimInv'
      <4>1. \A d \in Callers : pc'[d] = "launch" => d = c \/ pc[d] = "launch"
        BY <3>1 DEF TypeOK
      <4>2. \A d \in Callers : pc'[d] = "launch" => arg[d] \in Tasks
        BY <3>0, <4>1 DEF ArgTyped, TaskSteps, CallSteps
      <4>3. status'[t] = "building"
        BY <3>0, <3>1 DEF TypeOK
      <4>4. ASSUME NEW d \in Callers, pc'[d] = "launch"
            PROVE  (launched[arg[d]] = 0 /\ (status[arg[d]] = "building" \/ Terminal(arg[d])))'
        BY <3>1, <3>2, <3>3, <4>1, <4>2, <4>3, <4>4 DEF RunnerInv, ClaimInv, Terminal
      <4>5. ASSUME NEW d \in Callers, NEW e \in Callers,
                   pc'[d] = "launch", pc'[e] = "launch", arg'[d] = arg'[e]
            PROVE  d = e
        BY <3>1, <3>4, <4>1, <4>5 DEF RunnerInv, ClaimInv
      <4> QED BY <4>4, <4>5 DEF ClaimInv
    <3> QED BY <3>5, <3>6, <3>7 DEF RunnerInv
  <2> QED BY <2>1, <2>2
<1>6. CASE Launch(c)
  <2>0. t \in Tasks /\ pc[c] = "launch"
    BY <1>6 DEF Launch, ArgTyped, TaskSteps, CallSteps
  <2>1. /\ runner' = [runner EXCEPT ![t] = "load"]
        /\ launched' = [launched EXCEPT ![t] = @ + 1]
        /\ UNCHANGED status
    BY <1>6 DEF Launch
  <2>2. launched[t] = 0 /\ (status[t] = "building" \/ Terminal(t))
    BY <2>0 DEF RunnerInv, ClaimInv
  <2>3. launched'[t] = 1 /\ \A u \in Tasks \ {t} : launched'[u] = launched[u]
    BY <2>0, <2>1, <2>2 DEF TypeOK
  <2>4. runner'[t] = "load" /\ \A u \in Tasks \ {t} : runner'[u] = runner[u]
    BY <2>0, <2>1 DEF TypeOK
  <2>5. StageInv'
    BY <2>1, <2>2, <2>4 DEF RunnerInv, StageInv, Terminal, BuildSteps, PushSteps
  <2>6. LaunchInv'
    BY <2>1, <2>2, <2>3, <2>4 DEF RunnerInv, LaunchInv, Begun, Terminal
  <2>7. ClaimInv'
    <3>1. \A d \in Callers : pc'[d] = "launch" => d # c /\ pc[d] = "launch" /\ arg'[d] = arg[d]
      BY <1>6 DEF Launch, Return, Goto, TypeOK
    <3>2. \A d \in Callers : pc'[d] = "launch" => arg[d] \in Tasks \ {t}
      BY <2>0, <3>1 DEF RunnerInv, ClaimInv, ArgTyped, TaskSteps, CallSteps
    <3> QED BY <2>1, <2>3, <3>1, <3>2 DEF RunnerInv, ClaimInv, Terminal
  <2> QED BY <2>5, <2>6, <2>7 DEF RunnerInv
<1> QED BY <1>1, <1>2, <1>3, <1>4, <1>5, <1>6 DEF StartStep

\* and those of a request outside them, keep the invariant.
LEMMA RequestKeepsRunners ==
    ASSUME TypeOK, ArgTyped, RunnerInv, NEW c \in Clients,
           ClientCall(c) \/ CancelTx(c) \/ EndRequest(c) \/ Abort(c)
    PROVE  RunnerInv'
<1> USE DEF taskVars, runVars, Callers
<1>1. CASE ClientCall(c)
  <2>1. CASE CallNext(c)
    BY <2>1, GotoClaims, RunnerFrame DEF CallNext, Respects
  <2>2. ASSUME NEW t \in Tasks, CallStart(c, t) \/ CallDispatch(c, t) \/ CallCancel(c, t)
        PROVE  RunnerInv'
    <3>1. /\ \E s \in {"read", "pickTx", "cancelTx"} : Goto(c, s)
          /\ arg' = [arg EXCEPT ![c] = t]
      BY <2>2 DEF CallStart, CallDispatch, CallCancel, Call
    <3>2. NoClaim
      BY <3>1, GotoClaims DEF TypeOK
    <3>3. Respects /\ UNCHANGED <<runner, launched>>
      BY <2>2 DEF CallStart, CallDispatch, CallCancel, Call, Respects
    <3> QED BY <3>2, <3>3, RunnerFrame
  <2> QED BY <1>1, <2>1, <2>2 DEF ClientCall
<1>2. CASE CancelTx(c)
  <2>1. NoClaim
    BY <1>2, ReturnClaims DEF CancelTx
  <2>2. Respects
    <3>1. CASE Terminal(arg[c])
      BY <1>2, <3>1 DEF CancelTx, Respects
    <3>2. CASE ~Terminal(arg[c])
      BY <1>2, <3>2, FailTaskRespects DEF CancelTx, TerminalStatuses
    <3> QED BY <3>1, <3>2
  <2> QED BY <1>2, <2>1, <2>2, RunnerFrame DEF CancelTx
<1>3. CASE EndRequest(c)
  BY <1>3, GotoClaims, RunnerFrame DEF EndRequest, Respects
<1>4. CASE Abort(c)
  BY <1>4, ReturnClaims, RunnerFrame DEF Abort, Respects
<1> QED BY <1>1, <1>2, <1>3, <1>4

\* as does a call that a failing statement ends.
LEMMA FailingCallKeepsRunners ==
    ASSUME TypeOK, ArgTyped, RunnerInv, NEW c \in Callers, CallFails(c)
    PROVE  RunnerInv'
<1>1. NoClaim
  BY ReturnClaims DEF CallFails, StatementFails, CountFails
<1> QED BY <1>1, RunnerFrame DEF CallFails, StatementFails, CountFails, Respects, taskVars, runVars

\* The goroutine itself: its position and its task advance together.
LEMMA RunnerKeepsStage ==
    ASSUME TypeOK, ArgTyped, RunnerInv, NEW t \in Tasks, RunnerStep(t)
    PROVE  RunnerInv'
<1> USE DEF taskVars, callVars
<1>1. UNCHANGED <<pc, arg, launched>>
  BY DEF RunnerStep, RunLoad, RunCommand, RunStartPush, RunPushLoad, RunRecord, RunEnd
<1>2. runner[t] # "none" /\ \A u \in Tasks \ {t} : runner'[u] = runner[u]
  BY DEF RunnerStep, RunLoad, RunCommand, RunStartPush, RunPushLoad, RunRecord, RunEnd,
         RunLost, RunnerAt, TypeOK
<1>3. Begun(t) /\ launched[t] = 1
  BY <1>2 DEF RunnerInv, LaunchInv
<1>4. \A u \in Tasks \ {t} : status'[u] = status[u]
  BY DEF RunnerStep, RunLoad, RunCommand, RunStartPush, RunPushLoad, RunRecord, RunEnd,
         Complete, FailTask, Settle, TypeOK
<1>5. ASSUME Begun(t)', StageInv' PROVE RunnerInv'
  <2>1. LaunchInv'
    BY <1>1, <1>2, <1>3, <1>4, <1>5 DEF RunnerInv, LaunchInv, Begun, Terminal
  <2>2. ASSUME NEW c \in Callers, pc[c] = "launch" PROVE arg[c] \in Tasks \ {t}
    BY <1>3, <2>2 DEF RunnerInv, ClaimInv, ArgTyped, TaskSteps, CallSteps
  <2>3. ClaimInv'
    BY <1>1, <1>4, <2>2 DEF RunnerInv, ClaimInv, Terminal
  <2> QED BY <1>5, <2>1, <2>3 DEF RunnerInv
<1>6. ASSUME /\ \/ status'[t] = status[t]
                \/ Terminal(t)'
                \/ status[t] = "building" /\ status'[t] = "pushing"
             /\ runner'[t] \in BuildSteps => status'[t] = "building" \/ Terminal(t)'
             /\ runner'[t] \in PushSteps => status'[t] = "pushing" \/ Terminal(t)'
      PROVE  RunnerInv'
  <2>1. Begun(t)'
    BY <1>3, <1>6 DEF Begun, Terminal
  <2>2. StageInv'
    BY <1>2, <1>4, <1>6 DEF RunnerInv, StageInv, Terminal
  <2> QED BY <1>5, <2>1, <2>2
<1>7. CASE RunLoad(t) \/ RunCommand(t) \/ RunPushLoad(t) \/ RunRecord(t)
  <2>1. UNCHANGED status
    BY <1>7 DEF RunLoad, RunCommand, RunPushLoad, RunRecord
  <2>2. /\ runner'[t] \in BuildSteps => runner[t] \in BuildSteps
        /\ runner'[t] \in PushSteps => runner[t] \in PushSteps
    BY <1>7 DEF RunLoad, RunCommand, RunPushLoad, RunRecord, RunLost, RunnerAt, TypeOK,
                BuildSteps, PushSteps
  <2>3. /\ runner[t] \in BuildSteps => status[t] = "building" \/ Terminal(t)
        /\ runner[t] \in PushSteps => status[t] = "pushing" \/ Terminal(t)
    BY DEF RunnerInv, StageInv
  <2>4. status'[t] = status[t] /\ (Terminal(t)' <=> Terminal(t))
    BY <2>1 DEF Terminal
  <2> QED BY <1>6, <2>2, <2>3, <2>4
<1>8. CASE RunStartPush(t)
  <2>1. CASE /\ status[t] = "building"
             /\ RunnerAt(t, "built", "pushLoad")
             /\ status' = [status EXCEPT ![t] = "pushing"]
    <3>1. status'[t] = "pushing"
      BY <2>1 DEF TypeOK
    <3>2. runner'[t] \notin BuildSteps
      BY <2>1 DEF RunnerAt, TypeOK, BuildSteps
    <3> QED BY <1>6, <2>1, <3>1, <3>2
  <2>2. CASE RunnerAt(t, "built", "none") /\ status' = status
    <3>1. runner'[t] \notin BuildSteps /\ runner'[t] \notin PushSteps
      BY <2>2 DEF RunnerAt, TypeOK, BuildSteps, PushSteps
    <3> QED BY <1>6, <2>2, <3>1
  <2> QED BY <1>8, <2>1, <2>2 DEF RunStartPush, RunLost
<1>9. CASE RunEnd(t)
  <2>1. runner'[t] = "none"
    BY <1>9 DEF RunEnd, RunLost, RunnerAt, TypeOK
  <2>2. status'[t] = status[t] \/ Terminal(t)'
    BY <1>9 DEF RunEnd, Complete, FailTask, Settle, TypeOK, Terminal, TerminalStatuses
  <2>3. runner'[t] \notin BuildSteps /\ runner'[t] \notin PushSteps
    BY <2>1 DEF BuildSteps, PushSteps
  <2> QED BY <1>6, <2>2, <2>3
<1> QED BY <1>7, <1>8, <1>9 DEF RunnerStep

\* Every step keeps the invariant.
LEMMA RunnerInvStep == TypeOK /\ ArgTyped /\ RunnerInv /\ [Next]_vars => RunnerInv'
<1> SUFFICES ASSUME TypeOK, ArgTyped, RunnerInv, [Next]_vars PROVE RunnerInv'
  OBVIOUS
<1> USE DEF taskVars, runVars, callVars
<1>1. CASE SchedulerStep
  <2>1. CASE Tick
    BY <2>1, GotoClaims, RunnerFrame DEF Tick, Respects, Callers
  <2>2. CASE Scan
    <3>1. (\E s \in {"pick", "read"} : Goto(Scheduler, s))
          /\ \A d \in Callers \ {Scheduler} : arg'[d] = arg[d]
      BY <2>2 DEF Scan, TypeOK
    <3> QED BY <2>2, <3>1, GotoClaims, RunnerFrame DEF Scan, Respects, Callers
  <2> QED BY <1>1, <2>1, <2>2, CallKeepsRunners DEF SchedulerStep, Callers
<1>2. ASSUME NEW c \in Clients, ClientCall(c) \/ ClientStep(c) \/ Abort(c) PROVE RunnerInv'
  BY <1>2, CallKeepsRunners, RequestKeepsRunners DEF ClientStep, Callers
<1>3. ASSUME NEW t \in Tasks, Create(t) \/ Retry(t) PROVE RunnerInv'
  <2>1. /\ status[t] = "absent" /\ status' = [status EXCEPT ![t] = "queued"]
        /\ UNCHANGED <<runner, launched, pc, arg>>
    BY <1>3 DEF Create, Retry, Insert, Exists
  <2>2. Respects
    BY <2>1 DEF Respects, Begun, Terminal, TerminalStatuses, TypeOK
  <2> QED BY <2>1, <2>2, RunnerFrame DEF NoClaim
<1>4. ASSUME NEW t \in Tasks, RunnerStep(t) PROVE RunnerInv'
  BY <1>4, RunnerKeepsStage
<1>5. CASE UNCHANGED <<status, runner, launched, pc, arg>>
  BY <1>5, RunnerFrame DEF Respects, NoClaim
<1>6. CASE \E h \in Hosts : SwitchHost(h) \/ CheckHost(h) \/ ResizeHost(h) \/ DeleteHost(h)
  BY <1>5, <1>6 DEF SwitchHost, CheckHost, ResizeHost, DeleteHost
<1>7. CASE Restart
  <2>1. \A t \in Tasks : runner'[t] = "none"
    BY <1>7 DEF Restart
  <2>2. \A c \in Callers : pc'[c] # "launch"
    BY <1>7 DEF Restart
  <2>3. UNCHANGED <<status, launched>>
    BY <1>7 DEF Restart
  <2> QED BY <2>1, <2>2, <2>3
          DEF RunnerInv, StageInv, LaunchInv, ClaimInv, Begun, Terminal, BuildSteps, PushSteps
<1>8. CASE UNCHANGED vars
  BY <1>5, <1>8 DEF vars
<1>9. ASSUME NEW c \in Callers, CallFails(c) PROVE RunnerInv'
  BY <1>9, FailingCallKeepsRunners
<1> QED BY <1>1, <1>2, <1>3, <1>4, <1>6, <1>7, <1>8, <1>9 DEF Next

\* At first there is no goroutine.
LEMMA InitRunners == Init => RunnerInv
<1> SUFFICES ASSUME Init PROVE RunnerInv
  OBVIOUS
<1>1. StageInv /\ LaunchInv
  <2>1. \A t \in Tasks : runner[t] = "none" /\ launched[t] = 0
    BY DEF Init
  <2> QED BY <2>1 DEF StageInv, LaunchInv, BuildSteps, PushSteps
<1>2. ClaimInv
  <2>1. \A c \in Callers : pc[c] = "idle"
    BY DEF Init
  <2> QED BY <2>1 DEF ClaimInv
<1> QED BY <1>1, <1>2 DEF RunnerInv

\* The position of a goroutine and the status of its task agree in every run.
LEMMA RunnersStayInStage == Spec => []RunnerInv
BY InitRunners, RunnerInvStep, TypeCorrect, CallsHaveTasks, PTL DEF Spec

-----------------------------------------------------------------------------

\* However many Start calls race, and across restarts, one goroutine per task.
THEOREM OneLaunch == Spec => []LaunchedOnce
<1>1. RunnerInv => LaunchedOnce
  BY DEF RunnerInv, LaunchInv, LaunchedOnce
<1> QED BY <1>1, RunnersStayInStage, PTL

\* A call that leaves its transaction open is a request or the scheduler.
LEMMA ReturnLeaks ==
    ASSUME NEW c \in Callers, ReturnLeaking(c)
    PROVE  GoroutineNeverLeaks'
BY NamesAreDistinct DEF ReturnLeaking, GoroutineNeverLeaks, Callers

\* No step gives the connection to a goroutine.
LEMMA LeakStep ==
    TypeOK /\ RunnerInv /\ GoroutineNeverLeaks /\ [Next]_vars => GoroutineNeverLeaks'
<1> SUFFICES ASSUME TypeOK, RunnerInv, GoroutineNeverLeaks, [Next]_vars
             PROVE  GoroutineNeverLeaks'
  OBVIOUS
<1>1. CASE conn' \in {conn, NoOwner}
  BY <1>1, NamesAreDistinct DEF GoroutineNeverLeaks
<1>2. ASSUME NEW c \in Callers, Pick(c) \/ Dispatch(c) \/ StartStep(c) PROVE GoroutineNeverLeaks'
  <2>1. conn' = conn \/ ReturnLeaking(c)
    BY <1>2 DEF Pick, Dispatch, StartStep, StartRead, StartHost, StartPrepare, StartFail,
                StartBuild, Launch
  <2> QED BY <1>1, <2>1, ReturnLeaks
<1>3. ASSUME NEW c \in Clients, ClientCall(c) \/ CancelTx(c) \/ EndRequest(c) \/ Abort(c)
      PROVE  GoroutineNeverLeaks'
  <2>1. conn' \in {conn, NoOwner} \/ ReturnLeaking(c)
    BY <1>3 DEF ClientCall, CallNext, CallStart, CallDispatch, CallCancel, Call, CancelTx,
                EndRequest, Abort
  <2> QED BY <1>1, <2>1, ReturnLeaks DEF Callers
<1>4. ASSUME NEW t \in Tasks, RunEnd(t) PROVE conn' = conn
  <2>1. runner[t] = "buildErr" => status[t] = "building" \/ Terminal(t)
    BY DEF RunnerInv, StageInv, BuildSteps
  <2>2. runner[t] \in {"pushErr", "recorded"} => status[t] = "pushing" \/ Terminal(t)
    BY DEF RunnerInv, StageInv, PushSteps
  <2> QED BY <1>4, <2>1, <2>2 DEF RunEnd, RunnerAt, Complete
<1>5. ASSUME NEW t \in Tasks, Create(t) \/ Retry(t) \/ RunnerStep(t) PROVE conn' = conn
  BY <1>4, <1>5 DEF Create, Retry, Insert, RunnerStep, RunLoad, RunCommand, RunStartPush,
                    RunPushLoad, RunRecord
<1>6. CASE \/ Tick \/ Scan \/ Restart \/ UNCHANGED vars
           \/ \E h \in Hosts : SwitchHost(h) \/ CheckHost(h) \/ ResizeHost(h) \/ DeleteHost(h)
  BY <1>1, <1>6 DEF Tick, Scan, Restart, vars, SwitchHost, CheckHost, ResizeHost, DeleteHost
<1>7. ASSUME NEW c \in Callers, CallFails(c) PROVE GoroutineNeverLeaks'
  BY <1>1, <1>7, ReturnLeaks DEF CallFails, StatementFails, CountFails
<1> QED BY <1>1, <1>2, <1>3, <1>5, <1>6, <1>7 DEF Next, SchedulerStep, ClientStep, Callers

\* The completions of a build goroutine never meet a task in another stage, so
\* their ErrInvalidState exit, which keeps the connection for good, is dead.
THEOREM GoroutinesNeverLeak == Spec => []GoroutineNeverLeaks
<1>1. Init => GoroutineNeverLeaks
  BY NamesAreDistinct DEF Init, GoroutineNeverLeaks
<1> QED BY <1>1, LeakStep, TypeCorrect, RunnersStayInStage, PTL DEF Spec
=============================================================================
