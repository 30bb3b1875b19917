------------------------ MODULE PostgresDispatchProofs ------------------------
(***************************************************************************)
(* What overlapping transactions preserve on Postgres, for any number of   *)
(* tasks, hosts and requests: by how much the global limit and the slots   *)
(* of a host can be missed, how often a build can be launched, and that    *)
(* locked rows are always on their way to be released; and what holds in   *)
(* full when no two transactions overlap on one task.                      *)
(***************************************************************************)
EXTENDS PostgresDispatch, FiniteSetTheorems, TLAPS

-----------------------------------------------------------------------------
(* Calls *)

InTransaction == {"read", "count", "select", "lockHost", "lockTask", "commit"}

\* What the position of a call says of the rest of its record.
CallInv ==
    \A a \in Actors :
        /\ at[a] # "idle" => task[a] \in Tasks
        /\ at[a] \in InTransaction => op[a] # "start"
        /\ at[a] \in {"count", "select"} => Placing(a)
        /\ at[a] = "lockHost" => pick[a] \in Hosts
        /\ at[a] \in {"lockTask", "commit"} /\ Placing(a) => pick[a] \in Hosts
        /\ Placing(a) => a \in Dispatchers

\* A task under way is on a host.
Housed == \A t \in Tasks : HoldsSlot(t) => host[t] \in Hosts

RecordInv == TypeOK /\ CallInv /\ Housed

\* Entering a call keeps the record of every caller consistent.
LEMMA EnterKeeps ==
    ASSUME RecordInv, NEW a \in Actors, NEW t \in Tasks,
           NEW position \in {"read", "start"}, NEW kind \in Ops,
           Enter(a, position, kind, t),
           position = "read" <=> kind # "start",
           kind \in {"place", "placeAndStart"} => a \in Dispatchers,
           runner' \in [Goroutines -> {"none", "building", "pushing"}]
    PROVE  RecordInv'
<1>1. TypeOK'
  BY DEF RecordInv, TypeOK, Enter, Goto, rows, locks, Positions
<1>2. CallInv'
  BY DEF RecordInv, TypeOK, CallInv, Enter, Goto, Placing, InTransaction, Dispatchers
<1>3. Housed'
  BY DEF RecordInv, Housed, HoldsSlot, Enter, rows
<1> QED BY <1>1, <1>2, <1>3 DEF RecordInv

\* So does leaving one.
LEMMA ReturnKeeps ==
    ASSUME RecordInv, NEW a \in Actors, Return(a)
    PROVE  /\ at' \in [Actors -> Positions]
           /\ op' \in [Actors -> Ops]
           /\ task' \in [Actors -> Tasks \union {NoTask}]
           /\ pick' \in [Actors -> Hosts \union {NoHost}]
           /\ CallInv'
<1>1. at' \in [Actors -> Positions] /\ op' \in [Actors -> Ops]
  BY DEF RecordInv, TypeOK, Return, Goto, Positions, Ops
<1>2. task' \in [Actors -> Tasks \union {NoTask}] /\ pick' \in [Actors -> Hosts \union {NoHost}]
  BY DEF RecordInv, TypeOK, Return
<1>3. CallInv'
  BY DEF RecordInv, TypeOK, CallInv, Return, Goto, Placing, InTransaction, Dispatchers
<1> QED BY <1>1, <1>2, <1>3

\* Every step of a transaction keeps the records consistent.
LEMMA CallStepKeeps ==
    ASSUME RecordInv, NEW a \in Actors, CallStep(a)
    PROVE  RecordInv'
<1> USE DEF RecordInv
<1>1. CASE ReadTask(a)
  <2>1. CASE Return(a)
    BY <1>1, <2>1, ReturnKeeps DEF ReadTask, TypeOK, Housed, HoldsSlot, rows, locks
  <2>2. CASE MayProceed(a) /\ ~Return(a)
    <3>1. at[a] = "read" /\ task[a] \in Tasks /\ op[a] # "start"
      BY <1>1 DEF ReadTask, CallInv, InTransaction
    <3>2. HoldsSlot(task[a]) => ~Placing(a) /\ host[task[a]] \in Hosts
      BY <2>2, <3>1 DEF MayProceed, HoldsSlot, SlotStatuses, Housed
    <3>3. TypeOK'
      BY <1>1, <2>2, <3>1, <3>2 DEF ReadTask, TypeOK, Goto, Positions, rows, locks
    <3>4. CallInv'
      BY <1>1, <2>2, <3>1, <3>2
      DEF ReadTask, TypeOK, CallInv, Goto, Placing, InTransaction, Dispatchers
    <3> QED BY <1>1, <3>3, <3>4 DEF ReadTask, Housed, HoldsSlot, rows
  <2> QED BY <1>1, <2>1, <2>2 DEF ReadTask
<1>2. CASE CountRunning(a)
  <2>1. CASE Return(a)
    BY <1>2, <2>1, ReturnKeeps DEF CountRunning, TypeOK, Housed, HoldsSlot, rows, locks
  <2>2. CASE Goto(a, "select") /\ UNCHANGED <<op, task, pick>>
    BY <1>2, <2>2 DEF CountRunning, TypeOK, CallInv, Housed, HoldsSlot, Goto, Placing,
                      InTransaction, Dispatchers, Positions, rows, locks
  <2> QED BY <1>2, <2>1, <2>2 DEF CountRunning
<1>3. CASE SelectHost(a)
  <2>1. CASE op' = [op EXCEPT ![a] = "dispatch_failed"] /\ pick' = pick /\ Goto(a, "lockTask")
    BY <1>3, <2>1 DEF SelectHost, TypeOK, CallInv, Housed, HoldsSlot, Goto, Placing,
                      InTransaction, Dispatchers, Positions, Ops, rows, locks
  <2>2. CASE \E h \in Hosts : pick' = [pick EXCEPT ![a] = h] /\ Goto(a, "lockHost") /\ op' = op
    BY <1>3, <2>2 DEF SelectHost, TypeOK, CallInv, Housed, HoldsSlot, Goto, Placing,
                      InTransaction, Dispatchers, Positions, rows, locks
  <2> QED BY <1>3, <2>1, <2>2 DEF SelectHost
<1>4. CASE UpdateHost(a)
  BY <1>4 DEF UpdateHost, TypeOK, CallInv, Housed, HoldsSlot, Goto, Placing,
              InTransaction, Dispatchers, Positions, rows
<1>5. CASE UpdateTask(a)
  BY <1>5 DEF UpdateTask, TypeOK, CallInv, Housed, HoldsSlot, Goto, Placing,
              InTransaction, Dispatchers, Positions, rows
<1>6. CASE Commit(a)
  <2>1. /\ at[a] = "commit" /\ task[a] \in Tasks /\ op[a] # "start"
        /\ Placing(a) => pick[a] \in Hosts
    BY <1>6 DEF Commit, CallInv, InTransaction
  <2>2. status' \in [Tasks -> Statuses]
    <3>1. (IF Placing(a) THEN "dispatching" ELSE op[a]) \in Statuses
      BY <2>1 DEF TypeOK, Placing, Ops, Outcomes, Statuses
    <3> QED BY <1>6, <3>1 DEF Commit, TypeOK
  <2>3. running' \in [Hosts -> Nat]
    <3>1. ASSUME NEW g \in Hosts PROVE Decremented(running[g]) \in Nat /\ running[g] + 1 \in Nat
      BY DEF TypeOK, Decremented
    <3> QED BY <1>6, <3>1 DEF Commit, TypeOK
  <2>4. /\ host' \in [Tasks -> Hosts \union {NoHost}]
        /\ taskLock' \in [Tasks -> Actors \union {NoOwner}]
        /\ hostLock' \in [Hosts -> Actors \union {NoOwner}]
        /\ UNCHANGED <<runner, launched>>
    BY <1>6, <2>1 DEF Commit, TypeOK
  <2>5. Housed'
    <3>1. ~Placing(a) => op[a] \notin SlotStatuses
      BY <2>1 DEF TypeOK, Placing, Ops, Outcomes, SlotStatuses
    <3> QED BY <1>6, <2>1, <3>1 DEF Commit, Housed, HoldsSlot, TypeOK
  <2>6. CASE Return(a)
    BY <2>2, <2>3, <2>4, <2>5, <2>6, ReturnKeeps DEF TypeOK
  <2>7. CASE ~Return(a)
    <3>1. /\ at' \in [Actors -> Positions]
          /\ op' \in [Actors -> Ops]
          /\ task' \in [Actors -> Tasks \union {NoTask}]
          /\ pick' \in [Actors -> Hosts \union {NoHost}]
      BY <1>6, <2>7 DEF Commit, Goto, TypeOK, Positions, Ops
    <3>2. CallInv'
      BY <1>6, <2>1, <2>7 DEF Commit, TypeOK, CallInv, Goto, Placing, InTransaction, Dispatchers
    <3> QED BY <2>2, <2>3, <2>4, <2>5, <3>1, <3>2 DEF TypeOK
  <2> QED BY <2>6, <2>7
<1>7. CASE StartBuild(a)
  <2>1. at' \in [Actors -> Positions] /\ op' \in [Actors -> Ops]
        /\ task' \in [Actors -> Tasks \union {NoTask}]
        /\ pick' \in [Actors -> Hosts \union {NoHost}] /\ CallInv'
    BY <1>7, ReturnKeeps DEF StartBuild
  <2>2. task[a] \in Tasks
    BY <1>7 DEF StartBuild, CallInv
  <2>3. CASE status[task[a]] = "dispatching"
    <3>1. launched[task[a]] + 1 \in 1..MaxLaunches
      BY <1>7, <2>2, <2>3, LimitsAreNat DEF StartBuild, TypeOK
    <3>2. launched' \in [Tasks -> 0..MaxLaunches] /\ launched'[task[a]] = launched[task[a]] + 1
      BY <1>7, <2>2, <2>3, <3>1, LimitsAreNat DEF StartBuild, TypeOK
    <3>3. runner' \in [Goroutines -> {"none", "building", "pushing"}]
      BY <1>7, <2>3 DEF StartBuild, TypeOK
    <3>4. status' \in [Tasks -> Statuses] /\ Housed'
      BY <1>7, <2>2, <2>3 DEF StartBuild, TypeOK, Statuses, Housed, HoldsSlot, SlotStatuses
    <3> QED BY <1>7, <2>1, <3>2, <3>3, <3>4 DEF StartBuild, TypeOK, locks
  <2>4. CASE status[task[a]] # "dispatching"
    BY <1>7, <2>1, <2>4 DEF StartBuild, TypeOK, Housed, HoldsSlot, locks
  <2> QED BY <2>3, <2>4
<1> QED BY <1>1, <1>2, <1>3, <1>4, <1>5, <1>6, <1>7 DEF CallStep

\* And so does every other step.
LEMMA RecordsKept == RecordInv /\ [Next]_vars => RecordInv'
<1> SUFFICES ASSUME RecordInv, [Next]_vars PROVE RecordInv'
  OBVIOUS
<1> USE DEF RecordInv
<1>1. ASSUME NEW t \in Tasks, Schedule(t) PROVE RecordInv'
  <2>1. Scheduler \in Actors /\ Scheduler \in Dispatchers
    BY DEF Actors, Callers, Dispatchers
  <2>2. runner' \in [Goroutines -> {"none", "building", "pushing"}]
    BY <1>1 DEF Schedule, TypeOK
  <2> QED BY <1>1, <2>1, <2>2, EnterKeeps DEF Schedule, Ops
<1>2. ASSUME NEW t \in Tasks, NEW c \in Clients, Request(c, t) PROVE RecordInv'
  <2>1. c \in Actors
    BY DEF Actors, Callers
  <2>2. runner' \in [Goroutines -> {"none", "building", "pushing"}]
    BY <1>2 DEF Request, TypeOK
  <2>3. "dispatch" \in ClientOps \/ "start" \in ClientOps => c \in Dispatchers
    BY DEF Dispatchers
  <2>4. CASE Enter(c, "read", "canceled", t)
    BY <2>1, <2>2, <2>4, EnterKeeps DEF Ops
  <2>5. CASE Enter(c, "start", "start", t)
    BY <2>1, <2>2, <2>5, EnterKeeps DEF Ops
  <2>6. CASE \/ "dispatch" \in ClientOps /\ Enter(c, "read", "place", t)
             \/ "start" \in ClientOps /\ Enter(c, "read", "placeAndStart", t)
    BY <2>1, <2>2, <2>3, <2>6, EnterKeeps DEF Ops
  <2> QED BY <1>2, <2>4, <2>5, <2>6 DEF Request
<1>3. ASSUME NEW g \in Goroutines, GoroutineStep(g) PROVE RecordInv'
  <2>1. g \in Actors /\ g[1] \in Tasks
    BY DEF Actors, Goroutines
  <2>2. runner' \in [Goroutines -> {"none", "building", "pushing"}]
    BY <1>3 DEF GoroutineStep, StartPush, Finish, TypeOK
  <2>3. CASE Finish(g)
    <3>1. PICK s \in Outcomes : Enter(g, "read", s, g[1])
      BY <2>3 DEF Finish, Outcomes
    <3> QED BY <2>1, <2>2, <3>1, EnterKeeps DEF Ops, Outcomes
  <2>4. CASE StartPush(g)
    <3>1. status' \in [Tasks -> Statuses] /\ Housed'
      BY <2>1, <2>4 DEF StartPush, TypeOK, Statuses, Housed, HoldsSlot, SlotStatuses
    <3> QED BY <2>2, <2>4, <3>1 DEF StartPush, TypeOK, CallInv, Placing, calls, locks
  <2> QED BY <1>3, <2>3, <2>4 DEF GoroutineStep
<1>4. CASE UNCHANGED vars
  BY <1>4 DEF vars, rows, locks, calls, TypeOK, CallInv, Housed, HoldsSlot, Placing
<1> QED BY <1>1, <1>2, <1>3, <1>4, CallStepKeeps DEF Next

\* At first no call is under way.
LEMMA RecordsBegin == Init => RecordInv
BY LimitsAreNat DEF Init, RecordInv, TypeOK, CallInv, Housed, HoldsSlot, SlotStatuses, Placing, Statuses,
       Positions, Ops, InTransaction, Dispatchers

\* The state stays well typed; a counter is never negative although a slot may
\* be given back twice.
THEOREM TypeCorrect == Spec => []TypeOK
<1>1. RecordInv => TypeOK
  BY DEF RecordInv
<1> QED BY <1>1, RecordsBegin, RecordsKept, PTL DEF Spec

-----------------------------------------------------------------------------
(* Locks *)

\* The owner of a row's lock is an actor, and stands where LocksAreReleased
\* says; the steps of other actors do not touch its record.
LEMMA LocksStep ==
    RecordInv /\ LocksAreReleased /\ [Next]_vars => LocksAreReleased'
<1> SUFFICES ASSUME RecordInv, LocksAreReleased, [Next]_vars PROVE LocksAreReleased'
  OBVIOUS
<1> USE DEF LocksAreReleased, RecordInv, TypeOK
<1>1. ASSUME NEW a \in Actors, NEW t \in Tasks, NEW position, NEW kind,
             Enter(a, position, kind, t)
      PROVE  LocksAreReleased'
  BY <1>1 DEF Enter, Goto, rows, locks
<1>2. ASSUME NEW a \in Actors, CallStep(a) PROVE LocksAreReleased'
  <2>1. ASSUME Return(a), UNCHANGED locks, at[a] \in {"read", "count", "start"}
        PROVE  LocksAreReleased'
    BY <2>1 DEF Return, Goto, locks
  <2>2. CASE ReadTask(a) \/ CountRunning(a) \/ SelectHost(a) \/ StartBuild(a)
    <3>1. CASE Return(a)
      <4>1. at[a] # "select"
        <5>1. ~SelectHost(a)
          BY ZenonT(40), <3>1, NamesAreDistinct DEF SelectHost, Return, Goto
        <5> QED BY <2>2, <5>1 DEF ReadTask, CountRunning, StartBuild
      <4> QED BY <2>1, <2>2, <3>1, <4>1 DEF ReadTask, CountRunning, StartBuild, SelectHost
    <3>2. CASE ~Return(a)
      BY <2>2, <3>2 DEF ReadTask, CountRunning, SelectHost, StartBuild, Goto, locks
    <3> QED BY <3>1, <3>2
  <2>3. CASE UpdateHost(a)
    BY <2>3 DEF UpdateHost, Goto, CallInv
  <2>4. CASE UpdateTask(a)
    BY <2>4 DEF UpdateTask, Goto, CallInv
  <2>5. CASE Commit(a)
    <3>1. at[a] = "commit" /\ task[a] \in Tasks
      BY <2>5 DEF Commit, CallInv
    <3>2. ASSUME NEW b \in Actors \ {a}
          PROVE  at'[b] = at[b] /\ task'[b] = task[b] /\ pick'[b] = pick[b]
      BY <2>5, <3>2 DEF Commit, Return, Goto
    <3>3. ASSUME NEW h \in Hosts, hostLock'[h] # NoOwner
          PROVE  pick'[hostLock'[h]] = h /\ at'[hostLock'[h]] \in {"lockTask", "commit"}
      BY <2>5, <3>2, <3>3 DEF Commit
    <3>4. ASSUME NEW t \in Tasks, taskLock'[t] # NoOwner
          PROVE  task'[taskLock'[t]] = t /\ at'[taskLock'[t]] = "commit"
      BY <2>5, <3>1, <3>2, <3>4 DEF Commit
    <3> QED BY <3>3, <3>4
  <2> QED BY <1>2, <2>2, <2>3, <2>4, <2>5 DEF CallStep
<1>3. ASSUME NEW g \in Goroutines, GoroutineStep(g) PROVE LocksAreReleased'
  <2>1. g \in Actors /\ g[1] \in Tasks
    BY DEF Actors, Goroutines
  <2>2. CASE Finish(g)
    BY <1>1, <2>1, <2>2 DEF Finish
  <2>3. CASE StartPush(g)
    BY <2>3 DEF StartPush, locks, calls
  <2> QED BY <1>3, <2>2, <2>3 DEF GoroutineStep
<1>4. ASSUME NEW t \in Tasks, Schedule(t) \/ \E c \in Clients : Request(c, t)
      PROVE  LocksAreReleased'
  BY <1>1, <1>4 DEF Schedule, Request, Actors, Callers
<1>5. CASE UNCHANGED vars
  BY <1>5 DEF vars, locks, calls
<1> QED BY <1>2, <1>3, <1>4, <1>5 DEF Next

\* Transactions never wait for each other in a circle, and no row stays locked.
THEOREM LocksReleased == Spec => []LocksAreReleased
<1>1. Init => LocksAreReleased
  BY DEF Init, LocksAreReleased
<1>2. RecordInv /\ LocksAreReleased /\ [Next]_vars => (RecordInv /\ LocksAreReleased)'
  BY LocksStep, RecordsKept
<1> QED BY <1>1, <1>2, RecordsBegin, PTL DEF Spec

-----------------------------------------------------------------------------
(* The global limit *)

\* Dispatchers, counted transactions and active tasks can be counted.
LEMMA SetsFinite ==
    /\ IsFiniteSet(Dispatchers)
    /\ IsFiniteSet(Counted)
    /\ IsFiniteSet(Active)
    /\ Cardinality(Active) \in Nat
    /\ Cardinality(Counted) \in Nat
    /\ Cardinality(Dispatchers) \in Nat \ {0}
    /\ Cardinality(Counted) <= Cardinality(Dispatchers)
<1>1. IsFiniteSet({Scheduler} \union Clients)
  BY RowsAndRequestsFinite, FS_Singleton, FS_Union
<1>2. IsFiniteSet(Dispatchers)
  BY <1>1, FS_Subset DEF Dispatchers
<1>3. Counted \subseteq Dispatchers /\ Active \subseteq Tasks
  BY DEF Counted, Active
<1>4. Dispatchers # {}
  BY DEF Dispatchers
<1> QED BY <1>2, <1>3, <1>4, RowsAndRequestsFinite, FS_Subset, FS_CardinalityType, FS_EmptySet

\* One element more makes a set greater by at most one.
LEMMA OneMore ==
    ASSUME NEW S, IsFiniteSet(S), NEW x
    PROVE  /\ IsFiniteSet(S \union {x})
           /\ Cardinality(S \union {x}) <= Cardinality(S) + 1
           /\ Cardinality(S \union {x}) \in Nat
<1>1. IsFiniteSet(S \union {x}) /\ Cardinality(S) \in Nat
  BY FS_AddElement, FS_CardinalityType
<1>2. Cardinality(S \union {x}) = IF x \in S THEN Cardinality(S) ELSE Cardinality(S) + 1
  BY FS_AddElement
<1> QED BY <1>1, <1>2

\* The two sets only matter through what they contain before and after.
LEMMA OvershootKept ==
    ASSUME OvershootBounded, Active' \subseteq Active, Counted' \subseteq Counted
    PROVE  OvershootBounded'
<1>1. Cardinality(Active') <= Cardinality(Active) /\ Cardinality(Active') \in Nat
  BY SetsFinite, FS_Subset, FS_CardinalityType
<1>2. Cardinality(Counted') <= Cardinality(Counted) /\ Cardinality(Counted') \in Nat
  BY SetsFinite, FS_Subset, FS_CardinalityType
<1>3. Dispatchers' = Dispatchers
  BY DEF Dispatchers
<1> QED BY <1>1, <1>2, <1>3, SetsFinite, LimitsAreNat DEF OvershootBounded

\* Counting: the limit was not reached, and at most every dispatcher is past it.
LEMMA CountRunningKeeps ==
    ASSUME RecordInv, OvershootBounded, NEW a \in Actors, CountRunning(a)
    PROVE  OvershootBounded'
<1>1. Active' = Active /\ Dispatchers' = Dispatchers
  BY DEF CountRunning, rows, Active, HoldsSlot, Dispatchers
<1>2. CASE Return(a)
  <2>1. Counted' \subseteq Counted
    BY <1>2 DEF RecordInv, TypeOK, Return, Goto, Counted, Placing, Dispatchers
  <2> QED BY <1>1, <2>1, OvershootKept
<1>3. CASE Cardinality(Active) < GlobalLimit
  <2>1. Counted' \subseteq Dispatchers
    BY DEF Counted, Dispatchers
  <2>2. Cardinality(Counted') <= Cardinality(Dispatchers) /\ Cardinality(Counted') \in Nat
    BY <2>1, SetsFinite, FS_Subset, FS_CardinalityType
  <2> QED BY <1>1, <1>3, <2>2, SetsFinite, LimitsAreNat DEF OvershootBounded
<1> QED BY <1>2, <1>3 DEF CountRunning

\* Placing: one task more is under way, one transaction fewer is about to place.
LEMMA CommitKeeps ==
    ASSUME RecordInv, OvershootBounded, NEW a \in Actors, Commit(a)
    PROVE  OvershootBounded'
<1>1. /\ at[a] = "commit" /\ task[a] \in Tasks /\ op[a] # "start"
      /\ Placing(a) => a \in Dispatchers
  BY DEF Commit, RecordInv, CallInv, InTransaction
<1>2. Counted' \subseteq Counted \ {a}
  <2>1. at'[a] \notin {"select", "lockHost", "lockTask", "commit"}
    BY DEF Commit, RecordInv, TypeOK, Return, Goto
  <2>2. ASSUME NEW b \in Actors \ {a} PROVE at'[b] = at[b] /\ op'[b] = op[b]
    BY <2>2 DEF Commit, RecordInv, TypeOK, Return, Goto
  <2>3. Dispatchers' = Dispatchers /\ Dispatchers \subseteq Actors
    BY DEF Dispatchers, Actors, Callers
  <2> QED BY <2>1, <2>2, <2>3 DEF Counted, Placing
<1>3. CASE ~Placing(a)
  <2>1. op[a] \notin SlotStatuses
    BY <1>1, <1>3 DEF RecordInv, TypeOK, Placing, Ops, Outcomes, SlotStatuses
  <2>2. Active' \subseteq Active
    BY <1>1, <1>3, <2>1 DEF Commit, RecordInv, TypeOK, Active, HoldsSlot
  <2> QED BY <1>2, <2>2, OvershootKept
<1>4. CASE Placing(a)
  <2>1. a \in Counted
    BY <1>1, <1>4 DEF Counted
  <2>2. /\ Cardinality(Counted \ {a}) = Cardinality(Counted) - 1
        /\ IsFiniteSet(Counted \ {a})
    BY <2>1, SetsFinite, FS_RemoveElement
  <2>3. Cardinality(Counted') <= Cardinality(Counted) - 1 /\ Cardinality(Counted') \in Nat
    BY <1>2, <2>2, FS_Subset, FS_CardinalityType
  <2>4. Active' \subseteq Active \union {task[a]}
    BY <1>1, <1>4 DEF Commit, RecordInv, TypeOK, Active, HoldsSlot
  <2>5. /\ IsFiniteSet(Active \union {task[a]})
        /\ Cardinality(Active \union {task[a]}) <= Cardinality(Active) + 1
        /\ Cardinality(Active \union {task[a]}) \in Nat
    BY SetsFinite, OneMore
  <2>6. Cardinality(Active') <= Cardinality(Active) + 1 /\ Cardinality(Active') \in Nat
    BY <2>4, <2>5, SetsFinite, FS_Subset, FS_CardinalityType
  <2>7. Dispatchers' = Dispatchers
    BY DEF Dispatchers
  <2> QED BY <2>3, <2>6, <2>7, SetsFinite, LimitsAreNat DEF OvershootBounded
<1> QED BY <1>3, <1>4

\* The remaining steps add neither a task under way nor a counted transaction.
LEMMA OvershootStep == RecordInv /\ OvershootBounded /\ [Next]_vars => OvershootBounded'
<1> SUFFICES ASSUME RecordInv, OvershootBounded, [Next]_vars PROVE OvershootBounded'
  OBVIOUS
<1> SUFFICES ASSUME ~\E a \in Actors : CountRunning(a) \/ Commit(a)
             PROVE  Active' \subseteq Active /\ Counted' \subseteq Counted
  BY OvershootKept, CountRunningKeeps, CommitKeeps
<1>1. ASSUME NEW a \in Actors, NEW t \in Tasks, NEW position \in {"read", "start"}, NEW kind,
             Enter(a, position, kind, t)
      PROVE  Active' \subseteq Active /\ Counted' \subseteq Counted
  BY <1>1 DEF Enter, Goto, rows, Active, HoldsSlot, Counted, Placing, Dispatchers,
              RecordInv, TypeOK
<1>2. ASSUME NEW a \in Actors, CallStep(a)
      PROVE  Active' \subseteq Active /\ Counted' \subseteq Counted
  <2>0. ASSUME Active' = Active,
               \A b \in Actors \ {a} : at'[b] = at[b] /\ op'[b] = op[b],
               \/ op'[a] \notin {"place", "placeAndStart"}
               \/ op'[a] = op[a] /\ at[a] \in {"select", "lockHost", "lockTask"}
               \/ at'[a] = "count"
        PROVE  Active' \subseteq Active /\ Counted' \subseteq Counted
    BY <2>0 DEF Counted, Placing, Dispatchers, Actors, Callers
  <2>1. CASE ReadTask(a)
    <3>1. Active' = Active
      BY <2>1 DEF ReadTask, rows, Active, HoldsSlot
    <3>2. CASE Return(a)
      BY <2>0, <3>1, <3>2 DEF Return, Goto, RecordInv, TypeOK
    <3>3. CASE ~Return(a) /\ Placing(a)
      BY <2>0, <2>1, <3>1, <3>3 DEF ReadTask, Goto, RecordInv, TypeOK
    <3>4. CASE ~Return(a) /\ ~Placing(a)
      BY <2>0, <2>1, <3>1, <3>4 DEF ReadTask, Goto, Placing, RecordInv, TypeOK
    <3> QED BY <3>2, <3>3, <3>4
  <2>2. CASE SelectHost(a)
    <3>1. Active' = Active
      BY <2>2 DEF SelectHost, rows, Active, HoldsSlot
    <3>2. CASE op' = [op EXCEPT ![a] = "dispatch_failed"] /\ Goto(a, "lockTask")
      BY <2>0, <3>1, <3>2 DEF Goto, RecordInv, TypeOK
    <3>3. CASE op' = op /\ Goto(a, "lockHost") /\ at[a] = "select"
      BY <2>0, <3>1, <3>3 DEF Goto, RecordInv, TypeOK
    <3>4. at[a] = "select"
      BY <2>2 DEF SelectHost
    <3>5. \/ op' = [op EXCEPT ![a] = "dispatch_failed"] /\ Goto(a, "lockTask")
          \/ op' = op /\ Goto(a, "lockHost")
      BY <2>2, Zenon DEF SelectHost
    <3> QED BY <3>2, <3>3, <3>4, <3>5
  <2>3. CASE UpdateHost(a) \/ UpdateTask(a)
    <3>1. Active' = Active
      BY <2>3 DEF UpdateHost, UpdateTask, rows, Active, HoldsSlot
    <3> QED BY <2>0, <2>3, <3>1 DEF UpdateHost, UpdateTask, Goto, RecordInv, TypeOK
  <2>4. CASE StartBuild(a)
    <3>1. Active' \subseteq Active
      BY <2>4 DEF StartBuild, Active, HoldsSlot, SlotStatuses, RecordInv, TypeOK, CallInv
    <3>2. Counted' \subseteq Counted
      BY <2>4 DEF StartBuild, Return, Goto, Counted, Placing, Dispatchers, RecordInv, TypeOK
    <3> QED BY <3>1, <3>2
  <2> QED BY <1>2, <2>1, <2>2, <2>3, <2>4 DEF CallStep
<1>3. ASSUME NEW g \in Goroutines, GoroutineStep(g)
      PROVE  Active' \subseteq Active /\ Counted' \subseteq Counted
  <2>1. g \in Actors /\ g[1] \in Tasks
    BY DEF Actors, Goroutines
  <2>2. CASE Finish(g)
    BY <1>1, <2>1, <2>2 DEF Finish
  <2>3. CASE StartPush(g)
    BY <2>1, <2>3 DEF StartPush, calls, Active, HoldsSlot, SlotStatuses, Counted, Placing,
                      Dispatchers, RecordInv, TypeOK
  <2> QED BY <1>3, <2>2, <2>3 DEF GoroutineStep
<1>4. ASSUME NEW t \in Tasks, Schedule(t) \/ \E c \in Clients : Request(c, t)
      PROVE  Active' \subseteq Active /\ Counted' \subseteq Counted
  BY <1>1, <1>4 DEF Schedule, Request, Actors, Callers
<1>5. CASE UNCHANGED vars
  BY <1>5 DEF vars, rows, calls, Active, HoldsSlot, Counted, Placing, Dispatchers
<1> QED BY <1>2, <1>3, <1>4, <1>5 DEF Next

\* At first no task is active.
LEMMA OvershootBegins == Init => OvershootBounded
<1> SUFFICES ASSUME Init PROVE OvershootBounded
  OBVIOUS
<1>1. Active = {} /\ Counted = {}
  BY DEF Init, Active, HoldsSlot, SlotStatuses, Counted, Placing, Dispatchers, Actors, Callers
<1> QED BY <1>1, SetsFinite, FS_EmptySet, LimitsAreNat DEF OvershootBounded

\* However transactions overlap, the limit is missed by no more than the number
\* of requests that dispatch beside the scheduler.
THEOREM OvershootIsBounded == Spec => []OvershootBounded
<1>1. RecordInv /\ OvershootBounded /\ [Next]_vars => (RecordInv /\ OvershootBounded)'
  BY OvershootStep, RecordsKept
<1> QED BY <1>1, OvershootBegins, RecordsBegin, PTL DEF Spec

\* With the scheduler as the only dispatcher the limit holds, on Postgres too.
THEOREM SchedulerAloneHoldsLimit ==
    ClientOps \intersect {"dispatch", "start"} = {} => (Spec => []GlobalLimitHeld)
<1> SUFFICES ASSUME ClientOps \intersect {"dispatch", "start"} = {}
             PROVE  Spec => []GlobalLimitHeld
  OBVIOUS
<1>1. Cardinality(Dispatchers) = 1
  BY FS_Singleton DEF Dispatchers
<1>2. OvershootBounded => GlobalLimitHeld
  BY <1>1, SetsFinite, LimitsAreNat DEF OvershootBounded, GlobalLimitHeld
<1> QED BY <1>2, OvershootIsBounded, PTL

-----------------------------------------------------------------------------
(* Launches *)

\* The dispatchers that read t queued and have not committed.
Stale(t) == {a \in Dispatchers : a \in Decided /\ Placing(a) /\ task[a] = t}

\* The launch that is still to come for a task that is placed.
Pending(t) == IF status[t] = "dispatching" THEN 1 ELSE 0

\* A queued task was not launched; afterwards each launch, done or to come, is
\* that of a dispatcher which does not decide about the task any more.
LaunchInvAt(t) ==
    IF status[t] = "queued"
    THEN launched[t] = 0
    ELSE launched[t] + Pending(t) + Cardinality(Stale(t)) <= Cardinality(Dispatchers)

LaunchInv == \A t \in Tasks : LaunchInvAt(t)

\* They are no more than the dispatchers.
LEMMA StaleFinite ==
    ASSUME NEW t
    PROVE  /\ IsFiniteSet(Stale(t))
           /\ Cardinality(Stale(t)) \in Nat
           /\ Cardinality(Stale(t)) <= Cardinality(Dispatchers)
<1>1. Stale(t) \subseteq Dispatchers
  BY DEF Stale
<1> QED BY <1>1, SetsFinite, FS_Subset, FS_CardinalityType

\* The invariant only depends on these: a step that launches nothing keeps it
\* if no dispatcher newly decides about a task that left the queue.
LEMMA LaunchInvKept ==
    ASSUME NEW t \in Tasks, RecordInv, LaunchInvAt(t),
           launched'[t] = launched[t],
           status[t] = "queued" => status'[t] \in {"queued"} \union TerminalStatuses,
           status[t] # "queued" => /\ status'[t] # "queued"
                                   /\ status'[t] = "dispatching" => status[t] = "dispatching"
                                   /\ Stale(t)' \subseteq Stale(t)
    PROVE  LaunchInvAt(t)'
<1>1. launched[t] \in Nat
  BY LimitsAreNat DEF RecordInv, TypeOK
<1>2. Dispatchers' = Dispatchers
  BY DEF Dispatchers
<1>3. Stale(t)' \subseteq Dispatchers
  BY <1>2 DEF Stale
<1>4. Cardinality(Stale(t)') \in Nat /\ Cardinality(Stale(t)') <= Cardinality(Dispatchers)
  BY <1>3, SetsFinite, FS_Subset, FS_CardinalityType
<1>5. CASE status[t] = "queued"
  BY <1>2, <1>4, <1>5, SetsFinite DEF LaunchInvAt, Pending, TerminalStatuses
<1>6. CASE status[t] # "queued"
  <2>1. Cardinality(Stale(t)') <= Cardinality(Stale(t)) /\ Cardinality(Stale(t)) \in Nat
    BY <1>6, StaleFinite, FS_Subset
  <2> QED BY <1>1, <1>2, <1>4, <1>6, <2>1, SetsFinite DEF LaunchInvAt, Pending
<1> QED BY <1>5, <1>6

\* How a call leaves the others: it only changes its own record.
LEMMA OthersStay ==
    ASSUME RecordInv, NEW a \in Actors, CallStep(a), NEW b \in Actors \ {a}
    PROVE  at'[b] = at[b] /\ op'[b] = op[b] /\ task'[b] = task[b] /\ pick'[b] = pick[b]
<1> USE DEF RecordInv, TypeOK, Return, Goto
<1>1. CASE ReadTask(a)
  BY <1>1 DEF ReadTask
<1>2. CASE CountRunning(a)
  BY <1>2 DEF CountRunning
<1>3. CASE SelectHost(a)
  <2>1. \/ op' = op \/ op' = [op EXCEPT ![a] = "dispatch_failed"]
    BY <1>3, Zenon DEF SelectHost
  <2>2. \/ pick' = pick \/ \E h \in Hosts : pick' = [pick EXCEPT ![a] = h]
    BY <1>3, Zenon DEF SelectHost
  <2>3. task' = task /\ (at' = [at EXCEPT ![a] = "lockTask"] \/ at' = [at EXCEPT ![a] = "lockHost"])
    BY <1>3, Zenon DEF SelectHost
  <2> QED BY <2>1, <2>2, <2>3
<1>4. CASE UpdateHost(a) \/ UpdateTask(a)
  BY <1>4 DEF UpdateHost, UpdateTask
<1>5. CASE Commit(a)
  BY <1>5 DEF Commit
<1>6. CASE StartBuild(a)
  BY <1>6 DEF StartBuild
<1> QED BY <1>1, <1>2, <1>3, <1>4, <1>5, <1>6 DEF CallStep

\* A call decides about a task from its SELECT to its commit, and dispatches or
\* not all that time.
LEMMA DecidedStep ==
    ASSUME RecordInv, NEW a \in Actors, CallStep(a), a \in Decided', Placing(a)'
    PROVE  /\ Placing(a) /\ task'[a] = task[a]
           /\ a \in Decided \/ (at[a] = "read" /\ MayProceed(a))
<1> USE DEF RecordInv, TypeOK, Return, Goto
<1>0. /\ at'[a] \in {"count", "select", "lockHost", "lockTask", "commit"}
      /\ op'[a] \in {"place", "placeAndStart"}
      /\ a \in Decided <=> at[a] \in {"count", "select", "lockHost", "lockTask", "commit"}
      /\ Placing(a) <=> op[a] \in {"place", "placeAndStart"}
  BY DEF Decided, Placing
<1>1. CASE ReadTask(a)
  BY <1>0, <1>1 DEF ReadTask
<1>2. CASE CountRunning(a)
  BY <1>0, <1>2 DEF CountRunning
<1>3. CASE SelectHost(a)
  <2>1. at[a] = "select" /\ task' = task
    BY <1>3 DEF SelectHost
  <2>2. op' = op \/ op' = [op EXCEPT ![a] = "dispatch_failed"]
    BY <1>3, Zenon DEF SelectHost
  <2> QED BY <1>0, <2>1, <2>2
<1>4. CASE UpdateHost(a) \/ UpdateTask(a)
  BY <1>0, <1>4 DEF UpdateHost, UpdateTask
<1>5. CASE Commit(a)
  BY <1>0, <1>5 DEF Commit
<1>6. CASE StartBuild(a)
  BY <1>0, <1>6 DEF StartBuild
<1> QED BY <1>1, <1>2, <1>3, <1>4, <1>5, <1>6 DEF CallStep

\* So whoever newly decides about a task has found it queued.
LEMMA StaleStep ==
    ASSUME RecordInv, NEW a \in Actors, CallStep(a), NEW t \in Tasks, status[t] # "queued"
    PROVE  Stale(t)' \subseteq Stale(t)
<1>1. Dispatchers' = Dispatchers /\ Dispatchers \subseteq Actors
  BY DEF Dispatchers, Actors, Callers
<1>2. SUFFICES ASSUME NEW b \in Dispatchers, b \in Decided', Placing(b)', task'[b] = t
               PROVE  b \in Decided /\ Placing(b) /\ task[b] = t
  BY <1>1 DEF Stale
<1>3. CASE b = a
  BY <1>1, <1>2, <1>3, DecidedStep DEF MayProceed
<1>4. CASE b # a
  BY <1>1, <1>2, <1>4, OthersStay DEF Decided, Placing
<1> QED BY <1>3, <1>4

\* The commit of a dispatcher takes its task out of the queue, or puts it before
\* its launch once more; in exchange that dispatcher has decided.
LEMMA CommitLaunchInv ==
    ASSUME RecordInv, LaunchInv, NEW a \in Actors, Commit(a), NEW t \in Tasks
    PROVE  LaunchInvAt(t)'
<1>1. /\ at[a] = "commit" /\ task[a] \in Tasks /\ op[a] # "start" /\ op[a] \in Ops
      /\ Placing(a) => a \in Dispatchers
  BY DEF Commit, RecordInv, TypeOK, CallInv, InTransaction
<1>2. launched' = launched /\ launched[t] \in Nat
  BY LimitsAreNat DEF Commit, RecordInv, TypeOK
<1>3. CASE t # task[a] \/ ~Placing(a)
  <2>1. \/ status'[t] = status[t]
        \/ ~Placing(a) /\ status'[t] = op[a]
    BY <1>1, <1>3 DEF Commit, RecordInv, TypeOK
  <2>2. ~Placing(a) => op[a] \in TerminalStatuses
    BY <1>1 DEF Placing, Ops, Outcomes, TerminalStatuses
  <2>3. status[t] # "queued" => Stale(t)' \subseteq Stale(t)
    BY StaleStep DEF CallStep
  <2>4. LaunchInvAt(t)
    BY DEF LaunchInv
  <2> QED BY <1>2, <2>1, <2>2, <2>3, <2>4, LaunchInvKept DEF TerminalStatuses
<1>4. CASE t = task[a] /\ Placing(a)
  <2>1. status'[t] = "dispatching"
    BY <1>4 DEF Commit, RecordInv, TypeOK
  <2>2. a \in Stale(t)
    BY <1>1, <1>4 DEF Stale, Decided
  <2>3. Stale(t)' \subseteq Stale(t) \ {a}
    <3>1. Dispatchers' = Dispatchers /\ Dispatchers \subseteq Actors
      BY DEF Dispatchers, Actors, Callers
    <3>2. a \notin Decided'
      BY DEF Commit, RecordInv, TypeOK, Return, Goto, Decided
    <3>3. ASSUME NEW b \in Actors \ {a}
          PROVE  at'[b] = at[b] /\ op'[b] = op[b] /\ task'[b] = task[b]
      BY <3>3, OthersStay DEF CallStep
    <3> QED BY <3>1, <3>2, <3>3 DEF Stale, Decided, Placing
  <2>4. Cardinality(Stale(t) \ {a}) = Cardinality(Stale(t)) - 1 /\ IsFiniteSet(Stale(t) \ {a})
    BY <2>2, StaleFinite, FS_RemoveElement
  <2>5. Cardinality(Stale(t)') <= Cardinality(Stale(t)) - 1 /\ Cardinality(Stale(t)') \in Nat
    BY <2>3, <2>4, FS_Subset, FS_CardinalityType
  <2>6. Dispatchers' = Dispatchers
    BY DEF Dispatchers
  <2>7. CASE status[t] = "queued"
    BY <1>2, <2>1, <2>5, <2>6, <2>7, StaleFinite, SetsFinite DEF LaunchInv, LaunchInvAt, Pending
  <2>8. CASE status[t] # "queued"
    BY <1>2, <2>1, <2>5, <2>6, <2>8, StaleFinite, SetsFinite DEF LaunchInv, LaunchInvAt, Pending
  <2> QED BY <2>7, <2>8
<1> QED BY <1>3, <1>4

\* StartBuild turns a launch to come into one that was made.
LEMMA StartLaunchInv ==
    ASSUME RecordInv, LaunchInv, NEW a \in Actors, StartBuild(a), NEW t \in Tasks
    PROVE  LaunchInvAt(t)'
<1>1. task[a] \in Tasks
  BY DEF StartBuild, RecordInv, CallInv
<1>2. CASE status'[t] = status[t] /\ launched'[t] = launched[t]
  <2>1. status[t] # "queued" => Stale(t)' \subseteq Stale(t)
    BY StaleStep DEF CallStep
  <2> QED BY <1>2, <2>1, LaunchInvKept DEF LaunchInv
<1>3. CASE ~(status'[t] = status[t] /\ launched'[t] = launched[t])
  <2>1. /\ status[t] = "dispatching" /\ status'[t] = "building"
        /\ launched'[t] = launched[t] + 1 /\ launched[t] \in Nat
    BY <1>1, <1>3, LimitsAreNat DEF StartBuild, RecordInv, TypeOK
  <2>2. Stale(t)' \subseteq Stale(t)
    BY <2>1, StaleStep DEF CallStep
  <2>3. Cardinality(Stale(t)') <= Cardinality(Stale(t)) /\ Cardinality(Stale(t)') \in Nat
    BY <2>2, StaleFinite, FS_Subset, FS_CardinalityType
  <2>4. Dispatchers' = Dispatchers
    BY DEF Dispatchers
  <2>5. launched[t] + 1 + Cardinality(Stale(t)) <= Cardinality(Dispatchers)
    BY <2>1 DEF LaunchInv, LaunchInvAt, Pending
  <2> QED BY <2>1, <2>3, <2>4, <2>5, StaleFinite, SetsFinite DEF LaunchInvAt, Pending
<1> QED BY <1>2, <1>3

\* The other steps launch nothing and take no task out of the queue.
LEMMA LaunchStep == RecordInv /\ LaunchInv /\ [Next]_vars => LaunchInv'
<1> SUFFICES ASSUME RecordInv, LaunchInv, [Next]_vars, NEW t \in Tasks PROVE LaunchInvAt(t)'
  BY DEF LaunchInv
<1>1. LaunchInvAt(t)
  BY DEF LaunchInv
<1>2. ASSUME NEW a \in Actors, NEW u \in Tasks, NEW position \in {"read", "start"}, NEW kind,
             Enter(a, position, kind, u)
      PROVE  LaunchInvAt(t)'
  <2>1. Stale(t)' \subseteq Stale(t)
    BY <1>2 DEF Enter, Goto, Stale, Decided, Placing, Dispatchers, RecordInv, TypeOK
  <2> QED BY <1>1, <1>2, <2>1, LaunchInvKept DEF Enter, rows
<1>3. ASSUME NEW a \in Actors, CallStep(a) PROVE LaunchInvAt(t)'
  <2>1. CASE Commit(a)
    BY <2>1, CommitLaunchInv
  <2>2. CASE StartBuild(a)
    BY <2>2, StartLaunchInv
  <2>3. CASE ~Commit(a) /\ ~StartBuild(a)
    <3>1. UNCHANGED <<status, launched>>
      BY <1>3, <2>3 DEF CallStep, ReadTask, CountRunning, SelectHost, UpdateHost, UpdateTask, rows
    <3>2. status[t] # "queued" => Stale(t)' \subseteq Stale(t)
      BY <1>3, StaleStep
    <3> QED BY <1>1, <3>1, <3>2, LaunchInvKept
  <2> QED BY <2>1, <2>2, <2>3
<1>4. ASSUME NEW g \in Goroutines, GoroutineStep(g) PROVE LaunchInvAt(t)'
  <2>1. g \in Actors /\ g[1] \in Tasks
    BY DEF Actors, Goroutines
  <2>2. CASE Finish(g)
    BY <1>2, <2>1, <2>2 DEF Finish
  <2>3. CASE StartPush(g)
    <3>1. Stale(t)' = Stale(t) /\ launched' = launched
      BY <2>3 DEF StartPush, calls, Stale, Decided, Placing, Dispatchers
    <3>2. status'[t] = status[t] \/ (status[t] = "building" /\ status'[t] = "pushing")
      BY <2>1, <2>3 DEF StartPush, RecordInv, TypeOK
    <3>3. /\ status[t] = "queued" => status'[t] = "queued"
          /\ status[t] # "queued" => status'[t] # "queued"
          /\ status'[t] = "dispatching" => status[t] = "dispatching"
      BY <3>2
    <3>4. launched'[t] = launched[t] /\ Stale(t)' \subseteq Stale(t)
      BY <3>1
    <3> QED BY <1>1, <3>3, <3>4, LaunchInvKept
  <2> QED BY <1>4, <2>2, <2>3 DEF GoroutineStep
<1>5. ASSUME NEW u \in Tasks, Schedule(u) \/ \E c \in Clients : Request(c, u)
      PROVE  LaunchInvAt(t)'
  BY <1>2, <1>5 DEF Schedule, Request, Actors, Callers
<1>6. CASE UNCHANGED vars
  BY <1>1, <1>6 DEF vars, rows, calls, LaunchInvAt, Pending, Stale, Decided, Placing, Dispatchers
<1> QED BY <1>3, <1>4, <1>5, <1>6 DEF Next

\* At first every task is queued and none was launched.
LEMMA LaunchBegins == Init => LaunchInv
BY DEF Init, LaunchInv, LaunchInvAt

\* A build is launched at most once for each dispatcher.
LEMMA LaunchBound == RecordInv /\ LaunchInv => LaunchesBounded
<1> SUFFICES ASSUME RecordInv, LaunchInv, NEW t \in Tasks
             PROVE  launched[t] <= Cardinality(Dispatchers)
  BY DEF LaunchesBounded
<1>1. launched[t] \in Nat /\ Pending(t) \in Nat
  BY LimitsAreNat DEF RecordInv, TypeOK, Pending
<1> QED BY <1>1, StaleFinite, SetsFinite DEF LaunchInv, LaunchInvAt

\* However transactions overlap on Postgres, no build is launched more often than
\* there are dispatchers.
THEOREM LaunchesAreBounded == Spec => []LaunchesBounded
<1>1. RecordInv /\ LaunchInv /\ [Next]_vars => (RecordInv /\ LaunchInv)'
  BY LaunchStep, RecordsKept
<1> QED BY <1>1, LaunchBegins, LaunchBound, RecordsBegin, PTL DEF Spec

\* With the scheduler as the only dispatcher a build is launched once on Postgres
\* too, whatever users cancel.
THEOREM SchedulerAloneLaunchesOnce ==
    ClientOps \intersect {"dispatch", "start"} = {} => (Spec => []LaunchedOnce)
<1> SUFFICES ASSUME ClientOps \intersect {"dispatch", "start"} = {}
             PROVE  Spec => []LaunchedOnce
  OBVIOUS
<1>1. Cardinality(Dispatchers) = 1
  BY FS_Singleton DEF Dispatchers
<1>2. LaunchesBounded => LaunchedOnce
  BY <1>1 DEF LaunchesBounded, LaunchedOnce
<1> QED BY <1>2, LaunchesAreBounded, PTL

-----------------------------------------------------------------------------
(* The capacity of a host *)

\* A call that dispatches has no host before it selects one.
PickInv == \A a \in Actors : at[a] \in {"read", "count", "select"} => pick[a] = NoHost

LEMMA PickBegins == Init => PickInv
BY DEF Init, PickInv

LEMMA PickStep == RecordInv /\ PickInv /\ [Next]_vars => PickInv'
<1> SUFFICES ASSUME RecordInv, PickInv, [Next]_vars PROVE PickInv'
  OBVIOUS
<1>1. ASSUME NEW a \in Actors, NEW u \in Tasks, NEW position, NEW kind, Enter(a, position, kind, u)
      PROVE  PickInv'
  BY <1>1 DEF Enter, Goto, PickInv, RecordInv, TypeOK
<1>2. ASSUME NEW a \in Actors, CallStep(a) PROVE PickInv'
  <2>1. ASSUME NEW b \in Actors \ {a} PROVE at'[b] = at[b] /\ pick'[b] = pick[b]
    BY <1>2, OthersStay
  <2>2. at'[a] \in {"read", "count", "select"} => pick'[a] = NoHost
    <3> USE DEF RecordInv, TypeOK, Return, Goto
    <3>1. CASE ReadTask(a)
      <4>1. Placing(a) /\ MayProceed(a) => ~HoldsSlot(task[a])
        BY DEF MayProceed, HoldsSlot, SlotStatuses
      <4> QED BY <3>1, <4>1 DEF ReadTask
    <3>2. CASE CountRunning(a)
      BY <3>2 DEF CountRunning, PickInv
    <3>3. CASE SelectHost(a)
      <4>1. at' = [at EXCEPT ![a] = "lockTask"] \/ at' = [at EXCEPT ![a] = "lockHost"]
        BY <3>3, Zenon DEF SelectHost
      <4> QED BY <4>1
    <3>4. CASE UpdateHost(a) \/ UpdateTask(a)
      BY <3>4 DEF UpdateHost, UpdateTask
    <3>5. CASE Commit(a)
      BY <3>5 DEF Commit
    <3>6. CASE StartBuild(a)
      BY <3>6 DEF StartBuild
    <3> QED BY <1>2, <3>1, <3>2, <3>3, <3>4, <3>5, <3>6 DEF CallStep
  <2> QED BY <2>1, <2>2 DEF PickInv
<1>3. ASSUME NEW g \in Goroutines, GoroutineStep(g) PROVE PickInv'
  BY <1>1, <1>3 DEF GoroutineStep, Finish, StartPush, calls, PickInv, Actors, Goroutines
<1>4. ASSUME NEW u \in Tasks, Schedule(u) \/ \E c \in Clients : Request(c, u) PROVE PickInv'
  BY <1>1, <1>4 DEF Schedule, Request, Actors, Callers
<1>5. CASE UNCHANGED vars
  BY <1>5 DEF vars, calls, PickInv
<1> QED BY <1>2, <1>3, <1>4, <1>5 DEF Next

\* HostOvershootBounded, of one host.
HostBound(h) == running[h] + Cardinality(Placers(h)) < MaxSlots + Cardinality(Dispatchers)

\* Those about to increment a counter are no more than the dispatchers.
LEMMA PlacersFinite ==
    ASSUME NEW h
    PROVE  /\ IsFiniteSet(Placers(h))
           /\ Cardinality(Placers(h)) \in Nat
           /\ Cardinality(Placers(h)) <= Cardinality(Dispatchers)
<1>1. Placers(h) \subseteq Counted
  BY DEF Placers
<1> QED BY <1>1, SetsFinite, FS_Subset, FS_CardinalityType

\* The bound only depends on the counter and on who is about to increment it.
LEMMA HostBoundKept ==
    ASSUME NEW h \in Hosts, RecordInv, RecordInv', HostBound(h),
           running'[h] <= running[h], Placers(h)' \subseteq Placers(h)
    PROVE  HostBound(h)'
<1>1. Cardinality(Placers(h)') <= Cardinality(Placers(h)) /\ Cardinality(Placers(h)') \in Nat
  BY PlacersFinite, FS_Subset, FS_CardinalityType
<1>2. running[h] \in Nat /\ running'[h] \in Nat
  BY DEF RecordInv, TypeOK
<1>3. Dispatchers' = Dispatchers
  BY DEF Dispatchers
<1> QED BY <1>1, <1>2, <1>3, PlacersFinite, SetsFinite, LimitsAreNat DEF HostBound

\* A call becomes one of them only when it selects the host.
LEMMA PlacersStep ==
    ASSUME RecordInv, PickInv, NEW a \in Actors, CallStep(a), NEW h \in Hosts,
           NEW b \in Placers(h)'
    PROVE  \/ b \in Placers(h) /\ b \in Actors
           \/ b = a /\ SelectHost(a) /\ pick'[a] = h
<1>1. b \in Actors /\ b \in Dispatchers
  BY DEF Placers, Counted, Dispatchers, Actors, Callers
<1>2. CASE b # a
  <2>1. at'[b] = at[b] /\ op'[b] = op[b] /\ pick'[b] = pick[b]
    BY <1>1, <1>2, OthersStay
  <2> QED BY <1>1, <2>1 DEF Placers, Counted, Placing
<1>3. CASE b = a
  <2> USE DEF RecordInv, TypeOK, Return, Goto
  <2>0. /\ at'[a] \in {"select", "lockHost", "lockTask", "commit"}
        /\ op'[a] \in {"place", "placeAndStart"} /\ pick'[a] = h /\ h # NoHost
    BY <1>3, NamesAreDistinct DEF Placers, Counted, Placing
  <2>1. ~ReadTask(a)
    <3> SUFFICES ASSUME ReadTask(a) PROVE FALSE
      OBVIOUS
    <3>1. CASE Return(a)
      BY <2>0, <3>1
    <3>2. CASE ~Return(a)
      <4>1. /\ at' = [at EXCEPT ![a] = IF Placing(a) THEN "count"
                                       ELSE IF HoldsSlot(task[a]) THEN "lockHost" ELSE "lockTask"]
            /\ op' = op
        BY <3>2 DEF ReadTask
      <4> QED BY <2>0, <4>1 DEF Placing
    <3> QED BY <3>1, <3>2
  <2>2. ~CountRunning(a)
    BY <2>0 DEF CountRunning, PickInv
  <2>3. CASE UpdateHost(a) \/ UpdateTask(a)
    BY <1>1, <1>3, <2>0, <2>3 DEF UpdateHost, UpdateTask, Placers, Counted, Placing
  <2>4. ~Commit(a)
    BY <2>0 DEF Commit
  <2>5. ~StartBuild(a)
    BY <2>0 DEF StartBuild
  <2> QED BY <1>3, <2>0, <2>1, <2>2, <2>3, <2>4, <2>5 DEF CallStep
<1> QED BY <1>2, <1>3

\* Selecting: the host was not full, and at most every dispatcher is about to
\* place on it.
LEMMA SelectKeepsBound ==
    ASSUME RecordInv, RecordInv', PickInv, NEW a \in Actors, SelectHost(a),
           NEW h \in Hosts, HostBound(h)
    PROVE  HostBound(h)'
<1>1. running' = running
  BY DEF SelectHost, rows
<1>2. CASE running[h] < MaxSlots
  <2>1. Dispatchers' = Dispatchers
    BY DEF Dispatchers
  <2>2. Placers(h)' \subseteq Dispatchers
    BY <2>1 DEF Placers, Counted
  <2>3. Cardinality(Placers(h)') <= Cardinality(Dispatchers) /\ Cardinality(Placers(h)') \in Nat
    BY <2>2, SetsFinite, FS_Subset, FS_CardinalityType
  <2>4. running[h] \in Nat
    BY DEF RecordInv, TypeOK
  <2> QED BY <1>1, <1>2, <2>1, <2>3, <2>4, SetsFinite, LimitsAreNat DEF HostBound
<1>3. CASE ~(running[h] < MaxSlots)
  <2>1. pick[a] = NoHost
    BY DEF SelectHost, PickInv
  <2>2. pick' = pick \/ \E g \in {f \in Hosts : running[f] < MaxSlots} : pick' = [pick EXCEPT ![a] = g]
    BY Zenon DEF SelectHost
  <2>3. pick'[a] # h
    BY <1>3, <2>1, <2>2, NamesAreDistinct DEF RecordInv, TypeOK
  <2>4. Placers(h)' \subseteq Placers(h)
    BY <2>3, PlacersStep DEF CallStep
  <2>5. running[h] \in Nat
    BY DEF RecordInv, TypeOK
  <2> QED BY <1>1, <2>4, <2>5, HostBoundKept
<1> QED BY <1>2, <1>3

\* Committing: the counter goes up by one and one transaction fewer is about to
\* place, or the counter goes down.
LEMMA CommitKeepsBound ==
    ASSUME RecordInv, RecordInv', PickInv, NEW a \in Actors, Commit(a),
           NEW h \in Hosts, HostBound(h)
    PROVE  HostBound(h)'
<1>1. at[a] = "commit" /\ (Placing(a) => a \in Dispatchers)
  BY DEF Commit, RecordInv, CallInv
<1>2. Placers(h)' \subseteq Placers(h)
  <2>1. ~SelectHost(a)
    BY <1>1 DEF SelectHost
  <2> QED BY <2>1, PlacersStep DEF CallStep
<1>3. running[h] \in Nat /\ running'[h] \in Nat
  BY DEF RecordInv, TypeOK
<1>4. CASE pick[a] = h /\ Placing(a)
  <2>1. running'[h] = running[h] + 1
    BY <1>4 DEF Commit
  <2>2. a \in Placers(h)
    BY <1>1, <1>4 DEF Placers, Counted
  <2>3. a \notin Placers(h)'
    BY DEF Commit, Return, Goto, RecordInv, TypeOK, Placers, Counted
  <2>4. Cardinality(Placers(h) \ {a}) = Cardinality(Placers(h)) - 1 /\ IsFiniteSet(Placers(h) \ {a})
    BY <2>2, PlacersFinite, FS_RemoveElement
  <2>5. Cardinality(Placers(h)') <= Cardinality(Placers(h)) - 1 /\ Cardinality(Placers(h)') \in Nat
    BY <1>2, <2>3, <2>4, FS_Subset, FS_CardinalityType
  <2>6. Dispatchers' = Dispatchers
    BY DEF Dispatchers
  <2> QED BY <1>3, <2>1, <2>5, <2>6, PlacersFinite, SetsFinite, LimitsAreNat DEF HostBound
<1>5. CASE ~(pick[a] = h /\ Placing(a))
  <2>1. running'[h] = running[h] \/ running'[h] = Decremented(running[h])
    BY <1>5 DEF Commit
  <2>2. running'[h] <= running[h]
    BY <1>3, <2>1 DEF Decremented
  <2> QED BY <1>2, <2>2, HostBoundKept
<1> QED BY <1>4, <1>5

\* The remaining steps change no counter and bring no one closer to one.
LEMMA HostBoundStep ==
    RecordInv /\ RecordInv' /\ PickInv /\ HostOvershootBounded /\ [Next]_vars => HostOvershootBounded'
<1> SUFFICES ASSUME RecordInv, RecordInv', PickInv, HostOvershootBounded, [Next]_vars,
                    NEW h \in Hosts
             PROVE  HostBound(h)'
  BY DEF HostOvershootBounded, HostBound
<1>0. HostBound(h) /\ running[h] \in Nat
  BY DEF HostOvershootBounded, HostBound, RecordInv, TypeOK
<1>1. ASSUME NEW a \in Actors, NEW u \in Tasks, NEW position \in {"read", "start"}, NEW kind,
             Enter(a, position, kind, u)
      PROVE  HostBound(h)'
  <2>1. Placers(h)' \subseteq Placers(h)
    BY <1>1 DEF Enter, Goto, Placers, Counted, Placing, Dispatchers, RecordInv, TypeOK
  <2>2. running' = running
    BY <1>1 DEF Enter, rows
  <2> QED BY <1>0, <2>1, <2>2, HostBoundKept
<1>2. ASSUME NEW a \in Actors, CallStep(a) PROVE HostBound(h)'
  <2>1. CASE ~SelectHost(a) /\ ~Commit(a)
    <3>1. running' = running
      BY <1>2, <2>1 DEF CallStep, ReadTask, CountRunning, UpdateHost, UpdateTask, StartBuild, rows
    <3>2. Placers(h)' \subseteq Placers(h)
      BY <1>2, <2>1, PlacersStep
    <3> QED BY <1>0, <3>1, <3>2, HostBoundKept
  <2> QED BY <1>0, <2>1, SelectKeepsBound, CommitKeepsBound
<1>3. ASSUME NEW g \in Goroutines, GoroutineStep(g) PROVE HostBound(h)'
  <2>1. g \in Actors /\ g[1] \in Tasks
    BY DEF Actors, Goroutines
  <2>2. CASE Finish(g)
    BY <1>1, <2>1, <2>2 DEF Finish
  <2>3. CASE StartPush(g)
    <3>1. running' = running /\ Placers(h)' = Placers(h)
      BY <2>3 DEF StartPush, calls, Placers, Counted, Placing, Dispatchers
    <3> QED BY <1>0, <3>1, HostBoundKept
  <2> QED BY <1>3, <2>2, <2>3 DEF GoroutineStep
<1>4. ASSUME NEW u \in Tasks, Schedule(u) \/ \E c \in Clients : Request(c, u) PROVE HostBound(h)'
  BY <1>1, <1>4 DEF Schedule, Request, Actors, Callers
<1>5. CASE UNCHANGED vars
  BY <1>0, <1>5 DEF vars, rows, calls, HostBound, Placers, Counted, Placing, Dispatchers
<1> QED BY <1>2, <1>3, <1>4, <1>5 DEF Next

\* At first no host runs anything.
LEMMA HostBoundBegins == Init => HostOvershootBounded
<1> SUFFICES ASSUME Init, NEW h \in Hosts PROVE HostBound(h)
  BY DEF HostOvershootBounded, HostBound
<1>1. Placers(h) = {} /\ running[h] = 0
  BY DEF Init, Placers, Counted, Dispatchers, Actors, Callers
<1> QED BY <1>1, SetsFinite, FS_EmptySet, LimitsAreNat DEF HostBound

\* However transactions overlap, the counter of a host exceeds its capacity by no
\* more than the number of requests that dispatch beside the scheduler.
THEOREM HostOvershootIsBounded == Spec => []HostOvershootBounded
<1>1. RecordInv /\ PickInv /\ HostOvershootBounded /\ [Next]_vars
        => (RecordInv /\ PickInv /\ HostOvershootBounded)'
  BY RecordsKept, PickStep, HostBoundStep
<1> QED BY <1>1, PickBegins, HostBoundBegins, RecordsBegin, PTL DEF Spec

-----------------------------------------------------------------------------
(* Transactions that keep apart *)

\* What a call has read of its task is still true when no other commits on it:
\* the task has not ended, is queued if it is to be placed, and holds the slot
\* that is to be given back.
ApartInv ==
    \A a \in Decided :
        /\ ~Terminal(task[a])
        /\ Placing(a) => status[task[a]] = "queued"
        /\ ~Placing(a) => pick[a] = IF HoldsSlot(task[a]) THEN host[task[a]] ELSE NoHost

\* A task was launched at most once, and not before it is building.
OnceInv ==
    \A t \in Tasks : /\ launched[t] <= 1
                     /\ status[t] \in {"queued", "dispatching"} => launched[t] = 0

Reading == RecordInv /\ PickInv /\ Apart /\ ApartInv

\* How one step changes the row of a task.
RowStays(t) == status'[t] = status[t] /\ host'[t] = host[t]
RowAdvances(t) == /\ <<status[t], status'[t]>> \in {<<"dispatching", "building">>, <<"building", "pushing">>}
                  /\ host'[t] = host[t]

\* Apart from the commits, a step leaves a row as it is or takes it to its next
\* stage, and touches no counter.
LEMMA RowStep ==
    ASSUME RecordInv, [Next]_vars, ~\E a \in Actors : Commit(a)
    PROVE  running' = running /\ \A t \in Tasks : RowStays(t) \/ RowAdvances(t)
<1> USE DEF RecordInv, TypeOK
<1>1. ASSUME NEW a \in Actors, NEW u \in Tasks, NEW position, NEW kind, Enter(a, position, kind, u)
      PROVE  running' = running /\ \A t \in Tasks : RowStays(t)
  BY <1>1 DEF Enter, rows, RowStays
<1>2. ASSUME NEW a \in Actors, CallStep(a)
      PROVE  running' = running /\ \A t \in Tasks : RowStays(t) \/ RowAdvances(t)
  <2>1. CASE StartBuild(a)
    <3>1. running' = running /\ host' = host /\ task[a] \in Tasks
      BY <2>1 DEF StartBuild, CallInv
    <3>2. \/ status' = status
          \/ status[task[a]] = "dispatching" /\ status' = [status EXCEPT ![task[a]] = "building"]
      BY <2>1 DEF StartBuild
    <3> QED BY <3>1, <3>2 DEF RowStays, RowAdvances
  <2>2. CASE ~StartBuild(a)
    BY <1>2, <2>2 DEF CallStep, ReadTask, CountRunning, SelectHost, UpdateHost, UpdateTask, rows, RowStays
  <2> QED BY <2>1, <2>2
<1>3. ASSUME NEW g \in Goroutines, GoroutineStep(g)
      PROVE  running' = running /\ \A t \in Tasks : RowStays(t) \/ RowAdvances(t)
  <2>1. g \in Actors /\ g[1] \in Tasks
    BY DEF Actors, Goroutines
  <2>2. CASE Finish(g)
    BY <1>1, <2>1, <2>2 DEF Finish
  <2>3. CASE StartPush(g)
    <3>1. running' = running /\ host' = host
      BY <2>3 DEF StartPush
    <3>2. \/ status' = status
          \/ status[g[1]] = "building" /\ status' = [status EXCEPT ![g[1]] = "pushing"]
      BY <2>3 DEF StartPush
    <3> QED BY <2>1, <3>1, <3>2 DEF RowStays, RowAdvances
  <2> QED BY <1>3, <2>2, <2>3 DEF GoroutineStep
<1>4. ASSUME NEW u \in Tasks, Schedule(u) \/ \E c \in Clients : Request(c, u)
      PROVE  running' = running /\ \A t \in Tasks : RowStays(t)
  BY <1>1, <1>4 DEF Schedule, Request, Actors, Callers
<1>5. CASE UNCHANGED vars
  BY <1>5 DEF vars, rows, RowStays
<1> QED BY <1>2, <1>3, <1>4, <1>5 DEF Next

\* What a commit does to its row, when what was read is still true.
LEMMA CommitRow ==
    ASSUME Reading, NEW a \in Actors, Commit(a)
    PROVE  /\ a \in Decided /\ task[a] \in Tasks /\ a \notin Decided'
           /\ ~Terminal(task[a])
           /\ \A t \in Tasks \ {task[a]} : RowStays(t)
           /\ Placing(a) => /\ status[task[a]] = "queued" /\ status'[task[a]] = "dispatching"
                            /\ pick[a] \in Hosts /\ host'[task[a]] = pick[a]
           /\ ~Placing(a) => /\ status'[task[a]] \in TerminalStatuses
                             /\ host'[task[a]] = host[task[a]]
<1> USE DEF Reading, RecordInv, TypeOK
<1>1. /\ at[a] = "commit" /\ task[a] \in Tasks /\ op[a] # "start" /\ op[a] \in Ops
      /\ Placing(a) => pick[a] \in Hosts
  BY DEF Commit, CallInv, InTransaction
<1>2. a \in Decided /\ a \notin Decided'
  BY <1>1 DEF Commit, Return, Goto, Decided
<1>3. \A t \in Tasks \ {task[a]} : RowStays(t)
  BY <1>1 DEF Commit, RowStays
<1>4. Placing(a) => status'[task[a]] = "dispatching" /\ host'[task[a]] = pick[a]
  BY <1>1 DEF Commit
<1>5. ~Placing(a) => status'[task[a]] \in TerminalStatuses /\ host'[task[a]] = host[task[a]]
  <2>1. ~Placing(a) => op[a] \in TerminalStatuses
    BY <1>1 DEF Placing, Ops, Outcomes, TerminalStatuses
  <2> QED BY <1>1, <2>1 DEF Commit
<1>6. ~Terminal(task[a]) /\ (Placing(a) => status[task[a]] = "queued")
  BY <1>2 DEF ApartInv
<1> QED BY <1>1, <1>2, <1>3, <1>4, <1>5, <1>6

\* For a call whose record stays, what it has read stays true if its row does not
\* change but to the next stage.
LEMMA ReadStaysTrue ==
    ASSUME RecordInv, ApartInv, NEW b \in Decided,
           at'[b] = at[b], op'[b] = op[b], task'[b] = task[b], pick'[b] = pick[b],
           RowStays(task[b]) \/ RowAdvances(task[b])
    PROVE  /\ ~Terminal(task[b])'
           /\ Placing(b)' => status'[task'[b]] = "queued"
           /\ ~Placing(b)' => pick'[b] = IF HoldsSlot(task[b])' THEN host'[task'[b]] ELSE NoHost
<1>1. /\ ~Terminal(task[b])
      /\ Placing(b) => status[task[b]] = "queued"
      /\ ~Placing(b) => pick[b] = IF HoldsSlot(task[b]) THEN host[task[b]] ELSE NoHost
  BY DEF ApartInv
<1>2. Placing(b)' <=> Placing(b)
  BY DEF Placing
<1>3. CASE RowStays(task[b])
  BY <1>1, <1>2, <1>3 DEF RowStays, Terminal, HoldsSlot
<1>4. CASE RowAdvances(task[b])
  <2>1. /\ status[task[b]] \in {"dispatching", "building"}
        /\ status'[task[b]] \in {"building", "pushing"}
        /\ host'[task[b]] = host[task[b]]
    BY <1>4 DEF RowAdvances
  <2> QED BY <1>1, <1>2, <2>1 DEF Terminal, TerminalStatuses, HoldsSlot, SlotStatuses
<1> QED BY <1>3, <1>4

\* What has been read is true when it is read, and stays so to the commit.
LEMMA CallKeepsApart ==
    ASSUME Reading, RecordInv', PickInv', NEW a \in Actors, CallStep(a),
           \A t \in Tasks : t # task[a] => RowStays(t),
           Commit(a) \/ \A t \in Tasks : RowStays(t) \/ RowAdvances(t)
    PROVE  ApartInv'
<1>1. ASSUME NEW b \in Decided', b # a
      PROVE  /\ ~Terminal(task[b])'
             /\ Placing(b)' => status'[task'[b]] = "queued"
             /\ ~Placing(b)' => pick'[b] = IF HoldsSlot(task[b])' THEN host'[task'[b]] ELSE NoHost
  <2>1. b \in Actors
    BY DEF Decided
  <2>2. at'[b] = at[b] /\ op'[b] = op[b] /\ task'[b] = task[b] /\ pick'[b] = pick[b]
    BY <1>1, <2>1, OthersStay DEF Reading
  <2>3. b \in Decided /\ task[b] \in Tasks
    BY <2>1, <2>2 DEF Decided, Reading, RecordInv, CallInv
  <2>4. RowStays(task[b]) \/ RowAdvances(task[b])
    <3>1. CASE Commit(a)
      <4>1. a \in Decided
        BY <3>1 DEF Commit, Decided
      <4>2. task[b] # task[a]
        BY <1>1, <2>3, <4>1 DEF Reading, Apart
      <4> QED BY <2>3, <4>2
    <3>2. CASE ~Commit(a)
      BY <2>3, <3>2
    <3> QED BY <3>1, <3>2
  <2> QED BY <2>2, <2>3, <2>4, ReadStaysTrue DEF Reading
<1>2. ASSUME a \in Decided'
      PROVE  /\ ~Terminal(task[a])'
             /\ Placing(a)' => status'[task'[a]] = "queued"
             /\ ~Placing(a)' => pick'[a] = IF HoldsSlot(task[a])' THEN host'[task'[a]] ELSE NoHost
  <2> USE DEF Reading, RecordInv, TypeOK
  <2>1. CASE ReadTask(a)
    <3>1. ~Return(a)
      BY <1>2 DEF Return, Goto, Decided
    <3>2. /\ MayProceed(a) /\ UNCHANGED <<status, host, op, task>>
          /\ pick' = [pick EXCEPT ![a] = IF HoldsSlot(task[a]) THEN host[task[a]] ELSE NoHost]
      BY <2>1, <3>1 DEF ReadTask, rows
    <3>3. ~Terminal(task[a]) /\ (Placing(a) => status[task[a]] = "queued")
      BY <3>2 DEF MayProceed
    <3> QED BY <3>2, <3>3 DEF Terminal, Placing, HoldsSlot
  <2>2. CASE CountRunning(a) \/ UpdateHost(a) \/ UpdateTask(a)
    <3>1. /\ a \in Decided /\ UNCHANGED <<status, host>>
          /\ at[a] \in {"count", "lockHost", "lockTask"}
      BY <2>2 DEF CountRunning, UpdateHost, UpdateTask, rows, Decided
    <3>2. op'[a] = op[a] /\ task'[a] = task[a] /\ pick'[a] = pick[a]
      BY <1>2, <2>2 DEF CountRunning, UpdateHost, UpdateTask, Return, Goto, Decided
    <3> QED BY <3>1, <3>2 DEF ApartInv, Terminal, Placing, HoldsSlot
  <2>3. CASE SelectHost(a)
    <3>1. at[a] = "select" /\ a \in Decided /\ UNCHANGED <<status, host, task>>
      BY <2>3 DEF SelectHost, rows, Decided
    <3>2. Placing(a) /\ pick[a] = NoHost /\ status[task[a]] = "queued" /\ ~Terminal(task[a])
      BY <3>1 DEF CallInv, PickInv, ApartInv
    <3>3. ~HoldsSlot(task[a])
      BY <3>2 DEF HoldsSlot, SlotStatuses
    <3>4. \/ op' = [op EXCEPT ![a] = "dispatch_failed"] /\ pick' = pick
          \/ op' = op
      BY <2>3, Zenon DEF SelectHost
    <3>5. Placing(a)' \/ pick'[a] = NoHost
      BY <3>2, <3>4 DEF Placing
    <3> QED BY <3>1, <3>2, <3>3, <3>5 DEF Terminal, HoldsSlot
  <2>4. ~Commit(a)
    BY <1>2 DEF Commit, Return, Goto, Decided
  <2>5. ~StartBuild(a)
    BY <1>2 DEF StartBuild, Return, Goto, Decided
  <2> QED BY <2>1, <2>2, <2>3, <2>4, <2>5 DEF CallStep
<1> QED BY <1>1, <1>2 DEF ApartInv

\* Other steps begin calls or advance rows.
LEMMA ApartStep == Reading /\ [Next /\ Apart']_vars => Reading'
<1> SUFFICES ASSUME Reading, [Next /\ Apart']_vars PROVE Reading'
  OBVIOUS
<1>1. [Next]_vars
  OBVIOUS
<1>2. RecordInv' /\ PickInv'
  BY <1>1, RecordsKept, PickStep DEF Reading
<1>3. Apart'
  <2>1. CASE UNCHANGED vars
    BY <2>1 DEF vars, calls, Reading, Apart, Decided
  <2> QED BY <2>1
<1>4. ApartInv'
  <2>1. ASSUME NEW c \in Actors, NEW u \in Tasks, NEW position \in {"read", "start"}, NEW kind,
               Enter(c, position, kind, u)
        PROVE  ApartInv'
    <3>1. ASSUME NEW b \in Decided'
          PROVE  /\ b \in Decided
                 /\ at'[b] = at[b] /\ op'[b] = op[b] /\ task'[b] = task[b] /\ pick'[b] = pick[b]
      BY <2>1 DEF Enter, Goto, Decided, Reading, RecordInv, TypeOK
    <3>2. UNCHANGED <<status, host>>
      BY <2>1 DEF Enter, rows
    <3> QED BY <3>1, <3>2 DEF Reading, ApartInv, Terminal, Placing, HoldsSlot
  <2>2. ASSUME NEW a \in Actors, CallStep(a) PROVE ApartInv'
    <3>1. CASE Commit(a)
      BY <1>2, <2>2, <3>1, CommitRow, CallKeepsApart
    <3>2. CASE ~Commit(a)
      <4>1. CASE StartBuild(a)
        <5>1. \A t \in Tasks : t # task[a] => RowStays(t)
          BY <4>1 DEF StartBuild, RowStays, Reading, RecordInv, TypeOK, CallInv
        <5>2. \A t \in Tasks : RowStays(t) \/ RowAdvances(t)
          <6>1. host' = host /\ task[a] \in Tasks
            BY <4>1 DEF StartBuild, Reading, RecordInv, CallInv
          <6>2. \/ status' = status
                \/ status[task[a]] = "dispatching" /\ status' = [status EXCEPT ![task[a]] = "building"]
            BY <4>1 DEF StartBuild
          <6> QED BY <6>1, <6>2 DEF RowStays, RowAdvances, Reading, RecordInv, TypeOK
        <5> QED BY <1>2, <2>2, <5>1, <5>2, CallKeepsApart
      <4>2. CASE ~StartBuild(a)
        <5>1. \A t \in Tasks : RowStays(t)
          BY <2>2, <3>2, <4>2
          DEF CallStep, ReadTask, CountRunning, SelectHost, UpdateHost, UpdateTask, rows, RowStays
        <5> QED BY <1>2, <2>2, <5>1, CallKeepsApart
      <4> QED BY <4>1, <4>2
    <3> QED BY <3>1, <3>2
  <2>3. ASSUME NEW g \in Goroutines, StartPush(g) PROVE ApartInv'
    <3>1. g[1] \in Tasks /\ UNCHANGED <<at, op, task, pick, host>>
      BY <2>3 DEF StartPush, calls, Goroutines
    <3>2. \A t \in Tasks : RowStays(t) \/ RowAdvances(t)
      <4>1. \/ status' = status
            \/ status[g[1]] = "building" /\ status' = [status EXCEPT ![g[1]] = "pushing"]
        BY <2>3 DEF StartPush
      <4> QED BY <3>1, <4>1 DEF RowStays, RowAdvances, Reading, RecordInv, TypeOK
    <3>3. Decided' = Decided /\ \A b \in Decided : task[b] \in Tasks
      BY <3>1 DEF Decided, Reading, RecordInv, CallInv
    <3> QED BY <3>1, <3>2, <3>3, ReadStaysTrue DEF Reading, ApartInv
  <2>4. ASSUME NEW g \in Goroutines, Finish(g) PROVE ApartInv'
    BY <2>1, <2>4 DEF Finish, Actors, Goroutines
  <2>5. ASSUME NEW u \in Tasks, Schedule(u) \/ \E c \in Clients : Request(c, u) PROVE ApartInv'
    BY <2>1, <2>5 DEF Schedule, Request, Actors, Callers
  <2>6. CASE UNCHANGED vars
    BY <2>6 DEF vars, rows, calls, Reading, ApartInv, Decided, Terminal, Placing, HoldsSlot
  <2> QED BY <1>1, <2>2, <2>3, <2>4, <2>5, <2>6 DEF Next, GoroutineStep
<1> QED BY <1>2, <1>3, <1>4 DEF Reading

LEMMA ApartBegins == Init => Reading
<1> SUFFICES ASSUME Init PROVE Apart /\ ApartInv
  BY RecordsBegin, PickBegins DEF Reading
<1>1. Decided = {}
  BY DEF Init, Decided
<1> QED BY <1>1 DEF Apart, ApartInv

-----------------------------------------------------------------------------
(* What follows when they do *)

Holders(h) == {t \in Tasks : HoldsSlot(t) /\ host[t] = h}

LEMMA HoldersFinite ==
    ASSUME NEW h
    PROVE  IsFiniteSet(Holders(h)) /\ Cardinality(Holders(h)) \in Nat
<1>1. Holders(h) \subseteq Tasks
  BY DEF Holders
<1> QED BY <1>1, RowsAndRequestsFinite, FS_Subset, FS_CardinalityType

\* A commit adds its task to the holders of the host it increments, or takes it
\* from those of the host it decrements.
LEMMA CommitCounts ==
    ASSUME Reading, CountersExact, NEW a \in Actors, Commit(a), NEW h \in Hosts
    PROVE  running'[h] = Cardinality(Holders(h)')
<1> DEFINE t == task[a]
<1>1. running[h] = Cardinality(Holders(h)) /\ running[h] \in Nat
  BY DEF CountersExact, Holders, Reading, RecordInv, TypeOK
<1>2. t \in Tasks /\ \A u \in Tasks \ {t} : RowStays(u)
  BY CommitRow
<1>3. CASE Placing(a)
  <2>1. /\ status[t] = "queued" /\ status'[t] = "dispatching" /\ host'[t] = pick[a]
    BY <1>3, CommitRow
  <2>2. t \notin Holders(h)
    BY <2>1 DEF Holders, HoldsSlot, SlotStatuses
  <2>3. CASE pick[a] = h
    <3>1. Holders(h)' = Holders(h) \union {t}
      BY <1>2, <2>1, <2>3 DEF Holders, HoldsSlot, SlotStatuses, RowStays
    <3>2. running'[h] = running[h] + 1
      BY <1>3, <2>3 DEF Commit
    <3> QED BY <1>1, <2>2, <3>1, <3>2, HoldersFinite, FS_AddElement
  <2>4. CASE pick[a] # h
    <3>1. Holders(h)' = Holders(h)
      BY <1>2, <2>1, <2>2, <2>4 DEF Holders, HoldsSlot, SlotStatuses, RowStays
    <3>2. running'[h] = running[h]
      BY <2>4 DEF Commit
    <3> QED BY <1>1, <3>1, <3>2
  <2> QED BY <2>3, <2>4
<1>4. CASE ~Placing(a)
  <2>1. status'[t] \in TerminalStatuses /\ host'[t] = host[t]
    BY <1>4, CommitRow
  <2>2. Holders(h)' = Holders(h) \ {t}
    BY <1>2, <2>1 DEF Holders, HoldsSlot, SlotStatuses, TerminalStatuses, RowStays
  <2>3. pick[a] = IF HoldsSlot(t) THEN host[t] ELSE NoHost
    BY <1>4, CommitRow DEF Reading, ApartInv
  <2>4. t \in Holders(h) <=> pick[a] = h
    BY <1>2, <2>3, NamesAreDistinct DEF Holders
  <2>5. CASE pick[a] = h
    <3>1. Cardinality(Holders(h) \ {t}) = Cardinality(Holders(h)) - 1
      BY <2>4, <2>5, HoldersFinite, FS_RemoveElement
    <3>2. Cardinality(Holders(h) \ {t}) \in Nat
      BY HoldersFinite, FS_Subset, FS_CardinalityType
    <3>3. running'[h] = Decremented(running[h])
      BY <1>4, <2>5 DEF Commit
    <3> QED BY <1>1, <2>2, <3>1, <3>2, <3>3 DEF Decremented
  <2>6. CASE pick[a] # h
    <3>1. Holders(h)' = Holders(h)
      BY <2>2, <2>4, <2>6
    <3>2. running'[h] = running[h]
      BY <2>6 DEF Commit
    <3> QED BY <1>1, <3>1, <3>2
  <2> QED BY <2>5, <2>6
<1> QED BY <1>3, <1>4

\* Other steps change neither counters nor holders.
LEMMA CountersStep == Reading /\ CountersExact /\ [Next]_vars => CountersExact'
<1> SUFFICES ASSUME Reading, CountersExact, [Next]_vars, NEW h \in Hosts
             PROVE  running'[h] = Cardinality(Holders(h)')
  BY DEF CountersExact, Holders
<1>1. CASE \E a \in Actors : Commit(a)
  BY <1>1, CommitCounts
<1>2. CASE ~\E a \in Actors : Commit(a)
  <2>1. running' = running /\ \A t \in Tasks : RowStays(t) \/ RowAdvances(t)
    BY <1>2, RowStep DEF Reading
  <2>2. ASSUME NEW t \in Tasks
        PROVE  (HoldsSlot(t)' <=> HoldsSlot(t)) /\ host'[t] = host[t]
    <3>1. CASE RowStays(t)
      BY <3>1 DEF RowStays, HoldsSlot
    <3>2. CASE RowAdvances(t)
      BY <3>2 DEF RowAdvances, HoldsSlot, SlotStatuses
    <3> QED BY <2>1, <3>1, <3>2
  <2>3. Holders(h)' = Holders(h)
    BY <2>2 DEF Holders
  <2> QED BY <2>1, <2>3 DEF CountersExact, Holders
<1> QED BY <1>1, <1>2

\* At first nothing runs.
LEMMA CountersBegin == Init => CountersExact
<1> SUFFICES ASSUME Init, NEW h \in Hosts PROVE running[h] = Cardinality(Holders(h))
  BY DEF CountersExact, Holders
<1>1. Holders(h) = {} /\ running[h] = 0
  BY DEF Init, Holders, HoldsSlot, SlotStatuses
<1> QED BY <1>1, FS_EmptySet

\* A commit launches nothing and puts no task back; StartBuild launches a task
\* that is dispatching.
LEMMA OnceStep == Reading /\ OnceInv /\ [Next]_vars => OnceInv'
<1> SUFFICES ASSUME Reading, OnceInv, [Next]_vars, NEW t \in Tasks
             PROVE  /\ launched'[t] <= 1
                    /\ status'[t] \in {"queued", "dispatching"} => launched'[t] = 0
  BY DEF OnceInv
<1>0. launched[t] \in Nat /\ launched[t] <= 1
      /\ (status[t] \in {"queued", "dispatching"} => launched[t] = 0)
  BY LimitsAreNat DEF OnceInv, Reading, RecordInv, TypeOK
<1>1. ASSUME NEW a \in Actors, Commit(a)
      PROVE  /\ launched'[t] <= 1
             /\ status'[t] \in {"queued", "dispatching"} => launched'[t] = 0
  <2>1. launched' = launched
    BY <1>1 DEF Commit
  <2>2. \/ status'[t] = status[t]
        \/ status[t] = "queued" /\ status'[t] = "dispatching"
        \/ status'[t] \in TerminalStatuses
    <3>1. CASE t = task[a]
      BY <1>1, <3>1, CommitRow
    <3>2. CASE t # task[a]
      BY <1>1, <3>2, CommitRow DEF RowStays
    <3> QED BY <3>1, <3>2
  <2> QED BY <1>0, <2>1, <2>2 DEF TerminalStatuses
<1>2. ASSUME NEW a \in Actors, StartBuild(a)
      PROVE  /\ launched'[t] <= 1
             /\ status'[t] \in {"queued", "dispatching"} => launched'[t] = 0
  <2>1. task[a] \in Tasks
    BY <1>2 DEF StartBuild, Reading, RecordInv, CallInv
  <2>2. \/ status'[t] = status[t] /\ launched'[t] = launched[t]
        \/ /\ status[t] = "dispatching" /\ status'[t] = "building"
           /\ launched'[t] = launched[t] + 1
    BY <1>2, <2>1 DEF StartBuild, Reading, RecordInv, TypeOK
  <2> QED BY <1>0, <2>2
<1>3. CASE ~\E a \in Actors : Commit(a) \/ StartBuild(a)
  <2>1. launched' = launched
    BY <1>3 DEF Next, Schedule, Request, Finish, Enter, GoroutineStep, StartPush, CallStep,
                ReadTask, CountRunning, SelectHost, UpdateHost, UpdateTask, vars
  <2>2. RowStays(t) \/ RowAdvances(t)
    BY <1>3, RowStep DEF Reading
  <2>3. \/ status'[t] = status[t]
        \/ status[t] = "dispatching" /\ status'[t] = "building"
        \/ status[t] = "building" /\ status'[t] = "pushing"
    BY <2>2 DEF RowStays, RowAdvances
  <2> QED BY <1>0, <2>1, <2>3
<1> QED BY <1>1, <1>2, <1>3

-----------------------------------------------------------------------------
(* The paths a status takes when they do *)

\* A goroutine that exists was launched; the last of its calls, which begins as it
\* ends, is about its own task.  Only such a call has an outcome to report.
GoroutineInv ==
    /\ \A c \in Callers : op[c] \notin Outcomes
    /\ \A g \in Goroutines :
        /\ (runner[g] # "none" \/ at[g] # "idle") => g[2] <= launched[g[1]]
        /\ at[g] # "idle" => runner[g] = "none" /\ task[g] = g[1]

\* What a call will make of its task's status is a path from the status the task
\* has now.
ExpectInv ==
    /\ \A a \in Actors : at[a] = "read" => op[a] # "dispatch_failed"
    /\ \A a \in Decided : ~Placing(a) => <<status[task[a]], op[a]>> \in Paths

\* What a call of a goroutine does to its own record.
LEMMA OwnRecord ==
    ASSUME RecordInv, NEW a \in Actors, CallStep(a)
    PROVE  /\ op'[a] = op[a] \/ op'[a] \in {"start", "dispatch_failed"}
           /\ at'[a] # "idle" => at[a] # "idle" /\ task'[a] = task[a]
           /\ at'[a] # "read"
           /\ at[a] # "idle"
<1> USE DEF RecordInv, TypeOK, Return, Goto
<1>1. CASE ReadTask(a)
  BY <1>1 DEF ReadTask
<1>2. CASE CountRunning(a)
  BY <1>2 DEF CountRunning
<1>3. CASE SelectHost(a)
  <2>1. op' = op \/ op' = [op EXCEPT ![a] = "dispatch_failed"]
    BY <1>3, Zenon DEF SelectHost
  <2>2. at' = [at EXCEPT ![a] = "lockTask"] \/ at' = [at EXCEPT ![a] = "lockHost"]
    BY <1>3, Zenon DEF SelectHost
  <2>3. at[a] = "select" /\ task' = task
    BY <1>3 DEF SelectHost
  <2> QED BY <2>1, <2>2, <2>3
<1>4. CASE UpdateHost(a) \/ UpdateTask(a)
  BY <1>4 DEF UpdateHost, UpdateTask
<1>5. CASE Commit(a)
  BY <1>5 DEF Commit
<1>6. CASE StartBuild(a)
  BY <1>6 DEF StartBuild
<1> QED BY <1>1, <1>2, <1>3, <1>4, <1>5, <1>6 DEF CallStep

\* A goroutine is launched by StartBuild under a number no other has had, and ends
\* with the call that reports its outcome.
LEMMA GoroutineKept == RecordInv /\ GoroutineInv /\ [Next]_vars => GoroutineInv'
<1> SUFFICES ASSUME RecordInv, GoroutineInv, [Next]_vars PROVE GoroutineInv'
  OBVIOUS
<1> USE DEF RecordInv, TypeOK, GoroutineInv
<1>0. /\ Callers \subseteq Actors /\ Goroutines \subseteq Actors
      /\ Callers \intersect Goroutines = {}
      /\ \A g \in Goroutines : g[1] \in Tasks /\ g[2] \in Nat
      /\ \A t \in Tasks : launched[t] \in Nat
  BY NamesAreDistinct, LimitsAreNat DEF Actors, Goroutines
<1>1. ASSUME NEW c \in Callers, NEW u \in Tasks, NEW position, NEW kind, kind \notin Outcomes,
             Enter(c, position, kind, u), runner' = runner
      PROVE  GoroutineInv'
  BY <1>0, <1>1 DEF Enter, Goto
<1>2. ASSUME NEW a \in Actors, CallStep(a) PROVE GoroutineInv'
  <2>1. \A c \in Callers : op'[c] \notin Outcomes
    <3> SUFFICES ASSUME NEW c \in Callers PROVE op'[c] \notin Outcomes
      OBVIOUS
    <3>1. op'[c] = op[c] \/ op'[c] \in {"start", "dispatch_failed"}
      BY <1>0, <1>2, OwnRecord, OthersStay
    <3> QED BY <3>1 DEF Outcomes
  <2>2. \A g \in Goroutines : at'[g] # "idle" => at[g] # "idle" /\ task'[g] = task[g]
    BY <1>0, <1>2, OwnRecord, OthersStay
  <2>3. CASE StartBuild(a)
    <3> DEFINE t == task[a]
               new == <<t, launched'[t]>>
    <3>1. t \in Tasks /\ at[a] # "idle" /\ at'[a] = "idle"
      BY <2>3 DEF StartBuild, CallInv, Return, Goto
    <3>2. CASE UNCHANGED <<launched, runner>>
      BY <2>1, <2>2, <3>2
    <3>3. CASE /\ launched[t] < MaxLaunches
               /\ launched' = [launched EXCEPT ![t] = @ + 1]
               /\ runner' = [runner EXCEPT ![new] = "building"]
      <4>1. launched'[t] = launched[t] + 1 /\ \A u \in Tasks \ {t} : launched'[u] = launched[u]
        BY <3>1, <3>3
      <4>2. new \in Goroutines /\ new[1] = t /\ new[2] = launched[t] + 1
        BY <1>0, <3>1, <3>3, <4>1, LimitsAreNat DEF Goroutines
      <4>3. at[new] = "idle"
        BY <1>0, <3>1, <4>2
      <4>4. at'[new] = "idle"
        BY <2>2, <4>2, <4>3
      <4>5. \A g \in Goroutines : g # new => runner'[g] = runner[g]
        BY <3>3
      <4>6. \A g \in Goroutines : launched[g[1]] <= launched'[g[1]]
        BY <1>0, <4>1
      <4>7. runner'[new] # "none" => new[2] <= launched'[new[1]]
        BY <1>0, <3>1, <4>1, <4>2
      <4> HIDE DEF new
      <4>8. ASSUME NEW g \in Goroutines
            PROVE  /\ (runner'[g] # "none" \/ at'[g] # "idle") => g[2] <= launched'[g[1]]
                   /\ at'[g] # "idle" => runner'[g] = "none" /\ task'[g] = g[1]
        <5>1. CASE g = new
          BY <4>4, <4>7, <5>1
        <5>2. CASE g # new
          <6>1. (runner'[g] # "none" \/ at'[g] # "idle") => g[2] <= launched[g[1]]
            BY <2>2, <4>5, <5>2
          <6>2. g[1] \in Tasks /\ launched'[g[1]] \in Nat
            BY <1>0, <3>1, <4>1
          <6> QED BY <1>0, <2>2, <4>5, <4>6, <5>2, <6>1, <6>2
        <5> QED BY <5>1, <5>2
      <4> QED BY <2>1, <4>8
    <3> QED BY <2>3, <3>2, <3>3 DEF StartBuild
  <2>4. CASE ~StartBuild(a)
    <3>1. UNCHANGED <<launched, runner>>
      BY <1>2, <2>4 DEF CallStep, ReadTask, CountRunning, SelectHost, UpdateHost, UpdateTask, Commit
    <3> QED BY <2>1, <2>2, <3>1
  <2> QED BY <2>3, <2>4
<1>3. ASSUME NEW g \in Goroutines, StartPush(g) PROVE GoroutineInv'
  <2>1. UNCHANGED <<at, op, task, launched>> /\ runner[g] = "building"
    BY <1>3 DEF StartPush, calls
  <2>2. \A f \in Goroutines : f # g => runner'[f] = runner[f]
    BY <1>3 DEF StartPush
  <2> QED BY <2>1, <2>2
<1>4. ASSUME NEW g \in Goroutines, Finish(g) PROVE GoroutineInv'
  <2>1. /\ runner[g] # "none" /\ runner' = [runner EXCEPT ![g] = "none"] /\ launched' = launched
        /\ \E kind : Enter(g, "read", kind, g[1])
    BY <1>4 DEF Finish, Enter
  <2>2. PICK kind : Enter(g, "read", kind, g[1])
    BY <2>1
  <2>3. /\ \A b \in Actors \ {g} : at'[b] = at[b] /\ op'[b] = op[b] /\ task'[b] = task[b]
        /\ task'[g] = g[1]
    BY <1>0, <2>2 DEF Enter, Goto
  <2>4. \A f \in Goroutines : f # g => runner'[f] = runner[f]
    BY <2>1
  <2>5. runner'[g] = "none"
    BY <2>1
  <2> QED BY <1>0, <2>1, <2>3, <2>4, <2>5
<1>5. ASSUME NEW u \in Tasks, Schedule(u) PROVE GoroutineInv'
  BY <1>1, <1>5 DEF Schedule, Outcomes, Callers
<1>6. ASSUME NEW u \in Tasks, NEW c \in Clients, Request(c, u) PROVE GoroutineInv'
  BY <1>1, <1>6 DEF Request, Outcomes, Callers
<1>7. CASE UNCHANGED vars
  BY <1>7 DEF vars, calls
<1> QED BY <1>2, <1>3, <1>4, <1>5, <1>6, <1>7 DEF Next, GoroutineStep

\* The paths from the stages of a task, for those that end in what a call sets.
LEMMA PathFacts ==
    /\ \A k \in Ops : <<"dispatching", k>> \in Paths => k = "canceled"
    /\ \A k \in Ops : <<"building", k>> \in Paths => k \in {"build_failed", "canceled", "timeout"}
    /\ \A s \in {"queued", "dispatching", "building", "pushing"} : <<s, "canceled">> \in Paths
    /\ \A s \in {"building", "pushing"} : <<s, "timeout">> \in Paths
BY DEF Paths, Ops, Outcomes, Statuses, TerminalStatuses

\* A call that has just read its task may make of it what it is to: an outcome is
\* reported for a task that was launched, and is past dispatching.
LEMMA ReadExpects ==
    ASSUME Reading, OnceInv, GoroutineInv, ExpectInv, NEW a \in Actors, at[a] = "read",
           MayProceed(a), ~Placing(a)
    PROVE  <<status[task[a]], op[a]>> \in Paths
<1> USE DEF Reading, RecordInv, TypeOK
<1>1. /\ task[a] \in Tasks /\ op[a] \notin {"start", "dispatch_failed", "place", "placeAndStart"}
      /\ op[a] \in Ops
  BY DEF CallInv, InTransaction, ExpectInv, Placing
<1>2. status[task[a]] \in {"queued", "dispatching", "building", "pushing"}
  BY <1>1 DEF MayProceed, Terminal, Statuses, TerminalStatuses
<1>3. CASE op[a] = "timeout"
  <2>1. a \in Goroutines
    BY <1>3 DEF GoroutineInv, Outcomes, Actors
  <2>2. task[a] = a[1] /\ a[2] <= launched[a[1]] /\ a[2] \in 1..MaxLaunches
    BY <2>1 DEF GoroutineInv, Goroutines
  <2>3. launched[task[a]] # 0
    BY <1>1, <2>2, LimitsAreNat
  <2>4. status[task[a]] \in {"building", "pushing"}
    BY <1>1, <1>2, <2>3 DEF OnceInv
  <2> QED BY <1>3, <2>4, PathFacts
<1>4. CASE op[a] = "canceled"
  BY <1>2, <1>4, PathFacts
<1>5. CASE op[a] = "build_failed"
  BY <1>5 DEF MayProceed, Paths
<1>6. CASE op[a] \in {"push_failed", "push_success"}
  BY <1>6 DEF MayProceed, Paths
<1> QED BY <1>1, <1>3, <1>4, <1>5, <1>6 DEF Ops, Outcomes

\* For a call whose record stays, a step of its task to the next stage leaves its
\* outcome a path, unless the build of the task has failed meanwhile.
LEMMA ExpectStays ==
    ASSUME Reading, ExpectInv, NEW b \in Decided, ~Placing(b)', task[b] \in Tasks,
           at'[b] = at[b], op'[b] = op[b], task'[b] = task[b],
           RowStays(task[b]) \/ RowAdvances(task[b]),
           status[task[b]] = "building" /\ status'[task[b]] = "pushing" => op[b] # "build_failed"
    PROVE  <<status'[task'[b]], op'[b]>> \in Paths
<1>1. op[b] \in Ops /\ <<status[task[b]], op[b]>> \in Paths
  BY DEF Decided, Placing, ExpectInv, Reading, RecordInv, TypeOK
<1>2. CASE RowStays(task[b])
  BY <1>1, <1>2 DEF RowStays
<1>3. CASE RowAdvances(task[b])
  <2>1. \/ status[task[b]] = "dispatching" /\ status'[task[b]] = "building"
        \/ status[task[b]] = "building" /\ status'[task[b]] = "pushing"
    BY <1>3 DEF RowAdvances
  <2>2. op[b] \in {"canceled", "timeout"} /\ (op[b] = "timeout" => status'[task[b]] = "pushing")
    BY <1>1, <2>1, PathFacts
  <2> QED BY <2>1, <2>2, PathFacts
<1> QED BY <1>2, <1>3

\* Expectations stand: another commit is of another task, and while a goroutine
\* reports that its build failed no goroutine is left that would push.
LEMMA ExpectKept ==
    ASSUME Reading, OnceInv, GoroutineInv, ExpectInv, [Next]_vars
    PROVE  ExpectInv'
<1> USE DEF Reading, RecordInv, TypeOK
<1>1. ASSUME NEW c \in Actors, NEW u \in Tasks, NEW position \in {"read", "start"}, NEW kind,
             kind # "dispatch_failed", Enter(c, position, kind, u)
      PROVE  ExpectInv'
  <2>1. status' = status /\ at'[c] = position /\ op'[c] = kind
    BY <1>1 DEF Enter, Goto, rows
  <2>2. \A b \in Actors \ {c} : at'[b] = at[b] /\ op'[b] = op[b] /\ task'[b] = task[b]
    BY <1>1 DEF Enter, Goto
  <2>3. \A a \in Actors : at'[a] = "read" => op'[a] # "dispatch_failed"
    BY <1>1, <2>1, <2>2 DEF ExpectInv
  <2>4. ASSUME NEW b \in Decided', ~Placing(b)' PROVE <<status'[task'[b]], op'[b]>> \in Paths
    <3>1. b \in Actors \ {c}
      BY <1>1, <2>1, <2>4 DEF Decided
    <3>2. b \in Decided /\ ~Placing(b)
      BY <2>2, <2>4, <3>1 DEF Decided, Placing
    <3> QED BY <2>1, <2>2, <3>1, <3>2 DEF ExpectInv
  <2> QED BY <2>3, <2>4 DEF ExpectInv
<1>2. ASSUME NEW a \in Actors, CallStep(a) PROVE ExpectInv'
  <2>1. \A b \in Actors : at'[b] = "read" => op'[b] # "dispatch_failed"
    BY <1>2, OwnRecord, OthersStay DEF ExpectInv
  <2>2. ASSUME NEW b \in Decided', b # a, ~Placing(b)'
        PROVE  <<status'[task'[b]], op'[b]>> \in Paths
    <3>1. /\ b \in Actors /\ at'[b] = at[b] /\ op'[b] = op[b] /\ task'[b] = task[b]
      BY <1>2, <2>2, OthersStay DEF Decided
    <3>2. b \in Decided /\ task[b] \in Tasks
      BY <3>1, <2>2 DEF Decided, CallInv
    <3>3. CASE Commit(a)
      <4>1. task[a] # task[b]
        BY <2>2, <3>2, <3>3, CommitRow DEF Apart
      <4>2. RowStays(task[b])
        BY <3>2, <3>3, <4>1, CommitRow
      <4> QED BY <2>2, <3>1, <3>2, <4>2, ExpectStays DEF RowStays
    <3>4. CASE StartBuild(a)
      <4>1. task[a] \in Tasks /\ host' = host
        BY <3>4 DEF StartBuild, CallInv
      <4>2. \/ status' = status
            \/ status[task[a]] = "dispatching" /\ status' = [status EXCEPT ![task[a]] = "building"]
        BY <3>4 DEF StartBuild
      <4>3. RowStays(task[b]) \/ (RowAdvances(task[b]) /\ status[task[b]] = "dispatching")
        BY <3>2, <4>1, <4>2 DEF RowStays, RowAdvances
      <4> QED BY <2>2, <3>1, <3>2, <4>3, ExpectStays DEF RowStays
    <3>5. CASE ~Commit(a) /\ ~StartBuild(a)
      <4>1. RowStays(task[b])
        BY <1>2, <3>5
        DEF CallStep, ReadTask, CountRunning, SelectHost, UpdateHost, UpdateTask, rows, RowStays
      <4> QED BY <2>2, <3>1, <3>2, <4>1, ExpectStays DEF RowStays
    <3> QED BY <3>3, <3>4, <3>5
  <2>3. ASSUME a \in Decided', ~Placing(a)' PROVE <<status'[task'[a]], op'[a]>> \in Paths
    <3>1. CASE ReadTask(a)
      <4>1. ~Return(a)
        BY <2>3 DEF Return, Goto, Decided
      <4>2. at[a] = "read" /\ MayProceed(a) /\ UNCHANGED <<status, op, task>>
        BY <3>1, <4>1 DEF ReadTask, rows
      <4> QED BY <2>3, <4>2, ReadExpects DEF Placing
    <3>2. CASE CountRunning(a)
      <4>1. Placing(a)
        BY <3>2 DEF CountRunning, CallInv
      <4>2. op' = op
        BY <2>3, <3>2 DEF CountRunning, Return, Goto, Decided
      <4> QED BY <2>3, <4>1, <4>2 DEF Placing
    <3>3. CASE SelectHost(a)
      <4>1. Placing(a) /\ a \in Decided /\ UNCHANGED <<status, task>>
        BY <3>3 DEF SelectHost, CallInv, rows, Decided
      <4>2. op' = op \/ op' = [op EXCEPT ![a] = "dispatch_failed"]
        BY <3>3, Zenon DEF SelectHost
      <4>3. op'[a] = "dispatch_failed"
        BY <2>3, <4>1, <4>2 DEF Placing
      <4>4. status[task[a]] = "queued"
        BY <4>1 DEF ApartInv
      <4>5. <<"queued", "dispatch_failed">> \in Paths
        BY DEF Paths
      <4> QED BY <4>1, <4>3, <4>4, <4>5
    <3>4. CASE UpdateHost(a) \/ UpdateTask(a)
      <4>1. a \in Decided /\ UNCHANGED <<status, op, task>>
        BY <3>4 DEF UpdateHost, UpdateTask, rows, Decided
      <4> QED BY <2>3, <4>1 DEF ExpectInv, Placing
    <3>5. ~Commit(a) /\ ~StartBuild(a)
      BY <2>3 DEF Commit, StartBuild, Return, Goto, Decided
    <3> QED BY <1>2, <3>1, <3>2, <3>3, <3>4, <3>5 DEF CallStep
  <2> QED BY <2>1, <2>2, <2>3 DEF ExpectInv
<1>3. ASSUME NEW g \in Goroutines, StartPush(g) PROVE ExpectInv'
  <2>1. g[1] \in Tasks /\ UNCHANGED <<at, op, task, host>> /\ runner[g] = "building"
    BY <1>3 DEF StartPush, calls, Goroutines
  <2>2. \/ status' = status
        \/ status[g[1]] = "building" /\ status' = [status EXCEPT ![g[1]] = "pushing"]
    BY <1>3 DEF StartPush
  <2>3. ASSUME NEW b \in Decided', ~Placing(b)' PROVE <<status'[task'[b]], op'[b]>> \in Paths
    <3>1. b \in Decided /\ b \in Actors /\ task[b] \in Tasks
      BY <2>1 DEF Decided, CallInv
    <3>2. RowStays(task[b]) \/ (RowAdvances(task[b]) /\ task[b] = g[1])
      BY <2>1, <2>2, <3>1 DEF RowStays, RowAdvances
    <3>3. ASSUME task[b] = g[1], op[b] = "build_failed" PROVE FALSE
      <4>1. b \in Goroutines
        BY <3>1, <3>3 DEF GoroutineInv, Outcomes, Actors
      <4>2. runner[b] = "none" /\ b[1] = g[1] /\ b[2] <= launched[g[1]]
        BY <3>1, <3>3, <4>1 DEF GoroutineInv, Decided
      <4>3. g[2] <= launched[g[1]] /\ launched[g[1]] \in Nat /\ launched[g[1]] <= 1
        BY <2>1, LimitsAreNat DEF GoroutineInv, OnceInv
      <4>4. b[2] \in 1..MaxLaunches /\ g[2] \in 1..MaxLaunches
        BY <4>1 DEF Goroutines
      <4>5. b[2] = g[2]
        BY <4>2, <4>3, <4>4, LimitsAreNat
      <4>6. b = g
        BY <4>1, <4>2, <4>5 DEF Goroutines
      <4> QED BY <2>1, <4>2, <4>6
    <3> QED BY <2>1, <2>3, <3>1, <3>2, <3>3, ExpectStays DEF RowStays
  <2> QED BY <2>1, <2>3 DEF ExpectInv
<1>4. ASSUME NEW g \in Goroutines, Finish(g) PROVE ExpectInv'
  BY <1>1, <1>4 DEF Finish, Actors, Goroutines
<1>5. ASSUME NEW u \in Tasks, Schedule(u) \/ \E c \in Clients : Request(c, u) PROVE ExpectInv'
  BY <1>1, <1>5 DEF Schedule, Request, Actors, Callers
<1>6. CASE UNCHANGED vars
  BY <1>6 DEF vars, rows, calls, ExpectInv, Decided, Placing
<1> QED BY <1>2, <1>3, <1>4, <1>5, <1>6 DEF Next, GoroutineStep

\* So a commit takes a path, and the statements that start a stage do.
LEMMA PathStep ==
    ASSUME Reading, ExpectInv, [Next]_vars, NEW t \in Tasks, status'[t] # status[t]
    PROVE  <<status[t], status'[t]>> \in Paths
<1>1. ASSUME NEW a \in Actors, Commit(a) PROVE <<status[t], status'[t]>> \in Paths
  <2>1. t = task[a] /\ a \in Decided
    BY <1>1, CommitRow DEF RowStays
  <2>2. CASE Placing(a)
    <3>1. status[t] = "queued" /\ status'[t] = "dispatching"
      BY <1>1, <2>1, <2>2, CommitRow
    <3> QED BY <3>1 DEF Paths
  <2>3. CASE ~Placing(a)
    <3>1. status'[t] = op[a]
      BY <1>1, <2>1, <2>3 DEF Commit, Reading, RecordInv, TypeOK
    <3> QED BY <2>1, <2>3, <3>1 DEF ExpectInv
  <2> QED BY <2>2, <2>3
<1>2. CASE ~\E a \in Actors : Commit(a)
  <2>1. RowAdvances(t)
    BY <1>2, RowStep DEF Reading, RowStays
  <2> QED BY <2>1 DEF RowAdvances, Paths
<1> QED BY <1>1, <1>2

\* While transactions keep apart the counters are exact: no cancel gives back a
\* slot that another took, or fails to give one back.
THEOREM ApartCountersAreExact == ApartSpec => []CountersExact
<1>1. Reading /\ CountersExact /\ [Next /\ Apart']_vars => (Reading /\ CountersExact)'
  BY ApartStep, CountersStep
<1> QED BY <1>1, ApartBegins, CountersBegin, PTL DEF ApartSpec

\* And each build is launched once, however many requests dispatch and start it.
THEOREM ApartLaunchesOnce == ApartSpec => []LaunchedOnce
<1>1. Reading /\ OnceInv /\ [Next /\ Apart']_vars => (Reading /\ OnceInv)'
  BY ApartStep, OnceStep
<1>2. Init => OnceInv
  BY DEF Init, OnceInv
<1>3. OnceInv => LaunchedOnce
  BY DEF OnceInv, LaunchedOnce
<1> QED BY <1>1, <1>2, <1>3, ApartBegins, PTL DEF ApartSpec

\* A status changes along the documented paths, whichever of the UPDATEs that look
\* at no status comes last: each acts on a task it has found in the right stage.
THEOREM ApartKeepsPaths == ApartSpec => PathsKept
<1> DEFINE IInv == Reading /\ OnceInv /\ GoroutineInv /\ ExpectInv
<1>1. IInv /\ [Next /\ Apart']_vars => IInv'
  BY ApartStep, OnceStep, GoroutineKept, ExpectKept DEF Reading
<1>2. IInv /\ [Next /\ Apart']_vars =>
        [\A t \in Tasks : status'[t] = status[t] \/ <<status[t], status'[t]>> \in Paths]_vars
  BY PathStep
<1>3. Init => IInv
  <2> SUFFICES ASSUME Init PROVE OnceInv /\ GoroutineInv /\ ExpectInv
    BY ApartBegins
  <2>1. Callers \subseteq Actors /\ Goroutines \subseteq Actors
    BY DEF Actors
  <2> QED BY <2>1 DEF Init, OnceInv, GoroutineInv, ExpectInv, Decided, Outcomes
<1> QED BY <1>1, <1>2, <1>3, PTL DEF ApartSpec, PathsKept

\* And a task that ended keeps its status.
THEOREM ApartEndsAreFinal == ApartSpec => EndIsFinal
<1>1. Reading /\ [Next /\ Apart']_vars => [\A t \in Tasks : Terminal(t) => status'[t] = status[t]]_vars
  <2> SUFFICES ASSUME Reading, [Next]_vars, NEW t \in Tasks, Terminal(t) PROVE status'[t] = status[t]
    OBVIOUS
  <2>1. CASE \E a \in Actors : Commit(a)
    BY <2>1, CommitRow DEF RowStays
  <2>2. CASE ~\E a \in Actors : Commit(a)
    <3>1. RowStays(t) \/ RowAdvances(t)
      BY <2>2, RowStep DEF Reading
    <3> QED BY <3>1 DEF RowStays, RowAdvances, Terminal, TerminalStatuses
  <2> QED BY <2>1, <2>2
<1> QED BY <1>1, ApartStep, ApartBegins, PTL DEF ApartSpec, EndIsFinal

\* So if the scheduler alone dispatches, and no cancel or completion overlaps it
\* on its task, no host is given more tasks than it may run.
THEOREM SchedulerAloneFillsHosts ==
    ClientOps \intersect {"dispatch", "start"} = {} =>
        (ApartSpec => [](\A h \in Hosts : Cardinality(Holders(h)) <= MaxSlots))
<1> SUFFICES ASSUME ClientOps \intersect {"dispatch", "start"} = {}
             PROVE  ApartSpec => [](\A h \in Hosts : Cardinality(Holders(h)) <= MaxSlots)
  OBVIOUS
<1>1. Cardinality(Dispatchers) = 1
  BY FS_Singleton DEF Dispatchers
<1>2. CountersExact /\ HostOvershootBounded => \A h \in Hosts : Cardinality(Holders(h)) <= MaxSlots
  <2> SUFFICES ASSUME CountersExact, HostOvershootBounded, NEW h \in Hosts
               PROVE  Cardinality(Holders(h)) <= MaxSlots
    OBVIOUS
  <2>1. running[h] = Cardinality(Holders(h)) /\ running[h] + Cardinality(Placers(h)) < MaxSlots + 1
    BY <1>1 DEF CountersExact, Holders, HostOvershootBounded
  <2> QED BY <2>1, HoldersFinite, PlacersFinite, LimitsAreNat
<1>3. [Next /\ Apart']_vars => [Next]_vars
  OBVIOUS
<1>4. ApartSpec => Spec
  BY <1>3, PTL DEF ApartSpec, Spec
<1> QED BY <1>2, <1>4, ApartCountersAreExact, HostOvershootIsBounded, PTL
=============================================================================
