--------------------------- MODULE TaskLifecycle ---------------------------
(***************************************************************************)
(* What the build task service promises about build tasks, with none of    *)
(* its machinery: no running counters, no requests, no scheduler, no       *)
(* executor and no database connection.  A task is submitted once, may be  *)
(* placed once on a host that has a free slot while fewer than GlobalLimit *)
(* tasks are active, is begun at most once and ends at most once, in a     *)
(* status that its stage allows.  BuildTask.tla is shown to implement it.  *)
(***************************************************************************)
EXTENDS Naturals, FiniteSets

CONSTANTS Tasks,        \* identifiers of build_tasks rows
          Hosts,        \* identifiers of build_hosts rows
          NoHost,       \* host_id IS NULL
          GlobalLimit,  \* scheduler.global_concurrency
          MaxSlots      \* bound on the max_concurrency values considered

VARIABLES status,     \* status of each task, "absent" before it is created
          host,       \* host the task was placed on
          published,  \* tasks whose pushed image has an artifact record
          capacity    \* max_concurrency of each host

vars == <<status, host, published, capacity>>

ActiveStatuses == {"dispatching", "building", "pushing"}

Active == {t \in Tasks : status[t] \in ActiveStatuses}

On(h) == {t \in Active : host[t] = h}

Init == /\ status = [t \in Tasks |-> "absent"]
        /\ host = [t \in Tasks |-> NoHost]
        /\ published = {}
        /\ capacity \in [Hosts -> 1..MaxSlots]

Move(t, from, to) == /\ status[t] = from
                     /\ status' = [status EXCEPT ![t] = to]

Submit(t) == Move(t, "absent", "queued") /\ UNCHANGED <<host, published, capacity>>

Place(t, h) == /\ Move(t, "queued", "dispatching")
               /\ Cardinality(Active) < GlobalLimit
               /\ Cardinality(On(h)) < capacity[h]
               /\ host' = [host EXCEPT ![t] = h]
               /\ UNCHANGED <<published, capacity>>

Begin(t) == Move(t, "dispatching", "building") /\ UNCHANGED <<host, published, capacity>>

BeginPush(t) == Move(t, "building", "pushing") /\ UNCHANGED <<host, published, capacity>>

\* The artifact of a pushed image is recorded once; the task may have been
\* closed by a canceling user, or by a second Start, in the meantime.
Publish(t) == /\ t \notin published
              /\ status[t] \in {"pushing", "canceled", "preparing_context_failed"}
              /\ published' = published \union {t}
              /\ UNCHANGED <<status, host, capacity>>

\* The final statuses each stage may end in.
Outcomes(t) ==
    CASE status[t] = "queued"      -> {"canceled", "dispatch_failed"}
      [] status[t] = "dispatching" -> {"canceled", "preparing_context_failed"}
      [] status[t] = "building"    -> {"canceled", "preparing_context_failed",
                                       "build_failed", "timeout"}
      [] status[t] = "pushing"     -> {"canceled", "preparing_context_failed"} \union
                                      (IF t \in published
                                         THEN {"push_success"}
                                         ELSE {"push_failed", "timeout"})
      [] OTHER                     -> {}

End(t) == /\ \E s \in Outcomes(t) : status' = [status EXCEPT ![t] = s]
          /\ UNCHANGED <<host, published, capacity>>

Resize(h) == /\ \E n \in 1..MaxSlots : capacity' = [capacity EXCEPT ![h] = n]
             /\ UNCHANGED <<status, host, published>>

Next == \/ \E t \in Tasks : \/ Submit(t) \/ Begin(t) \/ BeginPush(t)
                            \/ Publish(t) \/ End(t)
                            \/ \E h \in Hosts : Place(t, h)
        \/ \E h \in Hosts : Resize(h)

Spec == Init /\ [][Next]_vars
=============================================================================
