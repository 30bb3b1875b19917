------------------------------ MODULE Artifacts ------------------------------
(***************************************************************************)
(* Image artifacts and their push events.  An artifact is recorded at the  *)
(* end of a build or of a repush, which pushes an existing one again and   *)
(* runs within a request: what the request has read may be out of date     *)
(* when the push ends, and the request may be over by then.                *)
(***************************************************************************)
EXTENDS Naturals

CONSTANTS ArtifactIds,    \* identifiers of artifacts, in the order they are drawn
          Events,         \* identifiers of push events, likewise
          Nodes,          \* version nodes
          PushTargets,    \* registries
          Repushers,      \* repush requests in flight at one time
          NoArtifact

ASSUME ArtifactIdsAreNumbers == ArtifactIds \subseteq Nat /\ Events \subseteq Nat
ASSUME NoArtifactIsNoId == NoArtifact \notin ArtifactIds

VARIABLES
    artifact,       \* image_artifacts rows
    pushEvent,      \* artifact_push_events rows
    latestArtifact, \* image_version_nodes.latest_artifact_id
    inRegistry,     \* what has been pushed: a node's image, to a registry
    repushing       \* each repush: its step and what it has read

artifactVars == <<artifact, pushEvent, latestArtifact, inRegistry, repushing>>

NoRepush == [step |-> "idle"]

ArtifactRow == [exists : {TRUE}, node : Nodes, registry : PushTargets,
                status : {"available", "archived"}, deprecated : BOOLEAN]
NoRow == [exists |-> FALSE]

EventRow == [status : {"success", "failed"}, artifact : ArtifactIds, registry : PushTargets]
NoEvent == [status |-> "none"]

Fresh(used, ids) == {i \in ids \ used : \A j \in ids : j < i => j \in used}
FreshArtifact == Fresh({a \in ArtifactIds : artifact[a].exists}, ArtifactIds)
FreshEvent == Fresh({e \in Events : pushEvent[e].status # "none"}, Events)

Go(q, w) == repushing' = [repushing EXCEPT ![q] = w]

-----------------------------------------------------------------------------
(* Recording *)

InsertArtifact(a, n, r) ==
    artifact' = [artifact EXCEPT ![a] = [exists |-> TRUE, node |-> n, registry |-> r,
                                         status |-> "available", deprecated |-> FALSE]]

InsertEvent(e, status, a, r) ==
    pushEvent' = [pushEvent EXCEPT ![e] = [status |-> status, artifact |-> a, registry |-> r]]

\* RecordPushed: one transaction.
RecordPushed(a, e, n, r) ==
    /\ InsertArtifact(a, n, r)
    /\ InsertEvent(e, "success", a, r)
    /\ latestArtifact' = [latestArtifact EXCEPT ![n] = a]

\* A task of the scheduler or of another request ends with its push, in a
\* context of its own.
BuildPushed(n, r) ==
    \E a \in FreshArtifact, e \in FreshEvent :
        /\ inRegistry' = inRegistry \union {<<n, r>>}
        /\ RecordPushed(a, e, n, r)
        /\ UNCHANGED repushing

-----------------------------------------------------------------------------
(* Repush *)

FindArtifact(a) == artifact[a].exists

\* Repush, up to the call of the executor: the registry is the artifact's own
\* unless the request names another.  At this moment it exists, allows pushes
\* and is not disabled, which may be so of any at some moment (see Registries).
StartRepush(q, a, r) ==
    /\ repushing[q] = NoRepush
    /\ FindArtifact(a)
    /\ Go(q, [step |-> "pushing", of |-> a, node |-> artifact[a].node, registry |-> r])
    /\ UNCHANGED <<artifact, pushEvent, latestArtifact, inRegistry>>

\* The executor's push ends well.
PushImage(q) ==
    /\ repushing[q].step = "pushing"
    /\ inRegistry' = inRegistry \union {<<repushing[q].node, repushing[q].registry>>}
    /\ Go(q, [repushing[q] EXCEPT !.step = "pushed"])
    /\ UNCHANGED <<artifact, pushEvent, latestArtifact>>

PushFails(q) ==
    /\ repushing[q].step = "pushing"
    /\ Go(q, [repushing[q] EXCEPT !.step = "failed"])
    /\ UNCHANGED <<artifact, pushEvent, latestArtifact, inRegistry>>

RepushRecorded(q) ==
    \E a \in FreshArtifact, e \in FreshEvent :
        /\ repushing[q].step = "pushed"
        /\ RecordPushed(a, e, repushing[q].node, repushing[q].registry)
        /\ Go(q, NoRepush)
        /\ UNCHANGED inRegistry

\* mutant: the event names the artifact that a push would have created
RecordPushEventNew(q) ==
    \E a \in FreshArtifact, e \in FreshEvent :
        /\ repushing[q].step = "failed"
        /\ InsertEvent(e, "failed", a, repushing[q].registry)
        /\ Go(q, NoRepush)
        /\ UNCHANGED <<artifact, latestArtifact, inRegistry>>

\* RecordPushEvent: of a failed push there is an event of the artifact pushed again.
RecordPushEvent(q) ==
    \E e \in FreshEvent :
        /\ repushing[q].step = "failed"
        /\ InsertEvent(e, "failed", repushing[q].of, repushing[q].registry)
        /\ Go(q, NoRepush)
        /\ UNCHANGED <<artifact, latestArtifact, inRegistry>>

\* The 60 s of the request are over: the push is killed, though it may have
\* reached the registry, and what is recorded after it fails as well.
RepushTimesOut(q) ==
    /\ repushing[q] # NoRepush
    /\ \/ UNCHANGED inRegistry
       \/ /\ repushing[q].step = "pushing"
          /\ inRegistry' = inRegistry \union {<<repushing[q].node, repushing[q].registry>>}
    /\ Go(q, NoRepush)
    /\ UNCHANGED <<artifact, pushEvent, latestArtifact>>

-----------------------------------------------------------------------------
(* Other requests *)

Archive(a) == /\ FindArtifact(a)
              /\ artifact' = [artifact EXCEPT ![a].status = "archived"]
              /\ UNCHANGED <<pushEvent, latestArtifact, inRegistry, repushing>>

Deprecate(a) == /\ FindArtifact(a)
                /\ artifact' = [artifact EXCEPT ![a].deprecated = TRUE]
                /\ UNCHANGED <<pushEvent, latestArtifact, inRegistry, repushing>>

-----------------------------------------------------------------------------

ArtifactInit ==
    /\ artifact = [a \in ArtifactIds |-> NoRow]
    /\ pushEvent = [e \in Events |-> NoEvent]
    /\ latestArtifact = [n \in Nodes |-> NoArtifact]
    /\ inRegistry = {}
    /\ repushing = [q \in Repushers |-> NoRepush]

ArtifactNext ==
    \/ \E n \in Nodes, r \in PushTargets : BuildPushed(n, r)
    \/ \E q \in Repushers, a \in ArtifactIds, r \in PushTargets : StartRepush(q, a, r)
    \/ \E q \in Repushers : \/ PushImage(q) \/ PushFails(q) \/ RepushRecorded(q)
                            \/ RecordPushEvent(q) \/ RepushTimesOut(q)
    \/ \E a \in ArtifactIds : Archive(a) \/ Deprecate(a)

ArtifactSpec == ArtifactInit /\ [][ArtifactNext]_artifactVars

-----------------------------------------------------------------------------
(* Properties *)

ArtifactTypeOK == /\ artifact \in [ArtifactIds -> ArtifactRow \union {NoRow}]
                  /\ pushEvent \in [Events -> EventRow \union {NoEvent}]
                  /\ latestArtifact \in [Nodes -> ArtifactIds \union {NoArtifact}]
                  /\ inRegistry \subseteq Nodes \X PushTargets

\* Every artifact has exactly one successful push event, for its own registry,
\* and every event is of an artifact: the history of pushes and the artifacts do
\* not come apart, wherever requests are cut off.
EventPerArtifact ==
    /\ \A a \in ArtifactIds : artifact[a].exists =>
         \E e \in Events : /\ pushEvent[e].status = "success" /\ pushEvent[e].artifact = a
                           /\ pushEvent[e].registry = artifact[a].registry
                           /\ \A f \in Events \ {e} : ~(/\ pushEvent[f].status = "success"
                                                        /\ pushEvent[f].artifact = a)
    /\ \A e \in Events : pushEvent[e].status # "none" => artifact[pushEvent[e].artifact].exists

\* What is recorded as an artifact has been pushed to the registry it names.
RecordedWasPushed ==
    \A a \in ArtifactIds : artifact[a].exists => <<artifact[a].node, artifact[a].registry>> \in inRegistry

\* The latest artifact of a version is the one that was recorded last for it.
LatestArtifactIsLast ==
    \A n \in Nodes :
        LET Of == {a \in ArtifactIds : artifact[a].exists /\ artifact[a].node = n}
        IN IF Of = {} THEN latestArtifact[n] = NoArtifact
                      ELSE latestArtifact[n] \in Of /\ \A a \in Of : a <= latestArtifact[n]

\* Artifacts, the history of pushes, the registry and the latest artifact of a
\* version agree, wherever requests are cut off: see the three parts.
ArtifactHistory == EventPerArtifact /\ RecordedWasPushed /\ LatestArtifactIsLast

=============================================================================
