---------------------------- MODULE ExecutionProofs ----------------------------
(***************************************************************************)
(* What a build leaves behind: the histories of artifacts, the files a     *)
(* task's log and context are kept in, and the commands an executor runs.  *)
(* Each part has an inductive invariant, its steps and the theorems of the *)
(* specification that follow from it.                                      *)
(***************************************************************************)
EXTENDS Artifacts, BuildFiles, Executor, FiniteSetTheorems, SequenceTheorems, TLAPS
-----------------------------------------------------------------------------
(* Artifacts: the invariant *)

\* What a repush has read once it has begun.
RepushRow == [step : {"pushing", "pushed", "failed"}, of : ArtifactIds, node : Nodes,
              registry : PushTargets]

\* A repush knows an artifact that exists, and has pushed what it is to record.
RepushInv ==
    /\ repushing \in [Repushers -> RepushRow \union {NoRepush}]
    /\ \A q \in Repushers : repushing[q] # NoRepush =>
        LET w == repushing[q]
        IN /\ FindArtifact(w.of)
           /\ w.step = "pushed" => <<w.node, w.registry>> \in inRegistry

\* Identifiers are drawn in order.
InOrderInv == \A a, b \in ArtifactIds : artifact[a].exists /\ b < a => artifact[b].exists

ArtifactInv == ArtifactTypeOK /\ RepushInv /\ InOrderInv /\ ArtifactHistory

-----------------------------------------------------------------------------
(* Artifacts: steps *)

\* The row of an artifact that exists.
LEMMA ExistingRow ==
    ASSUME ArtifactTypeOK, NEW a \in ArtifactIds
    PROVE  /\ artifact[a].exists \in BOOLEAN
           /\ artifact[a].exists => artifact[a] \in ArtifactRow
<1>1. artifact[a] \in ArtifactRow \/ artifact[a] = NoRow
  BY DEF ArtifactTypeOK
<1>2. NoRow.exists = FALSE
  BY DEF NoRow
<1>3. CASE artifact[a] \in ArtifactRow
  BY <1>3 DEF ArtifactRow
<1>4. CASE artifact[a] = NoRow
  BY <1>2, <1>4
<1> QED BY <1>1, <1>3, <1>4

\* A fresh identifier is greater than all in use.
LEMMA FreshIsGreater ==
    ASSUME ArtifactTypeOK, InOrderInv, NEW a \in FreshArtifact
    PROVE  /\ a \in ArtifactIds /\ ~artifact[a].exists
           /\ \A b \in ArtifactIds : artifact[b].exists => b < a
           /\ \A b \in ArtifactIds : b < a => artifact[b].exists
<1>1. /\ a \in ArtifactIds /\ ~artifact[a].exists
      /\ \A b \in ArtifactIds : b < a => artifact[b].exists
  BY DEF FreshArtifact, Fresh
<1>2. ASSUME NEW b \in ArtifactIds, artifact[b].exists PROVE b < a
  <2>1. a \in Nat /\ b \in Nat /\ a # b /\ ~(a < b)
    BY <1>1, <1>2, ArtifactIdsAreNumbers DEF InOrderInv
  <2> QED BY <2>1
<1> QED BY <1>1, <1>2

\* An artifact and its event are recorded together, once the image is there.
LEMMA RecordKeeps ==
    ASSUME ArtifactInv, NEW a \in FreshArtifact, NEW e \in FreshEvent, NEW n \in Nodes,
           NEW r \in PushTargets, RecordPushed(a, e, n, r),
           inRegistry \subseteq inRegistry', inRegistry' \subseteq Nodes \X PushTargets,
           <<n, r>> \in inRegistry'
    PROVE  ArtifactTypeOK' /\ InOrderInv' /\ ArtifactHistory'
<1> USE DEF ArtifactInv
<1> DEFINE row == [exists |-> TRUE, node |-> n, registry |-> r,
                   status |-> "available", deprecated |-> FALSE]
           event == [status |-> "success", artifact |-> a, registry |-> r]
<1>1. /\ artifact' = [artifact EXCEPT ![a] = row]
      /\ pushEvent' = [pushEvent EXCEPT ![e] = event]
      /\ latestArtifact' = [latestArtifact EXCEPT ![n] = a]
  BY DEF RecordPushed, InsertArtifact, InsertEvent
<1>2. /\ a \in ArtifactIds /\ ~artifact[a].exists
      /\ \A b \in ArtifactIds : artifact[b].exists => b < a
      /\ \A b \in ArtifactIds : b < a => artifact[b].exists
  BY FreshIsGreater
<1>3. e \in Events /\ pushEvent[e].status = "none"
  BY DEF FreshEvent, Fresh
<1>4. row \in ArtifactRow /\ row.exists /\ row.node = n /\ row.registry = r
  BY DEF ArtifactRow
<1>5. event \in EventRow /\ event.status = "success" /\ event.artifact = a /\ event.registry = r
  BY <1>2 DEF EventRow
<1> HIDE DEF row, event
<1>6. ArtifactTypeOK'
  BY <1>1, <1>2, <1>3, <1>4, <1>5 DEF ArtifactTypeOK
<1>7. /\ artifact'[a] = row /\ \A b \in ArtifactIds \ {a} : artifact'[b] = artifact[b]
      /\ pushEvent'[e] = event /\ \A f \in Events \ {e} : pushEvent'[f] = pushEvent[f]
      /\ latestArtifact'[n] = a /\ \A m \in Nodes \ {n} : latestArtifact'[m] = latestArtifact[m]
  BY <1>1, <1>2, <1>3 DEF ArtifactTypeOK
<1>8. InOrderInv'
  <2> SUFFICES ASSUME NEW b \in ArtifactIds, NEW c \in ArtifactIds, artifact'[b].exists, c < b
               PROVE  artifact'[c].exists
    BY DEF InOrderInv
  <2>1. CASE c = a
    BY <1>4, <1>7, <2>1
  <2>2. CASE b = a /\ c # a
    BY <1>2, <1>7, <2>2
  <2>3. CASE b # a /\ c # a
    BY <1>7, <2>3 DEF InOrderInv
  <2> QED BY <2>1, <2>2, <2>3
<1>9. \A f \in Events : pushEvent[f].status # "none" =>
        pushEvent[f].artifact \in ArtifactIds \ {a} /\ artifact[pushEvent[f].artifact].exists
  <2> SUFFICES ASSUME NEW f \in Events, pushEvent[f].status # "none"
               PROVE  pushEvent[f].artifact \in ArtifactIds \ {a}
                        /\ artifact[pushEvent[f].artifact].exists
    OBVIOUS
  <2>1. pushEvent[f] \in EventRow
    BY DEF ArtifactTypeOK, NoEvent
  <2>2. artifact[pushEvent[f].artifact].exists
    BY DEF ArtifactHistory, EventPerArtifact
  <2> QED BY <1>2, <2>1, <2>2 DEF EventRow
<1>10. EventPerArtifact'
  <2>1. ASSUME NEW b \in ArtifactIds, artifact'[b].exists
        PROVE  \E d \in Events : /\ pushEvent'[d].status = "success" /\ pushEvent'[d].artifact = b
                                 /\ pushEvent'[d].registry = artifact'[b].registry
                                 /\ \A f \in Events \ {d} : ~(/\ pushEvent'[f].status = "success"
                                                              /\ pushEvent'[f].artifact = b)
    <3>1. CASE b = a
      BY <1>3, <1>4, <1>5, <1>7, <1>9, <3>1
    <3>2. CASE b # a
      <4>1. artifact[b].exists /\ artifact'[b] = artifact[b]
        BY <1>7, <2>1, <3>2
      <4>2. PICK d \in Events : /\ pushEvent[d].status = "success" /\ pushEvent[d].artifact = b
                                /\ pushEvent[d].registry = artifact[b].registry
                                /\ \A f \in Events \ {d} : ~(/\ pushEvent[f].status = "success"
                                                             /\ pushEvent[f].artifact = b)
        BY <4>1 DEF ArtifactHistory, EventPerArtifact
      <4>3. d # e /\ pushEvent'[d] = pushEvent[d]
        BY <1>3, <1>7, <4>2
      <4>4. \A f \in Events \ {d} : ~(pushEvent'[f].status = "success" /\ pushEvent'[f].artifact = b)
        BY <1>5, <1>7, <3>2, <4>2
      <4> QED BY <4>1, <4>2, <4>3, <4>4
    <3> QED BY <3>1, <3>2
  <2>2. ASSUME NEW f \in Events, pushEvent'[f].status # "none"
        PROVE  artifact'[pushEvent'[f].artifact].exists
    <3>1. CASE f = e
      BY <1>4, <1>5, <1>7, <3>1
    <3>2. CASE f # e
      BY <1>7, <1>9, <2>2, <3>2
    <3> QED BY <3>1, <3>2
  <2> QED BY <2>1, <2>2 DEF EventPerArtifact
<1>11. RecordedWasPushed'
  BY <1>4, <1>7 DEF ArtifactHistory, RecordedWasPushed
<1>12. LatestArtifactIsLast'
  <2> SUFFICES ASSUME NEW m \in Nodes
               PROVE  LET Of == {b \in ArtifactIds : artifact'[b].exists /\ artifact'[b].node = m}
                      IN IF Of = {} THEN latestArtifact'[m] = NoArtifact
                                    ELSE /\ latestArtifact'[m] \in Of
                                         /\ \A b \in Of : b <= latestArtifact'[m]
    BY DEF LatestArtifactIsLast
  <2> DEFINE Of == {b \in ArtifactIds : artifact[b].exists /\ artifact[b].node = m}
             Now == {b \in ArtifactIds : artifact'[b].exists /\ artifact'[b].node = m}
  <2>1. IF Of = {} THEN latestArtifact[m] = NoArtifact
                   ELSE latestArtifact[m] \in Of /\ \A b \in Of : b <= latestArtifact[m]
    BY DEF ArtifactHistory, LatestArtifactIsLast
  <2>2. CASE m = n
    <3>1. Now = Of \union {a}
      BY <1>2, <1>4, <1>7, <2>2
    <3>2. \A b \in Of : b \in Nat /\ a \in Nat /\ b <= a
      BY <1>2, ArtifactIdsAreNumbers
    <3>3. a \in Nat
      BY <1>2, ArtifactIdsAreNumbers
    <3> HIDE DEF Of, Now
    <3>4. latestArtifact'[m] \in Now /\ \A b \in Now : b <= latestArtifact'[m]
      BY <1>7, <2>2, <3>1, <3>2, <3>3
    <3>5. Now # {}
      BY <3>1
    <3> QED BY <3>4, <3>5 DEF Now
  <2>3. CASE m # n
    <3>1. Now = Of
      BY <1>2, <1>4, <1>7, <2>3
    <3> QED BY <1>7, <2>1, <2>3, <3>1
  <2> QED BY <2>2, <2>3
<1> QED BY <1>6, <1>8, <1>10, <1>11, <1>12 DEF ArtifactHistory

\* What a repush knows stays so when artifacts are only added and pushes too.
LEMMA RepushKeeps ==
    ASSUME RepushInv, inRegistry \subseteq inRegistry',
           \A a \in ArtifactIds : FindArtifact(a) => FindArtifact(a)',
           \/ UNCHANGED repushing
           \/ \E q \in Repushers : Go(q, NoRepush)
           \/ \E q \in Repushers, w \in RepushRow :
                /\ artifact'[w.of].exists
                /\ w.step = "pushed" => <<w.node, w.registry>> \in inRegistry'
                /\ Go(q, w)
    PROVE  RepushInv'
<1>1. CASE UNCHANGED repushing
  BY <1>1 DEF RepushInv, FindArtifact, RepushRow
<1>2. ASSUME NEW q \in Repushers, Go(q, NoRepush) PROVE RepushInv'
  BY <1>2 DEF RepushInv, Go, FindArtifact, RepushRow
<1>3. ASSUME NEW q \in Repushers, NEW w \in RepushRow, artifact'[w.of].exists,
             w.step = "pushed" => <<w.node, w.registry>> \in inRegistry', Go(q, w)
      PROVE  RepushInv'
  <2>1. repushing' = [repushing EXCEPT ![q] = w]
    BY <1>3 DEF Go
  <2>2. /\ repushing' \in [Repushers -> RepushRow \union {NoRepush}] /\ repushing'[q] = w
        /\ \A p \in Repushers \ {q} : repushing'[p] = repushing[p]
    BY <2>1 DEF RepushInv
  <2>3. ASSUME NEW p \in Repushers, repushing'[p] # NoRepush
        PROVE  /\ artifact'[repushing'[p].of].exists
               /\ repushing'[p].step = "pushed"
                    => <<repushing'[p].node, repushing'[p].registry>> \in inRegistry'
    <3>1. CASE p = q
      BY <1>3, <2>2, <3>1
    <3>2. CASE p # q
      <4>1. repushing[p] \in RepushRow
        BY <2>2, <2>3, <3>2 DEF RepushInv
      <4>2. repushing[p].of \in ArtifactIds
        BY <4>1 DEF RepushRow
      <4> QED BY <2>2, <2>3, <3>2, <4>2 DEF RepushInv, FindArtifact
    <3> QED BY <3>1, <3>2
  <2> QED BY <2>2, <2>3 DEF RepushInv, FindArtifact
<1> QED BY <1>1, <1>2, <1>3

\* A repush that is past its start is a record of what it has read.
LEMMA RepushRecord ==
    ASSUME RepushInv, NEW q \in Repushers, repushing[q].step \in {"pushing", "pushed", "failed"}
    PROVE  /\ repushing[q] \in RepushRow
           /\ repushing[q].of \in ArtifactIds /\ repushing[q].node \in Nodes
           /\ repushing[q].registry \in PushTargets
           /\ FindArtifact(repushing[q].of)
           /\ repushing[q].step = "pushed"
                => <<repushing[q].node, repushing[q].registry>> \in inRegistry
<1>1. NoRepush.step = "idle"
  BY DEF NoRepush
<1>2. repushing[q] # NoRepush
  BY <1>1
<1>3. repushing[q] \in RepushRow
  BY <1>2 DEF RepushInv
<1> QED BY <1>2, <1>3 DEF RepushInv, RepushRow

\* A change of what a row says of its status leaves the history alone.
LEMMA RowKeeps ==
    ASSUME ArtifactInv, NEW a \in ArtifactIds, NEW row \in ArtifactRow, FindArtifact(a),
           row.node = artifact[a].node, row.registry = artifact[a].registry,
           artifact' = [artifact EXCEPT ![a] = row],
           UNCHANGED <<pushEvent, latestArtifact, inRegistry>>
    PROVE  ArtifactTypeOK' /\ InOrderInv' /\ ArtifactHistory'
<1> USE DEF ArtifactInv
<1>1. artifact' \in [ArtifactIds -> ArtifactRow \union {NoRow}]
  BY DEF ArtifactTypeOK
<1>2. row.exists
  BY DEF ArtifactRow
<1>3. \A b \in ArtifactIds : /\ artifact'[b].exists <=> artifact[b].exists
                             /\ artifact[b].exists => /\ artifact'[b].node = artifact[b].node
                                                      /\ artifact'[b].registry = artifact[b].registry
  BY <1>2 DEF ArtifactTypeOK, FindArtifact
<1>4. ArtifactTypeOK'
  BY <1>1 DEF ArtifactTypeOK
<1>5. InOrderInv'
  BY <1>3 DEF InOrderInv
<1>6. \A e \in Events : pushEvent[e].status # "none" => pushEvent[e].artifact \in ArtifactIds
  <2> SUFFICES ASSUME NEW e \in Events, pushEvent[e].status # "none"
               PROVE  pushEvent[e].artifact \in ArtifactIds
    OBVIOUS
  <2>1. pushEvent[e] \in EventRow
    BY DEF ArtifactTypeOK, NoEvent
  <2> QED BY <2>1 DEF EventRow
<1>7. EventPerArtifact'
  <2>1. ASSUME NEW b \in ArtifactIds, artifact'[b].exists
        PROVE  \E d \in Events : /\ pushEvent[d].status = "success" /\ pushEvent[d].artifact = b
                                 /\ pushEvent[d].registry = artifact'[b].registry
                                 /\ \A f \in Events \ {d} : ~(/\ pushEvent[f].status = "success"
                                                              /\ pushEvent[f].artifact = b)
    <3>1. artifact[b].exists /\ artifact'[b].registry = artifact[b].registry
      BY <1>3, <2>1
    <3> QED BY <3>1 DEF ArtifactHistory, EventPerArtifact
  <2>2. \A e \in Events : pushEvent[e].status # "none" => artifact'[pushEvent[e].artifact].exists
    BY <1>3, <1>6 DEF ArtifactHistory, EventPerArtifact
  <2> QED BY <2>1, <2>2 DEF EventPerArtifact
<1>8. RecordedWasPushed'
  BY <1>3 DEF ArtifactHistory, RecordedWasPushed
<1>9. LatestArtifactIsLast'
  <2> SUFFICES ASSUME NEW m \in Nodes
               PROVE  LET Of == {b \in ArtifactIds : artifact'[b].exists /\ artifact'[b].node = m}
                      IN IF Of = {} THEN latestArtifact[m] = NoArtifact
                                    ELSE /\ latestArtifact[m] \in Of
                                         /\ \A b \in Of : b <= latestArtifact[m]
    BY DEF LatestArtifactIsLast
  <2> DEFINE Of == {b \in ArtifactIds : artifact[b].exists /\ artifact[b].node = m}
  <2>1. IF Of = {} THEN latestArtifact[m] = NoArtifact
                   ELSE latestArtifact[m] \in Of /\ \A b \in Of : b <= latestArtifact[m]
    BY DEF ArtifactHistory, LatestArtifactIsLast
  <2>2. Of = {b \in ArtifactIds : artifact'[b].exists /\ artifact'[b].node = m}
    BY <1>3
  <2> QED BY <2>1, <2>2
<1> QED BY <1>4, <1>5, <1>7, <1>8, <1>9 DEF ArtifactHistory

-----------------------------------------------------------------------------
(* Artifacts: the theorems *)

\* Nothing but the row of an artifact, an event and a latest artifact is recorded.
LEMMA RecordAddsOne ==
    ASSUME ArtifactTypeOK, NEW a \in ArtifactIds, NEW n, NEW r, InsertArtifact(a, n, r)
    PROVE  \A b \in ArtifactIds : FindArtifact(b) => FindArtifact(b)'
<1> DEFINE row == [exists |-> TRUE, node |-> n, registry |-> r,
                   status |-> "available", deprecated |-> FALSE]
<1>1. artifact' = [artifact EXCEPT ![a] = row] /\ row.exists
  BY DEF InsertArtifact
<1> HIDE DEF row
<1> QED BY <1>1 DEF ArtifactTypeOK, FindArtifact

\* An artifact is recorded with its image, whether a build or a repush has pushed it.
LEMMA RecordingKeeps ==
    ASSUME ArtifactInv
    PROVE  /\ \A n \in Nodes, r \in PushTargets : BuildPushed(n, r) => ArtifactInv'
           /\ \A q \in Repushers : RepushRecorded(q) => ArtifactInv'
<1> USE DEF ArtifactInv
<1>1. \A a \in FreshArtifact : a \in ArtifactIds
  BY DEF FreshArtifact, Fresh
<1>2. ASSUME NEW n \in Nodes, NEW r \in PushTargets, BuildPushed(n, r) PROVE ArtifactInv'
  <2>1. PICK a \in FreshArtifact, e \in FreshEvent :
          /\ inRegistry' = inRegistry \union {<<n, r>>}
          /\ RecordPushed(a, e, n, r) /\ UNCHANGED repushing
    BY <1>2 DEF BuildPushed
  <2>2. /\ inRegistry \subseteq inRegistry' /\ inRegistry' \subseteq Nodes \X PushTargets
        /\ <<n, r>> \in inRegistry'
    BY <2>1 DEF ArtifactTypeOK
  <2>3. ArtifactTypeOK' /\ InOrderInv' /\ ArtifactHistory'
    BY <2>1, <2>2, RecordKeeps
  <2>4. \A b \in ArtifactIds : FindArtifact(b) => FindArtifact(b)'
    BY <1>1, <2>1, RecordAddsOne DEF RecordPushed
  <2>5. RepushInv'
    BY <2>1, <2>2, <2>4, RepushKeeps
  <2> QED BY <2>3, <2>5
<1>3. ASSUME NEW q \in Repushers, RepushRecorded(q) PROVE ArtifactInv'
  <2> DEFINE n == repushing[q].node
             r == repushing[q].registry
  <2>1. PICK a \in FreshArtifact, e \in FreshEvent :
          /\ repushing[q].step = "pushed" /\ RecordPushed(a, e, n, r)
          /\ Go(q, NoRepush) /\ UNCHANGED inRegistry
    BY <1>3 DEF RepushRecorded
  <2>2. n \in Nodes /\ r \in PushTargets /\ <<n, r>> \in inRegistry
    BY <2>1, RepushRecord
  <2> HIDE DEF n, r
  <2>3. /\ inRegistry \subseteq inRegistry' /\ inRegistry' \subseteq Nodes \X PushTargets
        /\ <<n, r>> \in inRegistry'
    BY <2>1, <2>2 DEF ArtifactTypeOK
  <2>4. ArtifactTypeOK' /\ InOrderInv' /\ ArtifactHistory'
    BY <2>1, <2>2, <2>3, RecordKeeps
  <2>5. \A b \in ArtifactIds : FindArtifact(b) => FindArtifact(b)'
    BY <1>1, <2>1, RecordAddsOne DEF RecordPushed
  <2>6. RepushInv'
    BY <2>1, <2>3, <2>5, RepushKeeps
  <2> QED BY <2>4, <2>6
<1> QED BY <1>2, <1>3

\* The steps of a repush that record no artifact.
LEMMA RepushStepKeeps ==
    ASSUME ArtifactInv, NEW q \in Repushers,
           \/ \E a \in ArtifactIds, r \in PushTargets : StartRepush(q, a, r)
           \/ PushImage(q) \/ PushFails(q) \/ RepushTimesOut(q)
    PROVE  ArtifactInv'
<1> USE DEF ArtifactInv
<1>1. UNCHANGED <<artifact, pushEvent, latestArtifact>>
  BY DEF StartRepush, PushImage, PushFails, RepushTimesOut
<1>2. inRegistry \subseteq inRegistry' /\ inRegistry' \subseteq Nodes \X PushTargets
  <2>1. CASE UNCHANGED inRegistry
    BY <2>1 DEF ArtifactTypeOK
  <2>2. CASE repushing[q].step = "pushing"
             /\ inRegistry' = inRegistry \union {<<repushing[q].node, repushing[q].registry>>}
    BY <2>2, RepushRecord DEF ArtifactTypeOK
  <2> QED BY <2>1, <2>2 DEF StartRepush, PushImage, PushFails, RepushTimesOut
<1>3. ArtifactTypeOK' /\ InOrderInv' /\ ArtifactHistory'
  <2>1. ArtifactTypeOK' /\ InOrderInv'
    BY <1>1, <1>2 DEF ArtifactTypeOK, InOrderInv
  <2>2. EventPerArtifact' /\ LatestArtifactIsLast'
    BY <1>1 DEF ArtifactHistory, EventPerArtifact, LatestArtifactIsLast
  <2>3. RecordedWasPushed'
    BY <1>1, <1>2 DEF ArtifactHistory, RecordedWasPushed
  <2> QED BY <2>1, <2>2, <2>3 DEF ArtifactHistory
<1>4. \A a \in ArtifactIds : FindArtifact(a) => FindArtifact(a)'
  BY <1>1 DEF FindArtifact
<1>5. RepushInv'
  <2>1. ASSUME NEW a \in ArtifactIds, NEW r \in PushTargets, StartRepush(q, a, r) PROVE RepushInv'
    <3> DEFINE w == [step |-> "pushing", of |-> a, node |-> artifact[a].node, registry |-> r]
    <3>1. artifact[a] \in ArtifactRow
      BY <2>1, ExistingRow DEF StartRepush, FindArtifact
    <3>2. w \in RepushRow /\ w.of = a /\ w.step = "pushing"
      BY <3>1 DEF RepushRow, ArtifactRow
    <3>3. Go(q, w) /\ artifact'[a].exists
      BY <1>1, <2>1 DEF StartRepush, FindArtifact
    <3> HIDE DEF w
    <3> QED BY <1>2, <1>4, <3>2, <3>3, RepushKeeps
  <2>2. CASE PushImage(q)
    <3> DEFINE w == [repushing[q] EXCEPT !.step = "pushed"]
    <3>1. repushing[q] \in RepushRow /\ FindArtifact(repushing[q].of)
      BY <2>2, RepushRecord DEF PushImage
    <3>2. /\ w \in RepushRow /\ w.of = repushing[q].of /\ w.node = repushing[q].node
          /\ w.registry = repushing[q].registry
      BY <3>1 DEF RepushRow
    <3>3. /\ Go(q, w) /\ artifact'[repushing[q].of].exists
          /\ <<repushing[q].node, repushing[q].registry>> \in inRegistry'
      BY <1>1, <2>2, <3>1 DEF PushImage, FindArtifact
    <3> HIDE DEF w
    <3> QED BY <1>2, <1>4, <3>2, <3>3, RepushKeeps
  <2>3. CASE PushFails(q)
    <3> DEFINE w == [repushing[q] EXCEPT !.step = "failed"]
    <3>1. repushing[q] \in RepushRow /\ FindArtifact(repushing[q].of)
      BY <2>3, RepushRecord DEF PushFails
    <3>2. w \in RepushRow /\ w.of = repushing[q].of /\ w.step = "failed"
      BY <3>1 DEF RepushRow
    <3>3. Go(q, w) /\ artifact'[repushing[q].of].exists
      BY <1>1, <2>3, <3>1 DEF PushFails, FindArtifact
    <3> HIDE DEF w
    <3> QED BY <1>2, <1>4, <3>2, <3>3, RepushKeeps
  <2>4. CASE RepushTimesOut(q)
    BY <1>2, <1>4, <2>4, RepushKeeps DEF RepushTimesOut
  <2> QED BY <2>1, <2>2, <2>3, <2>4
<1> QED BY <1>3, <1>5

\* The event of a failed push is of the artifact that was pushed again.
LEMMA FailedEventKeeps ==
    ASSUME ArtifactInv, NEW q \in Repushers, RecordPushEvent(q)
    PROVE  ArtifactInv'
<1> USE DEF ArtifactInv
<1> DEFINE a == repushing[q].of
           event == [status |-> "failed", artifact |-> a, registry |-> repushing[q].registry]
<1>1. PICK e \in FreshEvent :
        /\ repushing[q].step = "failed" /\ pushEvent' = [pushEvent EXCEPT ![e] = event]
        /\ Go(q, NoRepush) /\ UNCHANGED <<artifact, latestArtifact, inRegistry>>
  BY DEF RecordPushEvent, InsertEvent
<1>2. a \in ArtifactIds /\ artifact[a].exists /\ repushing[q].registry \in PushTargets
  BY <1>1, RepushRecord DEF FindArtifact
<1>3. event \in EventRow /\ event.status = "failed" /\ event.artifact = a
  BY <1>2 DEF EventRow
<1> HIDE DEF a, event
<1>4. e \in Events /\ pushEvent[e].status = "none"
  BY DEF FreshEvent, Fresh
<1>5. pushEvent'[e] = event /\ \A f \in Events \ {e} : pushEvent'[f] = pushEvent[f]
  BY <1>1, <1>4 DEF ArtifactTypeOK
<1>6. ArtifactTypeOK' /\ InOrderInv'
  BY <1>1, <1>3, <1>4 DEF ArtifactTypeOK, InOrderInv
<1>7. EventPerArtifact'
  <2>1. ASSUME NEW b \in ArtifactIds, artifact[b].exists
        PROVE  \E d \in Events : /\ pushEvent'[d].status = "success" /\ pushEvent'[d].artifact = b
                                 /\ pushEvent'[d].registry = artifact[b].registry
                                 /\ \A f \in Events \ {d} : ~(/\ pushEvent'[f].status = "success"
                                                              /\ pushEvent'[f].artifact = b)
    <3>1. PICK d \in Events : /\ pushEvent[d].status = "success" /\ pushEvent[d].artifact = b
                              /\ pushEvent[d].registry = artifact[b].registry
                              /\ \A f \in Events \ {d} : ~(/\ pushEvent[f].status = "success"
                                                           /\ pushEvent[f].artifact = b)
      BY <2>1 DEF ArtifactHistory, EventPerArtifact
    <3>2. d # e /\ pushEvent'[d] = pushEvent[d]
      BY <1>4, <1>5, <3>1
    <3>3. \A f \in Events \ {d} : ~(pushEvent'[f].status = "success" /\ pushEvent'[f].artifact = b)
      BY <1>3, <1>5, <3>1
    <3> QED BY <3>1, <3>2, <3>3
  <2>2. ASSUME NEW f \in Events, pushEvent'[f].status # "none"
        PROVE  artifact[pushEvent'[f].artifact].exists
    <3>1. CASE f = e
      BY <1>2, <1>3, <1>5, <3>1
    <3>2. CASE f # e
      BY <1>5, <2>2, <3>2 DEF ArtifactHistory, EventPerArtifact
    <3> QED BY <3>1, <3>2
  <2> QED BY <1>1, <2>1, <2>2 DEF EventPerArtifact
<1>8. RecordedWasPushed' /\ LatestArtifactIsLast'
  BY <1>1 DEF ArtifactHistory, RecordedWasPushed, LatestArtifactIsLast
<1>9. RepushInv'
  <2>1. inRegistry \subseteq inRegistry' /\ \A b \in ArtifactIds : FindArtifact(b) => FindArtifact(b)'
    BY <1>1 DEF FindArtifact
  <2> QED BY <1>1, <2>1, RepushKeeps
<1> QED BY <1>6, <1>7, <1>8, <1>9 DEF ArtifactHistory

\* Archiving and deprecating.
LEMMA StatusKeeps ==
    ASSUME ArtifactInv, NEW a \in ArtifactIds, Archive(a) \/ Deprecate(a)
    PROVE  ArtifactInv'
<1> USE DEF ArtifactInv
<1>1. FindArtifact(a) /\ UNCHANGED <<pushEvent, latestArtifact, inRegistry, repushing>>
  BY DEF Archive, Deprecate
<1>2. artifact[a] \in ArtifactRow
  BY <1>1, ExistingRow DEF FindArtifact
<1>3. PICK row \in ArtifactRow : /\ row.node = artifact[a].node
                                 /\ row.registry = artifact[a].registry
                                 /\ artifact' = [artifact EXCEPT ![a] = row]
  <2>1. CASE Archive(a)
    <3> DEFINE row == [artifact[a] EXCEPT !.status = "archived"]
    <3>1. row \in ArtifactRow /\ row.node = artifact[a].node /\ row.registry = artifact[a].registry
      BY <1>2 DEF ArtifactRow
    <3>2. artifact' = [artifact EXCEPT ![a] = row]
      BY <2>1 DEF Archive
    <3> HIDE DEF row
    <3> QED BY <3>1, <3>2
  <2>2. CASE Deprecate(a)
    <3> DEFINE row == [artifact[a] EXCEPT !.deprecated = TRUE]
    <3>1. row \in ArtifactRow /\ row.node = artifact[a].node /\ row.registry = artifact[a].registry
      BY <1>2 DEF ArtifactRow
    <3>2. artifact' = [artifact EXCEPT ![a] = row]
      BY <2>2 DEF Deprecate
    <3> HIDE DEF row
    <3> QED BY <3>1, <3>2
  <2> QED BY <2>1, <2>2
<1>4. ArtifactTypeOK' /\ InOrderInv' /\ ArtifactHistory'
  BY <1>1, <1>3, RowKeeps
<1>5. \A b \in ArtifactIds : FindArtifact(b) => FindArtifact(b)'
  BY <1>3 DEF FindArtifact, ArtifactTypeOK, ArtifactRow
<1>6. RepushInv'
  BY <1>1, <1>5, RepushKeeps
<1> QED BY <1>4, <1>6

\* The invariant of artifacts and their events holds, wherever requests are cut off.
THEOREM ArtifactInvHolds == ArtifactSpec => []ArtifactInv
<1>1. ArtifactInit => ArtifactInv
  <2> SUFFICES ASSUME ArtifactInit PROVE ArtifactInv
    OBVIOUS
  <2> USE DEF ArtifactInit
  <2>1. NoRow.exists = FALSE /\ NoEvent.status = "none"
    BY DEF NoRow, NoEvent
  <2>2. ArtifactTypeOK /\ RepushInv
    BY DEF ArtifactTypeOK, RepushInv
  <2>3. \A a \in ArtifactIds : ~artifact[a].exists
    BY <2>1
  <2>4. \A e \in Events : pushEvent[e].status = "none"
    BY <2>1
  <2>5. InOrderInv /\ EventPerArtifact /\ RecordedWasPushed
    BY <2>3, <2>4 DEF InOrderInv, EventPerArtifact, RecordedWasPushed
  <2>6. LatestArtifactIsLast
    BY <2>3 DEF LatestArtifactIsLast
  <2> QED BY <2>2, <2>5, <2>6 DEF ArtifactInv, ArtifactHistory
<1>2. ArtifactInv /\ [ArtifactNext]_artifactVars => ArtifactInv'
  <2> SUFFICES ASSUME ArtifactInv, [ArtifactNext]_artifactVars PROVE ArtifactInv'
    OBVIOUS
  <2>1. CASE UNCHANGED artifactVars
    BY <2>1 DEF artifactVars, ArtifactInv, ArtifactTypeOK, RepushInv, InOrderInv, ArtifactHistory,
                EventPerArtifact, RecordedWasPushed, LatestArtifactIsLast, FindArtifact
  <2>2. ASSUME NEW n \in Nodes, NEW r \in PushTargets, BuildPushed(n, r) PROVE ArtifactInv'
    BY <2>2, RecordingKeeps
  <2>3. ASSUME NEW q \in Repushers, NEW a \in ArtifactIds, NEW r \in PushTargets,
               StartRepush(q, a, r)
        PROVE  ArtifactInv'
    BY <2>3, RepushStepKeeps
  <2>4. ASSUME NEW q \in Repushers, PushImage(q) \/ PushFails(q) \/ RepushTimesOut(q)
        PROVE  ArtifactInv'
    BY <2>4, RepushStepKeeps
  <2>5. ASSUME NEW q \in Repushers, RepushRecorded(q) PROVE ArtifactInv'
    BY <2>5, RecordingKeeps
  <2>6. ASSUME NEW q \in Repushers, RecordPushEvent(q) PROVE ArtifactInv'
    BY <2>6, FailedEventKeeps
  <2>7. ASSUME NEW a \in ArtifactIds, Archive(a) \/ Deprecate(a) PROVE ArtifactInv'
    BY <2>7, StatusKeeps
  <2> QED BY <2>1, <2>2, <2>3, <2>4, <2>5, <2>6, <2>7 DEF ArtifactNext
<1> QED BY <1>1, <1>2, PTL DEF ArtifactSpec

\* ArtifactTypeOK: the rows of artifacts and pushes stay well typed.
THEOREM ArtifactsTyped == ArtifactSpec => []ArtifactTypeOK
BY ArtifactInvHolds, PTL DEF ArtifactInv

\* ArtifactHistory: artifacts, the history of pushes, the registry and the latest
\* artifact of a version agree, though a repush may be cut off at any of its steps
\* and what it has read may be out of date.
THEOREM HistoriesAgree == ArtifactSpec => []ArtifactHistory
BY ArtifactInvHolds, PTL DEF ArtifactInv

-----------------------------------------------------------------------------
(* Files of a build: the invariant *)

TaskRow == [state : TaskStates, aged : BOOLEAN, interrupted : BOOLEAN]
LogRow == [exists : BOOLEAN, lines : Seq(1..MaxLines), old : BOOLEAN]
StartRow == [step : {"mkdir", "write", "start"}, task : FileTasks]
StreamRow == [step : {"read", "ask", "final", "done"}, task : FileTasks, offset : Nat,
              sent : Seq(1..MaxLines), truncated : BOOLEAN]
RemoveRow == [step : {"remove"}, kind : {"context", "log"}, task : FileTasks]
InPass == [step |-> "pass"]

FileShape ==
    /\ taskState \in [FileTasks -> TaskRow]
    /\ running \subseteq FileTasks
    /\ contextDir \in [FileTasks -> {"none", "fresh", "old"}]
    /\ logFile \in [FileTasks -> LogRow]
    /\ written \in [FileTasks -> 0..MaxLines]
    /\ starting \in [Starters -> StartRow \union {NoStart}]
    /\ stream \in [Viewers -> StreamRow \union {NoStream}]
    /\ retention \in Days
    /\ cleaner \in RemoveRow \union {NoPass, InPass}

\* What a start has prepared is not old, so nothing is about to remove it.
Safe(t) == taskState[t].aged \/ (contextDir[t] = "fresh" /\ ~logFile[t].old)

HasLog(t) == taskState[t].aged \/ logFile[t].exists

\* Tasks whose files are in use, and those whose log has begun.
Preparing(s, t) == starting[s].step \in {"write", "start"} /\ starting[s].task = t
Started(s, t) == starting[s].step = "start" /\ starting[s].task = t
InUse(t) == t \in running \/ \E s \in Starters : Preparing(s, t)
Begun(t) == t \in running \/ \E s \in Starters : Started(s, t)

\* Files of a build that runs, or that a start has begun to prepare, are safe.
KeepInv == \A t \in FileTasks : /\ InUse(t) => Safe(t)
                                /\ Begun(t) => HasLog(t)

\* The cleaner removes what was old when it looked, or what a start has found old.
RemoveInv ==
    cleaner.step = "remove" =>
        IF cleaner.kind = "context" THEN contextDir[cleaner.task] = "old"
                                    ELSE taskState[cleaner.task].aged \/ logFile[cleaner.task].old

\* What an open stream has sent: as far as its offset, from the beginning.
Sent(w, lines) == /\ w.offset = Len(w.sent) /\ w.offset <= Len(lines)
                  /\ w.sent = SubSeq(lines, 1, w.offset)

StreamInv ==
    \A v \in Viewers : stream[v] # NoStream =>
        LET w == stream[v]
        IN /\ w.step \in {"final", "done"} => taskState[w.task].state = "ended"
           /\ (~w.truncated /\ logFile[w.task].exists) =>
                /\ Sent(w, logFile[w.task].lines)
                /\ (w.step = "done" /\ ~taskState[w.task].interrupted)
                     => w.offset = Len(logFile[w.task].lines)

\* A task that has ended is no longer built, unless it was interrupted.
EndedInv == \A t \in FileTasks : (taskState[t].state = "ended" /\ ~taskState[t].interrupted)
                => t \notin running

FileInv == FileShape /\ KeepInv /\ RemoveInv /\ StreamInv /\ EndedInv

-----------------------------------------------------------------------------
(* Files: rows *)

\* A start that has begun is a row of its own.
LEMMA StartRecord ==
    ASSUME FileShape, NEW s \in Starters, starting[s].step \in {"mkdir", "write", "start"}
    PROVE  starting[s] \in StartRow /\ starting[s].task \in FileTasks
<1>1. NoStart.step = "idle"
  BY DEF NoStart
<1>2. starting[s] # NoStart
  BY <1>1
<1> QED BY <1>2 DEF FileShape, StartRow

\* So is a stream that is open.
LEMMA StreamRecord ==
    ASSUME FileShape, NEW v \in Viewers, stream[v] # NoStream
    PROVE  /\ stream[v] \in StreamRow /\ stream[v].task \in FileTasks /\ stream[v].offset \in Nat
           /\ stream[v].sent \in Seq(1..MaxLines) /\ stream[v].truncated \in BOOLEAN
           /\ stream[v].step \in {"read", "ask", "final", "done"}
BY DEF FileShape, StreamRow

\* The step of a stream tells whether it is open.
LEMMA OpenStep ==
    ASSUME FileShape, NEW v \in Viewers
    PROVE  (stream[v].step # "closed") <=> (stream[v] # NoStream)
<1>1. NoStream.step = "closed"
  BY DEF NoStream
<1>2. ASSUME stream[v] # NoStream PROVE stream[v].step # "closed"
  BY <1>2, StreamRecord
<1> QED BY <1>1, <1>2

\* A removal names what is removed.
LEMMA RemoveRecord ==
    ASSUME FileShape, cleaner.step = "remove"
    PROVE  cleaner \in RemoveRow /\ cleaner.kind \in {"context", "log"} /\ cleaner.task \in FileTasks
<1>1. NoPass.step = "idle" /\ InPass.step = "pass"
  BY DEF NoPass, InPass
<1>2. cleaner # NoPass /\ cleaner # InPass
  BY <1>1
<1> QED BY <1>2 DEF FileShape, RemoveRow

\* The fields of rows.
LEMMA RowFields ==
    ASSUME FileShape, NEW t \in FileTasks
    PROVE  /\ taskState[t] \in TaskRow /\ taskState[t].state \in TaskStates
           /\ taskState[t].aged \in BOOLEAN /\ taskState[t].interrupted \in BOOLEAN
           /\ logFile[t] \in LogRow /\ logFile[t].exists \in BOOLEAN /\ logFile[t].old \in BOOLEAN
           /\ logFile[t].lines \in Seq(1..MaxLines) /\ written[t] \in 0..MaxLines
BY DEF FileShape, TaskRow, LogRow

-----------------------------------------------------------------------------
(* Files: types *)

\* The status of a task changes within its row.
LEMMA StateTyped ==
    ASSUME FileShape, NEW t \in FileTasks, NEW x \in TaskStates, NEW b \in BOOLEAN
    PROVE  /\ [taskState EXCEPT ![t].state = x] \in [FileTasks -> TaskRow]
           /\ [taskState EXCEPT ![t].aged = b] \in [FileTasks -> TaskRow]
           /\ Ended(t) \in [FileTasks -> TaskRow]
<1>1. taskState[t] \in TaskRow /\ "ended" \in TaskStates
  BY DEF FileShape, TaskStates
<1>2. [taskState EXCEPT ![t].state = x] \in [FileTasks -> TaskRow]
  BY <1>1 DEF FileShape, TaskRow
<1>3. [taskState EXCEPT ![t].aged = b] \in [FileTasks -> TaskRow]
  BY <1>1 DEF FileShape, TaskRow
<1>4. Ended(t) \in [FileTasks -> TaskRow]
  <2> DEFINE runs == t \in running
             row == [taskState[t] EXCEPT !.state = "ended", !.interrupted = runs]
  <2>1. runs \in BOOLEAN
    OBVIOUS
  <2>2. Ended(t) = [taskState EXCEPT ![t] = row]
    BY DEF Ended, FileShape
  <2> HIDE DEF runs
  <2>3. row \in TaskRow
    BY <1>1, <2>1 DEF TaskRow
  <2> HIDE DEF row
  <2> QED BY <2>2, <2>3 DEF FileShape
<1> QED BY <1>2, <1>3, <1>4

\* A line that is written is appended to the log.
LEMMA LogTyped ==
    ASSUME FileShape, NEW t \in FileTasks, written[t] < MaxLines
    PROVE  /\ LogAfter(t) \in [FileTasks -> LogRow]
           /\ LogAfter(t)[t].lines = Append(logFile[t].lines, written[t] + 1)
           /\ LogAfter(t)[t].exists = logFile[t].exists /\ LogAfter(t)[t].old = FALSE
           /\ \A u \in FileTasks \ {t} : LogAfter(t)[u] = logFile[u]
           /\ [written EXCEPT ![t] = @ + 1] \in [FileTasks -> 0..MaxLines]
           /\ written[t] + 1 \in 1..MaxLines
<1>1. /\ logFile[t] \in LogRow /\ logFile[t].lines \in Seq(1..MaxLines)
      /\ written[t] + 1 \in 1..MaxLines
  BY MaxLinesIsNumber DEF FileShape, LogRow
<1>2. Append(logFile[t].lines, written[t] + 1) \in Seq(1..MaxLines)
  BY <1>1, AppendProperties
<1> DEFINE line == Append(logFile[t].lines, written[t] + 1)
           row == [logFile[t] EXCEPT !.lines = line, !.old = FALSE]
<1>3. row \in LogRow /\ row.lines = line /\ row.exists = logFile[t].exists /\ row.old = FALSE
  <2> HIDE DEF line
  <2> QED BY <1>1, <1>2 DEF LogRow, line
<1>4. LogAfter(t) = [logFile EXCEPT ![t] = row]
  BY DEF LogAfter, FileShape
<1> HIDE DEF row
<1>5. [logFile EXCEPT ![t] = row] \in [FileTasks -> LogRow]
  BY <1>3 DEF FileShape
<1>6. [written EXCEPT ![t] = @ + 1] \in [FileTasks -> 0..MaxLines]
  BY <1>1, MaxLinesIsNumber DEF FileShape
<1> QED BY <1>1, <1>3, <1>4, <1>5, <1>6 DEF FileShape

\* A chunk brings a stream to the end of the log, whatever it had sent.
LEMMA ChunkTyped ==
    ASSUME FileShape, NEW v \in Viewers, stream[v] # NoStream, NEW next \in {"ask", "done"}
    PROVE  LET w == stream[v]
               lines == logFile[w.task].lines
               sent == SendChunk(v, next)
           IN /\ sent \in StreamRow /\ sent.step = next /\ sent.task = w.task
              /\ sent.offset = Len(lines) /\ sent.truncated = w.truncated
              /\ sent.sent = w.sent \o SubSeq(lines, From(w.offset, Len(lines)) + 1, Len(lines))
<1> DEFINE w == stream[v]
           lines == logFile[w.task].lines
           from == From(w.offset, Len(lines))
           more == SubSeq(lines, from + 1, Len(lines))
           total == w.sent \o more
           size == Len(lines)
<1>1. /\ w \in StreamRow /\ w.task \in FileTasks /\ w.offset \in Nat /\ w.sent \in Seq(1..MaxLines)
      /\ w.truncated \in BOOLEAN
  BY StreamRecord
<1>2. lines \in Seq(1..MaxLines)
  BY <1>1, RowFields
<1>3. Len(lines) \in Nat /\ \A i \in 1..Len(lines) : lines[i] \in 1..MaxLines
  BY <1>2, LenProperties, ElementOfSeq
<1>4. from \in Nat
  BY <1>1, <1>3 DEF From
<1>5. more \in Seq(1..MaxLines)
  <2> HIDE DEF from, lines
  <2>1. from + 1 \in Int /\ Len(lines) \in Int /\ \A i \in from + 1 .. Len(lines) : lines[i] \in 1..MaxLines
    BY <1>3, <1>4
  <2> QED BY <2>1, SubSeqProperties
<1>6. total \in Seq(1..MaxLines)
  <2> HIDE DEF more
  <2> QED BY <1>1, <1>5, ConcatProperties
<1>7. SendChunk(v, next) = [w EXCEPT !.step = next, !.offset = size, !.sent = total]
  BY <1>1 DEF SendChunk, StreamRow
<1>8. size \in Nat
  BY <1>3
<1> HIDE DEF total, size, w
<1>9. /\ [w EXCEPT !.step = next, !.offset = size, !.sent = total] \in StreamRow
      /\ [w EXCEPT !.step = next, !.offset = size, !.sent = total].task = w.task
      /\ [w EXCEPT !.step = next, !.offset = size, !.sent = total].truncated = w.truncated
      /\ [w EXCEPT !.step = next, !.offset = size, !.sent = total].step = next
      /\ [w EXCEPT !.step = next, !.offset = size, !.sent = total].offset = size
      /\ [w EXCEPT !.step = next, !.offset = size, !.sent = total].sent = total
  BY <1>1, <1>6, <1>8 DEF StreamRow
<1> QED BY <1>7, <1>9 DEF total, size, w

\* The actions of a start keep the types.
LEMMA StartTyped ==
    ASSUME FileShape, NEW s \in Starters,
           \/ \E t \in FileTasks : BeginStart(s, t)
           \/ MakeContext(s) \/ WriteContext(s) \/ PrepareFails(s) \/ StartBuild(s)
    PROVE  FileShape'
<1>1. ASSUME NEW t \in FileTasks, BeginStart(s, t) PROVE FileShape'
  <2>1. taskState' \in [FileTasks -> TaskRow]
    BY <1>1, StateTyped DEF BeginStart, TaskStates
  <2>2. starting' \in [Starters -> StartRow \union {NoStart}]
    BY <1>1 DEF BeginStart, FileShape, StartRow
  <2> QED BY <1>1, <2>1, <2>2 DEF BeginStart, FileShape
<1> DEFINE t == starting[s].task
<1>2. CASE MakeContext(s)
  <2>1. t \in FileTasks /\ starting[s] \in StartRow
    BY <1>2, StartRecord DEF MakeContext
  <2>2. starting' \in [Starters -> StartRow \union {NoStart}]
    BY <1>2, <2>1 DEF MakeContext, FileShape, StartRow
  <2>3. contextDir' \in [FileTasks -> {"none", "fresh", "old"}]
    BY <1>2, <2>1 DEF MakeContext, FileShape
  <2>4. taskState' \in [FileTasks -> TaskRow]
    <3> DEFINE b == taskState[t].aged \/ contextDir[t] = "old" \/ logFile[t].old
    <3>1. taskState' = [taskState EXCEPT ![t].aged = b]
      BY <1>2 DEF MakeContext, FileShape
    <3>2. b \in BOOLEAN
      OBVIOUS
    <3> HIDE DEF b, t
    <3> QED BY <2>1, <3>1, <3>2, StateTyped DEF TaskStates
  <2> QED BY <1>2, <2>2, <2>3, <2>4 DEF MakeContext, FileShape
<1>3. CASE WriteContext(s)
  <2>1. t \in FileTasks /\ starting[s] \in StartRow /\ written[t] < MaxLines
    BY <1>3, StartRecord DEF WriteContext
  <2>2. written[t] + 1 \in 1..MaxLines /\ written' \in [FileTasks -> 0..MaxLines]
    BY <1>3, <2>1, LogTyped DEF WriteContext
  <2>3. starting' \in [Starters -> StartRow \union {NoStart}]
    BY <1>3, <2>1 DEF WriteContext, FileShape, StartRow
  <2>4. logFile' \in [FileTasks -> LogRow]
    <3> DEFINE line == <<written[t] + 1>>
    <3>1. line \in Seq(1..MaxLines)
      BY <2>2
    <3>2. logFile' = [logFile EXCEPT ![t] = [exists |-> TRUE, lines |-> line, old |-> FALSE]]
      BY <1>3 DEF WriteContext
    <3> HIDE DEF line
    <3> QED BY <2>1, <3>1, <3>2 DEF FileShape, LogRow
  <2>5. stream' \in [Viewers -> StreamRow \union {NoStream}]
    <3>1. NoStream.step = "closed"
      BY DEF NoStream
    <3>2. ASSUME NEW v \in Viewers, stream[v].step # "closed"
          PROVE  [stream[v] EXCEPT !.truncated = TRUE] \in StreamRow
      BY <3>1, <3>2 DEF FileShape, StreamRow
    <3> QED BY <1>3, <3>2 DEF WriteContext, FileShape
  <2> QED BY <1>3, <2>2, <2>3, <2>4, <2>5 DEF WriteContext, FileShape
<1>4. CASE PrepareFails(s)
  <2>1. t \in FileTasks
    BY <1>4, StartRecord DEF PrepareFails
  <2>2. taskState' \in [FileTasks -> TaskRow]
    BY <1>4, <2>1, StateTyped DEF PrepareFails, FileShape, TaskStates
  <2> QED BY <1>4, <2>2 DEF PrepareFails, FileShape
<1>5. CASE StartBuild(s)
  <2>1. t \in FileTasks
    BY <1>5, StartRecord DEF StartBuild
  <2>2. taskState' \in [FileTasks -> TaskRow]
    BY <1>5, <2>1, StateTyped DEF StartBuild, FileShape, TaskStates
  <2> QED BY <1>5, <2>1, <2>2 DEF StartBuild, FileShape
<1> QED BY <1>1, <1>2, <1>3, <1>4, <1>5

\* So do a build, viewers, retention, time and restarts.
LEMMA OthersTyped ==
    ASSUME FileShape,
           \/ \E t \in FileTasks : BuildWrites(t) \/ BuildEnds(t) \/ CancelTask(t) \/ TimePasses(t)
           \/ \E v \in Viewers : \/ \E t \in FileTasks : OpenStream(v, t)
                                 \/ ReadChunk(v) \/ AskStatus(v) \/ FinalChunk(v) \/ CloseStream(v)
           \/ \E days \in Days : UpdateSetting(days)
           \/ \E readable \in BOOLEAN : RunOnce(readable)
           \/ \E kind \in {"context", "log"}, t \in FileTasks : SeeOld(kind, t)
           \/ RemoveOld \/ EndPass \/ Restart
    PROVE  FileShape'
<1>1. ASSUME NEW t \in FileTasks, BuildWrites(t) PROVE FileShape'
  BY <1>1, LogTyped DEF BuildWrites, FileShape
<1>2. ASSUME NEW t \in FileTasks, BuildEnds(t) PROVE FileShape'
  BY <1>2, StateTyped DEF BuildEnds, FileShape, TaskStates
<1>3. ASSUME NEW t \in FileTasks, CancelTask(t) PROVE FileShape'
  <2>1. taskState' \in [FileTasks -> TaskRow]
    BY <1>3, StateTyped DEF CancelTask, TaskStates
  <2> QED BY <1>3, <2>1 DEF CancelTask, FileShape
<1>4. ASSUME NEW t \in FileTasks, TimePasses(t) PROVE FileShape'
  <2>1. contextDir' \in [FileTasks -> {"none", "fresh", "old"}]
    BY <1>4 DEF TimePasses, FileShape
  <2>2. logFile' \in [FileTasks -> LogRow]
    <3> DEFINE b == logFile[t].old \/ logFile[t].exists
    <3>1. logFile' = [logFile EXCEPT ![t].old = b] /\ b \in BOOLEAN
      BY <1>4 DEF TimePasses, FileShape
    <3> HIDE DEF b
    <3> QED BY <3>1 DEF FileShape, LogRow
  <2> QED BY <1>4, <2>1, <2>2 DEF TimePasses, FileShape
<1>5. ASSUME NEW v \in Viewers, NEW t \in FileTasks, OpenStream(v, t) PROVE FileShape'
  <2> DEFINE w == [step |-> "read", task |-> t, offset |-> 0, sent |-> <<>>, truncated |-> FALSE]
  <2>1. w \in StreamRow
    <3>1. <<>> \in Seq(1..MaxLines)
      BY EmptySeq
    <3> QED BY <3>1 DEF StreamRow
  <2>2. stream' = [stream EXCEPT ![v] = w]
    BY <1>5 DEF OpenStream
  <2> HIDE DEF w
  <2> QED BY <1>5, <2>1, <2>2 DEF OpenStream, FileShape
<1>6. ASSUME NEW v \in Viewers, ReadChunk(v) PROVE FileShape'
  BY <1>6, OpenStep, ChunkTyped DEF ReadChunk, FileShape
<1>7. ASSUME NEW v \in Viewers, AskStatus(v) PROVE FileShape'
  <2>1. stream[v] \in StreamRow
    BY <1>7, OpenStep, StreamRecord DEF AskStatus
  <2> QED BY <1>7, <2>1 DEF AskStatus, FileShape, StreamRow
<1>8. ASSUME NEW v \in Viewers, FinalChunk(v) PROVE FileShape'
  BY <1>8, OpenStep, ChunkTyped DEF FinalChunk, FileShape
<1>9. ASSUME NEW v \in Viewers, CloseStream(v) PROVE FileShape'
  BY <1>9 DEF CloseStream, FileShape
<1>10. ASSUME NEW days \in Days, UpdateSetting(days) PROVE FileShape'
  BY <1>10 DEF UpdateSetting, FileShape
<1>11. ASSUME NEW readable \in BOOLEAN, RunOnce(readable) PROVE FileShape'
  BY <1>11 DEF RunOnce, FileShape, InPass
<1>12. ASSUME NEW kind \in {"context", "log"}, NEW t \in FileTasks, SeeOld(kind, t) PROVE FileShape'
  BY <1>12 DEF SeeOld, FileShape, RemoveRow
<1>13. CASE RemoveOld
  <2>1. cleaner.task \in FileTasks
    BY <1>13, RemoveRecord DEF RemoveOld
  <2>2. NoLog \in LogRow
    BY EmptySeq DEF NoLog, LogRow
  <2>3. contextDir' \in [FileTasks -> {"none", "fresh", "old"}] /\ logFile' \in [FileTasks -> LogRow]
    BY <1>13, <2>1, <2>2 DEF RemoveOld, FileShape
  <2> QED BY <1>13, <2>3 DEF RemoveOld, FileShape, InPass
<1>14. CASE EndPass
  BY <1>14 DEF EndPass, FileShape
<1>15. CASE Restart
  BY <1>15 DEF Restart, FileShape
<1> QED BY <1>1, <1>2, <1>3, <1>4, <1>5, <1>6, <1>7, <1>8, <1>9, <1>10, <1>11, <1>12, <1>13,
           <1>14, <1>15

-----------------------------------------------------------------------------
(* Files: what a build keeps *)

\* What a task has met stays on record, and its end is final.
LEMMA TaskFacts ==
    ASSUME FileShape, FileNext, NEW t \in FileTasks
    PROVE  /\ taskState[t].aged => taskState'[t].aged
           /\ taskState[t].state = "ended" =>
                taskState'[t].state = "ended" /\ taskState'[t].interrupted = taskState[t].interrupted
<1> DEFINE Facts == /\ taskState[t].aged => taskState'[t].aged
                    /\ taskState[t].state = "ended" =>
                         /\ taskState'[t].state = "ended"
                         /\ taskState'[t].interrupted = taskState[t].interrupted
<1>1. ASSUME NEW u \in FileTasks, taskState[u].state # "ended",
             taskState' = Ended(u) \/ \E x \in TaskStates : taskState' = [taskState EXCEPT ![u].state = x]
      PROVE  Facts
  BY <1>1 DEF FileShape, TaskRow, Ended
<1>2. CASE UNCHANGED taskState
  BY <1>2
<1>3. ASSUME NEW s \in Starters, NEW u \in FileTasks, BeginStart(s, u) PROVE Facts
  BY <1>1, <1>3 DEF BeginStart, TaskStates
<1>4. ASSUME NEW s \in Starters, MakeContext(s) PROVE Facts
  <2>1. starting[s].task \in FileTasks
    BY <1>4, StartRecord DEF MakeContext
  <2> QED BY <1>4, <2>1 DEF MakeContext, FileShape, TaskRow
<1>5. ASSUME NEW s \in Starters, PrepareFails(s) PROVE Facts
  <2>1. starting[s].task \in FileTasks
    BY <1>5, StartRecord DEF PrepareFails
  <2> QED BY <1>1, <1>2, <1>5, <2>1 DEF PrepareFails
<1>6. ASSUME NEW s \in Starters, StartBuild(s) PROVE Facts
  <2>1. starting[s].task \in FileTasks
    BY <1>6, StartRecord DEF StartBuild
  <2> QED BY <1>1, <1>2, <1>6, <2>1 DEF StartBuild, TaskStates
<1>7. ASSUME NEW u \in FileTasks, BuildEnds(u) \/ CancelTask(u) PROVE Facts
  BY <1>1, <1>2, <1>7 DEF BuildEnds, CancelTask, TaskStates
<1>8. ASSUME NEW s \in Starters, WriteContext(s) PROVE Facts
  BY <1>2, <1>8 DEF WriteContext
<1>9. ASSUME NEW u \in FileTasks, BuildWrites(u) \/ TimePasses(u) PROVE Facts
  BY <1>2, <1>9 DEF BuildWrites, TimePasses
<1>10. ASSUME NEW v \in Viewers,
              \/ \E u \in FileTasks : OpenStream(v, u)
              \/ ReadChunk(v) \/ AskStatus(v) \/ FinalChunk(v) \/ CloseStream(v)
       PROVE  Facts
  BY <1>2, <1>10 DEF OpenStream, ReadChunk, AskStatus, FinalChunk, CloseStream
<1>11. ASSUME \/ \E days \in Days : UpdateSetting(days)
              \/ \E readable \in BOOLEAN : RunOnce(readable)
              \/ \E kind \in {"context", "log"}, u \in FileTasks : SeeOld(kind, u)
              \/ RemoveOld \/ EndPass \/ Restart
       PROVE  Facts
  BY <1>2, <1>11 DEF UpdateSetting, RunOnce, SeeOld, RemoveOld, EndPass, Restart
<1> HIDE DEF Facts
<1>12. ASSUME NEW s \in Starters,
              \/ \E u \in FileTasks : BeginStart(s, u)
              \/ MakeContext(s) \/ WriteContext(s) \/ PrepareFails(s) \/ StartBuild(s)
       PROVE  Facts
  BY <1>3, <1>4, <1>5, <1>6, <1>8, <1>12
<1>13. ASSUME NEW u \in FileTasks, BuildWrites(u) \/ BuildEnds(u) \/ CancelTask(u) \/ TimePasses(u)
       PROVE  Facts
  BY <1>7, <1>9, <1>13
<1>14. Facts
  BY <1>10, <1>11, <1>12, <1>13 DEF FileNext
<1> QED BY <1>14 DEF Facts

\* A step that brings no further files into use and leaves those in use as they are.
LEMMA KeepFrame ==
    ASSUME KeepInv, running' \subseteq running,
           \A s \in Starters : starting'[s].step \in {"write", "start"} => starting'[s] = starting[s],
           \A t \in FileTasks : InUse(t) => /\ Safe(t) => Safe(t)'
                                            /\ Safe(t) /\ HasLog(t) => HasLog(t)'
    PROVE  KeepInv'
<1> SUFFICES ASSUME NEW t \in FileTasks PROVE (InUse(t)' => Safe(t)') /\ (Begun(t)' => HasLog(t)')
  BY DEF KeepInv
<1>1. InUse(t)' => InUse(t)
  BY DEF InUse, Preparing
<1>2. Begun(t)' => Begun(t)
  BY DEF Begun, Started
<1>3. Begun(t) => InUse(t)
  BY DEF Begun, InUse, Started, Preparing
<1> QED BY <1>1, <1>2, <1>3 DEF KeepInv

\* A removal that has been decided is still of something old.
LEMMA RemoveFrame ==
    ASSUME FileShape, RemoveInv, UNCHANGED cleaner,
           \A t \in FileTasks : /\ contextDir[t] = "old" => contextDir'[t] = "old"
                                /\ (taskState[t].aged \/ logFile[t].old)
                                     => (taskState'[t].aged \/ logFile'[t].old)
    PROVE  RemoveInv'
<1> SUFFICES ASSUME cleaner.step = "remove"
             PROVE  IF cleaner.kind = "context"
                      THEN contextDir'[cleaner.task] = "old"
                      ELSE taskState'[cleaner.task].aged \/ logFile'[cleaner.task].old
  BY DEF RemoveInv
<1>1. cleaner.task \in FileTasks
  BY RemoveRecord
<1> QED BY <1>1 DEF RemoveInv

\* A step that leaves the files and what is known of their age alone.
LEMMA FilesAlone ==
    ASSUME FileShape, KeepInv, RemoveInv, UNCHANGED <<contextDir, logFile, cleaner>>,
           \A t \in FileTasks : taskState[t].aged => taskState'[t].aged,
           running' \subseteq running,
           \A s \in Starters : starting'[s].step \in {"write", "start"} => starting'[s] = starting[s]
    PROVE  KeepInv' /\ RemoveInv'
<1>1. \A t \in FileTasks : (Safe(t) => Safe(t)') /\ (HasLog(t) => HasLog(t)')
  BY DEF Safe, HasLog
<1>2. KeepInv'
  BY <1>1, KeepFrame
<1>3. RemoveInv'
  BY RemoveFrame
<1> QED BY <1>2, <1>3

\* What a start prepares is kept.
LEMMA StartKeeps ==
    ASSUME FileShape, KeepInv, RemoveInv, FileNext, NEW s \in Starters,
           \/ \E t \in FileTasks : BeginStart(s, t)
           \/ MakeContext(s) \/ WriteContext(s) \/ PrepareFails(s) \/ StartBuild(s)
    PROVE  KeepInv' /\ RemoveInv'
<1> DEFINE t == starting[s].task
<1>1. \A u \in FileTasks : taskState[u].aged => taskState'[u].aged
  BY TaskFacts
<1>2. ASSUME NEW u \in FileTasks, BeginStart(s, u) PROVE KeepInv' /\ RemoveInv'
  <2>1. \A p \in Starters : starting'[p].step \in {"write", "start"} => starting'[p] = starting[p]
    BY <1>2 DEF BeginStart, FileShape
  <2> QED BY <1>1, <1>2, <2>1, FilesAlone DEF BeginStart
<1>3. CASE PrepareFails(s)
  <2>1. NoStart.step = "idle"
    BY DEF NoStart
  <2>2. \A p \in Starters : starting'[p].step \in {"write", "start"} => starting'[p] = starting[p]
    BY <1>3, <2>1 DEF PrepareFails, FileShape
  <2> QED BY <1>1, <1>3, <2>2, FilesAlone DEF PrepareFails
<1>4. CASE MakeContext(s)
  <2>1. t \in FileTasks /\ starting[s] \in StartRow
    BY <1>4, StartRecord DEF MakeContext
  <2>2. \A u \in FileTasks : contextDir[u] = "old" => contextDir'[u] = "old"
    BY <1>4, <2>1 DEF MakeContext, FileShape
  <2>3. RemoveInv'
    BY <1>1, <1>4, <2>2, RemoveFrame DEF MakeContext
  <2>4. taskState'[t].aged \/ (contextDir'[t] = "fresh" /\ ~logFile'[t].old)
    <3>1. taskState'[t].aged = (taskState[t].aged \/ contextDir[t] = "old" \/ logFile[t].old)
      <4> DEFINE b == taskState[t].aged \/ contextDir[t] = "old" \/ logFile[t].old
      <4>1. taskState' = [taskState EXCEPT ![t].aged = b]
        BY <1>4 DEF MakeContext, FileShape
      <4>2. b \in BOOLEAN /\ taskState[t] \in TaskRow
        BY <2>1, RowFields
      <4> HIDE DEF b, t
      <4>3. taskState'[t].aged = b
        BY <2>1, <4>1, <4>2 DEF FileShape, TaskRow
      <4> QED BY <4>3 DEF b
    <3>2. contextDir'[t] = (IF contextDir[t] = "none" THEN "fresh" ELSE contextDir[t]) /\ logFile' = logFile
      BY <1>4, <2>1 DEF MakeContext, FileShape
    <3>3. contextDir[t] \in {"none", "fresh", "old"}
      BY <2>1 DEF FileShape
    <3>4. (taskState[t].aged \/ contextDir[t] = "old" \/ logFile[t].old)
            \/ (contextDir'[t] = "fresh" /\ ~logFile'[t].old)
      BY <3>2, <3>3
    <3> QED BY <3>1, <3>4
  <2>5. ASSUME NEW u \in FileTasks PROVE (InUse(u)' => Safe(u)') /\ (Begun(u)' => HasLog(u)')
    <3>1. \A p \in Starters \ {s} : starting'[p] = starting[p]
      BY <1>4 DEF MakeContext, FileShape
    <3>2. starting'[s].step = "write" /\ starting'[s].task = t
      BY <1>4, <2>1 DEF MakeContext, FileShape, StartRow
    <3>3. Begun(u)' => Begun(u)
      BY <1>4, <3>1, <3>2 DEF Begun, Started, MakeContext
    <3>4. HasLog(u) => HasLog(u)'
      BY <1>1, <1>4 DEF HasLog, MakeContext
    <3>5. u # t => (InUse(u)' => InUse(u))
      BY <1>4, <3>1, <3>2 DEF InUse, Preparing, MakeContext
    <3>6. u # t => (Safe(u) => Safe(u)')
      BY <1>1, <1>4, <2>1 DEF Safe, MakeContext, FileShape
    <3>7. u = t => (taskState'[u].aged \/ (contextDir'[u] = "fresh" /\ ~logFile'[u].old))
      BY <2>4
    <3> QED BY <3>3, <3>4, <3>5, <3>6, <3>7 DEF KeepInv, Safe
  <2> QED BY <2>3, <2>5 DEF KeepInv
<1>5. CASE WriteContext(s)
  <2>1. t \in FileTasks /\ starting[s] \in StartRow /\ starting[s].step = "write"
    BY <1>5, StartRecord DEF WriteContext
  <2>2. Safe(t)
    BY <2>1 DEF KeepInv, InUse, Preparing
  <2>3. /\ logFile'[t].exists = TRUE /\ logFile'[t].old = FALSE
        /\ \A u \in FileTasks \ {t} : logFile'[u] = logFile[u]
    BY <1>5, <2>1 DEF WriteContext, FileShape
  <2>4. UNCHANGED <<taskState, running, contextDir, cleaner>>
    BY <1>5 DEF WriteContext
  <2>5. RemoveInv'
    BY <2>1, <2>2, <2>3, <2>4, RemoveFrame DEF Safe
  <2>6. ASSUME NEW u \in FileTasks PROVE (InUse(u)' => Safe(u)') /\ (Begun(u)' => HasLog(u)')
    <3>1. \A p \in Starters \ {s} : starting'[p] = starting[p]
      BY <1>5 DEF WriteContext, FileShape
    <3>2. starting'[s].step = "start" /\ starting'[s].task = t
      BY <1>5, <2>1 DEF WriteContext, FileShape, StartRow
    <3>3. u = t => Safe(u)' /\ HasLog(u)'
      BY <2>2, <2>3, <2>4 DEF Safe, HasLog
    <3>4. u # t => (InUse(u)' => InUse(u)) /\ (Begun(u)' => Begun(u))
      BY <2>4, <3>1, <3>2 DEF InUse, Preparing, Begun, Started
    <3>5. u # t => (Safe(u) => Safe(u)') /\ (HasLog(u) => HasLog(u)')
      BY <2>3, <2>4 DEF Safe, HasLog
    <3> QED BY <3>3, <3>4, <3>5 DEF KeepInv
  <2> QED BY <2>5, <2>6 DEF KeepInv
<1>6. CASE StartBuild(s)
  <2>1. t \in FileTasks /\ starting[s].step = "start"
    BY <1>6, StartRecord DEF StartBuild
  <2>2. UNCHANGED <<contextDir, logFile, cleaner>> /\ running' \subseteq running \union {t}
    BY <1>6 DEF StartBuild
  <2>3. RemoveInv'
    BY <1>1, <2>2, RemoveFrame
  <2>4. ASSUME NEW u \in FileTasks PROVE (InUse(u)' => Safe(u)') /\ (Begun(u)' => HasLog(u)')
    <3>1. NoStart.step = "idle"
      BY DEF NoStart
    <3>2. \A p \in Starters : starting'[p].step \in {"write", "start"} => starting'[p] = starting[p]
      BY <1>6, <3>1 DEF StartBuild, FileShape
    <3>3. (InUse(u)' => InUse(u)) /\ (Begun(u)' => Begun(u))
      BY <2>1, <2>2, <3>2 DEF InUse, Preparing, Begun, Started
    <3>4. (Safe(u) => Safe(u)') /\ (HasLog(u) => HasLog(u)')
      BY <1>1, <2>2 DEF Safe, HasLog
    <3> QED BY <3>3, <3>4 DEF KeepInv
  <2> QED BY <2>3, <2>4 DEF KeepInv
<1> QED BY <1>2, <1>3, <1>4, <1>5, <1>6

\* What a build does, its end, and time.
LEMMA BuildKeeps ==
    ASSUME FileShape, KeepInv, RemoveInv, FileNext, NEW t \in FileTasks,
           BuildWrites(t) \/ BuildEnds(t) \/ CancelTask(t) \/ TimePasses(t)
    PROVE  KeepInv' /\ RemoveInv'
<1>1. \A u \in FileTasks : taskState[u].aged => taskState'[u].aged
  BY TaskFacts
<1>2. CASE BuildEnds(t) \/ CancelTask(t)
  BY <1>1, <1>2, FilesAlone DEF BuildEnds, CancelTask
<1>3. CASE BuildWrites(t)
  <2>1. Safe(t)
    BY <1>3 DEF BuildWrites, KeepInv, InUse
  <2>2. /\ logFile'[t].exists = logFile[t].exists /\ logFile'[t].old = FALSE
        /\ \A u \in FileTasks \ {t} : logFile'[u] = logFile[u]
    BY <1>3, LogTyped DEF BuildWrites
  <2>3. UNCHANGED <<taskState, running, contextDir, starting, cleaner>>
    BY <1>3 DEF BuildWrites
  <2>4. RemoveInv'
    BY <2>1, <2>2, <2>3, RemoveFrame DEF Safe
  <2>5. \A u \in FileTasks : (Safe(u) => Safe(u)') /\ (HasLog(u) => HasLog(u)')
    BY <2>2, <2>3 DEF Safe, HasLog
  <2> QED BY <2>3, <2>4, <2>5, KeepFrame
<1>4. CASE TimePasses(t)
  <2>1. UNCHANGED <<taskState, running, starting, cleaner>> /\ cleaner.step # "remove"
    BY <1>4 DEF TimePasses
  <2>2. RemoveInv'
    BY <2>1 DEF RemoveInv
  <2>3. ~InUse(t)
    <3>1. NoStart.step = "idle"
      BY DEF NoStart
    <3> QED BY <1>4, <3>1 DEF TimePasses, InUse, Preparing
  <2>4. \A u \in FileTasks \ {t} : contextDir'[u] = contextDir[u] /\ logFile'[u] = logFile[u]
    BY <1>4 DEF TimePasses, FileShape
  <2>5. \A u \in FileTasks \ {t} : (Safe(u) => Safe(u)') /\ (HasLog(u) => HasLog(u)')
    BY <2>1, <2>4 DEF Safe, HasLog
  <2> QED BY <2>1, <2>2, <2>3, <2>5, KeepFrame
<1> QED BY <1>2, <1>3, <1>4

\* Viewers, the cleaner and restarts.
LEMMA OthersKeep ==
    ASSUME FileShape, KeepInv, RemoveInv,
           \/ \E v \in Viewers : \/ \E t \in FileTasks : OpenStream(v, t)
                                 \/ ReadChunk(v) \/ AskStatus(v) \/ FinalChunk(v) \/ CloseStream(v)
           \/ \E days \in Days : UpdateSetting(days)
           \/ \E readable \in BOOLEAN : RunOnce(readable)
           \/ \E kind \in {"context", "log"}, t \in FileTasks : SeeOld(kind, t)
           \/ RemoveOld \/ EndPass \/ Restart
    PROVE  KeepInv' /\ RemoveInv'
<1>1. ASSUME NEW v \in Viewers,
             \/ \E t \in FileTasks : OpenStream(v, t)
             \/ ReadChunk(v) \/ AskStatus(v) \/ FinalChunk(v) \/ CloseStream(v)
      PROVE  KeepInv' /\ RemoveInv'
  <2>1. UNCHANGED <<taskState, running, contextDir, logFile, starting, cleaner>>
    BY <1>1 DEF OpenStream, ReadChunk, AskStatus, FinalChunk, CloseStream
  <2> QED BY <2>1, FilesAlone
<1>2. ASSUME NEW days \in Days, UpdateSetting(days) PROVE KeepInv' /\ RemoveInv'
  BY <1>2, FilesAlone DEF UpdateSetting
<1>3. ASSUME UNCHANGED <<taskState, running, contextDir, logFile, starting>> PROVE KeepInv'
  <2>1. \A t \in FileTasks : (Safe(t) => Safe(t)') /\ (HasLog(t) => HasLog(t)')
    BY <1>3 DEF Safe, HasLog
  <2> QED BY <1>3, <2>1, KeepFrame
<1>4. ASSUME cleaner' = InPass \/ cleaner' = NoPass PROVE RemoveInv'
  BY <1>4 DEF RemoveInv, InPass, NoPass
<1>5. ASSUME NEW readable \in BOOLEAN, RunOnce(readable) PROVE KeepInv' /\ RemoveInv'
  BY <1>3, <1>4, <1>5 DEF RunOnce, InPass
<1>6. CASE EndPass
  BY <1>3, <1>4, <1>6 DEF EndPass
<1>7. ASSUME NEW kind \in {"context", "log"}, NEW t \in FileTasks, SeeOld(kind, t)
      PROVE  KeepInv' /\ RemoveInv'
  <2>1. cleaner'.kind = kind /\ cleaner'.task = t
          /\ UNCHANGED <<taskState, running, contextDir, logFile, starting>> /\ OldEnough(kind, t)
    BY <1>7 DEF SeeOld
  <2>2. RemoveInv'
    BY <2>1 DEF RemoveInv, OldEnough
  <2> QED BY <1>3, <2>1, <2>2
<1>8. CASE RemoveOld
  <2> DEFINE t == cleaner.task
  <2>1. cleaner.kind \in {"context", "log"} /\ t \in FileTasks /\ cleaner.step = "remove"
    BY <1>8, RemoveRecord DEF RemoveOld
  <2>2. RemoveInv' /\ UNCHANGED <<taskState, running, starting>>
    BY <1>4, <1>8 DEF RemoveOld, InPass
  <2>3. ASSUME NEW u \in FileTasks
        PROVE  (Safe(u) => Safe(u)') /\ (Safe(u) /\ HasLog(u) => HasLog(u)')
    <3>1. CASE cleaner.kind = "context"
      <4>1. contextDir[t] = "old" /\ contextDir' = [contextDir EXCEPT ![t] = "none"] /\ logFile' = logFile
        BY <1>8, <2>1, <3>1 DEF RemoveOld, RemoveInv
      <4>2. u # t => contextDir'[u] = contextDir[u]
        BY <4>1 DEF FileShape
      <4>3. u = t /\ Safe(u) => taskState[u].aged
        BY <4>1 DEF Safe
      <4> QED BY <2>2, <4>1, <4>2, <4>3 DEF Safe, HasLog
    <3>2. CASE cleaner.kind # "context"
      <4>1. /\ taskState[t].aged \/ logFile[t].old
            /\ logFile' = [logFile EXCEPT ![t] = NoLog] /\ contextDir' = contextDir
        BY <1>8, <2>1, <3>2 DEF RemoveOld, RemoveInv
      <4>2. u # t => logFile'[u] = logFile[u]
        BY <4>1 DEF FileShape
      <4>3. u = t /\ Safe(u) => taskState[u].aged
        BY <4>1 DEF Safe
      <4> QED BY <2>2, <4>1, <4>2, <4>3 DEF Safe, HasLog
    <3> QED BY <3>1, <3>2
  <2> QED BY <2>2, <2>3, KeepFrame
<1>9. CASE Restart
  <2>1. NoStart.step = "idle"
    BY DEF NoStart
  <2>2. \A t \in FileTasks : ~InUse(t)' /\ ~Begun(t)'
    BY <1>9, <2>1 DEF Restart, InUse, Begun, Preparing, Started
  <2> QED BY <1>4, <1>9, <2>2 DEF Restart, KeepInv
<1> QED BY <1>1, <1>2, <1>5, <1>6, <1>7, <1>8, <1>9

-----------------------------------------------------------------------------
(* Files: what viewers are sent *)

\* What is appended does not change the lines before it.
LEMMA AppendKeepsPrefix ==
    ASSUME NEW S, NEW lines \in Seq(S), NEW x \in S, NEW n \in 0..Len(lines)
    PROVE  SubSeq(Append(lines, x), 1, n) = SubSeq(lines, 1, n) /\ Len(Append(lines, x)) = Len(lines) + 1
<1>1. Append(lines, x) \in Seq(S) /\ Len(Append(lines, x)) = Len(lines) + 1
        /\ \A i \in 1..Len(lines) : Append(lines, x)[i] = lines[i]
  BY AppendProperties
<1>2. Len(lines) \in Nat
  BY LenProperties
<1>3. \A i \in 1..n : lines[i] \in S /\ Append(lines, x)[i] \in S
  BY <1>1, <1>2, ElementOfSeq
<1>4. /\ SubSeq(lines, 1, n) \in Seq(S) /\ SubSeq(Append(lines, x), 1, n) \in Seq(S)
      /\ Len(SubSeq(lines, 1, n)) = IF 1 <= n THEN n - 1 + 1 ELSE 0
      /\ Len(SubSeq(Append(lines, x), 1, n)) = IF 1 <= n THEN n - 1 + 1 ELSE 0
      /\ \A i \in 1 .. n - 1 + 1 : SubSeq(lines, 1, n)[i] = lines[1 + i - 1]
      /\ \A i \in 1 .. n - 1 + 1 : SubSeq(Append(lines, x), 1, n)[i] = Append(lines, x)[1 + i - 1]
  <2>1. 1 \in Int /\ n \in Int
    OBVIOUS
  <2>2. /\ SubSeq(lines, 1, n) \in Seq(S)
        /\ Len(SubSeq(lines, 1, n)) = IF 1 <= n THEN n - 1 + 1 ELSE 0
        /\ \A i \in 1 .. n - 1 + 1 : SubSeq(lines, 1, n)[i] = lines[1 + i - 1]
    BY <1>3, <2>1, SubSeqProperties
  <2> DEFINE more == Append(lines, x)
  <2>3. \A i \in 1..n : more[i] \in S
    BY <1>3
  <2> HIDE DEF more
  <2>4. /\ SubSeq(more, 1, n) \in Seq(S)
        /\ Len(SubSeq(more, 1, n)) = IF 1 <= n THEN n - 1 + 1 ELSE 0
        /\ \A i \in 1 .. n - 1 + 1 : SubSeq(more, 1, n)[i] = more[1 + i - 1]
    BY <2>1, <2>3, SubSeqProperties
  <2> QED BY <2>2, <2>4 DEF more
<1> DEFINE p == SubSeq(lines, 1, n)
           q == SubSeq(Append(lines, x), 1, n)
<1>5. Len(p) = n /\ Len(q) = n /\ \A i \in 1..n : p[i] = q[i]
  BY <1>1, <1>2, <1>4
<1>6. p \in Seq(S) /\ q \in Seq(S)
  BY <1>4
<1> HIDE DEF p, q
<1>7. p = q
  BY <1>5, <1>6, SeqEqual
<1> QED BY <1>1, <1>7 DEF p, q

\* A stream that has sent what comes before its offset has sent everything once it
\* has sent the rest.
LEMMA RestCompletes ==
    ASSUME NEW S, NEW lines \in Seq(S), NEW n \in 0..Len(lines)
    PROVE  /\ SubSeq(lines, 1, n) \o SubSeq(lines, n + 1, Len(lines)) = lines
           /\ SubSeq(lines, 1, Len(lines)) = lines
<1>1. Len(lines) \in Nat
  BY LenProperties
<1>2. 1 \in 1..Len(lines) + 1 /\ n \in 1 - 1 .. Len(lines) /\ Len(lines) \in n..Len(lines)
  BY <1>1
<1>3. SubSeq(lines, 1, n) \o SubSeq(lines, n + 1, Len(lines)) = SubSeq(lines, 1, Len(lines))
  BY <1>2, ConcatAdjacentSubSeq
<1> QED BY <1>3, SubSeqFull

\* A chunk is the rest of the log.
LEMMA ChunkCompletes ==
    ASSUME FileShape, NEW v \in Viewers, stream[v] # NoStream, NEW next \in {"ask", "done"},
           Sent(stream[v], logFile[stream[v].task].lines)
    PROVE  /\ Sent(SendChunk(v, next), logFile[stream[v].task].lines)
           /\ SendChunk(v, next).offset = Len(logFile[stream[v].task].lines)
<1> DEFINE w == stream[v]
           lines == logFile[w.task].lines
           size == Len(lines)
           sent == SendChunk(v, next)
<1>1. w.task \in FileTasks /\ w.offset \in Nat
  BY StreamRecord
<1>2. lines \in Seq(1..MaxLines)
  BY <1>1, RowFields
<1>3. size \in Nat
  BY <1>2, LenProperties
<1>4. w.offset <= size /\ w.sent = SubSeq(lines, 1, w.offset)
  BY DEF Sent
<1>5. From(w.offset, size) = w.offset
  BY <1>1, <1>3, <1>4 DEF From
<1>6. sent.offset = size /\ sent.sent = w.sent \o SubSeq(lines, From(w.offset, size) + 1, size)
  BY ChunkTyped
<1>7. w.offset \in 0..size
  BY <1>1, <1>3, <1>4
<1> HIDE DEF w, sent
<1>8. SubSeq(lines, 1, w.offset) \o SubSeq(lines, w.offset + 1, size) = lines
        /\ SubSeq(lines, 1, size) = lines
  BY <1>2, <1>7, RestCompletes
<1>9. sent.sent = lines
  BY <1>4, <1>5, <1>6, <1>8
<1>10. Sent(sent, lines)
  <2> DEFINE n == sent.offset
             all == sent.sent
  <2>1. n = Len(lines) /\ all = lines /\ n \in Nat
    BY <1>3, <1>6, <1>9
  <2>2. SubSeq(lines, 1, n) = lines
    BY <1>6, <1>8
  <2> HIDE DEF n, all, lines
  <2>3. n = Len(all) /\ n <= Len(lines) /\ all = SubSeq(lines, 1, n)
    BY <2>1, <2>2
  <2> QED BY <2>3 DEF Sent, n, all
<1> QED BY <1>6, <1>10 DEF w, sent

\* A step that opens no stream, sends nothing and writes no line.
LEMMA StreamFrame ==
    ASSUME FileShape, StreamInv, FileNext,
           \A v \in Viewers : stream'[v] = stream[v] \/ stream'[v] = NoStream,
           \A t \in FileTasks : logFile'[t].exists =>
               logFile[t].exists /\ logFile'[t].lines = logFile[t].lines
    PROVE  StreamInv'
<1> SUFFICES ASSUME NEW v \in Viewers, stream'[v] # NoStream
             PROVE  LET w == stream'[v]
                    IN /\ w.step \in {"final", "done"} => taskState'[w.task].state = "ended"
                       /\ (~w.truncated /\ logFile'[w.task].exists) =>
                            /\ Sent(w, logFile'[w.task].lines)
                            /\ (w.step = "done" /\ ~taskState'[w.task].interrupted)
                                 => w.offset = Len(logFile'[w.task].lines)
  BY DEF StreamInv, Sent
<1> DEFINE w == stream[v]
<1>1. stream'[v] = w /\ w # NoStream
  OBVIOUS
<1>2. w.task \in FileTasks
  BY <1>1, StreamRecord
<1>3. /\ w.step \in {"final", "done"} => taskState[w.task].state = "ended"
      /\ (~w.truncated /\ logFile[w.task].exists) =>
           /\ Sent(w, logFile[w.task].lines)
           /\ (w.step = "done" /\ ~taskState[w.task].interrupted)
                => w.offset = Len(logFile[w.task].lines)
  BY <1>1 DEF StreamInv
<1> HIDE DEF w
<1>4. taskState[w.task].state = "ended" =>
        /\ taskState'[w.task].state = "ended"
        /\ taskState'[w.task].interrupted = taskState[w.task].interrupted
  BY <1>2, TaskFacts
<1>5. logFile'[w.task].exists =>
        logFile[w.task].exists /\ logFile'[w.task].lines = logFile[w.task].lines
  BY <1>2
<1> QED BY <1>1, <1>3, <1>4, <1>5

\* A task that is no longer built once it has ended.
LEMMA EndedStep ==
    ASSUME FileShape, EndedInv, FileNext
    PROVE  EndedInv'
<1> SUFFICES ASSUME NEW t \in FileTasks, taskState'[t].state = "ended", ~taskState'[t].interrupted
             PROVE  t \notin running'
  BY DEF EndedInv
<1>1. ASSUME UNCHANGED taskState, running' \subseteq running PROVE t \notin running'
  BY <1>1 DEF EndedInv
<1>2. ASSUME NEW u \in FileTasks, UNCHANGED running, taskState' = Ended(u) PROVE t \notin running'
  <2>1. CASE u = t
    <3>1. taskState'[t].interrupted = (t \in running)
      BY <1>2, <2>1 DEF FileShape, TaskRow, Ended
    <3> QED BY <1>2, <3>1
  <2>2. CASE u # t
    <3>1. taskState'[t] = taskState[t]
      BY <1>2, <2>2 DEF FileShape, Ended
    <3> QED BY <1>2, <3>1 DEF EndedInv
  <2> QED BY <2>1, <2>2
<1>3. ASSUME NEW s \in Starters, NEW u \in FileTasks, BeginStart(s, u) PROVE t \notin running'
  <2>1. taskState'[t].state = "ended" =>
          t # u /\ taskState'[t] = taskState[t]
    BY <1>3 DEF BeginStart, FileShape, TaskRow
  <2> QED BY <1>3, <2>1 DEF BeginStart, EndedInv
<1>4. ASSUME NEW s \in Starters, MakeContext(s) PROVE t \notin running'
  <2>1. starting[s].task \in FileTasks
    BY <1>4, StartRecord DEF MakeContext
  <2>2. /\ taskState'[t].state = taskState[t].state
        /\ taskState'[t].interrupted = taskState[t].interrupted
    BY <1>4, <2>1 DEF MakeContext, FileShape, TaskRow
  <2> QED BY <1>4, <2>2 DEF MakeContext, EndedInv
<1>5. ASSUME NEW s \in Starters, WriteContext(s) PROVE t \notin running'
  BY <1>1, <1>5 DEF WriteContext
<1>6. ASSUME NEW s \in Starters, PrepareFails(s) PROVE t \notin running'
  <2>1. starting[s].task \in FileTasks
    BY <1>6, StartRecord DEF PrepareFails
  <2> QED BY <1>1, <1>2, <1>6, <2>1 DEF PrepareFails
<1>7. ASSUME NEW s \in Starters, StartBuild(s) PROVE t \notin running'
  <2> DEFINE u == starting[s].task
  <2>1. u \in FileTasks
    BY <1>7, StartRecord DEF StartBuild
  <2>2. CASE taskState[u].state = "dispatching"
    <3>1. taskState' = [taskState EXCEPT ![u].state = "building"] /\ running' = running \union {u}
      BY <1>7, <2>2 DEF StartBuild
    <3> HIDE DEF u
    <3>2. t # u /\ taskState'[t] = taskState[t]
      BY <2>1, <3>1 DEF FileShape, TaskRow
    <3> QED BY <3>1, <3>2 DEF EndedInv
  <2>3. CASE taskState[u].state # "dispatching"
    BY <1>1, <1>7, <2>3 DEF StartBuild
  <2> QED BY <2>2, <2>3
<1>8. ASSUME NEW u \in FileTasks, BuildEnds(u) PROVE t \notin running'
  <2>1. t # u => taskState'[t] = taskState[t]
    BY <1>8 DEF BuildEnds, FileShape
  <2> QED BY <1>8, <2>1 DEF BuildEnds, EndedInv
<1>9. ASSUME NEW u \in FileTasks, BuildWrites(u) \/ CancelTask(u) \/ TimePasses(u)
      PROVE  t \notin running'
  BY <1>1, <1>2, <1>9 DEF BuildWrites, CancelTask, TimePasses
<1>10. ASSUME NEW v \in Viewers,
              \/ \E u \in FileTasks : OpenStream(v, u)
              \/ ReadChunk(v) \/ AskStatus(v) \/ FinalChunk(v) \/ CloseStream(v)
       PROVE  t \notin running'
  BY <1>1, <1>10 DEF OpenStream, ReadChunk, AskStatus, FinalChunk, CloseStream
<1>11. CASE \/ \E days \in Days : UpdateSetting(days)
            \/ \E readable \in BOOLEAN : RunOnce(readable)
            \/ \E kind \in {"context", "log"}, u \in FileTasks : SeeOld(kind, u)
            \/ RemoveOld \/ EndPass \/ Restart
  BY <1>1, <1>11 DEF UpdateSetting, RunOnce, SeeOld, RemoveOld, EndPass, Restart
<1>12. ASSUME NEW s \in Starters,
              \/ \E u \in FileTasks : BeginStart(s, u)
              \/ MakeContext(s) \/ WriteContext(s) \/ PrepareFails(s) \/ StartBuild(s)
       PROVE  t \notin running'
  BY <1>3, <1>4, <1>5, <1>6, <1>7, <1>12
<1>13. ASSUME NEW u \in FileTasks, BuildWrites(u) \/ BuildEnds(u) \/ CancelTask(u) \/ TimePasses(u)
       PROVE  t \notin running'
  BY <1>8, <1>9, <1>13
<1> QED BY <1>10, <1>11, <1>12, <1>13 DEF FileNext

\* A step that leaves the logs, or removes one, and opens no stream.
LEMMA QuietKeeps ==
    ASSUME FileShape, StreamInv, FileNext,
           \A v \in Viewers : stream'[v] = stream[v] \/ stream'[v] = NoStream,
           UNCHANGED logFile
    PROVE  StreamInv'
BY StreamFrame

\* What viewers have been sent when a start begins a log anew.
LEMMA TruncationKeeps ==
    ASSUME FileShape, StreamInv, FileNext, NEW s \in Starters, WriteContext(s)
    PROVE  StreamInv'
<1> DEFINE t == starting[s].task
<1>1. t \in FileTasks
  BY StartRecord DEF WriteContext
<1>2. UNCHANGED taskState /\ \A u \in FileTasks \ {t} : logFile'[u] = logFile[u]
  BY <1>1 DEF WriteContext, FileShape
<1>3. \A v \in Viewers : stream'[v] = IF stream[v].step # "closed" /\ stream[v].task = t
                                        THEN [stream[v] EXCEPT !.truncated = TRUE] ELSE stream[v]
  BY DEF WriteContext
<1> HIDE DEF t
<1> SUFFICES ASSUME NEW v \in Viewers, stream'[v] # NoStream
             PROVE  LET w == stream'[v]
                    IN /\ w.step \in {"final", "done"} => taskState'[w.task].state = "ended"
                       /\ (~w.truncated /\ logFile'[w.task].exists) =>
                            /\ Sent(w, logFile'[w.task].lines)
                            /\ (w.step = "done" /\ ~taskState'[w.task].interrupted)
                                 => w.offset = Len(logFile'[w.task].lines)
  BY DEF StreamInv, Sent
<1>4. stream[v] # NoStream
  <2>1. NoStream.step = "closed"
    BY DEF NoStream
  <2> QED BY <1>3, <2>1
<1>5. stream[v] \in StreamRow /\ stream[v].step # "closed" /\ stream[v].task \in FileTasks
  BY <1>4, OpenStep, StreamRecord
<1>6. CASE stream[v].task = t
  <2>1. stream'[v].truncated = TRUE /\ stream'[v].step = stream[v].step /\ stream'[v].task = t
    BY <1>3, <1>5, <1>6 DEF StreamRow
  <2> QED BY <1>2, <1>4, <1>6, <2>1 DEF StreamInv
<1>7. CASE stream[v].task # t
  <2>1. stream'[v] = stream[v] /\ logFile'[stream[v].task] = logFile[stream[v].task]
    BY <1>2, <1>3, <1>5, <1>7
  <2> QED BY <1>2, <1>4, <2>1 DEF StreamInv
<1> QED BY <1>6, <1>7

\* A line that a build writes comes after what has been sent.
LEMMA WritingKeeps ==
    ASSUME FileShape, StreamInv, EndedInv, NEW t \in FileTasks, BuildWrites(t)
    PROVE  StreamInv'
<1>1. /\ t \in running /\ UNCHANGED <<taskState, stream>>
      /\ logFile'[t].lines = Append(logFile[t].lines, written[t] + 1)
      /\ logFile'[t].exists = logFile[t].exists
      /\ \A u \in FileTasks \ {t} : logFile'[u] = logFile[u]
      /\ written[t] + 1 \in 1..MaxLines
  BY LogTyped DEF BuildWrites
<1> SUFFICES ASSUME NEW v \in Viewers, stream[v] # NoStream
             PROVE  LET w == stream[v]
                    IN /\ w.step \in {"final", "done"} => taskState[w.task].state = "ended"
                       /\ (~w.truncated /\ logFile'[w.task].exists) =>
                            /\ Sent(w, logFile'[w.task].lines)
                            /\ (w.step = "done" /\ ~taskState[w.task].interrupted)
                                 => w.offset = Len(logFile'[w.task].lines)
  BY <1>1 DEF StreamInv, Sent
<1>2. stream[v].task \in FileTasks /\ stream[v].offset \in Nat
  BY StreamRecord
<1>3. CASE stream[v].task # t
  BY <1>1, <1>2, <1>3 DEF StreamInv
<1>4. CASE stream[v].task = t
  <2> DEFINE w == stream[v]
             lines == logFile[t].lines
  <2>1. w.step \in {"final", "done"} => taskState[t].state = "ended"
    BY <1>4 DEF StreamInv
  <2>2. w.step = "done" => taskState[t].interrupted
    BY <1>1, <2>1 DEF EndedInv
  <2>3. ASSUME ~w.truncated, logFile[t].exists PROVE Sent(w, logFile'[t].lines)
    <3>1. Sent(w, lines)
      BY <1>4, <2>3 DEF StreamInv
    <3>2. lines \in Seq(1..MaxLines)
      BY RowFields
    <3>3. Len(lines) \in Nat
      BY <3>2, LenProperties
    <3> HIDE DEF w, lines
    <3>4. w.offset \in 0..Len(lines)
      BY <1>2, <3>1, <3>3 DEF Sent, w
    <3>5. /\ SubSeq(Append(lines, written[t] + 1), 1, w.offset) = SubSeq(lines, 1, w.offset)
          /\ Len(Append(lines, written[t] + 1)) = Len(lines) + 1
      BY <1>1, <3>2, <3>4, AppendKeepsPrefix
    <3> DEFINE more == Append(lines, written[t] + 1)
    <3>6. logFile'[t].lines = more
      BY <1>1 DEF lines
    <3>7. SubSeq(more, 1, w.offset) = SubSeq(lines, 1, w.offset) /\ Len(more) = Len(lines) + 1
      BY <3>5
    <3> HIDE DEF more
    <3>8. w.offset <= Len(more)
      BY <3>3, <3>4, <3>7
    <3> QED BY <3>1, <3>6, <3>7, <3>8 DEF Sent
  <2> HIDE DEF w, lines
  <2> QED BY <1>1, <1>4, <2>1, <2>2, <2>3 DEF w
<1> QED BY <1>3, <1>4

\* A stream opens with nothing sent and goes on from its offset.
LEMMA ViewerKeeps ==
    ASSUME FileShape, StreamInv, NEW v \in Viewers,
           \/ \E t \in FileTasks : OpenStream(v, t)
           \/ ReadChunk(v) \/ AskStatus(v) \/ FinalChunk(v)
    PROVE  StreamInv'
<1>1. UNCHANGED <<taskState, logFile>>
  BY DEF OpenStream, ReadChunk, AskStatus, FinalChunk
<1> DEFINE Good(w) == /\ w.step \in {"final", "done"} => taskState[w.task].state = "ended"
                      /\ (~w.truncated /\ logFile[w.task].exists) =>
                           /\ Sent(w, logFile[w.task].lines)
                           /\ (w.step = "done" /\ ~taskState[w.task].interrupted)
                                => w.offset = Len(logFile[w.task].lines)
<1>2. ASSUME NEW w, Good(w), stream' = [stream EXCEPT ![v] = w] PROVE StreamInv'
  <2>1. \A u \in Viewers : stream'[u] = w \/ stream'[u] = stream[u]
    BY <1>2 DEF FileShape
  <2>2. \A u \in Viewers : stream[u] # NoStream => Good(stream[u])
    BY DEF StreamInv
  <2> HIDE DEF Good
  <2>3. \A u \in Viewers : stream'[u] # NoStream => Good(stream'[u])
    BY <1>2, <2>1, <2>2
  <2> QED BY <1>1, <2>3 DEF StreamInv, Sent, Good
<1>3. ASSUME NEW t \in FileTasks, OpenStream(v, t) PROVE StreamInv'
  <2> DEFINE w == [step |-> "read", task |-> t, offset |-> 0, sent |-> <<>>, truncated |-> FALSE]
  <2>1. w.step = "read" /\ w.offset = 0 /\ w.sent = <<>> /\ w.task = t
    OBVIOUS
  <2>2. stream' = [stream EXCEPT ![v] = w]
    BY <1>3 DEF OpenStream
  <2> HIDE DEF w
  <2>3. Sent(w, logFile[t].lines)
    <3>1. logFile[t].lines \in Seq(1..MaxLines)
      BY RowFields
    <3>2. Len(logFile[t].lines) \in Nat /\ Len(<<>>) = 0
      BY <3>1, LenProperties
    <3>3. SubSeq(logFile[t].lines, 1, 0) = <<>>
      BY SubSeqEmpty
    <3> QED BY <2>1, <3>2, <3>3 DEF Sent
  <2>4. Good(w)
    BY <2>1, <2>3
  <2> HIDE DEF Good
  <2> QED BY <1>2, <2>2, <2>4
<1>4. ASSUME NEW next \in {"ask", "done"}, stream[v] # NoStream, stream[v].step # "done",
             next = "done" => taskState[stream[v].task].state = "ended",
             stream' = [stream EXCEPT ![v] = SendChunk(v, next)]
      PROVE  StreamInv'
  <2> DEFINE w == SendChunk(v, next)
  <2>1. w.step = next /\ w.task = stream[v].task /\ w.truncated = stream[v].truncated
    BY <1>4, ChunkTyped
  <2>2. (~stream[v].truncated /\ logFile[w.task].exists) =>
          /\ Sent(w, logFile[w.task].lines)
          /\ w.offset = Len(logFile[w.task].lines)
    <3> SUFFICES ASSUME ~stream[v].truncated, logFile[w.task].exists
                 PROVE  Sent(w, logFile[w.task].lines) /\ w.offset = Len(logFile[w.task].lines)
      OBVIOUS
    <3>1. Sent(stream[v], logFile[stream[v].task].lines)
      BY <1>4, <2>1 DEF StreamInv
    <3> QED BY <1>4, <2>1, <3>1, ChunkCompletes
  <2> HIDE DEF w
  <2>3. Good(w)
    BY <1>4, <2>1, <2>2
  <2> HIDE DEF Good
  <2> QED BY <1>2, <1>4, <2>3 DEF w
<1>5. CASE ReadChunk(v)
  BY <1>4, <1>5, OpenStep DEF ReadChunk
<1>6. CASE FinalChunk(v)
  <2>1. stream[v] # NoStream
    BY <1>6, OpenStep DEF FinalChunk
  <2>2. taskState[stream[v].task].state = "ended"
    BY <1>6, <2>1 DEF FinalChunk, StreamInv
  <2> QED BY <1>4, <1>6, <2>1, <2>2 DEF FinalChunk
<1>7. CASE AskStatus(v)
  <2> DEFINE next == IF taskState[stream[v].task].state = "ended" THEN "final" ELSE "read"
             w == [stream[v] EXCEPT !.step = next]
  <2>1. stream[v] # NoStream /\ stream[v].step = "ask"
    BY <1>7, OpenStep DEF AskStatus
  <2>2. stream[v] \in StreamRow
    BY <2>1, StreamRecord
  <2>3. stream' = [stream EXCEPT ![v] = w]
    BY <1>7 DEF AskStatus
  <2> HIDE DEF next
  <2>4. /\ w.step = next /\ w.task = stream[v].task /\ w.truncated = stream[v].truncated
        /\ w.offset = stream[v].offset /\ w.sent = stream[v].sent
    BY <2>2 DEF StreamRow
  <2>5. /\ next = "final" => taskState[stream[v].task].state = "ended"
        /\ next \notin {"done", "ask"}
    BY DEF next
  <2>6. Good(stream[v])
    BY <2>1 DEF StreamInv
  <2> HIDE DEF w
  <2>7. Good(w)
    BY <2>4, <2>5, <2>6 DEF Sent
  <2> HIDE DEF Good
  <2> QED BY <1>2, <2>3, <2>7
<1> QED BY <1>3, <1>5, <1>6, <1>7

-----------------------------------------------------------------------------
(* Files: the theorems *)

\* What every step does to streams and ends.
LEMMA StreamStep ==
    ASSUME FileInv, FileNext
    PROVE  StreamInv'
<1> USE DEF FileInv
<1>1. ASSUME NEW s \in Starters,
             \/ \E t \in FileTasks : BeginStart(s, t)
             \/ MakeContext(s) \/ PrepareFails(s) \/ StartBuild(s)
      PROVE  StreamInv'
  BY <1>1, QuietKeeps DEF BeginStart, MakeContext, PrepareFails, StartBuild
<1>2. ASSUME NEW s \in Starters, WriteContext(s) PROVE StreamInv'
  BY <1>2, TruncationKeeps
<1>3. ASSUME NEW t \in FileTasks, BuildWrites(t) PROVE StreamInv'
  BY <1>3, WritingKeeps
<1>4. ASSUME NEW t \in FileTasks, BuildEnds(t) \/ CancelTask(t) PROVE StreamInv'
  BY <1>4, QuietKeeps DEF BuildEnds, CancelTask
<1>5. ASSUME NEW t \in FileTasks, TimePasses(t) PROVE StreamInv'
  <2>1. \A u \in FileTasks : /\ logFile'[u].exists = logFile[u].exists
                             /\ logFile'[u].lines = logFile[u].lines
    BY <1>5 DEF TimePasses, FileShape, LogRow
  <2> QED BY <1>5, <2>1, StreamFrame DEF TimePasses
<1>6. ASSUME NEW v \in Viewers,
             \/ \E t \in FileTasks : OpenStream(v, t)
             \/ ReadChunk(v) \/ AskStatus(v) \/ FinalChunk(v)
      PROVE  StreamInv'
  BY <1>6, ViewerKeeps
<1>7. ASSUME NEW v \in Viewers, CloseStream(v) PROVE StreamInv'
  BY <1>7, QuietKeeps DEF CloseStream, FileShape
<1>8. CASE \/ \E days \in Days : UpdateSetting(days)
           \/ \E readable \in BOOLEAN : RunOnce(readable)
           \/ \E kind \in {"context", "log"}, t \in FileTasks : SeeOld(kind, t)
           \/ EndPass
  BY <1>8, QuietKeeps DEF UpdateSetting, RunOnce, SeeOld, EndPass
<1>9. CASE RemoveOld
  <2>1. NoLog.exists = FALSE
    BY DEF NoLog
  <2>2. \A t \in FileTasks : logFile'[t].exists => logFile'[t] = logFile[t]
    BY <1>9, <2>1 DEF RemoveOld, FileShape
  <2> QED BY <1>9, <2>2, StreamFrame DEF RemoveOld
<1>10. CASE Restart
  BY <1>10, QuietKeeps DEF Restart
<1>11. ASSUME NEW s \in Starters,
              \/ \E t \in FileTasks : BeginStart(s, t)
              \/ MakeContext(s) \/ WriteContext(s) \/ PrepareFails(s) \/ StartBuild(s)
       PROVE  StreamInv'
  BY <1>1, <1>2, <1>11
<1>12. ASSUME NEW t \in FileTasks, BuildWrites(t) \/ BuildEnds(t) \/ CancelTask(t) \/ TimePasses(t)
       PROVE  StreamInv'
  BY <1>3, <1>4, <1>5, <1>12
<1>13. ASSUME NEW v \in Viewers,
              \/ \E t \in FileTasks : OpenStream(v, t)
              \/ ReadChunk(v) \/ AskStatus(v) \/ FinalChunk(v) \/ CloseStream(v)
       PROVE  StreamInv'
  BY <1>6, <1>7, <1>13
<1> QED BY <1>8, <1>9, <1>10, <1>11, <1>12, <1>13 DEF FileNext

\* The invariant of the files holds, whatever starts, builds, viewers, the cleaner
\* and restarts do between each other's steps.
THEOREM FileInvHolds == FileSpec => []FileInv
<1>1. FileInit => FileInv
  <2> SUFFICES ASSUME FileInit PROVE FileInv
    OBVIOUS
  <2> USE DEF FileInit
  <2>1. NoStart.step = "idle" /\ NoPass.step = "idle"
    BY DEF NoStart, NoPass
  <2>2. FileShape
    <3>1. NoLog \in LogRow
      BY EmptySeq DEF NoLog, LogRow
    <3>2. Row("queued") \in TaskRow
      BY DEF Row, TaskRow, TaskStates
    <3>3. 0 \in 0..MaxLines
      BY MaxLinesIsNumber
    <3> QED BY <3>1, <3>2, <3>3 DEF FileShape
  <2>3. \A t \in FileTasks : ~InUse(t) /\ ~Begun(t)
    BY <2>1 DEF InUse, Begun, Preparing, Started
  <2>4. KeepInv /\ RemoveInv
    BY <2>1, <2>3 DEF KeepInv, RemoveInv
  <2>5. StreamInv /\ EndedInv
    BY DEF StreamInv, EndedInv
  <2> QED BY <2>2, <2>4, <2>5 DEF FileInv
<1>2. FileInv /\ [FileNext]_fileVars => FileInv'
  <2> SUFFICES ASSUME FileInv, [FileNext]_fileVars PROVE FileInv'
    OBVIOUS
  <2>1. CASE UNCHANGED fileVars
    <3> USE <2>1 DEF fileVars, FileInv
    <3>1. FileShape' /\ EndedInv'
      BY DEF FileShape, EndedInv
    <3>2. KeepInv' /\ RemoveInv'
      BY FilesAlone
    <3>3. StreamInv'
      BY DEF StreamInv, Sent
    <3> QED BY <3>1, <3>2, <3>3
  <2>2. CASE FileNext
    <3> USE DEF FileInv
    <3>1. StreamInv' /\ EndedInv'
      BY <2>2, StreamStep, EndedStep
    <3>2. ASSUME NEW s \in Starters,
                 \/ \E t \in FileTasks : BeginStart(s, t)
                 \/ MakeContext(s) \/ WriteContext(s) \/ PrepareFails(s) \/ StartBuild(s)
          PROVE  FileShape' /\ KeepInv' /\ RemoveInv'
      BY <2>2, <3>2, StartTyped, StartKeeps
    <3>3. ASSUME NEW t \in FileTasks,
                 BuildWrites(t) \/ BuildEnds(t) \/ CancelTask(t) \/ TimePasses(t)
          PROVE  FileShape' /\ KeepInv' /\ RemoveInv'
      BY <2>2, <3>3, OthersTyped, BuildKeeps
    <3>4. ASSUME \/ \E v \in Viewers :
                      \/ \E t \in FileTasks : OpenStream(v, t)
                      \/ ReadChunk(v) \/ AskStatus(v) \/ FinalChunk(v) \/ CloseStream(v)
                 \/ \E days \in Days : UpdateSetting(days)
                 \/ \E readable \in BOOLEAN : RunOnce(readable)
                 \/ \E kind \in {"context", "log"}, t \in FileTasks : SeeOld(kind, t)
                 \/ RemoveOld \/ EndPass \/ Restart
          PROVE  FileShape' /\ KeepInv' /\ RemoveInv'
      BY <3>4, OthersTyped, OthersKeep
    <3>5. FileShape' /\ KeepInv' /\ RemoveInv'
      BY <2>2, <3>2, <3>3, <3>4 DEF FileNext
    <3> QED BY <3>1, <3>5
  <2> QED BY <2>1, <2>2
<1> QED BY <1>1, <1>2, PTL DEF FileSpec

\* FileTypeOK: files, logs and the retention stay well typed.
THEOREM FilesTyped == FileSpec => []FileTypeOK
<1>1. FileInv => FileTypeOK
  BY DEF FileInv, FileShape, FileTypeOK, TaskRow, LogRow
<1> QED BY <1>1, FileInvHolds, PTL

\* RunningKeepsFiles: a build keeps its context and its log while it runs, unless
\* they were old when the start found them.
THEOREM FilesAreKept == FileSpec => []RunningKeepsFiles
<1>1. FileInv => RunningKeepsFiles
  <2> SUFFICES ASSUME FileInv, NEW t \in running
               PROVE  /\ contextDir[t] = "none" => taskState[t].aged
                      /\ logFile[t].exists \/ taskState[t].aged
    BY DEF RunningKeepsFiles
  <2>1. t \in FileTasks
    BY DEF FileInv, FileShape
  <2>2. Safe(t) /\ HasLog(t)
    BY <2>1 DEF FileInv, KeepInv, InUse, Begun
  <2> QED BY <2>2 DEF Safe, HasLog
<1> QED BY <1>1, FileInvHolds, PTL

\* StreamIsFaithful: a viewer is sent the log line by line from its beginning, and
\* all of it before it is told that the build is done.
THEOREM StreamsAreFaithful == FileSpec => []StreamIsFaithful
<1>1. FileInv => StreamIsFaithful
  <2> SUFFICES ASSUME FileInv, NEW v \in Viewers, stream[v].step # "closed", ~stream[v].truncated,
                      logFile[stream[v].task].exists
               PROVE  LET lines == logFile[stream[v].task].lines
                          count == Len(stream[v].sent)
                      IN /\ count <= Len(lines) /\ stream[v].sent = SubSeq(lines, 1, count)
                         /\ (stream[v].step = "done" /\ ~taskState[stream[v].task].interrupted)
                              => stream[v].sent = lines
    <3>1. "done" # "closed"
      OBVIOUS
    <3> QED BY <3>1 DEF StreamIsFaithful, StreamIsPrefix, DoneIsComplete
  <2> DEFINE w == stream[v]
             lines == logFile[w.task].lines
  <2>1. w # NoStream
    BY OpenStep DEF FileInv
  <2>2. Sent(w, lines) /\ ((w.step = "done" /\ ~taskState[w.task].interrupted) => w.offset = Len(lines))
    BY <2>1 DEF FileInv, StreamInv
  <2>3. w.task \in FileTasks
    BY <2>1, StreamRecord DEF FileInv
  <2>4. lines \in Seq(1..MaxLines)
    BY <2>3, RowFields DEF FileInv
  <2>5. SubSeq(lines, 1, Len(lines)) = lines
    BY <2>4, SubSeqFull
  <2> HIDE DEF w, lines
  <2>6. /\ Len(w.sent) <= Len(lines) /\ w.sent = SubSeq(lines, 1, Len(w.sent))
        /\ (w.step = "done" /\ ~taskState[w.task].interrupted) => w.sent = lines
    BY <2>2, <2>5 DEF Sent
  <2> QED BY <2>6 DEF w, lines
<1> QED BY <1>1, FileInvHolds, PTL

-----------------------------------------------------------------------------
(* Commands and cleanups: what a sequence holds *)

Elems(s) == {s[i] : i \in 1..Len(s)}

\* What may follow a command in a call.
Before(c, d) == /\ c # "inspect"
                /\ c \in {"push", "build"} => d = "inspect"
                /\ c = "login" => d \notin {"login", "mkconfig"}
                /\ d = "tag" => c = "identity"

Ordered(s) == \A i, j \in 1..Len(s) : i < j => Before(s[i], s[j])

\* How often a sequence holds a key: a command, or a cleanup.
Places(s, key) == {i \in 1..Len(s) : s[i] = key}
CountOf(s, key) == Cardinality(Places(s, key))

\* A sequence holds its head and what its tail holds.
LEMMA TailElems ==
    ASSUME NEW S, NEW s \in Seq(S), s # <<>>
    PROVE  /\ Tail(s) \in Seq(S) /\ Head(s) \in S
           /\ Elems(s) = {Head(s)} \union Elems(Tail(s))
           /\ Ordered(s) => /\ Ordered(Tail(s))
                            /\ \A d \in Elems(Tail(s)) : Before(Head(s), d)
<1> DEFINE t == Tail(s)
           n == Len(s)
<1>1. /\ t \in Seq(S) /\ Head(s) \in S /\ Len(t) = n - 1
      /\ \A i \in 1..Len(t) : t[i] = s[i + 1]
  BY HeadTailProperties
<1>2. n \in Nat /\ n # 0
  BY EmptySeq
<1>3. Head(s) = s[1]
  OBVIOUS
<1>4. Len(t) = n - 1 /\ \A i \in 1..n - 1 : t[i] = s[i + 1]
  BY <1>1
<1> HIDE DEF t, n
<1>5. \A i \in 2..n : i - 1 \in 1..n - 1 /\ s[i] = t[i - 1]
  <2> SUFFICES ASSUME NEW i \in 2..n PROVE i - 1 \in 1..n - 1 /\ s[i] = t[i - 1]
    OBVIOUS
  <2>1. i - 1 \in 1..n - 1 /\ (i - 1) + 1 = i
    BY <1>2
  <2> QED BY <1>4, <2>1
<1>6. {s[i] : i \in 1..n} = {s[1]} \union {t[i] : i \in 1..n - 1}
  <2>1. ASSUME NEW i \in 1..n PROVE s[i] = s[1] \/ \E j \in 1..n - 1 : s[i] = t[j]
    <3>1. CASE i = 1
      BY <3>1
    <3>2. CASE i # 1
      <4>1. i \in 2..n
        BY <1>2, <3>2
      <4> QED BY <1>5, <4>1
    <3> QED BY <3>1, <3>2
  <2>2. ASSUME NEW j \in 1..n - 1 PROVE \E i \in 1..n : t[j] = s[i]
    <3>1. j + 1 \in 1..n
      BY <1>2
    <3> QED BY <1>4, <3>1
  <2>3. 1 \in 1..n
    BY <1>2
  <2> QED BY <2>1, <2>2, <2>3
<1>7. ASSUME Ordered(s) PROVE Ordered(t) /\ \A i \in 1..n - 1 : Before(s[1], t[i])
  <2>1. ASSUME NEW i \in 1..n - 1, NEW j \in 1..n - 1, i < j PROVE Before(t[i], t[j])
    <3>1. i + 1 \in 1..n /\ j + 1 \in 1..n /\ i + 1 < j + 1
      BY <1>2, <2>1
    <3>2. t[i] = s[i + 1] /\ t[j] = s[j + 1]
      BY <1>4
    <3>3. Before(s[i + 1], s[j + 1])
      BY <1>7, <3>1 DEF Ordered, n
    <3> QED BY <3>2, <3>3
  <2>2. ASSUME NEW i \in 1..n - 1 PROVE Before(s[1], t[i])
    <3>1. i + 1 \in 1..n /\ 1 \in 1..n /\ 1 < i + 1
      BY <1>2
    <3>2. Before(s[1], s[i + 1])
      BY <1>7, <3>1 DEF Ordered, n
    <3> QED BY <1>4, <3>2
  <2> QED BY <1>4, <2>1, <2>2 DEF Ordered
<1>8. Elems(t) = {t[i] : i \in 1..n - 1}
  BY <1>4 DEF Elems
<1>9. Elems(s) = {s[1]} \union Elems(t)
  BY <1>6, <1>8 DEF Elems, n
<1> QED BY <1>1, <1>3, <1>7, <1>8, <1>9 DEF t

\* Two sequences one after the other hold what each of them does.
LEMMA ConcatElems ==
    ASSUME NEW S, NEW s \in Seq(S), NEW t \in Seq(S)
    PROVE  /\ s \o t \in Seq(S) /\ Elems(s \o t) = Elems(s) \union Elems(t)
           /\ (Ordered(s) /\ Ordered(t) /\ \A c \in Elems(s), d \in Elems(t) : Before(c, d))
                => Ordered(s \o t)
<1> DEFINE u == s \o t
           m == Len(s)
           n == Len(t)
<1>1. u \in Seq(S) /\ Len(u) = m + n
        /\ \A i \in 1..m + n : u[i] = IF i <= m THEN s[i] ELSE t[i - m]
  BY ConcatProperties
<1>2. m \in Nat /\ n \in Nat
  BY LenProperties
<1> HIDE DEF u, m, n
<1>3. \A i \in 1..m : i \in 1..m + n /\ u[i] = s[i]
  <2> SUFFICES ASSUME NEW i \in 1..m PROVE i \in 1..m + n /\ u[i] = s[i]
    OBVIOUS
  <2>1. i \in 1..m + n /\ i <= m
    BY <1>2
  <2> QED BY <1>1, <2>1
<1>4. \A i \in 1..n : m + i \in 1..m + n /\ u[m + i] = t[i]
  <2> SUFFICES ASSUME NEW i \in 1..n PROVE m + i \in 1..m + n /\ u[m + i] = t[i]
    OBVIOUS
  <2>1. m + i \in 1..m + n /\ ~(m + i <= m) /\ (m + i) - m = i
    BY <1>2
  <2> QED BY <1>1, <2>1
<1>5. \A i \in 1..m + n : \/ i \in 1..m /\ u[i] = s[i]
                          \/ i - m \in 1..n /\ i > m /\ u[i] = t[i - m]
  <2> SUFFICES ASSUME NEW i \in 1..m + n
               PROVE  \/ i \in 1..m /\ u[i] = s[i]
                      \/ i - m \in 1..n /\ i > m /\ u[i] = t[i - m]
    OBVIOUS
  <2>1. CASE i <= m
    <3>1. i \in 1..m
      BY <1>2, <2>1
    <3> QED BY <1>3, <3>1
  <2>2. CASE ~(i <= m)
    <3>1. i - m \in 1..n /\ i > m
      BY <1>2, <2>2
    <3> QED BY <1>1, <2>2, <3>1
  <2> QED BY <2>1, <2>2
<1>6. {u[i] : i \in 1..m + n} = {s[i] : i \in 1..m} \union {t[i] : i \in 1..n}
  <2>1. ASSUME NEW x \in {u[i] : i \in 1..m + n}
        PROVE  x \in {s[i] : i \in 1..m} \union {t[i] : i \in 1..n}
    BY <1>5
  <2>2. ASSUME NEW x \in {s[i] : i \in 1..m} PROVE x \in {u[i] : i \in 1..m + n}
    BY <1>3
  <2>3. ASSUME NEW x \in {t[i] : i \in 1..n} PROVE x \in {u[i] : i \in 1..m + n}
    BY <1>4
  <2> QED BY <2>1, <2>2, <2>3
<1>7. ASSUME Ordered(s), Ordered(t), \A c \in Elems(s), d \in Elems(t) : Before(c, d),
             NEW i \in 1..m + n, NEW j \in 1..m + n, i < j
      PROVE  Before(u[i], u[j])
  <2>1. CASE i \in 1..m /\ j \in 1..m /\ u[i] = s[i] /\ u[j] = s[j]
    BY <1>7, <2>1 DEF Ordered, m
  <2>2. CASE i \in 1..m /\ u[i] = s[i] /\ j - m \in 1..n /\ u[j] = t[j - m]
    BY <1>7, <2>2 DEF Elems, m, n
  <2>3. CASE i - m \in 1..n /\ u[i] = t[i - m] /\ j - m \in 1..n /\ u[j] = t[j - m]
    <3>1. i - m < j - m
      BY <1>2, <1>7
    <3> QED BY <1>7, <2>3, <3>1 DEF Ordered, n
  <2>4. CASE i > m /\ j \in 1..m
    BY <1>2, <1>7, <2>4
  <2> QED BY <1>5, <2>1, <2>2, <2>3, <2>4
<1>8. Elems(u) = Elems(s) \union Elems(t)
  BY <1>1, <1>6 DEF Elems, m, n
<1>9. (Ordered(s) /\ Ordered(t) /\ \A c \in Elems(s), d \in Elems(t) : Before(c, d)) => Ordered(u)
  BY <1>1, <1>7 DEF Ordered
<1> QED BY <1>1, <1>8, <1>9 DEF u

\* Cleanups one place further on are as many.
LEMMA ShiftedCount ==
    ASSUME NEW K, IsFiniteSet(K), K \subseteq Nat
    PROVE  LET L == {i + 1 : i \in K}
           IN IsFiniteSet(L) /\ Cardinality(L) = Cardinality(K)
<1> DEFINE L == {i + 1 : i \in K}
           f == [i \in K |-> i + 1]
<1>1. f \in Bijection(K, L)
  <2>1. f \in [K -> L]
    OBVIOUS
  <2>2. \A a, b \in K : f[a] = f[b] => a = b
    OBVIOUS
  <2>3. \A y \in L : \E x \in K : f[x] = y
    OBVIOUS
  <2> HIDE DEF f, L
  <2> QED BY <2>1, <2>2, <2>3 DEF Bijection, Injection, Surjection, IsInjective
<1>2. ExistsBijection(K, L)
  BY <1>1 DEF ExistsBijection
<1> QED BY <1>2, FS_Bijection

\* The count of a sequence is that of its tail, with its head.
LEMMA TailCount ==
    ASSUME NEW S, NEW s \in Seq(S), NEW key
    PROVE  /\ CountOf(s, key) \in Nat
           /\ s # <<>> => CountOf(s, key) = CountOf(Tail(s), key) + (IF Head(s) = key THEN 1 ELSE 0)
<1> DEFINE n == Len(s)
           t == Tail(s)
<1>1. n \in Nat
  BY LenProperties
<1>2. IsFiniteSet(Places(s, key)) /\ CountOf(s, key) \in Nat
  <2>1. IsFiniteSet(1..n)
    BY <1>1, FS_Interval
  <2>2. Places(s, key) \in SUBSET (1..n)
    BY DEF Places
  <2>3. IsFiniteSet(Places(s, key))
    BY <2>1, <2>2, FS_Subset
  <2> QED BY <2>3, FS_CardinalityType DEF CountOf
<1>3. ASSUME s # <<>>
      PROVE  CountOf(s, key) = CountOf(t, key) + (IF Head(s) = key THEN 1 ELSE 0)
  <2>1. Len(t) = n - 1 /\ \A i \in 1..n - 1 : t[i] = s[i + 1]
    BY <1>3, HeadTailProperties
  <2>2. n # 0 /\ Head(s) = s[1]
    BY <1>3, EmptySeq
  <2> DEFINE K == Places(t, key)
             L == {i + 1 : i \in K}
  <2>3. K = {i \in 1..n - 1 : t[i] = key}
    BY <2>1 DEF Places
  <2>4. IsFiniteSet(K) /\ K \subseteq Nat
    <3>1. IsFiniteSet(1..n - 1)
      BY <1>1, FS_Interval
    <3>2. K \in SUBSET (1..n - 1)
      BY <2>3
    <3>3. K \subseteq Nat
      BY <1>1, <3>2
    <3> QED BY <3>1, <3>2, <3>3, FS_Subset
  <2>5. IsFiniteSet(L) /\ Cardinality(L) = Cardinality(K)
    BY <2>4, ShiftedCount
  <2>6. 1 \notin L
    BY <2>3, <1>1
  <2>7. Places(s, key) = IF s[1] = key THEN L \union {1} ELSE L
    <3> HIDE DEF n, t
    <3>1. Places(s, key) = {i \in 1..n : s[i] = key}
      BY DEF Places, n
    <3>2. ASSUME NEW i \in 1..n, s[i] = key, i # 1 PROVE i \in L
      <4>1. i - 1 \in 1..n - 1 /\ (i - 1) + 1 = i
        BY <1>1, <3>2
      <4>2. t[i - 1] = key
        BY <2>1, <3>2, <4>1
      <4>3. i - 1 \in K
        BY <2>3, <4>1, <4>2
      <4> QED BY <4>1, <4>3
    <3>3. ASSUME NEW j \in K PROVE j + 1 \in 1..n /\ s[j + 1] = key
      <4>1. j \in 1..n - 1 /\ t[j] = key
        BY <2>3
      <4>2. j + 1 \in 1..n
        BY <1>1, <4>1
      <4> QED BY <2>1, <4>1, <4>2
    <3>4. 1 \in 1..n
      BY <1>1, <2>2
    <3>5. \A i \in L : i \in 1..n /\ s[i] = key
      BY <3>3
    <3> HIDE DEF L
    <3> QED BY <2>6, <3>1, <3>2, <3>4, <3>5
  <2> HIDE DEF L, K
  <2>8. Cardinality(L \union {1}) = Cardinality(L) + 1
    BY <2>5, <2>6, FS_AddElement
  <2>9. Cardinality(L) \in Nat
    BY <2>5, FS_CardinalityType
  <2> QED BY <2>2, <2>5, <2>7, <2>8, <2>9 DEF CountOf, K
<1> QED BY <1>2, <1>3

\* The empty sequence holds no key.
LEMMA EmptyCount ==
    ASSUME NEW key
    PROVE  CountOf(<<>>, key) = 0
<1>1. Places(<<>>, key) = {}
  BY DEF Places
<1> QED BY <1>1, FS_EmptySet DEF CountOf

\* Short sequences.
LEMMA ShortElems ==
    ASSUME NEW S, NEW c \in S, NEW d \in S
    PROVE  /\ <<>> \in Seq(S) /\ Elems(<<>>) = {} /\ Ordered(<<>>)
           /\ <<c>> \in Seq(S) /\ Elems(<<c>>) = {c} /\ Ordered(<<c>>)
           /\ <<c, d>> \in Seq(S) /\ Elems(<<c, d>>) = {c, d}
           /\ Before(c, d) => Ordered(<<c, d>>)
<1>1. <<>> \in Seq(S) /\ Len(<<>>) = 0
  BY EmptySeq
<1>2. Elems(<<>>) = {} /\ Ordered(<<>>)
  BY <1>1 DEF Elems, Ordered
<1>3. <<c>> \in Seq(S) /\ Len(<<c>>) = 1 /\ <<c>>[1] = c
  OBVIOUS
<1>4. Elems(<<c>>) = {c} /\ Ordered(<<c>>)
  <2>1. \A i \in 1..1 : i = 1
    OBVIOUS
  <2>2. \A i \in 1..1 : <<c>>[i] = c
    BY <1>3, <2>1
  <2>3. ~ \E i, j \in 1..1 : i < j
    OBVIOUS
  <2>4. 1 \in 1..1
    OBVIOUS
  <2> QED BY <1>3, <2>2, <2>3, <2>4 DEF Elems, Ordered
<1>5. <<c, d>> \in Seq(S) /\ Len(<<c, d>>) = 2 /\ <<c, d>>[1] = c /\ <<c, d>>[2] = d
  OBVIOUS
<1>6. \A i \in 1..2 : i = 1 \/ i = 2
  OBVIOUS
<1>7. Elems(<<c, d>>) = {c, d}
  <2>1. 1 \in 1..2 /\ 2 \in 1..2
    OBVIOUS
  <2>2. \A i \in 1..2 : <<c, d>>[i] = c \/ <<c, d>>[i] = d
    BY <1>5, <1>6
  <2> QED BY <1>5, <2>1, <2>2 DEF Elems
<1>8. ASSUME Before(c, d) PROVE Ordered(<<c, d>>)
  <2>1. \A i, j \in 1..2 : i < j => i = 1 /\ j = 2
    OBVIOUS
  <2> QED BY <1>5, <1>8, <2>1 DEF Ordered
<1> QED BY <1>1, <1>2, <1>3, <1>4, <1>5, <1>7, <1>8

\* A sequence with one more element in front: a cleanup deferred after others, say.
LEMMA Prepended ==
    ASSUME NEW S, NEW s \in Seq(S), NEW x \in S, NEW key
    PROVE  /\ <<x>> \o s \in Seq(S) /\ <<x>> \o s # <<>>
           /\ Elems(<<x>> \o s) = {x} \union Elems(s)
           /\ CountOf(<<x>> \o s, key) = CountOf(s, key) + (IF x = key THEN 1 ELSE 0)
<1> DEFINE t == <<x>> \o s
           n == Len(s)
<1>1. <<x>> \in Seq(S) /\ Len(<<x>>) = 1 /\ <<x>>[1] = x
  OBVIOUS
<1>2. n \in Nat
  BY LenProperties
<1>3. t \in Seq(S) /\ Len(t) = 1 + n
        /\ \A i \in 1..1 + n : t[i] = IF i <= 1 THEN <<x>>[i] ELSE s[i - 1]
  BY <1>1, ConcatProperties
<1>4. t # <<>>
  <2>1. Len(<<>>) = 0
    OBVIOUS
  <2> QED BY <1>2, <1>3, <2>1
<1>5. Elems(t) = {x} \union Elems(s)
  <2> DEFINE q == <<x>>
  <2>1. Elems(q) = {x} /\ q \in Seq(S)
    BY ShortElems
  <2> HIDE DEF q
  <2>2. Elems(q \o s) = Elems(q) \union Elems(s)
    BY <2>1, ConcatElems
  <2> QED BY <2>1, <2>2 DEF q
<1> HIDE DEF t
<1>6. Head(t) = x
  <2>1. Head(t) = t[1]
    OBVIOUS
  <2>2. 1 \in 1..1 + n
    BY <1>2
  <2> QED BY <1>1, <1>3, <2>1, <2>2
<1>7. Tail(t) = s
  <2>1. /\ Tail(t) \in Seq(S) /\ Len(Tail(t)) = Len(t) - 1
        /\ \A i \in 1..Len(Tail(t)) : Tail(t)[i] = t[i + 1]
    BY <1>3, <1>4, HeadTailProperties
  <2>2. Len(Tail(t)) = n
    BY <1>2, <1>3, <2>1
  <2>3. ASSUME NEW i \in 1..n PROVE Tail(t)[i] = s[i]
    <3>1. i + 1 \in 1..1 + n /\ ~(i + 1 <= 1) /\ (i + 1) - 1 = i
      BY <1>2
    <3>2. Tail(t)[i] = t[i + 1]
      BY <2>1, <2>2
    <3> QED BY <1>3, <3>1, <3>2
  <2> QED BY <2>1, <2>2, <2>3, SeqEqual
<1>8. CountOf(t, key) = CountOf(s, key) + (IF x = key THEN 1 ELSE 0)
  BY <1>3, <1>4, <1>6, <1>7, TailCount
<1> QED BY <1>3, <1>4, <1>5, <1>8 DEF t

-----------------------------------------------------------------------------
(* The commands of the calls *)

\* A plan is in order, ends with the inspection and holds some commands.
Plan(s, held) == s \in Seq(Commands) /\ Ordered(s) /\ Elems(s) = held /\ "inspect" \in held

\* Commands in order before a plan.
LEMMA PlanConcat ==
    ASSUME NEW s, NEW held, Plan(s, held), NEW q \in Seq(Commands), NEW first, Ordered(q),
           Elems(q) = first, \A c \in first, e \in held : Before(c, e)
    PROVE  Plan(q \o s, first \union held)
<1>1. s \in Seq(Commands) /\ Ordered(s) /\ Elems(s) = held /\ "inspect" \in held
  BY DEF Plan
<1>2. /\ q \o s \in Seq(Commands) /\ Elems(q \o s) = Elems(q) \union Elems(s)
      /\ Ordered(q \o s)
  BY <1>1, ConcatElems
<1> QED BY <1>1, <1>2 DEF Plan

\* One or two commands before a plan.
LEMMA PlanExtended ==
    ASSUME NEW s, NEW held, Plan(s, held), NEW c \in Commands, NEW d \in Commands,
           NEW b \in BOOLEAN
    PROVE  /\ (\A e \in held : Before(c, e)) =>
                /\ Plan(<<c>> \o s, {c} \union held)
                /\ Plan(When(b, <<c>>) \o s, (IF b THEN {c} ELSE {}) \union held)
           /\ (Before(c, d) /\ \A e \in held : Before(c, e) /\ Before(d, e)) =>
                /\ Plan(<<c, d>> \o s, {c, d} \union held)
                /\ Plan(When(b, <<c, d>>) \o s, (IF b THEN {c, d} ELSE {}) \union held)
<1>1. s \in Seq(Commands) /\ Ordered(s) /\ Elems(s) = held /\ "inspect" \in held
  BY DEF Plan
<1>2. /\ <<>> \in Seq(Commands) /\ Elems(<<>>) = {} /\ Ordered(<<>>)
      /\ <<c>> \in Seq(Commands) /\ Elems(<<c>>) = {c} /\ Ordered(<<c>>)
      /\ <<c, d>> \in Seq(Commands) /\ Elems(<<c, d>>) = {c, d}
      /\ Before(c, d) => Ordered(<<c, d>>)
  BY ShortElems
<1>3. ASSUME \A e \in held : Before(c, e) PROVE Plan(<<c>> \o s, {c} \union held)
  <2> DEFINE q == <<c>>
  <2>1. q \in Seq(Commands) /\ Elems(q) = {c} /\ Ordered(q)
    BY <1>2
  <2> HIDE DEF q
  <2>2. Plan(q \o s, {c} \union held)
    BY <1>3, <2>1, PlanConcat
  <2> QED BY <2>2 DEF q
<1>4. ASSUME \A e \in held : Before(c, e)
      PROVE  Plan(When(b, <<c>>) \o s, (IF b THEN {c} ELSE {}) \union held)
  <2>1. CASE b
    BY <1>3, <1>4, <2>1 DEF When
  <2>2. CASE ~b
    <3>1. <<>> \o s = s
      BY <1>1, ConcatEmptySeq
    <3> QED BY <1>1, <2>2, <3>1 DEF When, Plan
  <2> QED BY <2>1, <2>2
<1>5. ASSUME Before(c, d), \A e \in held : Before(c, e) /\ Before(d, e)
      PROVE  /\ Plan(<<c, d>> \o s, {c, d} \union held)
             /\ Plan(When(b, <<c, d>>) \o s, (IF b THEN {c, d} ELSE {}) \union held)
  <2>1. \A x \in {c, d}, e \in held : Before(x, e)
    BY <1>5
  <2>2. Plan(<<c, d>> \o s, {c, d} \union held)
    <3> DEFINE q == <<c, d>>
    <3>1. q \in Seq(Commands) /\ Elems(q) = {c, d} /\ Ordered(q)
      BY <1>2, <1>5
    <3> HIDE DEF q
    <3>2. Plan(q \o s, {c, d} \union held)
      BY <2>1, <3>1, PlanConcat
    <3> QED BY <3>2 DEF q
  <2>3. CASE b
    BY <2>2, <2>3 DEF When
  <2>4. CASE ~b
    <3>1. <<>> \o s = s
      BY <1>1, ConcatEmptySeq
    <3> QED BY <1>1, <2>2, <2>4, <3>1 DEF When, Plan
  <2> QED BY <2>2, <2>3, <2>4
<1> QED BY <1>3, <1>4, <1>5

\* The last two commands of every call.
LEMMA PlanEnds ==
    Plan(<<"build", "inspect">>, {"build", "inspect"}) /\ Plan(<<"push", "inspect">>, {"push", "inspect"})
<1>1. "build" \in Commands /\ "push" \in Commands /\ "inspect" \in Commands
  BY DEF Commands
<1>2. Before("build", "inspect") /\ Before("push", "inspect")
  BY DEF Before
<1>3. /\ <<"build", "inspect">> \in Seq(Commands) /\ Ordered(<<"build", "inspect">>)
      /\ Elems(<<"build", "inspect">>) = {"build", "inspect"}
  BY <1>1, <1>2, ShortElems
<1>4. /\ <<"push", "inspect">> \in Seq(Commands) /\ Ordered(<<"push", "inspect">>)
      /\ Elems(<<"push", "inspect">>) = {"push", "inspect"}
  BY <1>1, <1>2, ShortElems
<1> QED BY <1>3, <1>4 DEF Plan

\* Commands may be grouped as one likes.
LEMMA Grouped ==
    ASSUME NEW a \in Seq(Commands), NEW b \in Seq(Commands), NEW c \in Seq(Commands)
    PROVE  (a \o b) \o c = a \o (b \o c)
BY ConcatAssociative

If(b, c) == IF b THEN {c} ELSE {}

\* What each call holds.
LEMMA PlansHold ==
    ASSUME NEW secret \in BOOLEAN, NEW source, NEW target
    PROVE  LET ForPush == {"mkconfig"} \union (If(secret, "login") \union {"push", "inspect"})
               ForTag == If(source # target, "tag")
           IN /\ Plan(BuildLocal(secret), If(secret, "login") \union {"build", "inspect"})
              /\ Plan(BuildSSH(secret), {"identity", "upload"} \union
                        ((IF secret THEN {"mkconfig", "login"} ELSE {}) \union {"build", "inspect"}))
              /\ Plan(PushLocal(secret), ForPush)
              /\ Plan(PushSSH(secret), {"identity"} \union ForPush)
              /\ Plan(RepushLocal(secret, source, target), ForTag \union ForPush)
              /\ Plan(RepushSSH(secret, source, target),
                      {"identity"} \union (ForTag \union ({"identity"} \union ForPush)))
<1> DEFINE B == <<"build", "inspect">>
           P == <<"push", "inspect">>
           L == When(secret, <<"login">>)
           M == <<"mkconfig">>
           I == <<"identity">>
           T == When(source # target, <<"tag">>)
<1>1. \A c \in {"identity", "upload", "mkconfig", "login", "tag", "build", "push", "inspect"} : c \in Commands
  BY DEF Commands
<1>2. /\ B \in Seq(Commands) /\ P \in Seq(Commands) /\ L \in Seq(Commands) /\ M \in Seq(Commands)
      /\ I \in Seq(Commands) /\ T \in Seq(Commands)
  BY <1>1 DEF When
<1>3. Plan(B, {"build", "inspect"}) /\ Plan(P, {"push", "inspect"})
  BY PlanEnds
<1> HIDE DEF B, P, L, M, I, T
<1> DEFINE HB == If(secret, "login") \union {"build", "inspect"}
           HP == If(secret, "login") \union {"push", "inspect"}
           HM == {"mkconfig"} \union HP
           HI == {"identity"} \union HM
<1>4. Plan(L \o B, HB)
  <2>1. \A e \in {"build", "inspect"} : Before("login", e)
    BY DEF Before
  <2> QED BY <1>1, <1>3, <2>1, PlanExtended DEF L, If
<1>5. Plan(L \o P, HP)
  <2>1. \A e \in {"push", "inspect"} : Before("login", e)
    BY DEF Before
  <2> QED BY <1>1, <1>3, <2>1, PlanExtended DEF L, If
<1>6. Plan(M \o (L \o P), HM)
  <2>1. \A e \in HP : Before("mkconfig", e)
    BY DEF Before, If
  <2> QED BY <1>1, <1>5, <2>1, PlanExtended DEF M
<1>7. Plan(I \o (M \o (L \o P)), HI)
  <2>1. \A e \in HM : Before("identity", e)
    BY DEF Before, If
  <2> QED BY <1>1, <1>6, <2>1, PlanExtended DEF I
<1>8. PushLocal(secret) = M \o (L \o P)
  BY <1>2, Grouped DEF PushLocal, M, L, P
<1>9. PushSSH(secret) = I \o (M \o (L \o P))
  <2> DEFINE IM == <<"identity", "mkconfig">>
  <2>1. IM \in Seq(Commands) /\ Len(IM) = 2 /\ IM[1] = "identity" /\ IM[2] = "mkconfig"
    BY <1>1
  <2>2. IM = I \o M
    <3> DEFINE u == I \o M
    <3>1. Len(I) = 1 /\ Len(M) = 1 /\ I[1] = "identity" /\ M[1] = "mkconfig"
      BY DEF I, M
    <3>2. u \in Seq(Commands) /\ Len(u) = Len(I) + Len(M)
            /\ \A i \in 1..Len(I) + Len(M) : u[i] = IF i <= Len(I) THEN I[i] ELSE M[i - Len(I)]
      BY <1>2, ConcatProperties
    <3> HIDE DEF IM, u
    <3>3. Len(u) = 2 /\ u[1] = "identity" /\ u[2] = "mkconfig"
      <4>1. 1 \in 1..1 + 1 /\ 2 \in 1..1 + 1
        OBVIOUS
      <4> QED BY <3>1, <3>2, <4>1
    <3>4. \A i \in 1..2 : i = 1 \/ i = 2
      OBVIOUS
    <3>5. \A i \in 1..2 : IM[i] = u[i]
      BY <2>1, <3>3, <3>4
    <3>6. IM = u
      BY <2>1, <3>2, <3>3, <3>5, SeqEqual
    <3> QED BY <3>6 DEF u
  <2>3. PushSSH(secret) = ((I \o M) \o L) \o P
    BY <2>2 DEF PushSSH, L, P
  <2>4. I \o M \in Seq(Commands) /\ L \o P \in Seq(Commands)
    BY <1>2, ConcatProperties
  <2> DEFINE u == I \o M
             w == L \o P
  <2>5. (u \o L) \o P = u \o w
    <3>1. u \in Seq(Commands)
      BY <2>4
    <3> HIDE DEF u
    <3> QED BY <1>2, <3>1, Grouped
  <2>6. u \o w = I \o (M \o w)
    <3>1. w \in Seq(Commands)
      BY <2>4
    <3> HIDE DEF w
    <3> QED BY <1>2, <3>1, Grouped
  <2> QED BY <2>3, <2>5, <2>6
<1>10. Plan(RepushLocal(secret, source, target), If(source # target, "tag") \union HM)
  <2>1. RepushLocal(secret, source, target) = T \o (M \o (L \o P))
    BY <1>8 DEF RepushLocal, T
  <2>2. CASE source # target
    <3>1. T = <<"tag">>
      BY <2>2 DEF T, When
    <3>2. \A e \in HM : Before("tag", e)
      BY DEF Before, If
    <3>3. Plan(<<"tag">> \o (M \o (L \o P)), {"tag"} \union HM)
      BY <1>1, <1>6, <3>2, PlanExtended
    <3> QED BY <2>1, <2>2, <3>1, <3>3 DEF If
  <2>3. CASE source = target
    <3>1. T = <<>>
      BY <2>3 DEF T, When
    <3>2. M \o (L \o P) \in Seq(Commands)
      BY <1>6 DEF Plan
    <3>3. <<>> \o (M \o (L \o P)) = M \o (L \o P)
      BY <3>2, ConcatEmptySeq
    <3> QED BY <1>6, <2>1, <2>3, <3>1, <3>3 DEF If
  <2> QED BY <2>2, <2>3
<1>11. Plan(RepushSSH(secret, source, target), {"identity"} \union (If(source # target, "tag") \union HI))
  <2>1. I \o (M \o (L \o P)) \in Seq(Commands)
    BY <1>7 DEF Plan
  <2>2. RepushSSH(secret, source, target) = I \o (T \o (I \o (M \o (L \o P))))
    <3> DEFINE w == I \o (M \o (L \o P))
    <3>1. RepushSSH(secret, source, target) = (I \o T) \o w
      BY <1>9 DEF RepushSSH, T, I
    <3>2. w \in Seq(Commands)
      BY <2>1
    <3> HIDE DEF w
    <3>3. (I \o T) \o w = I \o (T \o w)
      BY <1>2, <3>2, Grouped
    <3> QED BY <3>1, <3>3 DEF w
  <2>3. Plan(T \o (I \o (M \o (L \o P))), If(source # target, "tag") \union HI)
    <3>1. CASE source # target
      <4>1. T = <<"tag">>
        BY <3>1 DEF T, When
      <4>2. \A e \in HI : Before("tag", e)
        BY DEF Before, If
      <4>3. Plan(<<"tag">> \o (I \o (M \o (L \o P))), {"tag"} \union HI)
        BY <1>1, <1>7, <4>2, PlanExtended
      <4> QED BY <3>1, <4>1, <4>3 DEF If
    <3>2. CASE source = target
      <4>1. T = <<>>
        BY <3>2 DEF T, When
      <4>2. <<>> \o (I \o (M \o (L \o P))) = I \o (M \o (L \o P))
        BY <2>1, ConcatEmptySeq
      <4> QED BY <1>7, <3>2, <4>1, <4>2 DEF If
    <3> QED BY <3>1, <3>2
  <2>4. \A e \in If(source # target, "tag") \union HI : Before("identity", e)
    BY DEF Before, If
  <2> DEFINE w == T \o (I \o (M \o (L \o P)))
             HT == If(source # target, "tag") \union HI
  <2>5. Plan(w, HT) /\ \A e \in HT : Before("identity", e)
    BY <2>3, <2>4
  <2> HIDE DEF w, HT
  <2>6. Plan(I \o w, {"identity"} \union HT)
    BY <1>1, <2>5, PlanExtended DEF I
  <2> QED BY <2>2, <2>6 DEF w, HT
<1>12. Plan(BuildSSH(secret), {"identity", "upload"} \union ((IF secret THEN {"mkconfig", "login"} ELSE {})
                                \union {"build", "inspect"}))
  <2> DEFINE IU == <<"identity", "upload">>
             ML == When(secret, <<"mkconfig", "login">>)
             HL == (IF secret THEN {"mkconfig", "login"} ELSE {}) \union {"build", "inspect"}
  <2>1. Before("mkconfig", "login") /\ \A e \in {"build", "inspect"} : Before("mkconfig", e) /\ Before("login", e)
    BY DEF Before
  <2>2. Plan(ML \o B, HL)
    BY <1>1, <1>3, <2>1, PlanExtended
  <2>3. Before("identity", "upload") /\ \A e \in HL : Before("identity", e) /\ Before("upload", e)
    BY DEF Before
  <2>4. IU \in Seq(Commands) /\ ML \in Seq(Commands)
    BY <1>1 DEF When
  <2>5. BuildSSH(secret) = IU \o (ML \o B)
    BY <1>2, <2>4, Grouped DEF BuildSSH, B
  <2> HIDE DEF HL, ML
  <2>6. Plan(IU \o (ML \o B), {"identity", "upload"} \union HL)
    BY <1>1, <2>2, <2>3, PlanExtended
  <2> QED BY <2>5, <2>6 DEF HL
<1>13. BuildLocal(secret) = L \o B
  BY DEF BuildLocal, L, B
<1>14. Plan(BuildLocal(secret), HB) /\ Plan(PushLocal(secret), HM)
  BY <1>4, <1>6, <1>8, <1>13
<1>15. Plan(PushSSH(secret), HI)
  BY <1>7, <1>9
<1> QED BY <1>10, <1>11, <1>12, <1>14, <1>15

-----------------------------------------------------------------------------
(* Calls: the invariant *)

NoneFailed(o) == op[o].failed \intersect Commands = {}
Pushes(o) == op[o].call \in {"push", "repush"}
ToDo(o) == Elems(op[o].todo)
Deferred(o) == Elems(op[o].defers)

ExecShape == /\ op \in [Ops -> OpRow]
             /\ keyFiles \in [Ops -> Nat]
             /\ left \in [Ops -> SUBSET Directories]
             /\ image \in [BOOLEAN \X Refs -> Images]

\* How far a call has come, and that it goes on only while nothing has failed.
PathInv(o) ==
    /\ op[o].call = "none" => /\ ~Running(o) /\ op[o].failed = {} /\ op[o].pushed = NoImage
    /\ ~Running(o) => op[o].todo = <<>> /\ op[o].defers = <<>>
    /\ op[o].result = "ok" => NoneFailed(o)
    /\ op[o].todo # <<>> => "inspect" \in ToDo(o) /\ NoneFailed(o)
    /\ Ordered(op[o].todo)
    /\ op[o].call = "build" => ToDo(o) \intersect {"tag", "push"} = {}
    /\ op[o].call = "push" => "tag" \notin ToDo(o)
    /\ Pushes(o) => "build" \notin ToDo(o)

\* A push is logged in, in a configuration of its own, or will be.
LoginInv(o) ==
    op[o].secret =>
        /\ "mkconfig" \in ToDo(o) => "login" \in ToDo(o)
        /\ Pushes(o) /\ "push" \in ToDo(o) => "login" \in ToDo(o) \/ o \in login

\* What a call has left on a host will be removed, or something failed.
LeftInv(o) ==
    /\ keyFiles[o] = CountOf(op[o].defers, "removeKey")
    /\ "context" \in left[o] => \/ "removeContext" \in Deferred(o)
                                \/ op[o].failed \intersect {"upload", "removeContext"} # {}
    /\ "config" \in left[o] =>
         \/ "removeConfig" \in Deferred(o)
         \/ op[o].ssh /\ op[o].failed \intersect {"mkconfig", "removeConfig"} # {}
    /\ o \in login => "config" \in left[o]
    /\ ("login" \in ToDo(o) /\ LoginConfig(o) = o) => "mkconfig" \in ToDo(o) \/ "config" \in left[o]

\* The user's own configuration is logged in by a local build that will log out.
LogsOut(o) == op[o].call = "build" /\ ~op[o].ssh /\ "logout" \in Deferred(o)
HomeInv == "home" \in login =>
    \E o \in Ops : LogsOut(o) \/ op[o].failed \intersect {"login", "logout"} # {}

\* Which image the operation's reference names, and what was pushed and reported.
ImageInv(o) ==
    /\ op[o].call = "build" => op[o].pushed = NoImage
    /\ op[o].call = "push" => op[o].taken = o
    /\ (op[o].call = "build" /\ NoneFailed(o) /\ "build" \notin ToDo(o)) => op[o].taken = o
    /\ (op[o].call # "none" /\ NoneFailed(o) /\ ToDo(o) \intersect {"build", "tag"} = {} /\ ~op[o].moved)
         => image[Place(o)] = op[o].taken
    /\ op[o].pushed # NoImage => ToDo(o) \subseteq {"inspect"}
    /\ (op[o].pushed # NoImage /\ ~op[o].moved) => op[o].pushed = op[o].taken
    /\ (Pushes(o) /\ NoneFailed(o) /\ op[o].todo = <<>> /\ ~op[o].moved) => op[o].got = op[o].taken

ExecInv == /\ ExecShape /\ HomeInv
           /\ \A o \in Ops : PathInv(o) /\ LoginInv(o) /\ LeftInv(o) /\ ImageInv(o)

-----------------------------------------------------------------------------
(* Rows *)

\* Everything a row says but whether its image was moved, how far the call is, and
\* what it has seen.
SameCall(n, w) == /\ n.call = w.call /\ n.ssh = w.ssh /\ n.secret = w.secret /\ n.ref = w.ref
                  /\ n.source = w.source
SameSteps(n, w) == n.result = w.result /\ n.todo = w.todo /\ n.defers = w.defers /\ n.failed = w.failed
SameImages(n, w) == n.taken = w.taken /\ n.pushed = w.pushed /\ n.got = w.got

\* The fields of a row.
LEMMA OpFields ==
    ASSUME ExecShape, NEW o \in Ops
    PROVE  /\ op[o] \in OpRow /\ op[o].ssh \in BOOLEAN /\ op[o].secret \in BOOLEAN
           /\ op[o].ref \in Refs /\ op[o].source \in Refs /\ op[o].todo \in Seq(Commands)
           /\ op[o].defers \in Seq(Cleanups) /\ op[o].failed \subseteq Commands \union Cleanups
           /\ op[o].taken \in Images /\ op[o].pushed \in Images /\ op[o].got \in Images
           /\ op[o].moved \in BOOLEAN /\ Place(o) \in BOOLEAN \X Refs
           /\ image[Place(o)] \in Images
BY DEF ExecShape, OpRow, Place

\* The image of another operation has moved, perhaps.
LEMMA MovedRow ==
    ASSUME NEW w \in OpRow, NEW b \in BOOLEAN
    PROVE  LET n == [w EXCEPT !.moved = b]
           IN n \in OpRow /\ n.moved = b /\ SameCall(n, w) /\ SameSteps(n, w) /\ SameImages(n, w)
BY DEF OpRow, SameCall, SameSteps, SameImages

\* A command has failed.
LEMMA FailedRow ==
    ASSUME NEW w \in OpRow, NEW c \in Commands
    PROVE  LET n == [w EXCEPT !.todo = <<>>, !.failed = @ \union {c}]
           IN /\ n \in OpRow /\ SameCall(n, w) /\ SameImages(n, w) /\ n.result = w.result
              /\ n.moved = w.moved /\ n.defers = w.defers /\ n.todo = <<>>
              /\ n.failed = w.failed \union {c}
BY EmptySeq DEF OpRow, SameCall, SameImages

\* A call has returned.
LEMMA ReturnedRow ==
    ASSUME NEW w \in OpRow, NEW result \in {"ok", "failed"}
    PROVE  LET n == [w EXCEPT !.result = result]
           IN /\ n \in OpRow /\ SameCall(n, w) /\ SameImages(n, w) /\ n.result = result
              /\ n.moved = w.moved /\ n.todo = w.todo /\ n.defers = w.defers /\ n.failed = w.failed
BY DEF OpRow, SameCall, SameImages

\* How a call begins.
Begins(o, call, ssh, secret, ref, source, taken, todo) ==
    /\ op' \in [Ops -> OpRow] /\ \A p \in Ops \ {o} : op'[p] = op[p]
    /\ op'[o].call = call /\ op'[o].result = "running" /\ op'[o].ssh = ssh
    /\ op'[o].secret = secret /\ op'[o].ref = ref /\ op'[o].source = source
    /\ op'[o].taken = taken /\ op'[o].todo = todo /\ op'[o].defers = op[o].defers
    /\ op'[o].failed = op[o].failed /\ op'[o].pushed = op[o].pushed
    /\ op'[o].got = op[o].got /\ op'[o].moved = op[o].moved

\* The beginning of a call sets some fields of its row and leaves the others alone.
LEMMA CallBegins ==
    ASSUME ExecShape, NEW o \in Ops, NEW call \in {"build", "push", "repush"}, NEW ssh \in BOOLEAN,
           NEW secret \in BOOLEAN, NEW ref \in Refs, NEW source \in Refs, NEW todo \in Seq(Commands),
           NEW taken \in Images,
           \/ /\ op' = [op EXCEPT ![o].call = call, ![o].result = "running", ![o].ssh = ssh,
                                  ![o].secret = secret, ![o].ref = ref, ![o].todo = todo]
              /\ source = op[o].source /\ taken = op[o].taken
           \/ /\ op' = [op EXCEPT ![o].call = call, ![o].result = "running", ![o].secret = secret,
                                  ![o].todo = todo]
              /\ source = op[o].source /\ taken = op[o].taken /\ ref = op[o].ref /\ ssh = op[o].ssh
           \/ op' = [op EXCEPT ![o].call = call, ![o].result = "running", ![o].ssh = ssh,
                               ![o].secret = secret, ![o].ref = ref, ![o].source = source,
                               ![o].taken = taken, ![o].todo = todo]
    PROVE  Begins(o, call, ssh, secret, ref, source, taken, todo)
<1> DEFINE w == op[o]
           n == [w EXCEPT !.call = call, !.result = "running", !.ssh = ssh, !.secret = secret,
                          !.ref = ref, !.source = source, !.taken = taken, !.todo = todo]
<1>1. w \in OpRow
  BY DEF ExecShape
<1>2. /\ n \in OpRow /\ n.call = call /\ n.result = "running" /\ n.ssh = ssh
      /\ n.secret = secret /\ n.ref = ref /\ n.source = source /\ n.taken = taken
      /\ n.todo = todo /\ n.defers = w.defers /\ n.failed = w.failed
      /\ n.pushed = w.pushed /\ n.got = w.got /\ n.moved = w.moved
  <2> HIDE DEF w
  <2> QED BY <1>1 DEF OpRow
<1>3. op' = [op EXCEPT ![o] = n]
  <2>1. CASE op' = [op EXCEPT ![o].call = call, ![o].result = "running", ![o].ssh = ssh,
                              ![o].secret = secret, ![o].ref = ref, ![o].source = source,
                              ![o].taken = taken, ![o].todo = todo]
    BY <2>1 DEF ExecShape
  <2>2. CASE /\ op' = [op EXCEPT ![o].call = call, ![o].result = "running", ![o].ssh = ssh,
                                 ![o].secret = secret, ![o].ref = ref, ![o].todo = todo]
             /\ source = op[o].source /\ taken = op[o].taken
    <3> DEFINE k == [w EXCEPT !.call = call, !.result = "running", !.ssh = ssh, !.secret = secret,
                              !.ref = ref, !.todo = todo]
    <3>1. op' = [op EXCEPT ![o] = k]
      BY <2>2 DEF ExecShape
    <3>2. k = n
      BY <1>1, <2>2 DEF OpRow
    <3> QED BY <3>1, <3>2
  <2>3. CASE /\ op' = [op EXCEPT ![o].call = call, ![o].result = "running", ![o].secret = secret,
                                 ![o].todo = todo]
             /\ source = op[o].source /\ taken = op[o].taken /\ ref = op[o].ref /\ ssh = op[o].ssh
    <3> DEFINE k == [w EXCEPT !.call = call, !.result = "running", !.secret = secret, !.todo = todo]
    <3>1. op' = [op EXCEPT ![o] = k]
      BY <2>3 DEF ExecShape
    <3>2. k = n
      BY <1>1, <2>3 DEF OpRow
    <3> QED BY <3>1, <3>2
  <2> QED BY <2>1, <2>2, <2>3
<1> HIDE DEF n
<1> QED BY <1>1, <1>2, <1>3 DEF Begins, ExecShape, w

\* What a command does, once it has been done.
LEMMA EffectFacts ==
    ASSUME ExecShape, NEW o \in Ops, NEW c \in Commands, Effect(o, c)
    PROVE  /\ keyFiles' \in [Ops -> Nat] /\ left' \in [Ops -> SUBSET Directories]
           /\ image' \in [BOOLEAN \X Refs -> Images]
           /\ keyFiles'[o] = keyFiles[o] + (IF c = "identity" THEN 1 ELSE 0)
           /\ left'[o] = left[o] \union (IF c = "upload" THEN {"context"} ELSE {})
                           \union (IF c = "mkconfig" THEN {"config"} ELSE {})
           /\ o \in login' <=> \/ c = "login" /\ (o \in login \/ LoginConfig(o) = o)
                               \/ c \notin {"login", "mkconfig"} /\ o \in login
           /\ "home" \in login' => "home" \in login \/ (c = "login" /\ LoginConfig(o) = "home")
           /\ image'[Place(o)] = ImageAfter(o, c)
           /\ \A p \in Ops \ {o} : /\ keyFiles'[p] = keyFiles[p] /\ left'[p] = left[p]
                                   /\ p \in login' <=> p \in login
           /\ \A place \in BOOLEAN \X Refs : place # Place(o) => image'[place] = image[place]
<1> USE DEF Effect
<1>1. keyFiles' \in [Ops -> Nat] /\ keyFiles'[o] = keyFiles[o] + (IF c = "identity" THEN 1 ELSE 0)
        /\ \A p \in Ops \ {o} : keyFiles'[p] = keyFiles[p]
  BY DEF ExecShape
<1>2. /\ left' \in [Ops -> SUBSET Directories]
      /\ left'[o] = left[o] \union (IF c = "upload" THEN {"context"} ELSE {})
                      \union (IF c = "mkconfig" THEN {"config"} ELSE {})
      /\ \A p \in Ops \ {o} : left'[p] = left[p]
  <2>1. CASE c = "upload"
    BY <2>1 DEF ExecShape, Directories
  <2>2. CASE c = "mkconfig"
    BY <2>2 DEF ExecShape, Directories
  <2>3. CASE c \notin {"upload", "mkconfig"}
    <3>1. left' = left
      BY <2>3
    <3> QED BY <2>3, <3>1 DEF ExecShape
  <2> QED BY <2>1, <2>2, <2>3
<1>3. LoginConfig(o) \in {o, "home"} /\ "home" \notin Ops
  BY HomeIsNoOp DEF LoginConfig
<1>4. /\ o \in login' <=> \/ c = "login" /\ (o \in login \/ LoginConfig(o) = o)
                          \/ c \notin {"login", "mkconfig"} /\ o \in login
      /\ "home" \in login' => "home" \in login \/ (c = "login" /\ LoginConfig(o) = "home")
      /\ \A p \in Ops \ {o} : p \in login' <=> p \in login
  BY <1>3
<1>5. ImageAfter(o, c) \in Images
  BY OpFields DEF ImageAfter, ExecShape, Images
<1>6. Place(o) \in BOOLEAN \X Refs
  BY OpFields
<1>7. /\ image' \in [BOOLEAN \X Refs -> Images] /\ image'[Place(o)] = ImageAfter(o, c)
      /\ \A place \in BOOLEAN \X Refs : place # Place(o) => image'[place] = image[place]
  <2>1. image' = [image EXCEPT ![Place(o)] = ImageAfter(o, c)]
    OBVIOUS
  <2>2. image \in [BOOLEAN \X Refs -> Images]
    BY DEF ExecShape
  <2> DEFINE x == ImageAfter(o, c)
             y == Place(o)
  <2> HIDE DEF x, y
  <2>3. image' = [image EXCEPT ![y] = x] /\ x \in Images /\ y \in BOOLEAN \X Refs
    BY <1>5, <1>6, <2>1 DEF x, y
  <2>4. /\ image' \in [BOOLEAN \X Refs -> Images] /\ image'[y] = x
        /\ \A place \in BOOLEAN \X Refs : place # y => image'[place] = image[place]
    BY <2>2, <2>3
  <2> QED BY <2>4 DEF x, y
<1> QED BY <1>1, <1>2, <1>4, <1>7

-----------------------------------------------------------------------------
(* Calls: steps *)

CallInv(o) == PathInv(o) /\ LoginInv(o) /\ LeftInv(o) /\ ImageInv(o)

\* What another operation does to a call: its image may move.
LEMMA OtherKeeps ==
    ASSUME NEW p \in Ops, CallInv(p),
           SameCall(op'[p], op[p]), SameSteps(op'[p], op[p]), SameImages(op'[p], op[p]),
           op[p].moved => op'[p].moved,
           keyFiles'[p] = keyFiles[p], left'[p] = left[p], p \in login' <=> p \in login,
           image'[Place(p)] = image[Place(p)] \/ op'[p].moved \/ op[p].call = "none"
    PROVE  CallInv(p)'
<1> USE DEF CallInv, SameCall, SameSteps, SameImages
<1>1. PathInv(p)'
  BY DEF PathInv, Running, NoneFailed, ToDo, Pushes
<1>2. LoginInv(p)'
  BY DEF LoginInv, ToDo, Pushes
<1>3. LeftInv(p)'
  BY DEF LeftInv, ToDo, Deferred, LoginConfig
<1>4. ImageInv(p)'
  BY DEF ImageInv, ToDo, NoneFailed, Pushes, Place
<1> QED BY <1>1, <1>2, <1>3, <1>4

\* The command a call is about to run.
LEMMA NextCommand ==
    ASSUME ExecShape, NEW o \in Ops, PathInv(o), op[o].todo # <<>>
    PROVE  /\ Head(op[o].todo) \in Commands /\ Tail(op[o].todo) \in Seq(Commands)
           /\ ToDo(o) = {Head(op[o].todo)} \union Elems(Tail(op[o].todo))
           /\ Ordered(Tail(op[o].todo))
           /\ \A d \in Elems(Tail(op[o].todo)) : Before(Head(op[o].todo), d)
           /\ Running(o) /\ NoneFailed(o) /\ op[o].call # "none" /\ "inspect" \in ToDo(o)
<1>1. op[o].todo \in Seq(Commands)
  BY OpFields
<1>2. Ordered(op[o].todo) /\ Running(o) /\ NoneFailed(o) /\ op[o].call # "none" /\ "inspect" \in ToDo(o)
  BY DEF PathInv
<1> DEFINE s == op[o].todo
<1> HIDE DEF s
<1>3. s \in Seq(Commands) /\ s # <<>> /\ Ordered(s)
  BY <1>1, <1>2 DEF s
<1>4. /\ Tail(s) \in Seq(Commands) /\ Head(s) \in Commands
      /\ Elems(s) = {Head(s)} \union Elems(Tail(s))
      /\ Ordered(Tail(s)) /\ \A d \in Elems(Tail(s)) : Before(Head(s), d)
  BY <1>3, TailElems
<1> QED BY <1>2, <1>4 DEF s, ToDo

\* An empty sequence holds nothing, any other something.
LEMMA EmptyElems ==
    ASSUME NEW S, NEW s \in Seq(S)
    PROVE  s = <<>> <=> Elems(s) = {}
<1>1. CASE s = <<>>
  BY <1>1, EmptySeq DEF Elems
<1>2. CASE s # <<>>
  BY <1>2, TailElems
<1> QED BY <1>1, <1>2

\* Who is affected by a command on a reference.
LEMMA MovedFacts ==
    ASSUME ExecShape, NEW o \in Ops, NEW c \in Commands, Effect(o, c), NEW p \in Ops \ {o}
    PROVE  image'[Place(p)] = image[Place(p)] \/ p \in Moved(o, c) \/ op[p].call = "none"
<1>1. CASE Place(p) # Place(o)
  BY <1>1, EffectFacts, OpFields
<1>2. CASE Place(p) = Place(o)
  <2>1. image'[Place(p)] = ImageAfter(o, c)
    BY <1>2, EffectFacts
  <2>2. CASE c \in {"build", "tag"}
    BY <1>2, <2>2 DEF Moved
  <2>3. CASE c \notin {"build", "tag"}
    BY <1>2, <2>1, <2>3 DEF ImageAfter
  <2> QED BY <2>2, <2>3
<1> QED BY <1>1, <1>2

\* The cleanups that a command defers.
LEMMA DeferredFacts ==
    ASSUME NEW c \in Commands, NEW s \in Seq(Cleanups)
    PROVE  LET t == DeferredFor(c) \o s
           IN /\ t \in Seq(Cleanups)
              /\ Elems(t) = Elems(s) \union If(c = "identity", "removeKey")
                              \union If(c = "upload", "removeContext")
                              \union If(c = "mkconfig", "removeConfig") \union If(c = "login", "logout")
              /\ CountOf(t, "removeKey") = CountOf(s, "removeKey") + (IF c = "identity" THEN 1 ELSE 0)
<1>1. \A x \in Cleanups : /\ <<x>> \o s \in Seq(Cleanups)
                          /\ Elems(<<x>> \o s) = {x} \union Elems(s)
                          /\ CountOf(<<x>> \o s, "removeKey")
                               = CountOf(s, "removeKey") + (IF x = "removeKey" THEN 1 ELSE 0)
  BY Prepended
<1>2. CountOf(s, "removeKey") \in Nat
  BY TailCount
<1>3. {"removeKey", "removeContext", "removeConfig", "logout"} \subseteq Cleanups
  BY DEF Cleanups
<1>4. CASE c = "identity"
  BY <1>1, <1>3, <1>4 DEF DeferredFor, If
<1>5. CASE c = "upload"
  BY <1>1, <1>2, <1>3, <1>5 DEF DeferredFor, If
<1>6. CASE c = "mkconfig"
  BY <1>1, <1>2, <1>3, <1>6 DEF DeferredFor, If
<1>7. CASE c = "login"
  BY <1>1, <1>2, <1>3, <1>7 DEF DeferredFor, If
<1>8. CASE c \notin {"identity", "upload", "mkconfig", "login"}
  <2>1. DeferredFor(c) = <<>>
    BY <1>8 DEF DeferredFor
  <2>2. <<>> \o s = s
    BY ConcatEmptySeq
  <2>3. DeferredFor(c) \o s = s
    BY <2>1, <2>2
  <2> QED BY <1>2, <1>8, <2>3 DEF If
<1> QED BY <1>4, <1>5, <1>6, <1>7, <1>8

\* A command that succeeds brings its own call forward.
LEMMA SucceedOwn ==
    ASSUME ExecShape, NEW o \in Ops, CallInv(o), CommandSucceeds(o)
    PROVE  /\ op'[o] \in OpRow /\ CallInv(o)'
           /\ SameCall(op'[o], op[o]) /\ op'[o].failed = op[o].failed
           /\ Deferred(o) \subseteq Deferred(o)'
           /\ Head(op[o].todo) = "login" => "logout" \in Deferred(o)'
<1> USE DEF CallInv
<1>1. op[o].todo # <<>> /\ PathInv(o)
  BY DEF CommandSucceeds
<1>2. PICK c \in Commands : c = Head(op[o].todo)
  BY <1>1, NextCommand
<1> DEFINE t == Tail(op[o].todo)
           R == Elems(t)
           d == DeferredFor(c) \o op[o].defers
           taken == IF c \in {"tag", "build"} THEN image'[Place(o)] ELSE op[o].taken
           pushed == IF c = "push" THEN image[Place(o)] ELSE op[o].pushed
           got == IF c = "inspect" THEN image[Place(o)] ELSE op[o].got
<1>3. /\ t \in Seq(Commands) /\ ToDo(o) = {c} \union R /\ Ordered(t)
      /\ \A e \in R : Before(c, e)
      /\ Running(o) /\ NoneFailed(o) /\ op[o].call # "none" /\ "inspect" \in ToDo(o)
  BY <1>1, <1>2, NextCommand
<1>4. t = <<>> <=> R = {}
  BY <1>3, EmptyElems
<1>5. Effect(o, c)
  BY <1>2 DEF CommandSucceeds
<1>6. /\ d \in Seq(Cleanups)
      /\ Elems(d) = Deferred(o) \union If(c = "identity", "removeKey") \union If(c = "upload", "removeContext")
                      \union If(c = "mkconfig", "removeConfig") \union If(c = "login", "logout")
      /\ CountOf(d, "removeKey") = CountOf(op[o].defers, "removeKey") + (IF c = "identity" THEN 1 ELSE 0)
  BY OpFields, DeferredFacts DEF Deferred
<1>7. taken \in Images /\ pushed \in Images /\ got \in Images
  BY <1>5, EffectFacts, OpFields
<1> DEFINE w == op[o]
           n == [w EXCEPT !.todo = t, !.defers = d, !.taken = taken, !.pushed = pushed, !.got = got]
<1>8. op'[o] = n
  BY <1>2 DEF CommandSucceeds, ExecShape, OpRow
<1>9. op[o] \in OpRow
  BY DEF ExecShape
<1> HIDE DEF t, d, taken, pushed, got, w
<1>10. /\ n \in OpRow /\ SameCall(n, w) /\ n.result = w.result /\ n.failed = w.failed
       /\ n.moved = w.moved /\ n.todo = t /\ n.defers = d
       /\ n.taken = taken /\ n.pushed = pushed /\ n.got = got
  <2>1. w \in OpRow
    BY <1>9 DEF w
  <2> QED BY <1>3, <1>6, <1>7, <2>1 DEF OpRow, SameCall
<1> HIDE DEF n
<1>11. /\ op'[o] \in OpRow /\ SameCall(op'[o], op[o]) /\ op'[o].result = op[o].result
       /\ op'[o].failed = op[o].failed /\ op'[o].moved = op[o].moved /\ op'[o].todo = t
       /\ op'[o].defers = d /\ op'[o].taken = taken /\ op'[o].pushed = pushed /\ op'[o].got = got
  BY <1>8, <1>10 DEF w
<1>12. ToDo(o)' = R /\ Deferred(o)' = Elems(d) /\ Place(o)' = Place(o)
  BY <1>11 DEF ToDo, Deferred, Place, SameCall
<1> HIDE DEF R
<1>13. Running(o)' /\ NoneFailed(o)' /\ (Pushes(o)' <=> Pushes(o)) /\ LoginConfig(o)' = LoginConfig(o)
  BY <1>3, <1>11 DEF Running, NoneFailed, Pushes, LoginConfig, SameCall
<1>14. PathInv(o)'
  <2>1. R # {} => "inspect" \in R
    BY <1>3 DEF Before
  <2> QED BY <1>3, <1>4, <1>11, <1>12, <1>13, <2>1 DEF PathInv, SameCall
<1>15. LoginInv(o)'
  <2>1. o \in login' <=> \/ c = "login" /\ (o \in login \/ LoginConfig(o) = o)
                         \/ c \notin {"login", "mkconfig"} /\ o \in login
    BY <1>5, EffectFacts
  <2>2. Pushes(o) => LoginConfig(o) = o
    BY DEF Pushes, LoginConfig
  <2>3. op[o].secret =>
          /\ "mkconfig" \in R => "login" \in R
          /\ Pushes(o) /\ "push" \in R => "login" \in R \/ o \in login'
    BY <1>3, <2>1, <2>2 DEF LoginInv, Before
  <2> QED BY <1>11, <1>12, <1>13, <2>3 DEF LoginInv, SameCall
<1>16. LeftInv(o)'
  <2>1. /\ keyFiles'[o] = keyFiles[o] + (IF c = "identity" THEN 1 ELSE 0)
        /\ left'[o] = left[o] \union (IF c = "upload" THEN {"context"} ELSE {})
                        \union (IF c = "mkconfig" THEN {"config"} ELSE {})
        /\ o \in login' <=> \/ c = "login" /\ (o \in login \/ LoginConfig(o) = o)
                            \/ c \notin {"login", "mkconfig"} /\ o \in login
    BY <1>5, EffectFacts
  <2>2. keyFiles'[o] = CountOf(d, "removeKey")
    BY <1>6, <2>1 DEF LeftInv
  <2>3. "context" \in left'[o] => \/ "removeContext" \in Elems(d)
                                  \/ op[o].failed \intersect {"upload", "removeContext"} # {}
    BY <1>6, <2>1 DEF LeftInv, If
  <2>4. "config" \in left'[o] =>
          \/ "removeConfig" \in Elems(d)
          \/ op[o].ssh /\ op[o].failed \intersect {"mkconfig", "removeConfig"} # {}
    BY <1>6, <2>1 DEF LeftInv, If
  <2>5. o \in login' => "config" \in left'[o]
    BY <1>3, <2>1 DEF LeftInv, Before
  <2>6. ("login" \in R /\ LoginConfig(o) = o) => "mkconfig" \in R \/ "config" \in left'[o]
    BY <1>3, <2>1 DEF LeftInv
  <2> QED BY <1>11, <1>12, <1>13, <2>2, <2>3, <2>4, <2>5, <2>6 DEF LeftInv, SameCall
<1>17. ImageInv(o)'
  <2>1. image'[Place(o)] = ImageAfter(o, c)
    BY <1>5, EffectFacts
  <2>2. c \notin {"build", "tag"} => image'[Place(o)] = image[Place(o)]
    BY <2>1 DEF ImageAfter
  <2>3. c = "build" => image'[Place(o)] = o
    BY <2>1 DEF ImageAfter
  <2>4. /\ op[o].call = "build" => c \notin {"push", "tag"}
        /\ op[o].call = "push" => c \notin {"build", "tag"}
        /\ Pushes(o) => c # "build"
    BY <1>3 DEF PathInv, Pushes
  <2>5. op[o].call = "build" => pushed = NoImage
    BY <2>4 DEF ImageInv, pushed
  <2>6. op[o].call = "push" => taken = o
    BY <2>4 DEF ImageInv, taken
  <2>7. (op[o].call = "build" /\ "build" \notin R) => taken = o
    BY <1>3, <2>3, <2>4 DEF ImageInv, taken
  <2>8. (R \intersect {"build", "tag"} = {} /\ ~op[o].moved) => image'[Place(o)] = taken
    BY <1>3, <2>2 DEF ImageInv, taken
  <2>9. pushed # NoImage => R \subseteq {"inspect"}
    BY <1>3 DEF ImageInv, pushed, Before
  <2>10. (pushed # NoImage /\ ~op[o].moved) => pushed = taken
    <3>1. CASE c = "push"
      <4>1. ToDo(o) \intersect {"build", "tag"} = {}
        BY <1>3, <3>1 DEF Before
      <4> QED BY <1>3, <3>1, <4>1 DEF ImageInv, pushed, taken
    <3>2. CASE c \in {"build", "tag"}
      BY <1>3, <3>2 DEF ImageInv, pushed
    <3>3. CASE c \notin {"push", "build", "tag"}
      BY <3>3 DEF ImageInv, pushed, taken
    <3> QED BY <3>1, <3>2, <3>3
  <2>11. (R = {} /\ ~op[o].moved) => got = taken
    <3> SUFFICES ASSUME R = {}, ~op[o].moved PROVE got = taken
      OBVIOUS
    <3>1. c = "inspect" /\ ToDo(o) \intersect {"build", "tag"} = {}
      BY <1>3
    <3> QED BY <1>3, <3>1 DEF ImageInv, got, taken
  <2> QED BY <1>4, <1>11, <1>12, <1>13, <2>5, <2>6, <2>7, <2>8, <2>9, <2>10, <2>11
          DEF ImageInv, SameCall
<1>18. Deferred(o) \subseteq Deferred(o)' /\ (Head(op[o].todo) = "login" => "logout" \in Deferred(o)')
  BY <1>2, <1>6, <1>12 DEF If
<1> QED BY <1>11, <1>14, <1>15, <1>16, <1>17, <1>18

\* A command that fails ends its call, whatever it may have done.
LEMMA FailOwn ==
    ASSUME ExecShape, NEW o \in Ops, NEW done \in BOOLEAN, CallInv(o), CommandFails(o, done)
    PROVE  /\ op'[o] \in OpRow /\ CallInv(o)'
           /\ SameCall(op'[o], op[o]) /\ Deferred(o)' = Deferred(o)
           /\ op[o].failed \subseteq op'[o].failed /\ Head(op[o].todo) \in op'[o].failed
<1> USE DEF CallInv
<1>1. op[o].todo # <<>> /\ PathInv(o)
  BY DEF CommandFails
<1>2. PICK c \in Commands : c = Head(op[o].todo)
  BY <1>1, NextCommand
<1> DEFINE R == Elems(Tail(op[o].todo))
           w == op[o]
           n == [w EXCEPT !.todo = <<>>, !.failed = @ \union {c}]
<1>3. /\ ToDo(o) = {c} \union R /\ \A e \in R : Before(c, e)
      /\ Running(o) /\ NoneFailed(o) /\ op[o].call # "none"
  BY <1>1, <1>2, NextCommand
<1> HIDE DEF R
<1>4. \/ done /\ MayBeDone(o, c) /\ Effect(o, c)
      \/ ~done /\ UNCHANGED <<keyFiles, left, login, image>>
  BY <1>2 DEF CommandFails
<1>5. op'[o] = n
  BY <1>2 DEF CommandFails
<1>6. w \in OpRow
  BY DEF ExecShape
<1> HIDE DEF w
<1>7. /\ n \in OpRow /\ SameCall(n, w) /\ SameImages(n, w) /\ n.result = w.result
      /\ n.moved = w.moved /\ n.defers = w.defers /\ n.todo = <<>>
      /\ n.failed = w.failed \union {c}
  BY <1>6, FailedRow
<1> HIDE DEF n
<1>8. /\ op'[o] \in OpRow /\ SameCall(op'[o], op[o]) /\ SameImages(op'[o], op[o])
      /\ op'[o].result = op[o].result
      /\ op'[o].moved = op[o].moved /\ op'[o].defers = op[o].defers /\ op'[o].todo = <<>>
      /\ op'[o].failed = op[o].failed \union {c}
  BY <1>5, <1>7 DEF w
<1>9. Elems(<<>>) = {} /\ Ordered(<<>>)
  BY <1>2, ShortElems
<1>10. /\ ToDo(o)' = {} /\ Deferred(o)' = Deferred(o) /\ Place(o)' = Place(o)
       /\ Running(o)' /\ ~NoneFailed(o)' /\ (Pushes(o)' <=> Pushes(o)) /\ LoginConfig(o)' = LoginConfig(o)
  BY <1>2, <1>3, <1>8, <1>9 DEF ToDo, Deferred, Place, Running, NoneFailed, Pushes, LoginConfig, SameCall
<1>11. PathInv(o)'
  <2>1. op'[o].call # "none" /\ op'[o].result = "running" /\ op'[o].todo = <<>>
    BY <1>3, <1>8 DEF SameCall, Running
  <2> QED BY <1>9, <1>10, <2>1 DEF PathInv
<1>12. LoginInv(o)'
  BY <1>10 DEF LoginInv
<1>13. LeftInv(o)'
  <2>1. /\ keyFiles'[o] = keyFiles[o]
        /\ "context" \in left'[o] => "context" \in left[o] \/ c = "upload"
        /\ "config" \in left'[o] => "config" \in left[o] \/ (c = "mkconfig" /\ op[o].ssh)
        /\ "config" \in left[o] => "config" \in left'[o]
        /\ o \in login' => o \in login \/ (c = "login" /\ LoginConfig(o) = o)
    <3>1. CASE ~done /\ UNCHANGED <<keyFiles, left, login, image>>
      BY <3>1
    <3>2. CASE done /\ MayBeDone(o, c) /\ Effect(o, c)
      <4>1. c # "identity" /\ (c = "mkconfig" => op[o].ssh)
        BY <3>2 DEF MayBeDone
      <4>2. keyFiles[o] \in Nat
        BY DEF ExecShape
      <4>3. /\ keyFiles'[o] = keyFiles[o] + (IF c = "identity" THEN 1 ELSE 0)
            /\ left'[o] = left[o] \union (IF c = "upload" THEN {"context"} ELSE {})
                            \union (IF c = "mkconfig" THEN {"config"} ELSE {})
            /\ o \in login' <=> \/ c = "login" /\ (o \in login \/ LoginConfig(o) = o)
                                \/ c \notin {"login", "mkconfig"} /\ o \in login
        BY <3>2, EffectFacts
      <4> QED BY <4>1, <4>2, <4>3
    <3> QED BY <1>4, <3>1, <3>2
  <2>2. o \in login' => "config" \in left'[o]
    BY <1>3, <2>1 DEF LeftInv, Before
  <2>3. keyFiles'[o] = CountOf(op[o].defers, "removeKey")
    BY <2>1 DEF LeftInv
  <2>4. "context" \in left'[o] => \/ "removeContext" \in Deferred(o)
                                  \/ op'[o].failed \intersect {"upload", "removeContext"} # {}
    BY <1>8, <2>1 DEF LeftInv
  <2>5. "config" \in left'[o] =>
          \/ "removeConfig" \in Deferred(o)
          \/ op[o].ssh /\ op'[o].failed \intersect {"mkconfig", "removeConfig"} # {}
    BY <1>8, <2>1 DEF LeftInv
  <2> QED BY <1>8, <1>10, <2>2, <2>3, <2>4, <2>5 DEF LeftInv, SameCall
<1>14. ImageInv(o)'
  BY <1>8, <1>10 DEF ImageInv, SameCall, SameImages
<1> QED BY <1>2, <1>8, <1>10, <1>11, <1>12, <1>13, <1>14

\* A cleanup removes what it is for, or fails.
LEMMA UnwindOwn ==
    ASSUME ExecShape, NEW o \in Ops, CallInv(o), Unwind(o)
    PROVE  /\ op'[o] \in OpRow /\ CallInv(o)'
           /\ keyFiles' \in [Ops -> Nat] /\ left' \in [Ops -> SUBSET Directories]
           /\ \A p \in Ops \ {o} : /\ op'[p] = op[p] /\ keyFiles'[p] = keyFiles[p] /\ left'[p] = left[p]
                                   /\ p \in login' <=> p \in login
           /\ SameCall(op'[o], op[o]) /\ op[o].failed \subseteq op'[o].failed
           /\ "home" \in login' => "home" \in login
           /\ "home" \in login' /\ LogsOut(o) => LogsOut(o)' \/ "logout" \in op'[o].failed
<1> USE DEF CallInv
<1> DEFINE s == op[o].defers
           t == Tail(s)
           w == op[o]
<1>1. Running(o) /\ op[o].todo = <<>> /\ s # <<>> /\ UNCHANGED image
  BY DEF Unwind
<1>2. s \in Seq(Cleanups) /\ op[o].failed \in SUBSET (Commands \union Cleanups) /\ w \in OpRow
  BY OpFields
<1>3. PICK c \in Cleanups : c = Head(s)
  BY <1>1, <1>2, TailElems
<1>4. t \in Seq(Cleanups) /\ Elems(s) = {c} \union Elems(t)
  <2> HIDE DEF s
  <2> QED BY <1>1, <1>2, <1>3, TailElems
<1>5. /\ CountOf(s, "removeKey") = CountOf(t, "removeKey") + (IF c = "removeKey" THEN 1 ELSE 0)
      /\ CountOf(t, "removeKey") \in Nat
  <2>1. CountOf(s, "removeKey") = CountOf(t, "removeKey") + (IF c = "removeKey" THEN 1 ELSE 0)
    <3> HIDE DEF s
    <3> QED BY <1>1, <1>2, <1>3, TailCount
  <2>2. CountOf(t, "removeKey") \in Nat
    <3> HIDE DEF t
    <3> QED BY <1>4, TailCount
  <2> QED BY <2>1, <2>2
<1> DEFINE Clean == /\ keyFiles' = IF c = "removeKey" THEN [keyFiles EXCEPT ![o] = @ - 1] ELSE keyFiles
                    /\ left' = CASE c = "removeContext" -> [left EXCEPT ![o] = @ \ {"context"}]
                                 [] c = "removeConfig" -> [left EXCEPT ![o] = @ \ {"config"}]
                                 [] OTHER -> left
                    /\ login' = CASE c = "logout" -> login \ {LoginConfig(o)}
                                  [] c = "removeConfig" -> login \ {o}
                                  [] OTHER -> login
           Fails == /\ c = "logout" \/ (op[o].ssh /\ c # "removeKey")
                    /\ UNCHANGED <<keyFiles, left, login>>
           failed == IF Clean THEN op[o].failed ELSE op[o].failed \union {c}
<1>6. \/ Clean /\ op' = [op EXCEPT ![o].defers = t]
      \/ Fails /\ op' = [op EXCEPT ![o].defers = t, ![o].failed = @ \union {c}]
  BY <1>3 DEF Unwind, ExecShape
<1> HIDE DEF t, s
<1>7. PICK f \in SUBSET (Commands \union Cleanups) :
        /\ op' = [op EXCEPT ![o] = [w EXCEPT !.defers = t, !.failed = f]]
        /\ \/ Clean /\ f = op[o].failed
           \/ Fails /\ f = op[o].failed \union {c}
  <2>1. CASE Clean /\ op' = [op EXCEPT ![o].defers = t]
    <3>1. op' = [op EXCEPT ![o] = [w EXCEPT !.defers = t]]
      BY <2>1 DEF ExecShape
    <3>2. [w EXCEPT !.defers = t] = [w EXCEPT !.defers = t, !.failed = op[o].failed]
      BY <1>2 DEF OpRow
    <3> HIDE DEF w, Clean, Fails
    <3> QED BY <1>2, <2>1, <3>1, <3>2
  <2>2. CASE Fails /\ op' = [op EXCEPT ![o].defers = t, ![o].failed = @ \union {c}]
    <3> DEFINE g == op[o].failed \union {c}
    <3>1. op' = [op EXCEPT ![o] = [w EXCEPT !.defers = t, !.failed = g]]
      BY <2>2 DEF ExecShape
    <3>2. g \in SUBSET (Commands \union Cleanups)
      BY <1>2, <1>3
    <3> HIDE DEF w, Clean, Fails
    <3> QED BY <2>2, <3>1, <3>2
  <2> QED BY <1>6, <2>1, <2>2
<1> DEFINE n == [w EXCEPT !.defers = t, !.failed = f]
<1>8. op'[o] = n /\ \A p \in Ops \ {o} : op'[p] = op[p]
  BY <1>7 DEF ExecShape
<1> HIDE DEF w
<1>9. /\ n \in OpRow /\ SameCall(n, w) /\ SameImages(n, w) /\ n.result = w.result
      /\ n.moved = w.moved /\ n.todo = w.todo /\ n.defers = t /\ n.failed = f
  <2>1. w \in OpRow
    BY <1>2 DEF w
  <2> QED BY <1>4, <1>7, <2>1 DEF OpRow, SameCall, SameImages
<1> HIDE DEF n
<1>10. /\ op'[o] \in OpRow /\ SameCall(op'[o], op[o]) /\ SameImages(op'[o], op[o])
       /\ op'[o].result = op[o].result /\ op'[o].moved = op[o].moved /\ op'[o].todo = op[o].todo
       /\ op'[o].defers = t /\ op'[o].failed = f
  BY <1>8, <1>9 DEF w
<1>11. Elems(<<>>) = {} /\ Ordered(<<>>)
  BY <1>3, ShortElems
<1>12. c \notin Commands
  BY <1>3 DEF Commands, Cleanups
<1>13. /\ ToDo(o)' = {} /\ ToDo(o) = {} /\ Deferred(o) = {c} \union Elems(t) /\ Deferred(o)' = Elems(t)
       /\ Place(o)' = Place(o) /\ Running(o)' /\ (NoneFailed(o)' <=> NoneFailed(o))
       /\ (Pushes(o)' <=> Pushes(o)) /\ LoginConfig(o)' = LoginConfig(o)
  <2>1. NoneFailed(o)' <=> NoneFailed(o)
    BY <1>7, <1>10, <1>12 DEF NoneFailed
  <2> QED BY <1>1, <1>4, <1>10, <1>11, <2>1
          DEF ToDo, Deferred, Place, Running, Pushes, LoginConfig, SameCall, s
<1>14. PathInv(o)'
  BY <1>1, <1>10, <1>11, <1>13 DEF PathInv, SameCall, SameImages
<1>15. LoginInv(o)'
  BY <1>13 DEF LoginInv
<1>16. CountOf(s, "removeKey") = keyFiles[o] /\ keyFiles[o] \in Nat /\ left[o] \in SUBSET Directories
  BY DEF LeftInv, s, ExecShape
<1>17. LoginConfig(o) \in {o, "home"} /\ "home" \notin Ops
  BY HomeIsNoOp DEF LoginConfig
<1>18. /\ keyFiles' \in [Ops -> Nat] /\ left' \in [Ops -> SUBSET Directories]
       /\ keyFiles'[o] = CountOf(t, "removeKey")
       /\ \A p \in Ops \ {o} : /\ keyFiles'[p] = keyFiles[p] /\ left'[p] = left[p]
                               /\ p \in login' <=> p \in login
  <2>1. CASE Clean
    <3>1. keyFiles' \in [Ops -> Nat] /\ keyFiles'[o] = CountOf(t, "removeKey")
            /\ \A p \in Ops \ {o} : keyFiles'[p] = keyFiles[p]
      <4>1. CASE c = "removeKey"
        <5>1. keyFiles' = [keyFiles EXCEPT ![o] = keyFiles[o] - 1]
          BY <2>1, <4>1 DEF ExecShape
        <5>2. keyFiles[o] - 1 = CountOf(t, "removeKey")
          BY <1>5, <1>16, <4>1
        <5> HIDE DEF Clean
        <5> QED BY <1>5, <5>1, <5>2 DEF ExecShape
      <4>2. CASE c # "removeKey"
        BY <1>5, <1>16, <2>1, <4>2 DEF ExecShape
      <4> QED BY <4>1, <4>2
    <3>2. left' \in [Ops -> SUBSET Directories] /\ \A p \in Ops \ {o} : left'[p] = left[p]
      <4>1. CASE c = "removeContext"
        BY <2>1, <4>1 DEF ExecShape
      <4>2. CASE c = "removeConfig"
        BY <2>1, <4>2 DEF ExecShape
      <4>3. CASE c \notin {"removeContext", "removeConfig"}
        BY <2>1, <4>3 DEF ExecShape
      <4> QED BY <4>1, <4>2, <4>3
    <3>3. \A p \in Ops \ {o} : p \in login' <=> p \in login
      BY <1>17, <2>1
    <3> QED BY <3>1, <3>2, <3>3
  <2>2. CASE Fails
    BY <1>5, <1>16, <2>2 DEF ExecShape
  <2> QED BY <1>7, <2>1, <2>2
<1>19. LeftInv(o)'
  <2>1. /\ "context" \in left'[o] => /\ "context" \in left[o]
                                     /\ c = "removeContext" => c \in f
        /\ "config" \in left'[o] => /\ "config" \in left[o]
                                    /\ c = "removeConfig" => op[o].ssh /\ c \in f
        /\ o \in login' => o \in login /\ "config" \in left'[o]
        /\ op[o].failed \subseteq f
    <3>1. CASE Clean /\ f = op[o].failed
      <4>1. left'[o] = CASE c = "removeContext" -> left[o] \ {"context"}
                         [] c = "removeConfig" -> left[o] \ {"config"} [] OTHER -> left[o]
        BY <3>1 DEF ExecShape
      <4>2. o \in login' => o \in login /\ c # "removeConfig"
        BY <3>1
      <4> QED BY <3>1, <4>1, <4>2 DEF LeftInv
    <3>2. CASE Fails /\ f = op[o].failed \union {c}
      BY <3>2 DEF LeftInv
    <3> QED BY <1>7, <3>1, <3>2
  <2>2. "context" \in left'[o] => \/ "removeContext" \in Elems(t)
                                  \/ f \intersect {"upload", "removeContext"} # {}
    BY <1>13, <2>1 DEF LeftInv
  <2>3. "config" \in left'[o] =>
          \/ "removeConfig" \in Elems(t)
          \/ op[o].ssh /\ f \intersect {"mkconfig", "removeConfig"} # {}
    BY <1>13, <2>1 DEF LeftInv
  <2> QED BY <1>10, <1>13, <1>18, <2>1, <2>2, <2>3 DEF LeftInv, SameCall
<1>20. ImageInv(o)'
  BY <1>1, <1>10, <1>13 DEF ImageInv, SameCall, SameImages
<1>21. op[o].failed \subseteq op'[o].failed /\ ("home" \in login' => "home" \in login)
  <2>1. CASE Clean /\ f = op[o].failed
    BY <1>10, <2>1
  <2>2. CASE Fails /\ f = op[o].failed \union {c}
    BY <1>10, <2>2
  <2> QED BY <1>7, <2>1, <2>2
<1>22. "home" \in login' /\ LogsOut(o) => LogsOut(o)' \/ "logout" \in op'[o].failed
  <2> SUFFICES ASSUME "home" \in login', LogsOut(o) PROVE LogsOut(o)' \/ "logout" \in op'[o].failed
    OBVIOUS
  <2>1. op[o].call = "build" /\ ~op[o].ssh /\ "logout" \in Deferred(o) /\ LoginConfig(o) = "home"
    BY DEF LogsOut, LoginConfig
  <2>2. CASE c # "logout"
    BY <1>10, <1>13, <2>1, <2>2 DEF LogsOut, SameCall
  <2>3. CASE c = "logout" /\ Clean
    BY <2>1, <2>3
  <2>4. CASE c = "logout" /\ f = op[o].failed \union {c}
    BY <1>10, <2>4
  <2> QED BY <1>7, <2>2, <2>3, <2>4
<1> QED BY <1>8, <1>10, <1>14, <1>15, <1>18, <1>19, <1>20, <1>21, <1>22

\* A call that begins has its plan before it and nothing behind it.
LEMMA BeginOwn ==
    ASSUME ExecShape, NEW o \in Ops, CallInv(o), NEW call \in {"build", "push", "repush"},
           NEW ssh \in BOOLEAN, NEW secret \in BOOLEAN, NEW ref \in Refs, NEW source \in Refs,
           NEW taken \in Images, NEW todo, NEW held, Plan(todo, held),
           Begins(o, call, ssh, secret, ref, source, taken, todo),
           UNCHANGED <<keyFiles, left, login, image>>,
           \/ op[o].call = "none" /\ call # "push"
           \/ /\ op[o].call = "build" /\ op[o].result = "ok" /\ call = "push"
              /\ ssh = op[o].ssh /\ ref = op[o].ref /\ taken = op[o].taken,
           call = "build" => "build" \in held /\ held \intersect {"tag", "push"} = {},
           call # "build" => "push" \in held /\ "build" \notin held,
           call = "push" => "tag" \notin held,
           call = "repush" => "tag" \in held \/ taken = image[<<ssh, ref>>],
           secret /\ ("mkconfig" \in held \/ call # "build") => "login" \in held,
           "login" \in held /\ (call # "build" \/ ssh) => "mkconfig" \in held
    PROVE  CallInv(o)'
<1> USE DEF CallInv
<1>1. todo \in Seq(Commands) /\ Ordered(todo) /\ Elems(todo) = held /\ "inspect" \in held
  BY DEF Plan
<1>2. todo # <<>>
  BY <1>1, EmptyElems
<1>3. /\ op'[o].call = call /\ op'[o].result = "running" /\ op'[o].ssh = ssh
      /\ op'[o].secret = secret /\ op'[o].ref = ref /\ op'[o].taken = taken /\ op'[o].todo = todo
      /\ op'[o].defers = op[o].defers /\ op'[o].failed = op[o].failed
      /\ op'[o].pushed = op[o].pushed /\ op'[o].got = op[o].got /\ op'[o].moved = op[o].moved
  BY DEF Begins
<1>4. ToDo(o)' = held /\ Deferred(o)' = Deferred(o) /\ Running(o)' /\ (NoneFailed(o)' <=> NoneFailed(o))
  BY <1>1, <1>3 DEF ToDo, Deferred, Running, NoneFailed
<1>5. /\ op[o].todo = <<>> /\ op[o].defers = <<>> /\ NoneFailed(o) /\ op[o].pushed = NoImage
      /\ call = "push" => op[o].call = "build"
      /\ call # "push" => op[o].failed = {}
  <2>1. CASE op[o].call = "none" /\ call # "push"
    BY <2>1 DEF PathInv, NoneFailed
  <2>2. CASE op[o].call = "build" /\ op[o].result = "ok" /\ call = "push"
    BY <2>2 DEF PathInv, ImageInv, Running
  <2> QED BY <2>1, <2>2
<1>6. ToDo(o) = {} /\ Deferred(o) = {}
  BY <1>1, <1>5, ShortElems DEF ToDo, Deferred
<1>7. PathInv(o)'
  BY <1>1, <1>2, <1>3, <1>4, <1>5 DEF PathInv, Pushes
<1>8. LoginInv(o)'
  BY <1>3, <1>4 DEF LoginInv, Pushes
<1>9. LeftInv(o)'
  <2>1. keyFiles'[o] = CountOf(op'[o].defers, "removeKey")
    BY <1>3 DEF LeftInv
  <2>2. "context" \in left'[o] => \/ "removeContext" \in Deferred(o)'
                                  \/ op'[o].failed \intersect {"upload", "removeContext"} # {}
    BY <1>3, <1>4 DEF LeftInv
  <2>3. "config" \in left'[o] => ssh /\ op'[o].failed \intersect {"mkconfig", "removeConfig"} # {}
    <3>1. "config" \in left[o] => op[o].ssh /\ op[o].failed \intersect {"mkconfig", "removeConfig"} # {}
      BY <1>6 DEF LeftInv
    <3> QED BY <1>3, <1>5, <3>1
  <2>4. o \in login' => "config" \in left'[o]
    BY DEF LeftInv
  <2>5. LoginConfig(o)' = o => call # "build" \/ ssh
    BY <1>3, HomeIsNoOp DEF LoginConfig
  <2>6. ("login" \in held /\ LoginConfig(o)' = o) => "mkconfig" \in held
    BY <2>5
  <2> QED BY <1>3, <1>4, <2>1, <2>2, <2>3, <2>4, <2>6 DEF LeftInv
<1>10. ImageInv(o)'
  <2>1. call = "push" => taken = o
    BY <1>5, <1>6 DEF ImageInv
  <2>2. held \intersect {"build", "tag"} = {} => call # "build"
    OBVIOUS
  <2>3. Place(o)' = <<ssh, ref>>
    BY <1>3 DEF Place
  <2>4. (held \intersect {"build", "tag"} = {} /\ ~op[o].moved) => image[<<ssh, ref>>] = taken
    <3>1. CASE call = "push"
      <4>1. Place(o) = <<ssh, ref>>
        BY <3>1, <1>5 DEF Place
      <4> QED BY <1>5, <1>6, <3>1, <4>1 DEF ImageInv
    <3>2. CASE call = "repush"
      BY <3>2
    <3>3. CASE call = "build"
      BY <3>3
    <3> QED BY <3>1, <3>2, <3>3
  <2> QED BY <1>2, <1>3, <1>4, <1>5, <2>1, <2>3, <2>4 DEF ImageInv
<1> QED BY <1>7, <1>8, <1>9, <1>10

\* A task is built, a call that was not there before.
LEMMA BuildOwn ==
    ASSUME ExecShape, NEW o \in Ops, CallInv(o), NEW ssh \in BOOLEAN, NEW secret \in BOOLEAN,
           NEW ref \in Refs, Build(o, ssh, secret, ref)
    PROVE  op' \in [Ops -> OpRow] /\ CallInv(o)' /\ \A p \in Ops \ {o} : op'[p] = op[p]
<1> DEFINE todo == IF ssh THEN BuildSSH(secret) ELSE BuildLocal(secret)
           held == IF ssh THEN {"identity", "upload"} \union
                                 ((IF secret THEN {"mkconfig", "login"} ELSE {}) \union {"build", "inspect"})
                          ELSE If(secret, "login") \union {"build", "inspect"}
<1>1. Plan(todo, held)
  BY PlansHold
<1>2. /\ "build" \in held /\ held \intersect {"tag", "push"} = {}
      /\ secret /\ "mkconfig" \in held => "login" \in held
      /\ "login" \in held /\ ssh => "mkconfig" \in held
  BY DEF If
<1>3. op' = [op EXCEPT ![o].call = "build", ![o].result = "running", ![o].ssh = ssh,
                       ![o].secret = secret, ![o].ref = ref, ![o].todo = todo]
      /\ op[o].call = "none" /\ UNCHANGED <<keyFiles, left, login, image>>
  BY DEF Build
<1> HIDE DEF todo, held
<1>4. todo \in Seq(Commands)
  BY <1>1 DEF Plan
<1>5. PICK source \in Refs, taken \in Images : source = op[o].source /\ taken = op[o].taken
  BY OpFields
<1>6. Begins(o, "build", ssh, secret, ref, source, taken, todo)
  BY <1>3, <1>4, <1>5, CallBegins
<1>7. CallInv(o)'
  BY <1>1, <1>2, <1>3, <1>6, BeginOwn
<1> QED BY <1>6, <1>7 DEF Begins

\* A task that was built is pushed, where it was built and under its own reference.
LEMMA PushOwn ==
    ASSUME ExecShape, NEW o \in Ops, CallInv(o), NEW secret \in BOOLEAN, Push(o, secret)
    PROVE  op' \in [Ops -> OpRow] /\ CallInv(o)' /\ \A p \in Ops \ {o} : op'[p] = op[p]
<1> DEFINE todo == IF op[o].ssh THEN PushSSH(secret) ELSE PushLocal(secret)
           ForPush == {"mkconfig"} \union (If(secret, "login") \union {"push", "inspect"})
           held == IF op[o].ssh THEN {"identity"} \union ForPush ELSE ForPush
<1>1. Plan(todo, held)
  BY PlansHold
<1>2. /\ {"push", "mkconfig"} \subseteq held /\ "build" \notin held /\ "tag" \notin held
      /\ secret => "login" \in held
  BY DEF If
<1>3. op' = [op EXCEPT ![o].call = "push", ![o].result = "running", ![o].secret = secret, ![o].todo = todo]
      /\ op[o].call = "build" /\ op[o].result = "ok" /\ UNCHANGED <<keyFiles, left, login, image>>
  BY DEF Push
<1> HIDE DEF todo, held
<1>4. todo \in Seq(Commands)
  BY <1>1 DEF Plan
<1>5. PICK source \in Refs, taken \in Images, ssh \in BOOLEAN, ref \in Refs :
        source = op[o].source /\ taken = op[o].taken /\ ssh = op[o].ssh /\ ref = op[o].ref
  BY OpFields
<1>6. Begins(o, "push", ssh, secret, ref, source, taken, todo)
  BY <1>3, <1>4, <1>5, CallBegins
<1>7. CallInv(o)'
  BY <1>1, <1>2, <1>3, <1>5, <1>6, BeginOwn
<1> QED BY <1>6, <1>7 DEF Begins

\* An artifact is pushed again: the image it names is the one that is taken.
LEMMA RepushOwn ==
    ASSUME ExecShape, NEW o \in Ops, CallInv(o), NEW ssh \in BOOLEAN, NEW secret \in BOOLEAN,
           NEW source \in Refs, NEW target \in Refs, Repush(o, ssh, secret, source, target)
    PROVE  op' \in [Ops -> OpRow] /\ CallInv(o)' /\ \A p \in Ops \ {o} : op'[p] = op[p]
<1> DEFINE todo == IF ssh THEN RepushSSH(secret, source, target) ELSE RepushLocal(secret, source, target)
           ForPush == {"mkconfig"} \union (If(secret, "login") \union {"push", "inspect"})
           ForTag == If(source # target, "tag")
           held == IF ssh THEN {"identity"} \union (ForTag \union ({"identity"} \union ForPush))
                          ELSE ForTag \union ForPush
<1>1. Plan(todo, held)
  BY PlansHold
<1>2. /\ {"push", "mkconfig"} \subseteq held /\ "build" \notin held
      /\ "tag" \in held \/ source = target
      /\ secret => "login" \in held
  BY DEF If
<1>3. PICK taken \in Images : taken = image[<<ssh, source>>]
  BY DEF ExecShape
<1>4. op' = [op EXCEPT ![o].call = "repush", ![o].result = "running", ![o].ssh = ssh,
                       ![o].secret = secret, ![o].ref = target, ![o].source = source,
                       ![o].taken = taken, ![o].todo = todo]
      /\ op[o].call = "none" /\ UNCHANGED <<keyFiles, left, login, image>>
  BY <1>3 DEF Repush
<1> HIDE DEF todo, held
<1>5. todo \in Seq(Commands)
  BY <1>1 DEF Plan
<1>6. Begins(o, "repush", ssh, secret, target, source, taken, todo)
  BY <1>4, <1>5, CallBegins
<1>7. CallInv(o)'
  BY <1>1, <1>2, <1>3, <1>4, <1>6, BeginOwn
<1> QED BY <1>6, <1>7 DEF Begins

\* A call returns.
LEMMA ReturnOwn ==
    ASSUME ExecShape, NEW o \in Ops, CallInv(o), CallReturns(o)
    PROVE  /\ op' \in [Ops -> OpRow] /\ CallInv(o)' /\ \A p \in Ops \ {o} : op'[p] = op[p]
           /\ op'[o].failed = op[o].failed /\ op[o].defers = <<>>
<1> USE DEF CallInv
<1> DEFINE w == op[o]
<1>1. PICK result \in {"ok", "failed"} : /\ op' = [op EXCEPT ![o].result = result]
                                         /\ result = "ok" => NoneFailed(o)
  BY DEF CallReturns, NoneFailed
<1>2. /\ Running(o) /\ op[o].todo = <<>> /\ op[o].defers = <<>>
      /\ UNCHANGED <<keyFiles, left, login, image>>
  BY DEF CallReturns
<1> DEFINE n == [w EXCEPT !.result = result]
<1>3. op' = [op EXCEPT ![o] = n] /\ w \in OpRow
  BY <1>1 DEF ExecShape
<1> HIDE DEF w
<1>4. /\ n \in OpRow /\ SameCall(n, w) /\ SameImages(n, w) /\ n.result = result
      /\ n.moved = w.moved /\ n.todo = w.todo /\ n.defers = w.defers /\ n.failed = w.failed
  BY <1>3, ReturnedRow
<1> HIDE DEF n
<1>5. op' \in [Ops -> OpRow] /\ op'[o] = n /\ \A p \in Ops \ {o} : op'[p] = op[p]
  BY <1>3, <1>4 DEF ExecShape
<1>6. /\ SameCall(op'[o], op[o]) /\ SameImages(op'[o], op[o]) /\ op'[o].result = result
      /\ op'[o].moved = op[o].moved /\ op'[o].todo = op[o].todo /\ op'[o].defers = op[o].defers
      /\ op'[o].failed = op[o].failed
  BY <1>4, <1>5 DEF w
<1>7. /\ ToDo(o)' = ToDo(o) /\ Deferred(o)' = Deferred(o) /\ Place(o)' = Place(o) /\ ~Running(o)'
      /\ (NoneFailed(o)' <=> NoneFailed(o)) /\ (Pushes(o)' <=> Pushes(o)) /\ LoginConfig(o)' = LoginConfig(o)
  BY <1>6 DEF ToDo, Deferred, Place, Running, NoneFailed, Pushes, LoginConfig, SameCall
<1>8. PathInv(o)'
  BY <1>1, <1>2, <1>6, <1>7 DEF PathInv, SameCall, SameImages
<1>9. LoginInv(o)'
  BY <1>2, <1>6, <1>7 DEF LoginInv, SameCall
<1>10. LeftInv(o)'
  BY <1>2, <1>6, <1>7 DEF LeftInv, SameCall
<1>11. ImageInv(o)'
  BY <1>2, <1>6, <1>7 DEF ImageInv, SameCall, SameImages
<1> QED BY <1>2, <1>5, <1>6, <1>8, <1>9, <1>10, <1>11

\* What a command of another operation may do to a row.
LEMMA OtherRow ==
    ASSUME ExecShape, NEW p \in Ops, NEW b \in BOOLEAN, op'[p] = [op[p] EXCEPT !.moved = @ \/ b]
    PROVE  /\ op'[p] \in OpRow /\ SameCall(op'[p], op[p]) /\ SameSteps(op'[p], op[p])
           /\ SameImages(op'[p], op[p]) /\ ((op[p].moved \/ b) => op'[p].moved)
<1> DEFINE w == op[p]
           m == op[p].moved \/ b
<1>1. w \in OpRow /\ m \in BOOLEAN
  BY OpFields
<1>2. op'[p] = [w EXCEPT !.moved = m]
  OBVIOUS
<1> HIDE DEF w, m
<1>3. LET n == [w EXCEPT !.moved = m]
      IN n \in OpRow /\ n.moved = m /\ SameCall(n, w) /\ SameSteps(n, w) /\ SameImages(n, w)
  BY <1>1, MovedRow
<1> QED BY <1>2, <1>3 DEF w, m

\* The user's configuration stays accounted for while every call keeps its part.
LEMMA HomeKept ==
    ASSUME HomeInv,
           "home" \in login' =>
             /\ \/ "home" \in login
                \/ \E o \in Ops : LogsOut(o)' \/ op'[o].failed \intersect {"login", "logout"} # {}
             /\ \A o \in Ops : (LogsOut(o) \/ op[o].failed \intersect {"login", "logout"} # {})
                  => LogsOut(o)' \/ op'[o].failed \intersect {"login", "logout"} # {}
    PROVE  HomeInv'
BY DEF HomeInv

\* A row that keeps its steps keeps its part of the user's configuration.
LEMMA LogsOutKept ==
    ASSUME NEW p, SameCall(op'[p], op[p]), SameSteps(op'[p], op[p])
    PROVE  (LogsOut(p)' <=> LogsOut(p)) /\ op'[p].failed = op[p].failed
BY DEF LogsOut, SameCall, SameSteps, Deferred

\* Commands.
LEMMA SucceedStep ==
    ASSUME ExecInv, NEW o \in Ops, CommandSucceeds(o)
    PROVE  ExecInv'
<1>1. ExecShape /\ HomeInv /\ \A p \in Ops : CallInv(p)
  BY DEF ExecInv, CallInv
<1>2. op[o].todo # <<>> /\ PathInv(o)
  BY <1>1 DEF CommandSucceeds, CallInv
<1>3. PICK c \in Commands : c = Head(op[o].todo)
  BY <1>1, <1>2, NextCommand
<1>4. Effect(o, c) /\ \A p \in Ops \ {o} : op'[p] = [op[p] EXCEPT !.moved = @ \/ p \in Moved(o, c)]
  BY <1>3 DEF CommandSucceeds
<1>5. /\ op'[o] \in OpRow /\ CallInv(o)' /\ SameCall(op'[o], op[o]) /\ op'[o].failed = op[o].failed
      /\ Deferred(o) \subseteq Deferred(o)' /\ (c = "login" => "logout" \in Deferred(o)')
  BY <1>1, <1>3, SucceedOwn
<1>6. ASSUME NEW p \in Ops \ {o}
      PROVE  /\ op'[p] \in OpRow /\ SameCall(op'[p], op[p]) /\ SameSteps(op'[p], op[p])
             /\ SameImages(op'[p], op[p]) /\ ((op[p].moved \/ p \in Moved(o, c)) => op'[p].moved)
  BY <1>1, <1>4, OtherRow
<1>7. ASSUME NEW p \in Ops \ {o} PROVE CallInv(p)'
  <2>1. image'[Place(p)] = image[Place(p)] \/ p \in Moved(o, c) \/ op[p].call = "none"
    BY <1>1, <1>4, MovedFacts
  <2>2. keyFiles'[p] = keyFiles[p] /\ left'[p] = left[p] /\ (p \in login' <=> p \in login)
    BY <1>1, <1>4, EffectFacts
  <2> QED BY <1>1, <1>6, <2>1, <2>2, OtherKeeps
<1>8. ExecShape'
  <2>1. op' \in [Ops -> OpRow]
    <3>1. DOMAIN op' = Ops /\ op' = [p \in Ops |-> op'[p]]
      BY DEF CommandSucceeds
    <3>2. \A p \in Ops : op'[p] \in OpRow
      BY <1>5, <1>6
    <3> QED BY <3>1, <3>2
  <2> QED BY <1>1, <1>4, <2>1, EffectFacts DEF ExecShape
<1>9. HomeInv'
  <2>1. "home" \in login' => "home" \in login \/ (c = "login" /\ LoginConfig(o) = "home")
    BY <1>1, <1>4, EffectFacts
  <2>2. LogsOut(o) => LogsOut(o)'
    BY <1>5 DEF LogsOut, SameCall
  <2>3. (c = "login" /\ LoginConfig(o) = "home") => LogsOut(o)'
    BY <1>5, HomeIsNoOp DEF LogsOut, SameCall, LoginConfig
  <2>4. \A p \in Ops \ {o} : (LogsOut(p)' <=> LogsOut(p)) /\ op'[p].failed = op[p].failed
    BY <1>6, LogsOutKept
  <2> QED BY <1>1, <1>5, <2>1, <2>2, <2>3, <2>4, HomeKept
<1> QED BY <1>5, <1>7, <1>8, <1>9 DEF ExecInv, CallInv

\* A command that fails.
LEMMA FailStep ==
    ASSUME ExecInv, NEW o \in Ops, NEW done \in BOOLEAN, CommandFails(o, done)
    PROVE  ExecInv'
<1>1. ExecShape /\ HomeInv /\ \A p \in Ops : CallInv(p)
  BY DEF ExecInv, CallInv
<1>2. op[o].todo # <<>> /\ PathInv(o)
  BY <1>1 DEF CommandFails, CallInv
<1>3. PICK c \in Commands : c = Head(op[o].todo)
  BY <1>1, <1>2, NextCommand
<1>4. /\ Effect(o, c) \/ (~done /\ UNCHANGED <<keyFiles, left, login, image>>)
      /\ \A p \in Ops \ {o} : op'[p] = [op[p] EXCEPT !.moved = @ \/ (done /\ p \in Moved(o, c))]
  BY <1>3 DEF CommandFails
<1>5. /\ op'[o] \in OpRow /\ CallInv(o)' /\ SameCall(op'[o], op[o]) /\ Deferred(o)' = Deferred(o)
      /\ op[o].failed \subseteq op'[o].failed /\ c \in op'[o].failed
  BY <1>1, <1>3, FailOwn
<1>6. ASSUME NEW p \in Ops \ {o}
      PROVE  /\ op'[p] \in OpRow /\ SameCall(op'[p], op[p]) /\ SameSteps(op'[p], op[p])
             /\ SameImages(op'[p], op[p])
             /\ ((op[p].moved \/ (done /\ p \in Moved(o, c))) => op'[p].moved)
  BY <1>1, <1>4, OtherRow
<1>7. ASSUME NEW p \in Ops \ {o} PROVE CallInv(p)'
  <2>1. /\ image'[Place(p)] = image[Place(p)] \/ (done /\ p \in Moved(o, c)) \/ op[p].call = "none"
        /\ keyFiles'[p] = keyFiles[p] /\ left'[p] = left[p] /\ (p \in login' <=> p \in login)
    <3>1. CASE done
      BY <1>1, <1>4, <3>1, MovedFacts, EffectFacts
    <3>2. CASE ~done
      <4>1. UNCHANGED <<keyFiles, left, login, image>>
        BY <3>2 DEF CommandFails
      <4> QED BY <4>1
    <3> QED BY <3>1, <3>2
  <2> QED BY <1>1, <1>6, <2>1, OtherKeeps
<1>8. ExecShape'
  <2>1. op' \in [Ops -> OpRow]
    <3>1. DOMAIN op' = Ops /\ op' = [p \in Ops |-> op'[p]]
      BY DEF CommandFails
    <3>2. \A p \in Ops : op'[p] \in OpRow
      BY <1>5, <1>6
    <3> QED BY <3>1, <3>2
  <2>2. keyFiles' \in [Ops -> Nat] /\ left' \in [Ops -> SUBSET Directories] /\ image' \in [BOOLEAN \X Refs -> Images]
    <3>1. CASE Effect(o, c)
      BY <1>1, <3>1, EffectFacts
    <3>2. CASE UNCHANGED <<keyFiles, left, login, image>>
      BY <1>1, <3>2 DEF ExecShape
    <3> QED BY <1>4, <3>1, <3>2
  <2> QED BY <2>1, <2>2 DEF ExecShape
<1>9. HomeInv'
  <2>1. "home" \in login' => "home" \in login \/ (c = "login" /\ LoginConfig(o) = "home")
    BY <1>1, <1>4, EffectFacts
  <2>2. LogsOut(o) => LogsOut(o)'
    BY <1>5 DEF LogsOut, SameCall
  <2>3. c = "login" => op'[o].failed \intersect {"login", "logout"} # {}
    BY <1>5
  <2>4. \A p \in Ops \ {o} : (LogsOut(p)' <=> LogsOut(p)) /\ op'[p].failed = op[p].failed
    BY <1>6, LogsOutKept
  <2> QED BY <1>1, <1>5, <2>1, <2>2, <2>3, <2>4, HomeKept
<1> QED BY <1>5, <1>7, <1>8, <1>9 DEF ExecInv, CallInv

\* A row that stays as it is, with what it has on the hosts.
LEMMA Undisturbed ==
    ASSUME NEW p \in Ops, CallInv(p), op'[p] = op[p], keyFiles'[p] = keyFiles[p],
           left'[p] = left[p], p \in login' <=> p \in login, image' = image
    PROVE  CallInv(p)' /\ (LogsOut(p)' <=> LogsOut(p))
<1>1. SameCall(op'[p], op[p]) /\ SameSteps(op'[p], op[p]) /\ SameImages(op'[p], op[p])
  BY DEF SameCall, SameSteps, SameImages
<1> QED BY <1>1, OtherKeeps, LogsOutKept

\* A cleanup.
LEMMA UnwindStep ==
    ASSUME ExecInv, NEW o \in Ops, Unwind(o)
    PROVE  ExecInv'
<1>1. ExecShape /\ HomeInv /\ \A p \in Ops : CallInv(p)
  BY DEF ExecInv, CallInv
<1>2. /\ op'[o] \in OpRow /\ CallInv(o)'
      /\ keyFiles' \in [Ops -> Nat] /\ left' \in [Ops -> SUBSET Directories]
      /\ \A p \in Ops \ {o} : /\ op'[p] = op[p] /\ keyFiles'[p] = keyFiles[p] /\ left'[p] = left[p]
                              /\ p \in login' <=> p \in login
      /\ SameCall(op'[o], op[o]) /\ op[o].failed \subseteq op'[o].failed
      /\ "home" \in login' => "home" \in login
      /\ "home" \in login' /\ LogsOut(o) => LogsOut(o)' \/ "logout" \in op'[o].failed
  BY <1>1, UnwindOwn
<1>3. image' = image
  BY DEF Unwind
<1>4. \A p \in Ops \ {o} : CallInv(p)' /\ (LogsOut(p)' <=> LogsOut(p))
  BY <1>1, <1>2, <1>3, Undisturbed
<1>5. op' \in [Ops -> OpRow]
  <2>1. DOMAIN op' = Ops /\ op' = [p \in Ops |-> op'[p]]
    BY <1>1 DEF Unwind, ExecShape
  <2>2. \A p \in Ops : op'[p] \in OpRow
    BY <1>1, <1>2 DEF ExecShape
  <2> QED BY <2>1, <2>2
<1>6. ExecShape'
  BY <1>1, <1>2, <1>3, <1>5 DEF ExecShape
<1>7. HomeInv'
  BY <1>1, <1>2, <1>4, HomeKept
<1> QED BY <1>2, <1>4, <1>6, <1>7 DEF ExecInv, CallInv

\* A call begins or returns: nothing on the hosts changes.
LEMMA QuietStep ==
    ASSUME ExecInv, NEW o \in Ops, op' \in [Ops -> OpRow], CallInv(o)',
           \A p \in Ops \ {o} : op'[p] = op[p], UNCHANGED <<keyFiles, left, login, image>>,
           op[o].defers = <<>>, op'[o].failed = op[o].failed
    PROVE  ExecInv'
<1>1. ExecShape /\ HomeInv /\ \A p \in Ops : CallInv(p)
  BY DEF ExecInv, CallInv
<1>2. \A p \in Ops \ {o} : CallInv(p)' /\ (LogsOut(p)' <=> LogsOut(p))
  BY <1>1, Undisturbed
<1>3. ExecShape'
  BY <1>1 DEF ExecShape
<1>4. ~LogsOut(o)
  <2>1. Elems(<<>>) = {}
    BY OpFields, <1>1, EmptyElems
  <2> QED BY <2>1 DEF LogsOut, Deferred
<1>5. HomeInv'
  BY <1>1, <1>2, <1>4, HomeKept
<1> QED BY <1>2, <1>3, <1>5 DEF ExecInv, CallInv

\* No call has begun.
LEMMA InitExec == ExecInit => ExecInv
<1> SUFFICES ASSUME ExecInit PROVE ExecInv
  OBVIOUS
<1>1. PICK ref \in Refs : ref = CHOOSE r \in Refs : TRUE
  BY SomeRef
<1> DEFINE row == [call |-> "none", result |-> "none", ssh |-> FALSE, secret |-> FALSE,
                   ref |-> ref, source |-> ref, todo |-> <<>>, defers |-> <<>>,
                   failed |-> {}, taken |-> NoImage,
                   pushed |-> NoImage, got |-> NoImage, moved |-> FALSE]
<1>2. /\ op = [o \in Ops |-> row] /\ keyFiles = [o \in Ops |-> 0] /\ left = [o \in Ops |-> {}]
      /\ login = {} /\ image = [place \in BOOLEAN \X Refs |-> NoImage]
  BY <1>1 DEF ExecInit
<1>3. row \in OpRow
  BY EmptySeq DEF OpRow, Images
<1>4. ExecShape
  BY <1>2, <1>3 DEF ExecShape, Images
<1>5. "inspect" \in Commands
  BY DEF Commands
<1>6. Elems(<<>>) = {} /\ Ordered(<<>>) /\ CountOf(<<>>, "removeKey") = 0
  BY <1>5, ShortElems, EmptyCount
<1>7. ASSUME NEW o \in Ops PROVE CallInv(o)
  <2>1. op[o] = row /\ keyFiles[o] = 0 /\ left[o] = {} /\ o \notin login
    BY <1>2
  <2>2. /\ op[o].call = "none" /\ op[o].result = "none" /\ op[o].todo = <<>> /\ op[o].defers = <<>>
        /\ op[o].failed = {} /\ op[o].pushed = NoImage /\ op[o].secret = FALSE
    BY <2>1
  <2> HIDE DEF row
  <2>3. PathInv(o)
    BY <1>6, <2>2 DEF PathInv, Running, NoneFailed, ToDo, Pushes
  <2>4. LoginInv(o)
    BY <2>2 DEF LoginInv
  <2>5. LeftInv(o)
    BY <1>6, <2>1, <2>2 DEF LeftInv, ToDo
  <2>6. ImageInv(o)
    BY <2>2 DEF ImageInv, Pushes
  <2> QED BY <2>3, <2>4, <2>5, <2>6 DEF CallInv
<1>8. HomeInv
  BY <1>2 DEF HomeInv
<1> QED BY <1>4, <1>7, <1>8 DEF ExecInv, CallInv

\* Every step keeps the invariant, whatever the calls are, their number and their order.
LEMMA ExecStep == (ExecInv /\ [ExecNext]_execVars) => ExecInv'
<1> SUFFICES ASSUME ExecInv, [ExecNext]_execVars PROVE ExecInv'
  OBVIOUS
<1>1. ExecShape /\ \A p \in Ops : CallInv(p)
  BY DEF ExecInv, CallInv
<1>2. ASSUME NEW o \in Ops, ~Running(o) PROVE op[o].defers = <<>>
  BY <1>1, <1>2 DEF CallInv, PathInv
<1>3. ASSUME NEW o \in Ops, op[o].call = "none" PROVE ~Running(o)
  BY <1>1, <1>3 DEF CallInv, PathInv
<1>4. CASE \E o \in Ops, ssh \in BOOLEAN, secret \in Secrets, ref \in Refs : Build(o, ssh, secret, ref)
  <2>1. PICK o \in Ops, ssh \in BOOLEAN, secret \in BOOLEAN, ref \in Refs : Build(o, ssh, secret, ref)
    BY <1>4, SecretsAreFlags
  <2>2. op' \in [Ops -> OpRow] /\ CallInv(o)' /\ \A p \in Ops \ {o} : op'[p] = op[p]
    BY <1>1, <2>1, BuildOwn
  <2>3. /\ op[o].call = "none" /\ op'[o].failed = op[o].failed
        /\ UNCHANGED <<keyFiles, left, login, image>>
    BY <1>1, <2>1 DEF Build, ExecShape, OpRow
  <2> QED BY <1>2, <1>3, <2>2, <2>3, QuietStep
<1>5. CASE \E o \in Ops, ssh \in BOOLEAN, secret \in Secrets, source \in Refs, ref \in Refs :
             Repush(o, ssh, secret, source, ref)
  <2>1. PICK o \in Ops, ssh \in BOOLEAN, secret \in BOOLEAN, source \in Refs, ref \in Refs :
          Repush(o, ssh, secret, source, ref)
    BY <1>5, SecretsAreFlags
  <2>2. op' \in [Ops -> OpRow] /\ CallInv(o)' /\ \A p \in Ops \ {o} : op'[p] = op[p]
    BY <1>1, <2>1, RepushOwn
  <2>3. /\ op[o].call = "none" /\ op'[o].failed = op[o].failed
        /\ UNCHANGED <<keyFiles, left, login, image>>
    BY <1>1, <2>1 DEF Repush, ExecShape, OpRow
  <2> QED BY <1>2, <1>3, <2>2, <2>3, QuietStep
<1>6. CASE \E o \in Ops, secret \in Secrets : Push(o, secret)
  <2>1. PICK o \in Ops, secret \in BOOLEAN : Push(o, secret)
    BY <1>6, SecretsAreFlags
  <2>2. op' \in [Ops -> OpRow] /\ CallInv(o)' /\ \A p \in Ops \ {o} : op'[p] = op[p]
    BY <1>1, <2>1, PushOwn
  <2>3. /\ op[o].result = "ok" /\ op'[o].failed = op[o].failed
        /\ UNCHANGED <<keyFiles, left, login, image>>
    BY <1>1, <2>1 DEF Push, ExecShape, OpRow
  <2>4. ~Running(o)
    BY <2>3 DEF Running
  <2> QED BY <1>2, <2>2, <2>3, <2>4, QuietStep
<1>7. CASE \E o \in Ops : CallReturns(o)
  <2>1. PICK o \in Ops : CallReturns(o)
    BY <1>7
  <2>2. /\ op' \in [Ops -> OpRow] /\ CallInv(o)' /\ \A p \in Ops \ {o} : op'[p] = op[p]
        /\ op'[o].failed = op[o].failed /\ op[o].defers = <<>>
    BY <1>1, <2>1, ReturnOwn
  <2>3. UNCHANGED <<keyFiles, left, login, image>>
    BY <2>1 DEF CallReturns
  <2> QED BY <2>2, <2>3, QuietStep
<1>8. CASE \E o \in Ops : CommandSucceeds(o) \/ Unwind(o)
  BY <1>8, SucceedStep, UnwindStep
<1>9. CASE \E o \in Ops, done \in BOOLEAN : CommandFails(o, done)
  BY <1>9, FailStep
<1>10. CASE UNCHANGED execVars
  <2>1. UNCHANGED <<op, keyFiles, left, login, image>>
    BY <1>10 DEF execVars
  <2>2. \A p \in Ops : CallInv(p)' /\ (LogsOut(p)' <=> LogsOut(p))
    BY <1>1, <2>1, Undisturbed
  <2>3. ExecShape'
    BY <1>1, <2>1 DEF ExecShape
  <2>4. HomeInv'
    BY <2>1, <2>2 DEF ExecInv, HomeInv
  <2> QED BY <2>2, <2>3, <2>4 DEF ExecInv, CallInv
<1> QED BY <1>4, <1>5, <1>6, <1>7, <1>8, <1>9, <1>10 DEF ExecNext

\* The executor's invariant holds of every run, for any number of operations.
THEOREM ExecInvHolds == ExecSpec => []ExecInv
<1>1. ExecInit => ExecInv
  BY InitExec
<1>2. (ExecInv /\ [ExecNext]_execVars) => ExecInv'
  BY ExecStep
<1> QED BY <1>1, <1>2, PTL DEF ExecSpec

\* A push runs with the credentials it was given.
THEOREM PushesAreLoggedIn == ExecSpec => []PushLoggedIn
<1>1. ExecInv => PushLoggedIn
  <2> SUFFICES ASSUME ExecInv, NEW o \in Ops, AboutTo(o, "push"), op[o].secret
               PROVE  UsedConfig(o, "push") \in login
    BY DEF PushLoggedIn, LoggedIn
  <2>1. ExecShape /\ PathInv(o) /\ LoginInv(o)
    BY DEF ExecInv
  <2>2. op[o].todo # <<>> /\ Head(op[o].todo) = "push"
    BY DEF AboutTo
  <2>3. /\ ToDo(o) = {"push"} \union Elems(Tail(op[o].todo)) /\ op[o].call # "none"
        /\ \A d \in Elems(Tail(op[o].todo)) : Before("push", d)
    BY <2>1, <2>2, NextCommand
  <2>4. "push" \in ToDo(o) /\ "login" \notin ToDo(o)
    BY <2>3 DEF Before
  <2>5. op[o].call \in {"push", "repush"}
    BY <2>1, <2>3, <2>4 DEF PathInv, ExecShape, OpRow
  <2>6. o \in login
    BY <2>1, <2>4, <2>5 DEF LoginInv, Pushes
  <2> QED BY <2>5, <2>6 DEF UsedConfig, LoginConfig
<1> QED BY <1>1, ExecInvHolds, PTL

\* A call that has returned has left nothing behind, unless a command failed.
THEOREM LeftoversAreFailures == ExecSpec => []LeftoversFailed
<1>1. ExecInv => LeftoversFailed
  <2> SUFFICES ASSUME ExecInv PROVE LeftoversFailed
    OBVIOUS
  <2>1. ExecShape /\ HomeInv /\ \A o \in Ops : PathInv(o) /\ LeftInv(o)
    BY DEF ExecInv
  <2>2. "inspect" \in Commands
    BY DEF Commands
  <2>3. Elems(<<>>) = {} /\ CountOf(<<>>, "removeKey") = 0
    BY <2>2, ShortElems, EmptyCount
  <2>4. ASSUME NEW o \in Ops, ~Running(o) PROVE op[o].defers = <<>> /\ Deferred(o) = {}
    BY <2>1, <2>3, <2>4 DEF PathInv, Deferred
  <2>5. ASSUME NEW o \in Ops, ~Running(o)
        PROVE  /\ keyFiles[o] = 0
               /\ "context" \in left[o] => op[o].failed \intersect {"upload", "removeContext"} # {}
               /\ "config" \in left[o] =>
                    op[o].ssh /\ op[o].failed \intersect {"mkconfig", "removeConfig"} # {}
               /\ o \in login => "config" \in left[o]
    BY <2>1, <2>3, <2>4, <2>5 DEF LeftInv
  <2>6. ASSUME "home" \in login, \A o \in Ops : ~Running(o)
        PROVE  \E o \in Ops : op[o].failed \intersect {"login", "logout"} # {}
    BY <2>1, <2>4, <2>6 DEF HomeInv, LogsOut
  <2> QED BY <2>5, <2>6 DEF LeftoversFailed
<1> QED BY <1>1, ExecInvHolds, PTL

\* A push pushes and reports the image of its own task or artifact, unless another
\* operation gave the reference to an image of its own.
THEOREM ImagesAreOwn == ExecSpec => []OwnImage
<1>1. ExecInv => OwnImage
  <2> SUFFICES ASSUME ExecInv, NEW o \in Ops, op[o].call \in {"push", "repush"},
                      op[o].pushed # NoImage, ~op[o].moved
               PROVE  /\ op[o].pushed = op[o].taken
                      /\ op[o].call = "push" => op[o].taken = o
                      /\ op[o].result = "ok" => op[o].got = op[o].pushed
    BY DEF OwnImage
  <2>1. PathInv(o) /\ ImageInv(o)
    BY DEF ExecInv
  <2>2. op[o].result = "ok" => NoneFailed(o) /\ op[o].todo = <<>>
    BY <2>1 DEF PathInv, Running
  <2> QED BY <2>1, <2>2 DEF ImageInv, Pushes
<1> QED BY <1>1, ExecInvHolds, PTL

-----------------------------------------------------------------------------
(* Key files and configurations *)

\* An operation never holds more than two identity files, with those its commands
\* will still write, and only configurations of operations and users are logged in.
KeyInv == /\ \A o \in Ops : keyFiles[o] + CountOf(op[o].todo, "identity") <= 2
          /\ login \subseteq Configs

\* A key that a sequence may hold in one place only is there at most once.
LEMMA CountInPlace ==
    ASSUME NEW s, NEW key, NEW i, Places(s, key) \subseteq {i}
    PROVE  CountOf(s, key) \in 0..1
<1>1. IsFiniteSet({i}) /\ Cardinality({i}) = 1 /\ IsFiniteSet({}) /\ Cardinality({}) = 0
  BY FS_Singleton, FS_EmptySet
<1>2. Places(s, key) = {} \/ Places(s, key) = {i}
  OBVIOUS
<1> QED BY <1>1, <1>2 DEF CountOf

\* No call writes more than two identity files.
LEMMA FewIdentities ==
    ASSUME NEW secret \in BOOLEAN, NEW source, NEW target
    PROVE  \A todo \in {BuildLocal(secret), BuildSSH(secret), PushLocal(secret), PushSSH(secret),
                        RepushLocal(secret, source, target), RepushSSH(secret, source, target)} :
              CountOf(todo, "identity") \in 0..2
<1>1. Places(BuildLocal(secret), "identity") \subseteq {1}
  BY DEF BuildLocal, When, Places
<1>2. Places(BuildSSH(secret), "identity") \subseteq {1}
  BY DEF BuildSSH, When, Places
<1>3. Places(PushLocal(secret), "identity") \subseteq {1}
  BY DEF PushLocal, When, Places
<1>4. Places(PushSSH(secret), "identity") \subseteq {1}
  BY DEF PushSSH, When, Places
<1>5. Places(RepushLocal(secret, source, target), "identity") \subseteq {1}
  BY DEF RepushLocal, PushLocal, When, Places
<1>6. CountOf(PushSSH(secret), "identity") \in 0..1
  BY <1>4, CountInPlace
<1>7. CountOf(RepushSSH(secret, source, target), "identity") \in 0..2
  <2> DEFINE I == <<"identity">>
             T == <<"tag">>
             P == PushSSH(secret)
             W == T \o P
  <2>1. I \in Seq(Commands) /\ T \in Seq(Commands) /\ "identity" \in Commands /\ "tag" \in Commands
    BY DEF Commands
  <2>2. P \in Seq(Commands)
    BY PlansHold DEF Plan
  <2>3. CountOf(P, "identity") \in 0..1
    BY <1>6
  <2> HIDE DEF P
  <2>4. CountOf(I \o P, "identity") = CountOf(P, "identity") + 1
    BY <2>1, <2>2, Prepended
  <2>5. W \in Seq(Commands) /\ CountOf(W, "identity") = CountOf(P, "identity")
    BY <2>1, <2>2, <2>3, Prepended
  <2>6. (I \o T) \o P = I \o W
    BY <2>1, <2>2, Grouped
  <2>7. (I \o <<>>) \o P = I \o P
    BY <2>1, ConcatEmptySeq
  <2>8. \/ RepushSSH(secret, source, target) = (I \o T) \o P
        \/ RepushSSH(secret, source, target) = (I \o <<>>) \o P
    BY DEF RepushSSH, When, P
  <2> HIDE DEF W
  <2>9. CountOf(I \o W, "identity") = CountOf(W, "identity") + 1
    BY <2>1, <2>5, Prepended
  <2> HIDE DEF I, T
  <2>10. CountOf(I \o P, "identity") \in 0..2 /\ CountOf(I \o W, "identity") \in 0..2
    BY <2>3, <2>4, <2>5, <2>9
  <2>11. RepushSSH(secret, source, target) \in {I \o P, I \o W}
    BY <2>6, <2>7, <2>8
  <2> QED BY <2>10, <2>11
<1>8. \A n \in 0..1 : n \in 0..2
  OBVIOUS
<1>9. /\ CountOf(BuildLocal(secret), "identity") \in 0..2
      /\ CountOf(BuildSSH(secret), "identity") \in 0..2
      /\ CountOf(PushLocal(secret), "identity") \in 0..2
      /\ CountOf(RepushLocal(secret, source, target), "identity") \in 0..2
  BY <1>1, <1>2, <1>3, <1>5, <1>8, CountInPlace
<1> QED BY <1>6, <1>7, <1>8, <1>9

\* A call begins with no identity file and writes at most two.
LEMMA KeysBegin ==
    ASSUME ExecInv, KeyInv, NEW o \in Ops, ~Running(o), NEW todo, CountOf(todo, "identity") \in 0..2,
           op'[o].todo = todo, \A p \in Ops \ {o} : op'[p] = op[p],
           UNCHANGED <<keyFiles, login>>
    PROVE  KeyInv'
<1>1. PathInv(o) /\ LeftInv(o)
  BY DEF ExecInv
<1>2. op[o].defers = <<>>
  BY <1>1 DEF PathInv
<1>3. keyFiles[o] = 0
  <2>1. CountOf(<<>>, "removeKey") = 0
    BY EmptyCount
  <2> QED BY <1>1, <1>2, <2>1 DEF LeftInv
<1>4. keyFiles'[o] + CountOf(op'[o].todo, "identity") <= 2
  BY <1>3
<1>5. ASSUME NEW p \in Ops \ {o} PROVE keyFiles'[p] + CountOf(op'[p].todo, "identity") <= 2
  BY <1>5 DEF KeyInv
<1> QED BY <1>4, <1>5 DEF KeyInv

\* Every step keeps the bound: a command that writes an identity file is one less to come.
LEMMA KeyStep == (ExecInv /\ KeyInv /\ [ExecNext]_execVars) => KeyInv'
<1> SUFFICES ASSUME ExecInv, KeyInv, [ExecNext]_execVars PROVE KeyInv'
  OBVIOUS
<1>1. /\ ExecShape
      /\ \A p \in Ops : /\ PathInv(p) /\ keyFiles[p] \in Nat
                        /\ CountOf(op[p].todo, "identity") \in Nat
                        /\ keyFiles[p] + CountOf(op[p].todo, "identity") <= 2
  BY OpFields, TailCount DEF ExecInv, ExecShape, KeyInv
<1>2. login \subseteq Configs
  BY DEF KeyInv
<1>3. \A o \in Ops : LoginConfig(o) \in Configs
  BY DEF LoginConfig, Configs
<1>4. ASSUME NEW o \in Ops, NEW todo, CountOf(todo, "identity") \in 0..2,
             op[o].call = "none" \/ op[o].result = "ok", op'[o].todo = todo,
             \A p \in Ops \ {o} : op'[p] = op[p], UNCHANGED <<keyFiles, login>>
      PROVE  KeyInv'
  <2>1. ~Running(o)
    BY <1>1, <1>4 DEF PathInv, Running
  <2> QED BY <1>4, <2>1, KeysBegin
<1>5. ASSUME NEW o \in Ops, NEW ssh \in BOOLEAN, NEW secret \in BOOLEAN, NEW ref \in Refs,
             Build(o, ssh, secret, ref)
      PROVE  KeyInv'
  <2>1. op'[o].todo \in {BuildSSH(secret), BuildLocal(secret)} /\ \A p \in Ops \ {o} : op'[p] = op[p]
    BY <1>1, <1>5 DEF Build, ExecShape, OpRow
  <2>2. CountOf(op'[o].todo, "identity") \in 0..2
    BY <2>1, FewIdentities
  <2>3. op[o].call = "none" /\ UNCHANGED <<keyFiles, login>>
    BY <1>5 DEF Build
  <2> QED BY <1>4, <2>1, <2>2, <2>3
<1>6. ASSUME NEW o \in Ops, NEW ssh \in BOOLEAN, NEW secret \in BOOLEAN, NEW source \in Refs,
             NEW ref \in Refs, Repush(o, ssh, secret, source, ref)
      PROVE  KeyInv'
  <2>1. /\ op'[o].todo \in {RepushSSH(secret, source, ref), RepushLocal(secret, source, ref)}
        /\ \A p \in Ops \ {o} : op'[p] = op[p]
    BY <1>1, <1>6 DEF Repush, ExecShape, OpRow
  <2>2. CountOf(op'[o].todo, "identity") \in 0..2
    BY <2>1, FewIdentities
  <2>3. op[o].call = "none" /\ UNCHANGED <<keyFiles, login>>
    BY <1>6 DEF Repush
  <2> QED BY <1>4, <2>1, <2>2, <2>3
<1>7. ASSUME NEW o \in Ops, NEW secret \in BOOLEAN, Push(o, secret)
      PROVE  KeyInv'
  <2>1. op'[o].todo \in {PushSSH(secret), PushLocal(secret)} /\ \A p \in Ops \ {o} : op'[p] = op[p]
    BY <1>1, <1>7 DEF Push, ExecShape, OpRow
  <2>2. CountOf(op'[o].todo, "identity") \in 0..2
    BY <2>1, FewIdentities
  <2>3. op[o].result = "ok" /\ UNCHANGED <<keyFiles, login>>
    BY <1>7 DEF Push
  <2> QED BY <1>4, <2>1, <2>2, <2>3
<1>8. ASSUME NEW o \in Ops, CommandSucceeds(o)
      PROVE  KeyInv'
  <2> DEFINE c == Head(op[o].todo)
  <2>1. op[o].todo # <<>> /\ Effect(o, c) /\ op'[o].todo = Tail(op[o].todo)
    BY <1>1, <1>8 DEF CommandSucceeds, ExecShape, OpRow
  <2>2. ASSUME NEW p \in Ops \ {o} PROVE op'[p].todo = op[p].todo
    BY <1>1, <1>8, <2>2 DEF CommandSucceeds, ExecShape, OpRow
  <2>3. op[o].todo \in Seq(Commands) /\ Tail(op[o].todo) \in Seq(Commands)
    BY <1>1, <2>1, OpFields, NextCommand
  <2>4. /\ CountOf(op[o].todo, "identity")
             = CountOf(Tail(op[o].todo), "identity") + (IF c = "identity" THEN 1 ELSE 0)
        /\ CountOf(Tail(op[o].todo), "identity") \in Nat
    BY <2>1, <2>3, TailCount
  <2>5. c \in Commands
    BY <1>1, <2>1, NextCommand
  <2> HIDE DEF c
  <2>6. /\ keyFiles'[o] = keyFiles[o] + (IF c = "identity" THEN 1 ELSE 0)
        /\ \A p \in Ops \ {o} : keyFiles'[p] = keyFiles[p]
    BY <1>1, <2>1, <2>5, EffectFacts
  <2>7. keyFiles'[o] + CountOf(op'[o].todo, "identity") <= 2
    BY <1>1, <2>1, <2>4, <2>6
  <2>8. login' \subseteq Configs
    BY <1>2, <1>3, <2>1 DEF Effect
  <2> QED BY <1>1, <2>2, <2>6, <2>7, <2>8 DEF KeyInv
<1>9. ASSUME NEW o \in Ops, NEW done \in BOOLEAN, CommandFails(o, done)
      PROVE  KeyInv'
  <2> DEFINE c == Head(op[o].todo)
  <2>1. op'[o].todo = <<>>
    BY <1>1, <1>9 DEF CommandFails, ExecShape, OpRow
  <2>2. ASSUME NEW p \in Ops \ {o} PROVE op'[p].todo = op[p].todo
    BY <1>1, <1>9, <2>2 DEF CommandFails, ExecShape, OpRow
  <2>3. (done /\ c # "identity" /\ Effect(o, c)) \/ UNCHANGED <<keyFiles, login>>
    BY <1>9 DEF CommandFails, MayBeDone
  <2> HIDE DEF c
  <2>4. keyFiles' = keyFiles /\ login' \subseteq Configs
    BY <1>2, <1>3, <2>3 DEF Effect
  <2>5. CountOf(<<>>, "identity") = 0
    BY EmptyCount
  <2>6. keyFiles'[o] + CountOf(op'[o].todo, "identity") <= 2
    BY <1>1, <2>1, <2>4, <2>5
  <2> QED BY <1>1, <2>2, <2>4, <2>6 DEF KeyInv
<1>10. ASSUME NEW o \in Ops, Unwind(o)
       PROVE  KeyInv'
  <2>1. ASSUME NEW p \in Ops PROVE op'[p].todo = op[p].todo
    <3>1. CASE op' = [op EXCEPT ![o].defers = Tail(@)]
      BY <1>1, <3>1 DEF ExecShape, OpRow
    <3>2. CASE op' = [op EXCEPT ![o].defers = Tail(@), ![o].failed = @ \union {Head(op[o].defers)}]
      BY <1>1, <3>2 DEF ExecShape, OpRow
    <3> QED BY <1>10, <3>1, <3>2 DEF Unwind
  <2>2. keyFiles' = keyFiles \/ keyFiles' = [keyFiles EXCEPT ![o] = @ - 1]
    BY <1>10 DEF Unwind
  <2>3. ASSUME NEW p \in Ops PROVE keyFiles'[p] = keyFiles[p] \/ keyFiles'[p] = keyFiles[p] - 1
    BY <1>1, <2>2 DEF ExecShape
  <2>4. ASSUME NEW p \in Ops PROVE keyFiles'[p] + CountOf(op'[p].todo, "identity") <= 2
    BY <1>1, <2>1, <2>3
  <2>5. login' \subseteq login
    BY <1>10 DEF Unwind
  <2> QED BY <1>2, <2>4, <2>5 DEF KeyInv
<1>11. ASSUME NEW o \in Ops, CallReturns(o)
       PROVE  KeyInv'
  <2>1. ASSUME NEW p \in Ops PROVE op'[p].todo = op[p].todo
    BY <1>1, <1>11, <2>1 DEF CallReturns, ExecShape, OpRow
  <2>2. UNCHANGED <<keyFiles, login>>
    BY <1>11 DEF CallReturns
  <2> QED BY <2>1, <2>2 DEF KeyInv
<1>12. CASE UNCHANGED execVars
  BY <1>12 DEF KeyInv, execVars
<1>13. CASE \E o \in Ops, ssh \in BOOLEAN, secret \in Secrets, ref \in Refs :
              Build(o, ssh, secret, ref) \/ \E source \in Refs : Repush(o, ssh, secret, source, ref)
  BY <1>5, <1>6, <1>13, SecretsAreFlags
<1>14. CASE \E o \in Ops, secret \in Secrets : Push(o, secret)
  BY <1>7, <1>14, SecretsAreFlags
<1>15. CASE \E o \in Ops : CommandSucceeds(o) \/ Unwind(o) \/ CallReturns(o)
  BY <1>8, <1>10, <1>11, <1>15
<1>16. CASE \E o \in Ops, done \in BOOLEAN : CommandFails(o, done)
  BY <1>9, <1>16
<1> QED BY <1>12, <1>13, <1>14, <1>15, <1>16 DEF ExecNext

\* The state of the executor is well typed; an operation has at most two identity files.
THEOREM ExecTyped == ExecSpec => []ExecTypeOK
<1>1. ExecInit => KeyInv
  <2> SUFFICES ASSUME ExecInit PROVE KeyInv
    OBVIOUS
  <2>1. login = {} /\ \A o \in Ops : keyFiles[o] = 0 /\ op[o].todo = <<>>
    BY DEF ExecInit
  <2>2. CountOf(<<>>, "identity") = 0
    BY EmptyCount
  <2> QED BY <2>1, <2>2 DEF KeyInv
<1>2. (ExecInv /\ KeyInv /\ [ExecNext]_execVars) => KeyInv'
  BY KeyStep
<1>3. (ExecInv /\ KeyInv) => ExecTypeOK
  <2> SUFFICES ASSUME ExecInv, KeyInv PROVE ExecTypeOK
    OBVIOUS
  <2>1. ExecShape /\ login \subseteq Configs
    BY DEF ExecInv, KeyInv
  <2>2. ASSUME NEW o \in Ops PROVE keyFiles[o] \in 0..2
    <3>1. op[o].todo \in Seq(Commands) /\ keyFiles[o] \in Nat
      BY <2>1, OpFields DEF ExecShape
    <3>2. CountOf(op[o].todo, "identity") \in Nat
      BY <3>1, TailCount
    <3> QED BY <3>1, <3>2 DEF KeyInv
  <2>3. keyFiles \in [Ops -> 0..2]
    BY <2>1, <2>2 DEF ExecShape
  <2> QED BY <2>1, <2>3 DEF ExecShape, ExecTypeOK
<1>4. ExecSpec => []KeyInv
  BY <1>1, <1>2, ExecInvHolds, PTL DEF ExecSpec
<1> QED BY <1>3, <1>4, ExecInvHolds, PTL

=============================================================================
