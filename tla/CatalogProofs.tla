---------------------------- MODULE CatalogProofs ----------------------------
(***************************************************************************)
(* What overlapping requests on registries preserve, for any number of     *)
(* registries, credentials and requests: references resolve, decisions     *)
(* stand, and there is one default of a kind.  Then the creation of tasks  *)
(* over the version graph and the registries: what the rows of tasks say   *)
(* is what they will build, whatever changes while they are created.       *)
(***************************************************************************)
EXTENDS TaskCreation, VersionGraphProofs, FiniteSetTheorems

-----------------------------------------------------------------------------
(* Registries: the invariant *)

\* What the step of a request says of the rest of its record.
SavingInv ==
    /\ DOMAIN saving = Admins
    /\ \A a \in Admins :
        LET s == saving[a]
        IN /\ s.step \in {"insert", "update"} =>
                /\ s.id \in Registries /\ s.input \in InputRow
                /\ s.credential \in credential \union {NoCredential}
           /\ s.step = "insert" => s.at \in Nat
           /\ s.step \in {"check", "clearPull", "clearPush"} => s.id \in Registries
           /\ s.step = "clearPull" => s.then \in BOOLEAN
           /\ s.step = "check" => ~s.disabled

\* A row that does not exist is blank.
BlankInv == \A r \in Registries : ~registry[r].exists => registry[r] = NoRegistry

RegistryInv == RegistryTypeOK /\ SavingInv /\ BlankInv /\ CredentialStored

ClearsPull(a) == saving[a].step = "clearPull"
ClearsPush(a) == saving[a].step = "clearPush" \/ (saving[a].step = "clearPull" /\ saving[a].then)

\* Whenever there are two defaults of a kind, a request is about to clear them,
\* unless one was cut off there.
DefaultInv ==
    \/ torn
    \/ /\ (\E a \in Admins : ClearsPull(a)) \/ \A q, r \in PullDefaults : q = r
       /\ (\E a \in Admins : ClearsPush(a)) \/ \A q, r \in PushDefaults : q = r

-----------------------------------------------------------------------------
(* Steps keep the rows and the records of requests *)

\* What is left to clear is a well-formed record.
LEMMA AfterWriteTyped ==
    ASSUME NEW r \in Registries, NEW i \in InputRow
    PROVE  LET s == AfterWrite(r, i)
           IN /\ s.step \in {"clearPull", "clearPush", "idle"}
              /\ s.step # "idle" => s.id = r
              /\ s.step = "clearPull" => s.then \in BOOLEAN
              /\ i.defaultPull => s.step = "clearPull" /\ s.then = i.defaultPush
              /\ i.defaultPush /\ ~i.defaultPull => s.step = "clearPush"
BY DEF AfterWrite, Resting, InputRow

\* Changing one field of a row leaves a row, and its other fields.
LEMMA RowChange ==
    ASSUME NEW row \in RegistryRow
    PROVE  /\ LET n == [row EXCEPT !.defaultPull = FALSE]
              IN n \in RegistryRow /\ n.exists = row.exists /\ n.credential = row.credential
           /\ LET n == [row EXCEPT !.defaultPush = FALSE]
              IN n \in RegistryRow /\ n.exists = row.exists /\ n.credential = row.credential
           /\ LET n == [row EXCEPT !.deleted = TRUE]
              IN n \in RegistryRow /\ n.exists = row.exists /\ n.credential = row.credential
           /\ \A s \in RegistryStatuses :
                LET n == [row EXCEPT !.status = s]
                IN n \in RegistryRow /\ n.exists = row.exists /\ n.credential = row.credential
<1>1. LET n == [row EXCEPT !.defaultPull = FALSE]
      IN n \in RegistryRow /\ n.exists = row.exists /\ n.credential = row.credential
  BY DEF RegistryRow
<1>2. LET n == [row EXCEPT !.defaultPush = FALSE]
      IN n \in RegistryRow /\ n.exists = row.exists /\ n.credential = row.credential
  BY DEF RegistryRow
<1>3. LET n == [row EXCEPT !.deleted = TRUE]
      IN n \in RegistryRow /\ n.exists = row.exists /\ n.credential = row.credential
  BY DEF RegistryRow
<1>4. ASSUME NEW s \in RegistryStatuses
      PROVE  LET n == [row EXCEPT !.status = s]
             IN n \in RegistryRow /\ n.exists = row.exists /\ n.credential = row.credential
  BY DEF RegistryRow
<1> QED BY <1>1, <1>2, <1>3, <1>4

\* The number of registries there are orders creations.
LEMMA NowTyped == Now \in Nat
<1>1. IsFiniteSet({r \in Registries : registry[r].exists})
  BY FiniteRegistries, FS_Subset
<1> QED BY <1>1, FS_CardinalityType DEF Now

\* A request takes a credential that is stored, or stores one first.
LEMMA TakeKeeps ==
    ASSUME RegistryInv, NEW a \in Admins, NEW r \in Registries, NEW i \in RegistryInputs,
           CreateRegistry(a, r, i) \/ ReadForUpdate(a, r, i)
    PROVE  RegistryInv' /\ UNCHANGED <<registry, torn>>
<1> USE DEF RegistryInv
<1>1. i \in InputRow
  BY InputsAreRows
<1>2. /\ UNCHANGED <<registry, torn>>
      /\ \/ UNCHANGED credential
         \/ \E k \in Credentials : credential' = credential \union {k}
  BY DEF CreateRegistry, ReadForUpdate, NewCredential
<1>3. RegistryTypeOK' /\ BlankInv' /\ CredentialStored'
  <2>1. DOMAIN saving' = Admins
    BY DEF CreateRegistry, ReadForUpdate, At, SavingInv
  <2> QED BY <1>2, <2>1 DEF RegistryTypeOK, BlankInv, CredentialStored
<1>4. SavingInv'
  <2> DEFINE s == saving'[a]
  <2>1. CASE CreateRegistry(a, r, i)
    <3>1. /\ s.step = "insert" /\ s.id = r /\ s.input = i /\ s.at = Now
          /\ s.credential \in credential' \union {NoCredential}
          /\ saving' = [saving EXCEPT ![a] = s]
      BY <2>1 DEF CreateRegistry, NewCredential, At, SavingInv
    <3> HIDE DEF s
    <3> QED BY <1>1, <1>2, <3>1, NowTyped DEF SavingInv
  <2>2. CASE ReadForUpdate(a, r, i)
    <3>1. /\ s.step = "update" /\ s.id = r /\ s.input = i
          /\ s.credential \in credential' \union {NoCredential}
          /\ saving' = [saving EXCEPT ![a] = s]
      BY <2>2 DEF ReadForUpdate, NewCredential, At, SavingInv, CredentialStored
    <3> HIDE DEF s
    <3> QED BY <1>1, <1>2, <3>1 DEF SavingInv
  <2> QED BY <2>1, <2>2
<1> QED BY <1>2, <1>3, <1>4

\* What InsertRegistry and UpdateRegistry make of the row and of the request.
Written(a) == LET s == saving[a]
              IN /\ saving' = [saving EXCEPT ![a] = AfterWrite(s.id, s.input)]
                 /\ registry'[s.id].exists
                 /\ registry'[s.id] \in RegistryRow
                 /\ registry'[s.id].credential = s.credential
                 /\ registry'[s.id].defaultPull = s.input.defaultPull
                 /\ registry'[s.id].defaultPush = s.input.defaultPush

\* Each writes so, or, when the row is gone, nothing.
LEMMA WriteShape ==
    ASSUME RegistryInv, NEW a \in Admins, InsertRegistry(a) \/ UpdateRegistry(a)
    PROVE  /\ UNCHANGED <<credential, torn>>
           /\ saving[a].step \in {"insert", "update"}
           /\ DOMAIN registry' = Registries
           /\ \A r \in Registries \ {saving[a].id} : registry'[r] = registry[r]
           /\ \/ Written(a)
              \/ UNCHANGED registry /\ saving' = [saving EXCEPT ![a] = Resting]
<1> USE DEF RegistryInv
<1>1. CASE InsertRegistry(a)
  <2>1. saving[a].step = "insert" /\ UNCHANGED <<credential, torn>> /\ DOMAIN registry' = Registries
    BY <1>1 DEF InsertRegistry, RegistryTypeOK
  <2>2. \A r \in Registries \ {saving[a].id} : registry'[r] = registry[r]
    BY <1>1 DEF InsertRegistry, RegistryTypeOK
  <2>3. Written(a)
    BY <1>1 DEF InsertRegistry, Written, At, SavingInv, RegistryTypeOK, RegistryRow, InputRow,
                RegistryStatuses
  <2> QED BY <2>1, <2>2, <2>3
<1>2. CASE UpdateRegistry(a)
  <2>1. saving[a].step = "update" /\ UNCHANGED <<credential, torn>> /\ DOMAIN registry' = Registries
    BY <1>2 DEF UpdateRegistry, RegistryTypeOK
  <2>2. \A r \in Registries \ {saving[a].id} : registry'[r] = registry[r]
    BY <1>2 DEF UpdateRegistry, RegistryTypeOK
  <2>3. CASE Live(saving[a].id)
    <3> DEFINE s == saving[a]
               row == registry[s.id]
               n == [row EXCEPT !.status = IF s.disabled THEN "disabled" ELSE "unknown",
                                !.pull = s.input.pull, !.push = s.input.push,
                                !.defaultPull = s.input.defaultPull,
                                !.defaultPush = s.input.defaultPush,
                                !.credential = s.credential]
    <3>1. /\ s.id \in Registries /\ row \in RegistryRow /\ row.exists
          /\ s.input \in InputRow /\ s.credential \in Credentials \union {NoCredential}
      BY <2>1, <2>3 DEF SavingInv, Live, RegistryTypeOK
    <3>2. n \in RegistryRow /\ n.exists /\ n.credential = s.credential
          /\ n.defaultPull = s.input.defaultPull /\ n.defaultPush = s.input.defaultPush
      <4> DEFINE n1 == [row EXCEPT !.status = IF s.disabled THEN "disabled" ELSE "unknown"]
                 n2 == [n1 EXCEPT !.pull = s.input.pull]
                 n3 == [n2 EXCEPT !.push = s.input.push]
                 n4 == [n3 EXCEPT !.defaultPull = s.input.defaultPull]
                 n5 == [n4 EXCEPT !.defaultPush = s.input.defaultPush]
                 n6 == [n5 EXCEPT !.credential = s.credential]
      <4> HIDE DEF row
      <4>0. n = n6
        OBVIOUS
      <4> HIDE DEF n
      <4>1. n1 \in RegistryRow /\ n1.exists
        BY <3>1 DEF RegistryRow, RegistryStatuses
      <4> HIDE DEF n1
      <4>2. n2 \in RegistryRow /\ n2.exists
        BY <3>1, <4>1 DEF RegistryRow, InputRow
      <4> HIDE DEF n2
      <4>3. n3 \in RegistryRow /\ n3.exists
        BY <3>1, <4>2 DEF RegistryRow, InputRow
      <4> HIDE DEF n3
      <4>4. n4 \in RegistryRow /\ n4.exists /\ n4.defaultPull = s.input.defaultPull
        BY <3>1, <4>3 DEF RegistryRow, InputRow
      <4> HIDE DEF n4
      <4>5. n5 \in RegistryRow /\ n5.exists /\ n5.defaultPull = s.input.defaultPull
            /\ n5.defaultPush = s.input.defaultPush
        BY <3>1, <4>4 DEF RegistryRow, InputRow
      <4> HIDE DEF n5
      <4>6. n6 \in RegistryRow /\ n6.exists /\ n6.defaultPull = s.input.defaultPull
            /\ n6.defaultPush = s.input.defaultPush /\ n6.credential = s.credential
        BY <3>1, <4>5 DEF RegistryRow
      <4> QED BY <4>0, <4>6
    <3>3. registry' = [registry EXCEPT ![s.id] = n]
      BY <1>2, <2>3 DEF UpdateRegistry
    <3>4. saving' = [saving EXCEPT ![a] = AfterWrite(s.id, s.input)]
      BY <1>2, <2>3 DEF UpdateRegistry, At
    <3> HIDE DEF n
    <3>5. Written(a)
      BY <3>1, <3>2, <3>3, <3>4 DEF Written, RegistryTypeOK
    <3> QED BY <2>1, <2>2, <3>5
  <2>4. CASE ~Live(saving[a].id)
    BY <1>2, <2>1, <2>4 DEF UpdateRegistry, At
  <2> QED BY <2>3, <2>4
<1> QED BY <1>1, <1>2

\* Either way the invariant is kept.
LEMMA WriteKeeps ==
    ASSUME RegistryInv, NEW a \in Admins, InsertRegistry(a) \/ UpdateRegistry(a)
    PROVE  RegistryInv'
<1> USE DEF RegistryInv
<1> DEFINE s == saving[a]
<1>1. s.id \in Registries /\ s.input \in InputRow /\ s.credential \in credential \union {NoCredential}
  BY WriteShape DEF SavingInv
<1>2. CASE Written(a)
  <2>1. \A r \in Registries : registry'[r] \in RegistryRow
    BY <1>1, <1>2, WriteShape DEF Written, RegistryTypeOK
  <2>2. DOMAIN saving' = Admins /\ registry' \in [Registries -> RegistryRow]
    <3>1. registry' = [r \in Registries |-> registry'[r]]
      BY DEF InsertRegistry, UpdateRegistry, RegistryTypeOK
    <3> QED BY <1>2, <2>1, <3>1 DEF Written, SavingInv
  <2>3. RegistryTypeOK'
    BY <2>2, WriteShape DEF RegistryTypeOK
  <2>4. SavingInv'
    <3>1. LET n == saving'[a]
          IN /\ n.step \in {"clearPull", "clearPush", "idle"}
             /\ n.step # "idle" => n.id \in Registries
             /\ n.step = "clearPull" => n.then \in BOOLEAN
      BY <1>1, <1>2, AfterWriteTyped DEF Written, SavingInv
    <3>2. \A b \in Admins \ {a} : saving'[b] = saving[b]
      BY <1>2 DEF Written, SavingInv
    <3>3. UNCHANGED credential
      BY WriteShape
    <3>4. DOMAIN saving' = Admins
      BY <2>2
    <3> HIDE DEF s
    <3> QED BY SMTT(30), <3>1, <3>2, <3>3, <3>4 DEF SavingInv
  <2>5. BlankInv' /\ CredentialStored'
    BY ZenonT(40), <1>1, <1>2, WriteShape DEF Written, BlankInv, CredentialStored
  <2> QED BY <2>3, <2>4, <2>5
<1>3. CASE UNCHANGED registry /\ saving' = [saving EXCEPT ![a] = Resting]
  BY <1>3, WriteShape DEF RegistryTypeOK, SavingInv, BlankInv, CredentialStored, Resting
<1> QED BY <1>2, <1>3, WriteShape

\* All other steps end a request, take up a check, or go on to the push flags,
\* and change no more of a row that exists than its flags, status or deletion.
Lesser ==
    /\ UNCHANGED credential
    /\ torn' \in BOOLEAN
    /\ DOMAIN saving' = Admins
    /\ \A a \in Admins : \/ saving'[a] = saving[a]
                         \/ saving'[a].step = "idle"
                         \/ saving'[a].step = "clearPush" /\ saving'[a].id \in Registries
                         \/ /\ saving'[a].step = "check" /\ saving'[a].id \in Registries
                            /\ ~saving'[a].disabled
    /\ registry' \in [Registries -> RegistryRow]
    /\ \A r \in Registries : \/ registry'[r] = registry[r]
                             \/ /\ registry'[r].exists
                                /\ registry'[r].credential = registry[r].credential

\* A step that only takes away keeps the invariant,
LEMMA LesserKeeps ==
    ASSUME RegistryInv, Lesser
    PROVE  RegistryInv'
<1> USE DEF RegistryInv, Lesser
<1>1. RegistryTypeOK' /\ BlankInv' /\ CredentialStored'
  BY DEF RegistryTypeOK, BlankInv, CredentialStored
<1>2. SavingInv'
  BY DEF SavingInv
<1> QED BY <1>1, <1>2

\* as the clearing of the other defaults does,
LEMMA ClearIsLesser ==
    ASSUME RegistryInv, NEW a \in Admins, ClearPull(a) \/ ClearPush(a)
    PROVE  Lesser
<1> USE DEF RegistryInv, RegistryTypeOK
<1>1. UNCHANGED <<credential, torn>> /\ torn \in BOOLEAN
  BY DEF ClearPull, ClearPush
<1>2. \A r \in Registries : \/ registry'[r] = registry[r]
                            \/ Live(r) /\ registry'[r] = [registry[r] EXCEPT !.defaultPull = FALSE]
                            \/ Live(r) /\ registry'[r] = [registry[r] EXCEPT !.defaultPush = FALSE]
  BY DEF ClearPull, ClearPush
<1>3. /\ DOMAIN registry' = Registries
      /\ registry' = [r \in Registries |-> registry'[r]]
  BY DEF ClearPull, ClearPush
<1>4. \A r \in Registries : /\ registry'[r] \in RegistryRow
                            /\ \/ registry'[r] = registry[r]
                               \/ /\ registry'[r].exists
                                  /\ registry'[r].credential = registry[r].credential
  <2> SUFFICES ASSUME NEW r \in Registries
               PROVE  /\ registry'[r] \in RegistryRow
                      /\ \/ registry'[r] = registry[r]
                         \/ /\ registry'[r].exists
                            /\ registry'[r].credential = registry[r].credential
    OBVIOUS
  <2>1. registry[r] \in RegistryRow
    OBVIOUS
  <2>2. CASE registry'[r] = registry[r]
    BY <2>1, <2>2
  <2>3. CASE registry[r].exists /\ registry'[r] = [registry[r] EXCEPT !.defaultPull = FALSE]
    BY <2>1, <2>3, RowChange
  <2>4. CASE registry[r].exists /\ registry'[r] = [registry[r] EXCEPT !.defaultPush = FALSE]
    BY <2>1, <2>4, RowChange
  <2> QED BY <1>2, <2>2, <2>3, <2>4 DEF Live
<1>5. /\ DOMAIN saving' = Admins
      /\ \A b \in Admins : \/ saving'[b] = saving[b]
                           \/ saving'[b].step = "idle"
                           \/ saving'[b].step = "clearPush" /\ saving'[b].id \in Registries
  BY DEF ClearPull, ClearPush, At, Resting, SavingInv
<1> QED BY <1>1, <1>3, <1>4, <1>5 DEF Lesser

\* or an administrator who deletes or switches a registry,
LEMMA SettingIsLesser ==
    ASSUME RegistryInv, NEW r \in Registries,
           DeleteRegistry(r) \/ \E s \in {"unknown", "disabled"} : SetStatus(r, s)
    PROVE  Lesser
<1> USE DEF RegistryInv, RegistryTypeOK
<1>1. /\ registry[r].exists
      /\ \/ registry' = [registry EXCEPT ![r] = [registry[r] EXCEPT !.deleted = TRUE]]
         \/ \E s \in RegistryStatuses :
              registry' = [registry EXCEPT ![r] = [registry[r] EXCEPT !.status = s]]
  BY DEF DeleteRegistry, SetStatus, Live, RegistryStatuses
<1>2. PICK n \in RegistryRow : /\ registry' = [registry EXCEPT ![r] = n]
                               /\ n.exists = registry[r].exists
                               /\ n.credential = registry[r].credential
  <2>1. registry[r] \in RegistryRow
    OBVIOUS
  <2>2. CASE registry' = [registry EXCEPT ![r] = [registry[r] EXCEPT !.deleted = TRUE]]
    BY <2>1, <2>2, RowChange
  <2>3. ASSUME NEW s \in RegistryStatuses,
               registry' = [registry EXCEPT ![r] = [registry[r] EXCEPT !.status = s]]
        PROVE  \E n \in RegistryRow : /\ registry' = [registry EXCEPT ![r] = n]
                                      /\ n.exists = registry[r].exists
                                      /\ n.credential = registry[r].credential
    BY ZenonT(40), <2>1, <2>3, RowChange
  <2> QED BY <1>1, <2>2, <2>3
<1>3. /\ registry' \in [Registries -> RegistryRow]
      /\ \A q \in Registries : \/ registry'[q] = registry[q]
                               \/ /\ registry'[q].exists
                                  /\ registry'[q].credential = registry[q].credential
  BY <1>1, <1>2
<1>4. UNCHANGED <<credential, saving, torn>>
  BY DEF DeleteRegistry, SetStatus
<1> QED BY <1>3, <1>4 DEF Lesser, SavingInv

\* or a check, or a request that is cut off.
LEMMA CheckIsLesser ==
    ASSUME RegistryInv, NEW a \in Admins,
           \/ \E r \in Registries : CheckRegistry(a, r)
           \/ \E s \in CheckResults : CheckedRegistry(a, s)
           \/ AbandonSave(a)
    PROVE  Lesser
<1> USE DEF RegistryInv, RegistryTypeOK
<1>1. ASSUME NEW r \in Registries, CheckRegistry(a, r)
      PROVE  Lesser
  <2>1. UNCHANGED <<registry, credential, torn>>
    BY <1>1 DEF CheckRegistry
  <2>2. /\ DOMAIN saving' = Admins
        /\ \A b \in Admins \ {a} : saving'[b] = saving[b]
        /\ saving'[a] = [step |-> "check", id |-> r, disabled |-> FALSE]
    BY <1>1 DEF CheckRegistry, At, SavingInv
  <2> QED BY <2>1, <2>2 DEF Lesser
<1>2. ASSUME NEW s \in CheckResults, CheckedRegistry(a, s)
      PROVE  Lesser
  <2> DEFINE r == saving[a].id
  <2>1. /\ r \in Registries /\ s \in RegistryStatuses
        /\ UNCHANGED <<credential, torn>>
        /\ saving' = [saving EXCEPT ![a] = Resting]
    BY <1>2, ResultsAreChecks DEF CheckedRegistry, SavingInv, At, RegistryStatuses
  <2>2. \/ UNCHANGED registry
        \/ /\ registry[r].exists
           /\ registry' = [registry EXCEPT ![r] = [registry[r] EXCEPT !.status = s]]
    BY <1>2 DEF CheckedRegistry, Live
  <2> HIDE DEF r
  <2>3. /\ registry' \in [Registries -> RegistryRow]
        /\ \A q \in Registries : \/ registry'[q] = registry[q]
                                 \/ /\ registry'[q].exists
                                    /\ registry'[q].credential = registry[q].credential
    <3>1. CASE UNCHANGED registry
      BY <3>1
    <3>2. CASE /\ registry[r].exists
               /\ registry' = [registry EXCEPT ![r] = [registry[r] EXCEPT !.status = s]]
      <4>1. PICK n \in RegistryRow : /\ registry' = [registry EXCEPT ![r] = n]
                                     /\ n.exists = registry[r].exists
                                     /\ n.credential = registry[r].credential
        <5>1. registry[r] \in RegistryRow /\ s \in RegistryStatuses
          BY <2>1
        <5>2. /\ [registry[r] EXCEPT !.status = s] \in RegistryRow
              /\ [registry[r] EXCEPT !.status = s].exists = registry[r].exists
              /\ [registry[r] EXCEPT !.status = s].credential = registry[r].credential
          BY <5>1, RowChange
        <5> QED BY <3>2, <5>2
      <4> QED BY <3>2, <4>1, <2>1
    <3> QED BY <2>2, <3>1, <3>2
  <2> QED BY <2>1, <2>3 DEF Lesser, SavingInv, Resting
<1>3. CASE AbandonSave(a)
  <2>1. /\ UNCHANGED <<registry, credential>> /\ torn' \in BOOLEAN
        /\ saving' = [saving EXCEPT ![a] = Resting]
    BY <1>3 DEF AbandonSave, At
  <2> QED BY <2>1 DEF Lesser, SavingInv, Resting
<1> QED BY <1>1, <1>2, <1>3

\* Every step keeps the invariant.
LEMMA RegistryStep ==
    ASSUME RegistryInv, [RegistryNext]_registryVars
    PROVE  RegistryInv'
<1>1. CASE RegistryNext
  BY <1>1, TakeKeeps, WriteKeeps, LesserKeeps, ClearIsLesser, SettingIsLesser, CheckIsLesser
  DEF RegistryNext
<1>2. CASE UNCHANGED registryVars
  BY <1>2 DEF registryVars, RegistryInv, RegistryTypeOK, SavingInv, BlankInv, CredentialStored
<1> QED BY <1>1, <1>2

\* Rows, credentials and requests fit together in every reachable state.
THEOREM RegistryInvHolds == RegistrySpec => []RegistryInv
<1>1. RegistryInit => RegistryInv
  <2> SUFFICES ASSUME RegistryInit PROVE RegistryInv
    OBVIOUS
  <2>1. RegistryTypeOK
    BY DEF RegistryInit, RegistryTypeOK, RegistryRow, NoRegistry, RegistryStatuses
  <2>2. SavingInv /\ BlankInv /\ CredentialStored
    BY DEF RegistryInit, SavingInv, BlankInv, CredentialStored, NoRegistry, Resting
  <2> QED BY <2>1, <2>2 DEF RegistryInv
<1> QED BY <1>1, RegistryStep, PTL DEF RegistrySpec

-----------------------------------------------------------------------------
(* Defaults *)

\* A step that makes no new default and after which every request that was to
\* clear defaults still is.
LEMMA DefaultsKept ==
    ASSUME DefaultInv, torn => torn',
           PullDefaults' \subseteq PullDefaults, PushDefaults' \subseteq PushDefaults,
           \A a \in Admins : ClearsPull(a) => ClearsPull(a)',
           \A a \in Admins : ClearsPush(a) => ClearsPush(a)'
    PROVE  DefaultInv'
BY DEF DefaultInv

\* A request that was to clear nothing may turn to anything.
LEMMA OthersClear ==
    ASSUME SavingInv, NEW a \in Admins, NEW s, saving' = [saving EXCEPT ![a] = s]
    PROVE  /\ saving'[a] = s
           /\ (~ClearsPull(a) \/ ClearsPull(a)') =>
                \A b \in Admins : ClearsPull(b) => ClearsPull(b)'
           /\ (~ClearsPush(a) \/ ClearsPush(a)') =>
                \A b \in Admins : ClearsPush(b) => ClearsPush(b)'
<1>1. saving'[a] = s
  BY DEF SavingInv
<1>2. \A b \in Admins : b # a => saving'[b] = saving[b]
  BY DEF SavingInv
<1>3. \A b \in Admins : b # a => (ClearsPull(b) => ClearsPull(b)') /\ (ClearsPush(b) => ClearsPush(b)')
  BY <1>2 DEF ClearsPull, ClearsPush
<1> QED BY <1>1, <1>3

\* A default is written by a request that clears the others afterwards.
LEMMA WriteDefaults ==
    ASSUME RegistryInv, DefaultInv, NEW a \in Admins, InsertRegistry(a) \/ UpdateRegistry(a)
    PROVE  DefaultInv'
<1> USE DEF RegistryInv
<1> DEFINE s == saving[a]
<1>1. /\ s.id \in Registries /\ s.input \in InputRow /\ ~ClearsPull(a) /\ ~ClearsPush(a)
      /\ torn' = torn
  BY WriteShape DEF SavingInv, ClearsPull, ClearsPush
<1>2. CASE Written(a)
  <2>1. /\ \A b \in Admins : ClearsPull(b) => ClearsPull(b)'
        /\ \A b \in Admins : ClearsPush(b) => ClearsPush(b)'
        /\ saving'[a] = AfterWrite(s.id, s.input)
    BY <1>1, <1>2, OthersClear DEF Written
  <2>2. /\ s.input.defaultPull => ClearsPull(a)'
        /\ s.input.defaultPush => ClearsPush(a)'
    BY <1>1, <2>1, AfterWriteTyped DEF ClearsPull, ClearsPush
  <2>3. ~s.input.defaultPull => PullDefaults' \subseteq PullDefaults
    BY <1>2, WriteShape DEF Written, PullDefaults, LiveRegistries, Live
  <2>4. ~s.input.defaultPush => PushDefaults' \subseteq PushDefaults
    BY <1>2, WriteShape DEF Written, PushDefaults, LiveRegistries, Live
  <2> HIDE DEF s
  <2> QED BY <1>1, <2>1, <2>2, <2>3, <2>4 DEF DefaultInv
<1>3. CASE UNCHANGED registry /\ saving' = [saving EXCEPT ![a] = Resting]
  <2>1. PullDefaults' = PullDefaults /\ PushDefaults' = PushDefaults
    BY <1>3 DEF PullDefaults, PushDefaults, LiveRegistries, Live
  <2> QED BY <1>1, <1>3, <2>1, OthersClear, DefaultsKept
<1> QED BY <1>2, <1>3, WriteShape

\* After a clearing no registry but the one it is for is a default of its kind.
LEMMA ClearDefaults ==
    ASSUME RegistryInv, DefaultInv, NEW a \in Admins, ClearPull(a) \/ ClearPush(a)
    PROVE  DefaultInv'
<1> USE DEF RegistryInv
<1> DEFINE s == saving[a]
<1>1. CASE ClearPull(a)
  <2>1. /\ saving' = [saving EXCEPT
              ![a] = IF s.then THEN [step |-> "clearPush", id |-> s.id] ELSE Resting]
        /\ s.step = "clearPull" /\ torn' = torn
    BY <1>1 DEF ClearPull, At
  <2>2. \A b \in Admins : ClearsPush(b) => ClearsPush(b)'
    <3>1. ClearsPush(a) => ClearsPush(a)'
      BY <2>1, OthersClear DEF ClearsPush
    <3> QED BY <2>1, <3>1, OthersClear
  <2>3. \A q \in PullDefaults' : q = s.id
    BY <1>1 DEF ClearPull, PullDefaults, LiveRegistries, Live, RegistryTypeOK, RegistryRow
  <2>4. PushDefaults' \subseteq PushDefaults
    BY <1>1 DEF ClearPull, PushDefaults, LiveRegistries, Live, RegistryTypeOK, RegistryRow
  <2> QED BY <2>1, <2>2, <2>3, <2>4 DEF DefaultInv
<1>2. CASE ClearPush(a)
  <2>1. /\ saving' = [saving EXCEPT ![a] = Resting]
        /\ s.step = "clearPush" /\ torn' = torn
    BY <1>2 DEF ClearPush, At
  <2>2. \A b \in Admins : ClearsPull(b) => ClearsPull(b)'
    <3>1. ~ClearsPull(a)
      BY <2>1 DEF ClearsPull
    <3> QED BY <2>1, <3>1, OthersClear
  <2>3. \A q \in PushDefaults' : q = s.id
    BY <1>2 DEF ClearPush, PushDefaults, LiveRegistries, Live, RegistryTypeOK, RegistryRow
  <2>4. PullDefaults' \subseteq PullDefaults
    BY <1>2 DEF ClearPush, PullDefaults, LiveRegistries, Live, RegistryTypeOK, RegistryRow
  <2> QED BY <2>1, <2>2, <2>3, <2>4 DEF DefaultInv
<1> QED BY <1>1, <1>2

\* No other step makes a default; a clearing that is cut off leaves torn.
LEMMA OtherDefaults ==
    ASSUME RegistryInv, DefaultInv,
           \/ \E a \in Admins, r \in Registries, i \in RegistryInputs :
                 CreateRegistry(a, r, i) \/ ReadForUpdate(a, r, i)
           \/ \E a \in Admins : AbandonSave(a)
           \/ \E r \in Registries, s \in {"unknown", "disabled"} : SetStatus(r, s)
           \/ \E r \in Registries : DeleteRegistry(r)
           \/ \E a \in Admins, r \in Registries : CheckRegistry(a, r)
           \/ \E a \in Admins, s \in CheckResults : CheckedRegistry(a, s)
    PROVE  DefaultInv'
<1> USE DEF RegistryInv
<1>1. /\ PullDefaults' \subseteq PullDefaults /\ PushDefaults' \subseteq PushDefaults
      /\ torn => torn'
  <2>1. ASSUME NEW r \in Registries
        PROVE  \/ registry'[r] = registry[r]
               \/ registry'[r] = [registry[r] EXCEPT !.deleted = TRUE]
               \/ \E s \in RegistryStatuses : registry'[r] = [registry[r] EXCEPT !.status = s]
    <3>1. \/ UNCHANGED registry
          \/ \E q \in Registries : DeleteRegistry(q)
          \/ \E q \in Registries, s \in {"unknown", "disabled"} : SetStatus(q, s)
          \/ \E a \in Admins, s \in CheckResults : CheckedRegistry(a, s)
      BY DEF CreateRegistry, ReadForUpdate, AbandonSave, CheckRegistry
    <3>2. ASSUME NEW q \in Registries, DeleteRegistry(q)
          PROVE  \/ registry'[r] = registry[r]
                 \/ registry'[r] = [registry[r] EXCEPT !.deleted = TRUE]
      BY <3>2 DEF DeleteRegistry, RegistryTypeOK
    <3>3. ASSUME NEW q \in Registries, NEW s \in {"unknown", "disabled"}, SetStatus(q, s)
          PROVE  \/ registry'[r] = registry[r]
                 \/ registry'[r] = [registry[r] EXCEPT !.status = s]
      BY <3>3 DEF SetStatus, RegistryTypeOK
    <3>4. ASSUME NEW a \in Admins, NEW s \in CheckResults, CheckedRegistry(a, s)
          PROVE  \/ registry'[r] = registry[r]
                 \/ registry'[r] = [registry[r] EXCEPT !.status = s]
      BY <3>4 DEF CheckedRegistry, RegistryTypeOK
    <3> QED BY <3>1, <3>2, <3>3, <3>4, ResultsAreChecks DEF RegistryStatuses
  <2>2. ASSUME NEW r \in Registries
        PROVE  /\ registry'[r].exists = registry[r].exists
               /\ registry'[r].defaultPull = registry[r].defaultPull
               /\ registry'[r].defaultPush = registry[r].defaultPush
               /\ registry[r].deleted => registry'[r].deleted
    <3>1. registry[r] \in RegistryRow
      BY DEF RegistryTypeOK
    <3>2. CASE registry'[r] = [registry[r] EXCEPT !.deleted = TRUE]
      BY <3>1, <3>2 DEF RegistryRow
    <3>3. ASSUME NEW s \in RegistryStatuses, registry'[r] = [registry[r] EXCEPT !.status = s]
          PROVE  /\ registry'[r].exists = registry[r].exists
                 /\ registry'[r].defaultPull = registry[r].defaultPull
                 /\ registry'[r].defaultPush = registry[r].defaultPush
                 /\ registry'[r].deleted = registry[r].deleted
      BY <3>1, <3>3 DEF RegistryRow
    <3> QED BY <2>1, <3>2, <3>3
  <2>3. torn => torn'
    BY DEF CreateRegistry, ReadForUpdate, AbandonSave, SetStatus, DeleteRegistry, CheckRegistry,
           CheckedRegistry
  <2> QED BY <2>2, <2>3 DEF PullDefaults, PushDefaults, LiveRegistries, Live
<1>2. CASE UNCHANGED saving
  BY <1>1, <1>2, DefaultsKept DEF ClearsPull, ClearsPush
<1>3. ASSUME NEW a \in Admins, NEW s, saving' = [saving EXCEPT ![a] = s],
             ~ClearsPull(a) /\ ~ClearsPush(a)
      PROVE  DefaultInv'
  BY <1>1, <1>3, OthersClear, DefaultsKept
<1>4. ASSUME NEW a \in Admins, saving[a].step \in {"clearPull", "clearPush"}, AbandonSave(a)
      PROVE  DefaultInv'
  BY <1>4 DEF AbandonSave, DefaultInv
<1>5. ASSUME NEW a \in Admins, saving[a].step \notin {"clearPull", "clearPush"}
      PROVE  ~ClearsPull(a) /\ ~ClearsPush(a)
  BY <1>5 DEF ClearsPull, ClearsPush
<1>6. Resting.step = "idle"
  BY DEF Resting
<1>7. ASSUME NEW a \in Admins, NEW s, saving' = [saving EXCEPT ![a] = s],
             saving[a].step \notin {"clearPull", "clearPush"}
      PROVE  DefaultInv'
  BY <1>3, <1>5, <1>7
<1>8. ASSUME NEW a \in Admins, NEW r \in Registries, NEW i \in RegistryInputs,
             CreateRegistry(a, r, i) \/ ReadForUpdate(a, r, i)
      PROVE  DefaultInv'
  BY <1>6, <1>7, <1>8 DEF CreateRegistry, ReadForUpdate, At
<1>9. ASSUME NEW a \in Admins, AbandonSave(a) PROVE DefaultInv'
  BY <1>4, <1>7, <1>9 DEF AbandonSave, At
<1>10. ASSUME NEW a \in Admins, NEW r \in Registries, CheckRegistry(a, r) PROVE DefaultInv'
  BY <1>6, <1>7, <1>10 DEF CheckRegistry, At
<1>11. ASSUME NEW a \in Admins, NEW s \in CheckResults, CheckedRegistry(a, s) PROVE DefaultInv'
  BY <1>7, <1>11 DEF CheckedRegistry, At
<1> QED BY <1>2, <1>8, <1>9, <1>10, <1>11 DEF SetStatus, DeleteRegistry

-----------------------------------------------------------------------------
(* Registries: results *)

\* A registry refers to a stored credential or to none, however creations and
\* updates overlap or fail halfway.
THEOREM CredentialsAreStored == RegistrySpec => []CredentialStored
<1>1. RegistryInv => CredentialStored
  BY DEF RegistryInv
<1> QED BY <1>1, RegistryInvHolds, PTL

\* Overlapping requests that set defaults leave at most one of a kind, once none
\* of them is about to clear the others and unless one was cut off there.
THEOREM OneDefaultHolds == RegistrySpec => []OneDefaultAtRest
<1>1. RegistryInit => DefaultInv
  <2> SUFFICES ASSUME RegistryInit PROVE DefaultInv
    OBVIOUS
  <2>1. LiveRegistries = {}
    BY DEF RegistryInit, LiveRegistries, Live, NoRegistry
  <2> QED BY <2>1 DEF DefaultInv, PullDefaults, PushDefaults
<1>2. RegistryInv /\ DefaultInv /\ [RegistryNext]_registryVars => DefaultInv'
  <2> SUFFICES ASSUME RegistryInv, DefaultInv, [RegistryNext]_registryVars PROVE DefaultInv'
    OBVIOUS
  <2>1. CASE RegistryNext
    BY <2>1, WriteDefaults, ClearDefaults, OtherDefaults DEF RegistryNext
  <2>2. CASE UNCHANGED registryVars
    BY <2>2, DefaultsKept DEF registryVars, PullDefaults, PushDefaults, LiveRegistries, Live,
       ClearsPull, ClearsPush
  <2> QED BY <2>1, <2>2
<1>3. DefaultInv => OneDefaultAtRest
  BY DEF DefaultInv, OneDefaultAtRest, Clearing, ClearsPull, ClearsPush
<1> QED BY <1>1, <1>2, <1>3, RegistryInvHolds, PTL DEF RegistrySpec

\* What a step may do to a row that is deleted or disabled.
LEMMA DecisionStep ==
    ASSUME RegistryInv, [RegistryNext]_registryVars, NEW r \in Registries
    PROVE  /\ registry[r].deleted => registry'[r] = registry[r]
           /\ (registry[r].status = "disabled" /\ registry'[r].status # "disabled")
                => \/ saving' = saving
                   \/ \E a \in Admins : /\ saving[a].step \in {"check", "update"}
                                        /\ saving[a].id = r
                                        /\ ~saving[a].disabled
<1> DEFINE Stands == /\ registry[r].deleted => registry'[r] = registry[r]
                     /\ (registry[r].status = "disabled" /\ registry'[r].status # "disabled")
                          => \/ saving' = saving
                             \/ \E a \in Admins : /\ saving[a].step \in {"check", "update"}
                                                  /\ saving[a].id = r
                                                  /\ ~saving[a].disabled
<1> USE DEF RegistryInv, RegistryTypeOK
<1>1. ASSUME NEW a \in Admins, InsertRegistry(a) PROVE Stands
  <2>1. CASE r = saving[a].id
    BY <1>1, <2>1 DEF InsertRegistry, BlankInv, NoRegistry
  <2>2. CASE r # saving[a].id
    BY <1>1, <2>2, WriteShape
  <2> QED BY <2>1, <2>2
<1>2. ASSUME NEW a \in Admins, UpdateRegistry(a) PROVE Stands
  <2>1. CASE r = saving[a].id
    <3>1. CASE Live(r) /\ registry[r].status = "disabled" /\ saving[a].disabled
      BY <1>2, <2>1, <3>1 DEF UpdateRegistry, Live, RegistryRow
    <3>2. CASE ~Live(r)
      BY <1>2, <2>1, <3>2 DEF UpdateRegistry
    <3>3. CASE Live(r) /\ (registry[r].status # "disabled" \/ ~saving[a].disabled)
      BY <1>2, <2>1, <3>3 DEF UpdateRegistry, Live
    <3> QED BY <3>1, <3>2, <3>3
  <2>2. CASE r # saving[a].id
    BY <1>2, <2>2, WriteShape
  <2> QED BY <2>1, <2>2
<1>3. ASSUME NEW a \in Admins, ClearPull(a) \/ ClearPush(a) PROVE Stands
  BY <1>3 DEF ClearPull, ClearPush, Live, RegistryRow
<1>4. ASSUME NEW a \in Admins, NEW s \in CheckResults, CheckedRegistry(a, s) PROVE Stands
  BY <1>4 DEF CheckedRegistry, Live, SavingInv
<1>5. ASSUME NEW q \in Registries, NEW s \in {"unknown", "disabled"}, SetStatus(q, s) PROVE Stands
  BY <1>5 DEF SetStatus, Live
<1>6. ASSUME NEW q \in Registries, DeleteRegistry(q) PROVE Stands
  BY <1>6 DEF DeleteRegistry, Live
<1>7. CASE UNCHANGED registry
  BY <1>7
<1> QED BY <1>1, <1>2, <1>3, <1>4, <1>5, <1>6, <1>7
        DEF RegistryNext, registryVars, CreateRegistry, ReadForUpdate, AbandonSave, CheckRegistry

\* Nothing writes to a deleted registry, and a disabled one becomes usable only
\* through Enable or a request that read it before it was disabled.
THEOREM RegistryDecisionsStand == RegistrySpec => DecisionStands
<1>1. RegistryInv /\ [RegistryNext]_registryVars =>
        [\A r \in Registries :
           /\ registry[r].deleted => registry'[r] = registry[r]
           /\ (registry[r].status = "disabled" /\ registry'[r].status # "disabled")
                => \/ saving' = saving
                   \/ \E a \in Admins : /\ saving[a].step \in {"check", "update"}
                                        /\ saving[a].id = r
                                        /\ ~saving[a].disabled]_registryVars
  BY DecisionStep
<1> QED BY <1>1, RegistryInvHolds, PTL DEF RegistrySpec, DecisionStands

-----------------------------------------------------------------------------
(* The creation of tasks: the invariant *)

\* The hash of a version is the hash of its content.
HashInv == \A n \in Nodes : node[n].hash = Hash(node[n].file)

Hashes == {Hash(f) : f \in Dockerfiles \union {None}}

\* What a request has looked up, and a row of build_tasks.
AskingRow == [step : {"node", "registry", "pull", "insert"}, project : Projects, node : Nodes,
              file : Dockerfiles \union {None}, hash : Hashes,
              pull : Registries \union {None},
              registry : ProjectRegistries \union Registries \union {None},
              gone : SUBSET Registries]
TaskRow == [exists : {TRUE}, project : Projects, node : Nodes,
            registry : Registries, pull : Registries \union {None},
            file : Dockerfiles \union {None}, hash : Hashes,
            retryOf : Builds \union {None}, at : Nat]

\* The node of a request that was found is of its project, and neither registry
\* it has found was deleted when it began.
AskingInv ==
    /\ DOMAIN asking = Builders
    /\ \A c \in Builders : asking[c] # Idle =>
        LET a == asking[c]
        IN /\ a \in AskingRow
           /\ \A r \in a.gone : registry[r].deleted
           /\ a.step # "node" => a.node \in NodesOf(a.project) /\ a.hash = Hash(a.file)
           /\ a.step \in {"pull", "insert"} => a.registry \in Registries \ a.gone
           /\ a.step = "insert" => a.pull \notin a.gone

\* The rows are numbered in the order of their insertion.
TaskInv ==
    /\ DOMAIN task = Builds
    /\ \A t \in Builds : task[t].exists = FALSE \/ task[t] \in TaskRow
    /\ IsFiniteSet(Created)
    /\ \A t \in Created : /\ task[t].at <= Cardinality(Created)
                          /\ task[t].node \in NodesOf(task[t].project)
                          /\ task[t].hash = Hash(task[t].file)
                          /\ task[t].retryOf \in Created \union {None}
    /\ latestTask \in [project : [Projects -> Builds \union {None}],
                       node : [Nodes -> Builds \union {None}]]
    /\ RetrySameBuild
    /\ LatestTaskIsLast

CreationInv == HashInv /\ AskingInv /\ TaskInv

-----------------------------------------------------------------------------
(* The parts run as they do by themselves *)

\* Creating tasks changes neither graph nor registries: the theorems about them
\* hold of the whole.
THEOREM CreationIncludesParts == CreationSpec => GraphSpec /\ RegistrySpec
<1>1. CreationInit => GraphInit /\ RegistryInit
  BY DEF CreationInit
<1>2. TaskNext => UNCHANGED graphVars /\ UNCHANGED registryVars
  BY DEF TaskNext, AskProject, AskNode, AskRegistry, AskPull, CreateTask, RetryTask
<1>3. [CreationNext]_creationVars => [GraphNext]_graphVars /\ [RegistryNext]_registryVars
  BY <1>2 DEF CreationNext, creationVars
<1> QED BY <1>1, <1>3, PTL DEF CreationSpec, GraphSpec, RegistrySpec

-----------------------------------------------------------------------------
(* What the graph and the registries do meanwhile *)

\* Content and hash of a version are written together.
LEMMA HashKept ==
    ASSUME GraphInv, HashInv, [GraphNext]_graphVars
    PROVE  HashInv'
<1> USE DEF GraphInv, GraphTypeOK
<1>1. ASSUME NEW n \in Nodes, NEW p, NEW b, NEW parent, NEW f, NEW s,
             InsertNode(n, p, b, parent, f, s)
      PROVE  HashInv'
  BY <1>1 DEF InsertNode, HashInv
<1>2. ASSUME NEW n \in Nodes, NEW p \in Projects, NEW f \in Dockerfiles, NEW s \in InputStatuses,
             UpdateNode(p, n, f, s)
      PROVE  HashInv'
  <2> DEFINE row == [node[n] EXCEPT !.file = f, !.hash = Hash(f), !.status = s]
  <2>1. node' = [node EXCEPT ![n] = row]
    BY <1>2 DEF UpdateNode, UpdateNodeRow
  <2>2. row.hash = Hash(row.file)
    BY DEF NodeRow
  <2> HIDE DEF row
  <2> QED BY <2>1, <2>2 DEF HashInv
<1>3. ASSUME UNCHANGED node PROVE HashInv'
  BY <1>3 DEF HashInv
<1>4. ASSUME NEW c \in Maintainers, NEW n \in Nodes, NEW s \in InputStatuses, CreateNodeTx(c, n, s)
      PROVE  HashInv'
  BY <1>1, <1>4 DEF CreateNodeTx
<1>5. ASSUME NEW p \in Projects, NEW b \in Branches, NEW n \in Nodes, NEW f \in Dockerfiles,
             NEW r \in ProjectRegistries, CreateProject(p, b, n, f, r)
      PROVE  HashInv'
  BY <1>1, <1>5 DEF CreateProject, CreateProjectWithInitial
<1>6. GraphRead => UNCHANGED node
  BY DEF GraphRead, GraphProject, GraphBranches, GraphNodes, Answer, DiffLeft, DiffRight, graphRows
<1> QED BY <1>2, <1>3, <1>4, <1>5, <1>6
        DEF GraphNext, GraphWrite, UpdateProject, ArchiveProject, ArchiveBranch, CreateBranch,
            CreateNode, graphVars, graphRows

\* What the graph and the registries do leaves what tasks and requests rely on.
LEMMA OthersKeep ==
    ASSUME CreationInv, UNCHANGED <<taskVars, asking>>, HashInv',
           \A q : NodesOf(q) \subseteq NodesOf(q)',
           \A r \in Registries : registry[r].deleted => registry'[r].deleted
    PROVE  CreationInv'
<1>1. AskingInv'
  BY DEF CreationInv, AskingInv, AskingRow
<1>2. Created' = Created
  BY DEF Created, taskVars
<1>3. RetrySameBuild' /\ LatestTaskIsLast'
  BY <1>2 DEF CreationInv, TaskInv, RetrySameBuild, LatestTaskIsLast, taskVars
<1>4. TaskInv'
  BY <1>2, <1>3 DEF CreationInv, TaskInv, taskVars
<1> QED BY <1>1, <1>4 DEF CreationInv


-----------------------------------------------------------------------------
(* Requests *)

\* A step of a request that finds what AskingInv says.
LEMMA RequestGoesOn ==
    ASSUME CreationInv, NEW c \in Builders, NEW a, asking' = [asking EXCEPT ![c] = a],
           UNCHANGED <<graphVars, registryVars, taskVars>>,
           a = Idle \/ (/\ a \in AskingRow
                        /\ \A r \in a.gone : registry[r].deleted
                        /\ a.step # "node" => a.node \in NodesOf(a.project) /\ a.hash = Hash(a.file)
                        /\ a.step \in {"pull", "insert"} => a.registry \in Registries \ a.gone
                        /\ a.step = "insert" => a.pull \notin a.gone)
    PROVE  CreationInv'
<1>1. HashInv' /\ \A q : NodesOf(q)' = NodesOf(q)
  BY DEF CreationInv, HashInv, graphVars, graphRows, NodesOf, FindNode
<1>2. AskingInv'
  <2>1. \A d \in Builders : asking'[d] = IF d = c THEN a ELSE asking[d]
    BY DEF CreationInv, AskingInv
  <2>2. registry' = registry
    BY DEF registryVars
  <2> QED BY <1>1, <2>1, <2>2 DEF CreationInv, AskingInv, AskingRow
<1>3. Created' = Created
  BY DEF Created, taskVars
<1>4. RetrySameBuild' /\ LatestTaskIsLast'
  BY <1>3 DEF CreationInv, TaskInv, RetrySameBuild, LatestTaskIsLast, taskVars
<1>5. TaskInv'
  BY <1>1, <1>3, <1>4 DEF CreationInv, TaskInv, taskVars
<1> QED BY <1>1, <1>2, <1>5 DEF CreationInv

\* A request begins by noting the registries that are deleted then.
LEMMA AskProjectKeeps ==
    ASSUME CreationInv, GraphInv, NEW c \in Builders, NEW p \in Projects, NEW n \in Nodes,
           NEW r \in Registries \union {None}, NEW q \in Registries \union {None},
           AskProject(c, p, n, r, q)
    PROVE  CreationInv'
<1> DEFINE a == [step |-> "node", project |-> p, node |-> n, file |-> None, hash |-> Hash(None),
                 pull |-> q, registry |-> IF r = None THEN project[p].registry ELSE r,
                 gone |-> {g \in Registries : registry[g].deleted}]
<1>1. asking' = [asking EXCEPT ![c] = a] /\ UNCHANGED <<graphVars, registryVars, taskVars>>
  BY DEF AskProject
<1>2. project[p].registry \in ProjectRegistries \union {None}
  BY DEF GraphInv, GraphTypeOK, ProjectRow
<1>3. a \in AskingRow
  BY <1>2 DEF AskingRow, Hashes
<1>4. /\ \A g \in a.gone : registry[g].deleted
      /\ a.step = "node"
  OBVIOUS
<1> HIDE DEF a
<1> QED BY <1>1, <1>3, <1>4, RequestGoesOn

\* The row that is found is of the project the request names.
LEMMA AskNodeKeeps ==
    ASSUME CreationInv, GraphInv, NEW c \in Builders, AskNode(c)
    PROVE  CreationInv'
<1> DEFINE a == asking[c]
           b == [a EXCEPT !.step = "registry", !.file = node[a.node].file, !.hash = node[a.node].hash]
<1>1. /\ a.step = "node" /\ UNCHANGED <<graphVars, registryVars, taskVars>>
      /\ \/ asking' = [asking EXCEPT ![c] = Idle]
         \/ asking' = [asking EXCEPT ![c] = b] /\ FindNode(a.project, a.node)
  BY DEF AskNode, Asking, Found, Refuse
<1>2. a \in AskingRow /\ \A r \in a.gone : registry[r].deleted
  BY <1>1 DEF CreationInv, AskingInv, Idle
<1>3. ASSUME FindNode(a.project, a.node)
      PROVE  /\ b \in AskingRow /\ b.gone = a.gone /\ b.step = "registry"
             /\ b.node \in NodesOf(b.project) /\ b.hash = Hash(b.file)
  <2>1. /\ node[a.node].file \in Dockerfiles \union {None}
        /\ node[a.node].hash = Hash(node[a.node].file) /\ node[a.node].hash \in Hashes
    BY <1>2 DEF AskingRow, GraphInv, GraphTypeOK, NodeRow, CreationInv, HashInv, Hashes
  <2> QED BY <1>2, <1>3, <2>1 DEF AskingRow, NodesOf
<1> HIDE DEF a, b
<1>4. CASE asking' = [asking EXCEPT ![c] = Idle]
  BY <1>1, <1>4, RequestGoesOn
<1>5. CASE asking' = [asking EXCEPT ![c] = b] /\ FindNode(a.project, a.node)
  <2>1. \A r \in b.gone : registry[r].deleted
    BY <1>2, <1>3, <1>5
  <2> QED BY <1>1, <1>3, <1>5, <2>1, RequestGoesOn
<1> QED BY <1>1, <1>4, <1>5

\* A registry that a lookup finds is not deleted, so it was not when the request
\* began.
LEMMA LookupsFindLive ==
    ASSUME NEW r, NEW S, \A g \in S : registry[g].deleted
    PROVE  /\ \A q \in Resolved(r) : q \in Registries \ S
           /\ \A q \in PullCandidates(r) : q \in Registries \ S
BY DEF Resolved, PullCandidates, RegistryFound, Live, DefaultPush, DefaultPull, Newest, LiveRegistries

\* The registry to push to is one that a lookup finds.
LEMMA AskRegistryKeeps ==
    ASSUME CreationInv, NEW c \in Builders, AskRegistry(c)
    PROVE  CreationInv'
<1> DEFINE a == asking[c]
           b(r) == [a EXCEPT !.step = "pull", !.registry = r]
<1>1. /\ a.step = "registry" /\ UNCHANGED <<graphVars, registryVars, taskVars>>
      /\ \/ asking' = [asking EXCEPT ![c] = Idle]
         \/ \E r \in Resolved(a.registry) : asking' = [asking EXCEPT ![c] = b(r)]
  BY DEF AskRegistry, Asking, Found, Refuse
<1>2. /\ a \in AskingRow /\ \A r \in a.gone : registry[r].deleted
      /\ a.node \in NodesOf(a.project) /\ a.hash = Hash(a.file)
  <2>1. a.step = "registry" /\ Idle.step = "idle"
    BY <1>1 DEF Idle
  <2>2. a # Idle
    BY <2>1
  <2> QED BY <2>1, <2>2 DEF CreationInv, AskingInv
<1>3. ASSUME NEW r \in Registries
      PROVE  /\ b(r) \in AskingRow /\ b(r).gone = a.gone /\ b(r).step = "pull"
             /\ b(r).node \in NodesOf(b(r).project) /\ b(r).hash = Hash(b(r).file)
             /\ b(r).registry = r
  BY <1>2 DEF AskingRow
<1> HIDE DEF a, b
<1>4. CASE asking' = [asking EXCEPT ![c] = Idle]
  BY <1>1, <1>4, RequestGoesOn
<1>5. ASSUME NEW r \in Resolved(a.registry), asking' = [asking EXCEPT ![c] = b(r)]
      PROVE  CreationInv'
  <2>1. r \in Registries \ a.gone
    BY <1>2, LookupsFindLive
  <2>2. \A g \in b(r).gone : registry[g].deleted
    BY <1>2, <1>3, <2>1
  <2> QED BY <1>1, <1>3, <1>5, <2>1, <2>2, RequestGoesOn
<1> QED BY <1>1, <1>4, <1>5

\* The registry to pull from is one that a lookup finds, or none.
LEMMA AskPullKeeps ==
    ASSUME CreationInv, NEW c \in Builders, AskPull(c)
    PROVE  CreationInv'
<1> DEFINE a == asking[c]
           b(r) == [a EXCEPT !.step = "insert", !.pull = r]
<1>1. /\ a.step = "pull" /\ UNCHANGED <<graphVars, registryVars, taskVars>>
      /\ \/ asking' = [asking EXCEPT ![c] = Idle]
         \/ \E r \in PullCandidates(a.pull) : asking' = [asking EXCEPT ![c] = b(r)]
         \/ a.pull = None /\ asking' = [asking EXCEPT ![c] = [a EXCEPT !.step = "insert"]]
  BY DEF AskPull, Asking, Found, Refuse
<1>2. /\ a \in AskingRow /\ \A r \in a.gone : registry[r].deleted
      /\ a.node \in NodesOf(a.project) /\ a.hash = Hash(a.file)
      /\ a.registry \in Registries \ a.gone
  <2>1. a.step = "pull" /\ Idle.step = "idle"
    BY <1>1 DEF Idle
  <2>2. a # Idle
    BY <2>1
  <2> QED BY <2>1, <2>2 DEF CreationInv, AskingInv
<1>3. ASSUME NEW r \in Registries \union {None}
      PROVE  /\ b(r) \in AskingRow /\ b(r).gone = a.gone /\ b(r).step = "insert"
             /\ b(r).node \in NodesOf(b(r).project) /\ b(r).hash = Hash(b(r).file)
             /\ b(r).registry = a.registry /\ b(r).pull = r
  BY <1>2 DEF AskingRow
<1>4. a.pull = None => [a EXCEPT !.step = "insert"] = b(None)
  BY <1>2 DEF AskingRow
<1> HIDE DEF a, b
<1>5. ASSUME NEW r \in (Registries \union {None}) \ a.gone, asking' = [asking EXCEPT ![c] = b(r)]
      PROVE  CreationInv'
  <2>1. \A g \in b(r).gone : registry[g].deleted
    BY <1>2, <1>3
  <2> QED BY <1>1, <1>2, <1>3, <1>5, <2>1, RequestGoesOn
<1>6. None \notin a.gone
  BY <1>2, NoneIsNoRegistry DEF AskingRow
<1>7. CASE asking' = [asking EXCEPT ![c] = Idle]
  BY <1>1, <1>7, RequestGoesOn
<1>8. \A r \in PullCandidates(a.pull) : r \in Registries \ a.gone
  BY <1>2, LookupsFindLive
<1> QED BY <1>1, <1>4, <1>5, <1>6, <1>7, <1>8

-----------------------------------------------------------------------------
(* Insertions *)

\* The latest of a set of tasks, as LatestTaskIsLast says it.
LastOf(rows, latest, own) ==
    IF own = {} THEN latest = None
                ELSE latest \in own /\ \A t \in own : rows[t].at <= rows[latest].at

\* LatestTaskIsLast in these words.
LEMMA LatestIsLastOf ==
    LatestTaskIsLast <=>
        /\ \A p \in Projects : LastOf(task, latestTask.project[p], {t \in Created : task[t].project = p})
        /\ \A n \in Nodes : LastOf(task, latestTask.node[n], {t \in Created : task[t].node = n})
BY DEF LatestTaskIsLast, LastOf

\* The row that is inserted is the latest of those it belongs to, and no other
\* row changes.
LEMMA InsertKeeps ==
    ASSUME HashInv, TaskInv, NEW t \in Builds, NEW row \in TaskRow, InsertTask(t, row),
           UNCHANGED graphVars, row.at = NextAt, row.node \in NodesOf(row.project),
           row.hash = Hash(row.file), row.retryOf \in Created \union {None},
           row.retryOf # None =>
               LET u == task[row.retryOf]
               IN <<row.node, row.file, row.hash, row.registry, row.pull>>
                    = <<u.node, u.file, u.hash, u.registry, u.pull>>
    PROVE  HashInv' /\ TaskInv'
<1> USE DEF TaskInv
<1>1. /\ task' = [task EXCEPT ![t] = row] /\ ~task[t].exists
      /\ latestTask' = [latestTask EXCEPT !.project[row.project] = t, !.node[row.node] = t]
  BY DEF InsertTask
<1>2. /\ row.exists = TRUE /\ row.project \in Projects /\ row.node \in Nodes /\ row.at \in Nat
      /\ DOMAIN task' = Builds /\ task'[t] = row
      /\ \A u \in Builds \ {t} : task'[u] = task[u]
  BY <1>1 DEF TaskRow
<1>3. t \notin Created /\ Created' = Created \union {t} /\ Created \subseteq Builds
  BY <1>1, <1>2 DEF Created
<1>4. /\ IsFiniteSet(Created') /\ Cardinality(Created) \in Nat
      /\ Cardinality(Created') = Cardinality(Created) + 1
  BY <1>3, FS_AddElement, FS_CardinalityType
<1>5. row.at = Cardinality(Created')
  BY <1>4 DEF NextAt, Created
<1>6. \A u \in Created : /\ u \in Builds /\ u # t /\ task'[u] = task[u] /\ task[u] \in TaskRow
                         /\ task[u].at \in Nat /\ task[u].at < row.at
  <2> SUFFICES ASSUME NEW u \in Created
               PROVE  /\ u \in Builds /\ u # t /\ task'[u] = task[u] /\ task[u] \in TaskRow
                      /\ task[u].at \in Nat /\ task[u].at < row.at
    OBVIOUS
  <2>1. u \in Builds /\ u # t /\ task'[u] = task[u] /\ task[u] \in TaskRow
    BY <1>2, <1>3 DEF Created
  <2>2. task[u].at \in Nat /\ task[u].at <= Cardinality(Created)
    BY <2>1 DEF TaskRow
  <2> QED BY <1>4, <1>5, <2>1, <2>2
<1>7. /\ \A p : NodesOf(p)' = NodesOf(p)
      /\ HashInv'
  BY DEF HashInv, graphVars, graphRows, NodesOf, FindNode
<1>8. /\ latestTask' \in [project : [Projects -> Builds \union {None}],
                          node : [Nodes -> Builds \union {None}]]
      /\ \A p \in Projects : latestTask'.project[p] = IF p = row.project THEN t ELSE latestTask.project[p]
      /\ \A n \in Nodes : latestTask'.node[n] = IF n = row.node THEN t ELSE latestTask.node[n]
  <2> DEFINE P == [latestTask.project EXCEPT ![row.project] = t]
             N == [latestTask.node EXCEPT ![row.node] = t]
  <2>1. latestTask' = [latestTask EXCEPT !.project = P, !.node = N]
    BY <1>1
  <2>2. P \in [Projects -> Builds \union {None}] /\ N \in [Nodes -> Builds \union {None}]
    OBVIOUS
  <2>3. /\ \A p \in Projects : P[p] = IF p = row.project THEN t ELSE latestTask.project[p]
        /\ \A n \in Nodes : N[n] = IF n = row.node THEN t ELSE latestTask.node[n]
    OBVIOUS
  <2> HIDE DEF P, N
  <2>4. latestTask' = [project |-> P, node |-> N]
    BY <2>1
  <2> QED BY <2>2, <2>3, <2>4
<1>9. (\A u \in Created : /\ task[u].at <= Cardinality(Created)
                          /\ task[u].node \in NodesOf(task[u].project)
                          /\ task[u].hash = Hash(task[u].file)
                          /\ task[u].retryOf \in Created \union {None})'
  <2>1. ASSUME NEW u \in Created
        PROVE  /\ task'[u].at <= Cardinality(Created')
               /\ task'[u].node \in NodesOf(task'[u].project)
               /\ task'[u].hash = Hash(task'[u].file)
               /\ task'[u].retryOf \in Created \union {None}
    BY <1>4, <1>5, <1>6
  <2>2. /\ task'[t].at <= Cardinality(Created')
        /\ task'[t].node \in NodesOf(task'[t].project)
        /\ task'[t].hash = Hash(task'[t].file)
        /\ task'[t].retryOf \in Created \union {None}
    BY <1>2, <1>4, <1>5
  <2>3. \A p : NodesOf(p) = NodesOf(p)'
    BY <1>7
  <2>4. \A u \in Created' : /\ task'[u].at <= Cardinality(Created')
                            /\ task'[u].node \in NodesOf(task'[u].project)
                            /\ task'[u].hash = Hash(task'[u].file)
                            /\ task'[u].retryOf \in Created' \union {None}
    BY <1>3, <2>1, <2>2
  <2> QED BY <2>3, <2>4
<1>10. RetrySameBuild'
  <2> DEFINE Same(r, u) == <<r.node, r.file, r.hash, r.registry, r.pull>>
                             = <<u.node, u.file, u.hash, u.registry, u.pull>>
  <2>1. ASSUME NEW u \in Created, task'[u].retryOf # None
        PROVE  Same(task'[u], task'[task'[u].retryOf])
    <3>1. task'[u] = task[u] /\ task[u].retryOf \in Created
      BY <1>6, <2>1
    <3>2. task'[task[u].retryOf] = task[task[u].retryOf]
      BY <1>6, <3>1
    <3>3. Same(task[u], task[task[u].retryOf])
      BY <2>1, <3>1 DEF RetrySameBuild
    <3> QED BY <3>1, <3>2, <3>3
  <2>2. ASSUME row.retryOf # None
        PROVE  Same(row, task'[row.retryOf])
    <3>1. task'[row.retryOf] = task[row.retryOf]
      BY <1>6, <2>2
    <3> QED BY <2>2, <3>1
  <2>3. \A u \in Created' : task'[u].retryOf # None => Same(task'[u], task'[task'[u].retryOf])
    BY <1>2, <1>3, <2>1, <2>2
  <2> QED BY <2>3 DEF RetrySameBuild
<1>11. LatestTaskIsLast'
  <2>1. ASSUME NEW own, own \subseteq Created
        PROVE  LastOf(task', t, own \union {t})
    BY <1>2, <1>5, <1>6, <2>1 DEF LastOf
  <2>2. ASSUME NEW own, own \subseteq Created, NEW latest, LastOf(task, latest, own)
        PROVE  LastOf(task', latest, own)
    BY <1>6, <2>2 DEF LastOf
  <2>3. ASSUME NEW p \in Projects
        PROVE  LastOf(task', latestTask'.project[p], {u \in Created' : task'[u].project = p})
    <3> DEFINE own == {u \in Created : task[u].project = p}
    <3>1. own \subseteq Created /\ LastOf(task, latestTask.project[p], own)
      BY LatestIsLastOf
    <3>2. {u \in Created' : task'[u].project = p} = IF p = row.project THEN own \union {t} ELSE own
      BY <1>2, <1>3, <1>6
    <3> HIDE DEF own, TaskInv
    <3>3. CASE p = row.project
      <4>1. latestTask'.project[p] = t
        BY <1>8, <3>3
      <4>2. LastOf(task', t, own \union {t})
        BY <2>1, <3>1
      <4> QED BY <3>2, <3>3, <4>1, <4>2
    <3>4. CASE p # row.project
      <4>1. latestTask'.project[p] = latestTask.project[p]
        BY <1>8, <3>4
      <4>2. LastOf(task', latestTask.project[p], own)
        BY <2>2, <3>1
      <4> QED BY <3>2, <3>4, <4>1, <4>2
    <3> QED BY <3>3, <3>4
  <2>4. ASSUME NEW n \in Nodes
        PROVE  LastOf(task', latestTask'.node[n], {u \in Created' : task'[u].node = n})
    <3> DEFINE own == {u \in Created : task[u].node = n}
    <3>1. own \subseteq Created /\ LastOf(task, latestTask.node[n], own)
      BY LatestIsLastOf
    <3>2. {u \in Created' : task'[u].node = n} = IF n = row.node THEN own \union {t} ELSE own
      BY <1>2, <1>3, <1>6
    <3> HIDE DEF own, TaskInv
    <3>3. CASE n = row.node
      <4>1. latestTask'.node[n] = t
        BY <1>8, <3>3
      <4>2. LastOf(task', t, own \union {t})
        BY <2>1, <3>1
      <4> QED BY <3>2, <3>3, <4>1, <4>2
    <3>4. CASE n # row.node
      <4>1. latestTask'.node[n] = latestTask.node[n]
        BY <1>8, <3>4
      <4>2. LastOf(task', latestTask.node[n], own)
        BY <2>2, <3>1
      <4> QED BY <3>2, <3>4, <4>1, <4>2
    <3> QED BY <3>3, <3>4
  <2> QED BY <2>3, <2>4 DEF LatestTaskIsLast, LastOf
<1>12. \A u \in Builds : task'[u].exists = FALSE \/ task'[u] \in TaskRow
  BY <1>2
<1> QED BY <1>2, <1>4, <1>7, <1>8, <1>9, <1>10, <1>11, <1>12

\* The row is what the request has found.
LEMMA CreateTaskKeeps ==
    ASSUME CreationInv, NEW c \in Builders, NEW t \in Builds, CreateTask(c, t)
    PROVE  CreationInv'
<1> DEFINE a == asking[c]
           row == [exists |-> TRUE, project |-> a.project, node |-> a.node,
                   registry |-> a.registry, pull |-> a.pull, file |-> a.file,
                   hash |-> a.hash, retryOf |-> None, at |-> NextAt]
<1>1. /\ a.step = "insert" /\ InsertTask(t, row)
      /\ asking' = [asking EXCEPT ![c] = Idle]
      /\ UNCHANGED <<graphVars, registryVars>>
  BY DEF CreateTask, Asking, Refuse
<1>2. /\ a \in AskingRow
      /\ a.node \in NodesOf(a.project) /\ a.hash = Hash(a.file)
      /\ a.registry \in Registries
  <2>1. a.step = "insert" /\ Idle.step = "idle"
    BY <1>1 DEF Idle
  <2>2. a # Idle
    BY <2>1
  <2> QED BY <2>1, <2>2 DEF CreationInv, AskingInv
<1>3. NextAt \in Nat
  BY FS_CardinalityType DEF CreationInv, TaskInv, NextAt, Created
<1>4. row \in TaskRow
  BY <1>2, <1>3 DEF TaskRow, AskingRow
<1>5. /\ row.at = NextAt /\ row.node \in NodesOf(row.project) /\ row.hash = Hash(row.file)
      /\ row.retryOf = None
  BY <1>2
<1> HIDE DEF row
<1>6. HashInv' /\ TaskInv'
  BY <1>1, <1>4, <1>5, InsertKeeps DEF CreationInv
<1>7. AskingInv'
  BY <1>1 DEF CreationInv, AskingInv, AskingRow, graphVars, graphRows, registryVars, NodesOf, FindNode
<1> QED BY <1>6, <1>7 DEF CreationInv

\* Retry copies a row, whose node and content belong together.
LEMMA RetryTaskKeeps ==
    ASSUME CreationInv, NEW t \in Builds, NEW u \in Builds, RetryTask(t, u)
    PROVE  CreationInv'
<1> DEFINE row == [task[u] EXCEPT !.retryOf = u, !.at = NextAt]
<1>1. /\ InsertTask(t, row) /\ u \in Created
      /\ UNCHANGED <<graphVars, registryVars, asking>>
  BY DEF RetryTask, Created
<1>2. NextAt \in Nat
  BY FS_CardinalityType DEF CreationInv, TaskInv, NextAt, Created
<1>3. task[u] \in TaskRow /\ task[u].node \in NodesOf(task[u].project) /\ task[u].hash = Hash(task[u].file)
  BY <1>1 DEF CreationInv, TaskInv, Created
<1>4. row \in TaskRow
  BY <1>2, <1>3 DEF TaskRow
<1>5. /\ row.at = NextAt /\ row.node \in NodesOf(row.project) /\ row.hash = Hash(row.file)
      /\ row.retryOf = u
      /\ <<row.node, row.file, row.hash, row.registry, row.pull>>
           = <<task[u].node, task[u].file, task[u].hash, task[u].registry, task[u].pull>>
  BY <1>3 DEF TaskRow
<1> HIDE DEF row
<1>6. HashInv' /\ TaskInv'
  BY <1>1, <1>4, <1>5, InsertKeeps DEF CreationInv
<1>7. AskingInv'
  BY <1>1 DEF CreationInv, AskingInv, AskingRow, graphVars, graphRows, registryVars, NodesOf, FindNode
<1> QED BY <1>6, <1>7 DEF CreationInv

-----------------------------------------------------------------------------
(* The creation of tasks: results *)

\* Rows of tasks and what requests have found stay right, whatever maintainers
\* and administrators do meanwhile.
THEOREM CreationInvHolds == CreationSpec => []CreationInv
<1>1. CreationInit => CreationInv
  <2> SUFFICES ASSUME CreationInit PROVE CreationInv
    OBVIOUS
  <2>1. HashInv
    BY DEF CreationInit, GraphInit, NoNode, HashInv
  <2>2. AskingInv
    BY DEF CreationInit, TaskInit, AskingInv
  <2>3. Created = {} /\ DOMAIN task = Builds /\ \A t \in Builds : task[t].exists = FALSE
    BY DEF CreationInit, TaskInit, Created, NoTask
  <2>4. RetrySameBuild /\ LatestTaskIsLast
    BY <2>3 DEF RetrySameBuild, LatestTaskIsLast, CreationInit, TaskInit
  <2>5. TaskInv
    BY <2>3, <2>4, FS_EmptySet DEF TaskInv, CreationInit, TaskInit
  <2> QED BY <2>1, <2>2, <2>5 DEF CreationInv
<1>2. GraphInv /\ RegistryInv /\ CreationInv /\ [CreationNext]_creationVars => CreationInv'
  <2> SUFFICES ASSUME GraphInv, RegistryInv, CreationInv, [CreationNext]_creationVars
               PROVE  CreationInv'
    OBVIOUS
  <2>1. CASE TaskNext
    BY <2>1, AskProjectKeeps, AskNodeKeeps, AskRegistryKeeps, AskPullKeeps, CreateTaskKeeps,
       RetryTaskKeeps DEF TaskNext
  <2>2. CASE /\ [GraphNext]_graphVars /\ [RegistryNext]_registryVars
             /\ UNCHANGED <<taskVars, asking>>
    <3>1. HashInv'
      BY <2>2, HashKept DEF CreationInv
    <3>2. \A q : NodesOf(q) \subseteq NodesOf(q)'
      BY <2>2, NodesRemain DEF graphVars, graphRows, NodesOf, FindNode
    <3>3. \A r \in Registries : registry[r].deleted => registry'[r].deleted
      BY <2>2, DecisionStep
    <3> QED BY <2>2, <3>1, <3>2, <3>3, OthersKeep
  <2> QED BY <2>1, <2>2 DEF CreationNext, creationVars, graphVars, registryVars
<1> QED BY <1>1, <1>2, CreationIncludesParts, GraphInvHolds, RegistryInvHolds, PTL DEF CreationSpec

\* CatalogTypeOK: the rows of the graph and of the registries stay well typed while
\* tasks are created over them.
THEOREM CatalogTyped == CreationSpec => []CatalogTypeOK
<1>1. GraphInv /\ RegistryInv => CatalogTypeOK
  BY DEF GraphInv, RegistryInv, CatalogTypeOK
<1> QED BY <1>1, CreationIncludesParts, GraphInvHolds, RegistryInvHolds, PTL

\* What the rows say of a task is what it will build: content and hash of one
\* version of its project, a retry what was retried, and the latest task last.
THEOREM RecordsAreTrue == CreationSpec => []TaskRecords
<1>1. CreationInv => TaskRecords
  <2> SUFFICES ASSUME CreationInv PROVE TaskRecords
    OBVIOUS
  <2>1. SnapshotConsistent
    BY DEF CreationInv, TaskInv, SnapshotConsistent, NodesOf, FindNode
  <2> QED BY <2>1 DEF CreationInv, TaskInv, TaskRecords
<1> QED BY <1>1, CreationInvHolds, PTL

\* A request that begins after a registry was deleted creates no task on it.
THEOREM DeletedStayUnused == CreationSpec => []NoTaskOnDeletedRegistry
<1>1. CreationInv => NoTaskOnDeletedRegistry
  <2> SUFFICES ASSUME CreationInv, NEW c \in Builders, Asking(c, "insert")
               PROVE  {asking[c].registry, asking[c].pull} \intersect asking[c].gone = {}
    BY DEF NoTaskOnDeletedRegistry
  <2>1. asking[c].step = "insert" /\ Idle.step = "idle"
    BY DEF Asking, Idle
  <2>2. asking[c] # Idle
    BY <2>1
  <2> QED BY <2>1, <2>2 DEF CreationInv, AskingInv
<1> QED BY <1>1, CreationInvHolds, PTL
====
