----------------------------- MODULE Registries -----------------------------
(***************************************************************************)
(* Image registries and the credentials they refer to: the registries and  *)
(* credentials rows and the requests of administrators on them.  Every     *)
(* statement is a transaction of its own; only Check talks to a registry   *)
(* between its statements.                                                 *)
(***************************************************************************)
EXTENDS Naturals, FiniteSets

CONSTANTS Registries,     \* identifiers id.New may return
          Credentials,    \* likewise for the credentials table
          Admins,         \* requests in flight at one time
          RegistryInputs, \* SaveInput values considered
          CheckResults,   \* results of a check considered
          NoCredential

ASSUME NoCredentialIsNoId == NoCredential \notin Credentials
ASSUME ResultsAreChecks == CheckResults \subseteq {"available", "unavailable"}

VARIABLES
    registry,   \* registries rows
    credential, \* identifiers of the credentials rows
    saving,     \* each administrator's request: its step and what it has read
    torn        \* a request ended between writing a default and clearing the others

registryVars == <<registry, credential, saving, torn>>

RegistryStatuses == {"unknown", "available", "unavailable", "disabled"}

\* A request carries the flags and whether a password is given.
InputRow == [pull : BOOLEAN, push : BOOLEAN, defaultPull : BOOLEAN, defaultPush : BOOLEAN,
             secret : BOOLEAN]

ASSUME InputsAreRows == RegistryInputs \subseteq InputRow
ASSUME FiniteRegistries == IsFiniteSet(Registries)

RegistryRow == [exists : BOOLEAN, deleted : BOOLEAN, status : RegistryStatuses,
                pull : BOOLEAN, push : BOOLEAN, defaultPull : BOOLEAN,
                defaultPush : BOOLEAN, credential : Credentials \union {NoCredential}, at : Nat]

NoRegistry == [exists |-> FALSE, deleted |-> FALSE, status |-> "unknown",
               pull |-> FALSE, push |-> FALSE, defaultPull |-> FALSE,
               defaultPush |-> FALSE, credential |-> NoCredential, at |-> 0]

Resting == [step |-> "idle"]

Live(r) == registry[r].exists /\ ~registry[r].deleted
LiveRegistries == {r \in Registries : Live(r)}

\* normalizeInput
ValidRegistry(i) == /\ i.pull \/ i.push
                    /\ i.defaultPull => i.pull
                    /\ i.defaultPush => i.push

\* FindDefaultPush and FindDefaultPull: the newest of the defaults.
Newest(S) == {r \in S : \A q \in S : registry[q].at <= registry[r].at}
DefaultPush == Newest({r \in LiveRegistries : registry[r].defaultPush /\ registry[r].push})
DefaultPull == Newest({r \in LiveRegistries : registry[r].defaultPull /\ registry[r].pull})

At(a, s) == saving' = [saving EXCEPT ![a] = s]

\* What is left to clear once the row with input i is written.
AfterWrite(r, i) == IF i.defaultPull
                      THEN [step |-> "clearPull", id |-> r, then |-> i.defaultPush]
                      ELSE IF i.defaultPush THEN [step |-> "clearPush", id |-> r] ELSE Resting

-----------------------------------------------------------------------------

\* createCredential
NewCredential(k) == k \notin credential /\ credential' = credential \union {k}

\* The created_at of a new row: rows being created at one time compare equal.
Now == Cardinality({r \in Registries : registry[r].exists})

\* Create takes the time and stores the credential, then the registry.
CreateRegistry(a, r, i) ==
    LET goOn(k) == At(a, [step |-> "insert", id |-> r, input |-> i, credential |-> k, at |-> Now])
    IN /\ saving[a] = Resting
       /\ ValidRegistry(i)
       /\ ~registry[r].exists
       /\ IF i.secret THEN \E k \in Credentials : NewCredential(k) /\ goOn(k)
                      ELSE goOn(NoCredential) /\ UNCHANGED credential
       /\ UNCHANGED <<registry, torn>>

InsertRegistry(a) ==
    LET s == saving[a]
    IN /\ s.step = "insert"
       /\ ~registry[s.id].exists
       /\ registry' = [registry EXCEPT ![s.id] =
            [exists |-> TRUE, deleted |-> FALSE, status |-> "unknown",
             pull |-> s.input.pull, push |-> s.input.push,
             defaultPull |-> s.input.defaultPull, defaultPush |-> s.input.defaultPush,
             credential |-> s.credential,
             at |-> s.at]]
       /\ At(a, AfterWrite(s.id, s.input))
       /\ UNCHANGED <<credential, torn>>

\* mutant: the row is written with a credential that is stored afterwards
ReadForUpdateEarly(a, r, i) ==
    /\ saving[a] = Resting
    /\ Live(r)
    /\ ValidRegistry(i)
    /\ \E k \in Credentials \ credential :
         At(a, [step |-> "update", id |-> r, input |-> i, credential |-> k,
                disabled |-> registry[r].status = "disabled"])
    /\ UNCHANGED <<registry, credential, torn>>

\* Update reads the row and stores the credential: a new one when the row read
\* has none, otherwise the value of that one changes in place.
ReadForUpdate(a, r, i) ==
    LET row == registry[r]
        goOn(k) == At(a, [step |-> "update", id |-> r, input |-> i, credential |-> k,
                          disabled |-> row.status = "disabled"])
    IN /\ saving[a] = Resting
       /\ Live(r)
       /\ ValidRegistry(i)
       /\ \/ /\ i.secret /\ row.credential = NoCredential
             /\ \E k \in Credentials : NewCredential(k) /\ goOn(k)
          \/ /\ ~i.secret \/ row.credential # NoCredential
             /\ goOn(row.credential)
             /\ UNCHANGED credential
       /\ UNCHANGED <<registry, torn>>

\* Repository.Update: no row is affected when it was deleted meanwhile.
UpdateRegistry(a) ==
    LET s == saving[a]
    IN /\ s.step = "update"
       /\ IF Live(s.id)
            THEN /\ registry' = [registry EXCEPT ![s.id] =
                      [@ EXCEPT !.status = IF s.disabled THEN "disabled" ELSE "unknown",
                                !.pull = s.input.pull, !.push = s.input.push,
                                !.defaultPull = s.input.defaultPull,
                                !.defaultPush = s.input.defaultPush,
                                !.credential = s.credential]]
                 /\ At(a, AfterWrite(s.id, s.input))
            ELSE At(a, Resting) /\ UNCHANGED registry
       /\ UNCHANGED <<credential, torn>>

\* clearDefaults: first the pull flags of the others, then their push flags.
ClearPull(a) ==
    LET s == saving[a]
    IN /\ s.step = "clearPull"
       /\ registry' = [r \in Registries |->
            IF Live(r) /\ r # s.id THEN [registry[r] EXCEPT !.defaultPull = FALSE]
                                   ELSE registry[r]]
       /\ At(a, IF s.then THEN [step |-> "clearPush", id |-> s.id] ELSE Resting)
       /\ UNCHANGED <<credential, torn>>

\* mutant: clearDefaults returns after the pull flags
ClearPushNever(a) == /\ saving[a].step = "clearPush"
                     /\ At(a, Resting)
                     /\ UNCHANGED <<registry, credential, torn>>

ClearPush(a) ==
    LET s == saving[a]
    IN /\ s.step = "clearPush"
       /\ registry' = [r \in Registries |->
            IF Live(r) /\ r # s.id THEN [registry[r] EXCEPT !.defaultPush = FALSE]
                                   ELSE registry[r]]
       /\ At(a, Resting)
       /\ UNCHANGED <<credential, torn>>

\* Enable and Disable
SetStatus(r, s) == /\ Live(r)
                   /\ registry' = [registry EXCEPT ![r].status = s]
                   /\ UNCHANGED <<credential, saving, torn>>

DeleteRegistry(r) == /\ Live(r)
                     /\ registry' = [registry EXCEPT ![r].deleted = TRUE]
                     /\ UNCHANGED <<credential, saving, torn>>

\* mutant: a disabled registry is checked like any other
CheckRegistryAny(a, r) == /\ saving[a] = Resting
                          /\ Live(r)
                          /\ At(a, [step |-> "check", id |-> r,
                                    disabled |-> registry[r].status = "disabled"])
                          /\ UNCHANGED <<registry, credential, torn>>

\* Check reads the row and its credential; a disabled registry is not checked.
CheckRegistry(a, r) == /\ saving[a] = Resting
                       /\ Live(r)
                       /\ registry[r].status # "disabled"
                       /\ registry[r].credential \in credential \union {NoCredential}
                       /\ At(a, [step |-> "check", id |-> r, disabled |-> FALSE])
                       /\ UNCHANGED <<registry, credential, torn>>

\* The detector has answered, from the row read before: UpdateCheckResult.
CheckedRegistry(a, result) ==
    LET s == saving[a]
    IN /\ s.step = "check"
       /\ registry' = IF Live(s.id) THEN [registry EXCEPT ![s.id].status = result] ELSE registry
       /\ At(a, Resting)
       /\ UNCHANGED <<credential, torn>>

\* A statement fails, the client is gone or the 60 s are over.
AbandonSave(a) == /\ saving[a] # Resting
                  /\ At(a, Resting)
                  /\ torn' = (torn \/ saving[a].step \in {"clearPull", "clearPush"})
                  /\ UNCHANGED <<registry, credential>>

-----------------------------------------------------------------------------

RegistryInit == /\ registry = [r \in Registries |-> NoRegistry]
                /\ credential = {}
                /\ saving = [a \in Admins |-> Resting]
                /\ torn = FALSE

RegistryNext ==
    \/ \E a \in Admins, r \in Registries, i \in RegistryInputs :
          CreateRegistry(a, r, i) \/ ReadForUpdate(a, r, i)
    \/ \E a \in Admins : \/ InsertRegistry(a) \/ UpdateRegistry(a)
                         \/ ClearPull(a) \/ ClearPush(a) \/ AbandonSave(a)
    \/ \E r \in Registries, s \in {"unknown", "disabled"} : SetStatus(r, s)
    \/ \E r \in Registries : DeleteRegistry(r)
    \/ \E a \in Admins, r \in Registries : CheckRegistry(a, r)
    \/ \E a \in Admins, s \in CheckResults : CheckedRegistry(a, s)

RegistrySpec == RegistryInit /\ [][RegistryNext]_registryVars

-----------------------------------------------------------------------------
(* Properties *)

RegistryTypeOK == /\ registry \in [Registries -> RegistryRow]
                  /\ credential \subseteq Credentials
                  /\ DOMAIN saving = Admins
                  /\ torn \in BOOLEAN

PushDefaults == {r \in LiveRegistries : registry[r].defaultPush}
PullDefaults == {r \in LiveRegistries : registry[r].defaultPull}
Clearing == \E a \in Admins : saving[a].step \in {"clearPull", "clearPush"}

\* While no request is about to clear the defaults, at most one registry is the
\* default of a kind, unless a request ended halfway through clearDefaults:
\* requests that set defaults at the same time leave one or none, never two.
OneDefaultAtRest ==
    ~Clearing /\ ~torn => /\ \A q, r \in PushDefaults : q = r
                          /\ \A q, r \in PullDefaults : q = r

\* A registry never refers to a credential that is not stored, however creations
\* and updates overlap or fail halfway, so that Secret and Check find it.
CredentialStored ==
    \A r \in Registries : registry[r].credential \in credential \union {NoCredential}

\* What administrators decided stands.  Nothing writes to a deleted registry: not
\* the result of a check, an update or a clearing of defaults that was under way
\* when it was deleted.  A disabled registry becomes usable again only through
\* Enable, or through a check or an update that read it before it was disabled.
DecisionStands ==
    [][\A r \in Registries :
         /\ registry[r].deleted => registry'[r] = registry[r]
         /\ (registry[r].status = "disabled" /\ registry'[r].status # "disabled")
              => \/ saving' = saving
                 \/ \E a \in Admins : /\ saving[a].step \in {"check", "update"}
                                      /\ saving[a].id = r
                                      /\ ~saving[a].disabled]_registryVars

=============================================================================
