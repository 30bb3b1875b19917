--------------------------- MODULE PlatformProofs ---------------------------
(***************************************************************************)
(* What the parts around the build task promise holds of the platform that *)
(* puts them side by side, for every value of the constants.  A part that  *)
(* starts from nothing goes on in the platform as it does alone; users and *)
(* requests may also start from anyone being signed in, and an             *)
(* administrator may be disabled under a request, so that their invariants *)
(* are shown again from the steps.                                         *)
(***************************************************************************)
EXTENDS MCPlatform, AdministrationProofs, ExecutionProofs

-----------------------------------------------------------------------------
(* The parts that start from nothing *)

\* A step of the platform is a step of each of these parts, or leaves it alone.
LEMMA PartsStep ==
    ASSUME [PlatformNext]_platformVars
    PROVE  /\ [HostNext]_hostVars
           /\ [ArtifactNext]_artifactVars
           /\ [ExecNext]_execVars
           /\ [FileNext]_fileVars
           /\ [MigrationNext]_migrationVars
BY DEF PlatformNext, platformVars

\* The administration of hosts, artifacts, the executor, the files of builds and
\* the migrations do in the platform what they do alone: that others go on beside
\* them adds no behaviour.
THEOREM PlatformIncludesParts ==
    PlatformSpec => HostSpec /\ ArtifactSpec /\ ExecSpec /\ FileSpec /\ MigrationSpec
<1>1. PlatformInit => HostInit /\ ArtifactInit /\ ExecInit /\ FileInit /\ MigrationInit
  BY DEF PlatformInit
<1>2. [PlatformNext]_platformVars => /\ [HostNext]_hostVars
                                     /\ [ArtifactNext]_artifactVars
                                     /\ [ExecNext]_execVars
                                     /\ [FileNext]_fileVars
                                     /\ [MigrationNext]_migrationVars
  BY PartsStep
<1> QED BY <1>1, <1>2, PTL DEF PlatformSpec, HostSpec, ArtifactSpec, ExecSpec, FileSpec,
                               MigrationSpec

-----------------------------------------------------------------------------
(* Users, sessions and requests *)

\* Someone disables a user who is not the last active administrator.
Disabled == \E u \in Users : /\ user[u].active /\ Admins # {u}
                              /\ user' = [user EXCEPT ![u].active = FALSE]
                              /\ UNCHANGED <<session, acting>>

\* Users and requests change as their own rules have it, or a user is disabled.
LEMMA UsersStep ==
    ASSUME [PlatformNext]_platformVars
    PROVE  /\ [AccountNext]_accountVars \/ Disabled
           /\ RequestNext \/ UNCHANGED apiVars
<1>1. ASSUME NEW t \in Tokens, Logout(t) PROVE AccountNext
  BY <1>1 DEF AccountNext
<1>2. Meanwhile => AccountNext \/ Disabled
  BY <1>1 DEF Meanwhile, Disabled
<1> QED BY <1>2 DEF PlatformNext, platformVars

\* A user who is disabled keeps row, password and role, and leaves an active
\* administrator where there was one.
LEMMA DisabledKeeps ==
    ASSUME AccountInv, Disabled
    PROVE  /\ AccountInv'
           /\ \A u \in Users : user'[u].password = user[u].password
           /\ Admins # {} => Admins' # {}
<1> USE DEF AccountInv, UserRow
<1>1. PICK u \in Users : /\ Admins # {u}
                         /\ user' = [user EXCEPT ![u].active = FALSE]
                         /\ UNCHANGED <<session, acting>>
  BY DEF Disabled
<1>2. user' \in [Users -> UserRow] /\ \A w \in Users : user'[w].password = user[w].password
  BY <1>1
<1>3. AccountInv'
  BY <1>1, <1>2 DEF ActingInv
<1>4. ASSUME Admins # {} PROVE Admins' # {}
  <2>1. PICK w \in Admins : w # u
    BY <1>1, <1>4
  <2>2. user'[w] = user[w]
    BY <1>1, <2>1 DEF Admins
  <2> QED BY <2>1, <2>2 DEF Admins, IsActiveAdmin
<1> QED BY <1>2, <1>3, <1>4

\* Being signed in is a state the rules of accounts allow.
LEMMA InitUsers == PlatformInit => AccountInv
<1> SUFFICES ASSUME PlatformInit PROVE AccountInv
  OBVIOUS
<1>1. CASE focus = "requests"
  <2> DEFINE any == CHOOSE p \in Passwords : TRUE
             someone == CHOOSE u \in Users : TRUE
             row(role) == [exists |-> TRUE, role |-> role, active |-> TRUE, password |-> any]
  <2>1. any \in Passwords /\ someone \in Users
    BY SomePassword, SomeUser
  <2>2. PICK role \in Roles : user = [u \in Users |-> row(role)]
    BY <1>1 DEF PlatformInit, SignedIn
  <2>3. session \in [Tokens -> {someone}] /\ acting = [c \in Clients |-> NoActing]
    BY <1>1 DEF PlatformInit, SignedIn
  <2> HIDE DEF any, someone
  <2>4. row(role) \in UserRow
    BY <2>1, <2>2 DEF UserRow
  <2> HIDE DEF row
  <2>5. ActingInv
    BY <2>3 DEF ActingInv, NoActing
  <2> QED BY <2>1, <2>2, <2>3, <2>4, <2>5 DEF AccountInv
<1>2. CASE focus # "requests"
  BY <1>2, InitAccounts DEF PlatformInit
<1> QED BY <1>1, <1>2

\* Users and sessions stay what they are in AccountSpec, whoever was signed in at
\* first and whoever is disabled under a request.
THEOREM PlatformUsers == PlatformSpec => []AccountInv
<1>1. AccountInv /\ [PlatformNext]_platformVars => AccountInv'
  BY UsersStep, AccountStep, DisabledKeeps
<1> QED BY <1>1, InitUsers, PTL DEF PlatformSpec

\* So do requests and the audit log.
THEOREM PlatformRequests == PlatformSpec => []ApiInv
<1>1. PlatformInit => ApiInv
  BY InitApi DEF PlatformInit
<1>2. ApiInv /\ AccountInv /\ [PlatformNext]_platformVars => ApiInv'
  BY UsersStep, ApiStep
<1> QED BY <1>1, <1>2, PlatformUsers, PTL DEF PlatformSpec

-----------------------------------------------------------------------------
(* Results *)

\* The state of every part stays well typed, for any number of hosts, users,
\* requests, artifacts, operations, files and processes.
THEOREM PlatformTyped == PlatformSpec => []PlatformTypeOK
<1>1. AccountInv => AccountTypeOK
  BY DEF AccountInv, ActingInv, AccountTypeOK
<1>2. ApiInv => ApiTypeOK
  BY DEF ApiInv, RequestInv, ApiTypeOK
<1>3. HostTypeOK /\ AccountTypeOK /\ ApiTypeOK /\ ArtifactTypeOK /\ ExecTypeOK /\ FileTypeOK
        /\ MigrationTypeOK => PlatformTypeOK
  BY DEF PlatformTypeOK
<1> QED BY <1>1, <1>2, <1>3, PlatformIncludesParts, PlatformUsers, PlatformRequests, HostsTyped,
           ArtifactsTyped, ExecTyped, FilesTyped, MigrationTyped, PTL

\* The audit log tells the truth also of requests that begin signed in, in
\* whatever role, and whose user is disabled on the way.
THEOREM PlatformAudited == PlatformSpec => []AuditIsTrue
BY AuditFollows, PlatformRequests, PTL

\* Whoever removes the last active administrator has lost that standing, also when
\* others are disabled beside the requests.
THEOREM PlatformLastAdmin == PlatformSpec => LastAdminByStaleActor
<1>1. AccountInv /\ [PlatformNext]_platformVars =>
        [(Admins # {} /\ Admins' = {})
           => \E c \in Clients : acting[c].step = "update" /\ ~IsActiveAdmin(acting[c].actor)]_accountVars
  BY UsersStep, StaleActorStep, DisabledKeeps
<1> QED BY <1>1, PlatformUsers, PTL DEF PlatformSpec, LastAdminByStaleActor

\* And a password is changed by its reset alone.
THEOREM PlatformResets == PlatformSpec => ResetIsKept
<1>1. AccountInv /\ [PlatformNext]_platformVars =>
        [\A u \in Users : (user[u].exists /\ user'[u].password # user[u].password)
           => \E c \in Clients : /\ acting[c].step = "reset" /\ acting[c].target = u
                                 /\ acting'[c] = NoActing]_accountVars
  BY UsersStep, ResetStep, DisabledKeeps
<1> QED BY <1>1, PlatformUsers, PTL DEF PlatformSpec, ResetIsKept

\* What the other parts promise, they keep in the platform: keys and decisions
\* about hosts, the histories of artifacts, the executor's logins, leftovers and
\* images, the files of running builds, their streams, and the schema.
THEOREM PlatformKeepsPromises ==
    PlatformSpec => /\ []KeyIsOwn /\ HostDecisionStands
                    /\ []ArtifactHistory
                    /\ []PushLoggedIn /\ []LeftoversFailed /\ []OwnImage
                    /\ []RunningKeepsFiles /\ []StreamIsFaithful
                    /\ []SchemaWhole
BY PlatformIncludesParts, KeysAreOwn, HostDecisionsStand, HistoriesAgree, PushesAreLoggedIn,
   LeftoversAreFailures, ImagesAreOwn, FilesAreKept, StreamsAreFaithful, SchemaIsWhole, PTL

=============================================================================
