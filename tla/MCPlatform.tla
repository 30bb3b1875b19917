----------------------------- MODULE MCPlatform -----------------------------
(***************************************************************************)
(* Small instances of the parts around the build task that share no state  *)
(* as they are modelled: the administration of hosts, accounts, requests to *)
(* the API, artifacts, the executor, the files of a build, the migrations. *)
(* A behaviour explores one of them and leaves the others alone.           *)
(***************************************************************************)
EXTENDS HostRegistry, ApiRequests, Artifacts, Executor, BuildFiles, Migration, TLC

CONSTANT Focuses  \* the parts that are explored

ASSUME SomeUser == Users # {}

VARIABLE focus

platformVars == <<hostVars, accountVars, apiVars, artifactVars, execVars, fileVars, migrationVars, focus>>

\* Which unused identifier a row gets does not matter: the instance uses numbers
\* and gives them out in order.
Prefix(S) == \A x \in S : \A y \in 1..x : y \in S
InOrder == /\ Prefix({h \in Hosts : host[h].exists \/ \E o \in Operators :
                                      working[o].step = "insert" /\ working[o].id = h})
           /\ Prefix(sshKey)
           /\ Prefix({o \in {1, 2} : op[ToString(o)].call # "none"})

\* A check concerns one host: only the first is checked.
FirstChecked == \A o \in Operators : working[o].step = "check" => working[o].id = 1

\* Someone is signed in, in whatever role, and sends requests.
SignedIn ==
    /\ \E role \in Roles : user = [u \in Users |-> [exists |-> TRUE, role |-> role, active |-> TRUE,
                                                      password |-> CHOOSE p \in Passwords : TRUE]]
    /\ session \in [Tokens -> {CHOOSE u \in Users : TRUE}]
    /\ acting = [c \in Clients |-> NoActing]

\* The first request is of any form, the others are sent after it with the token
\* of the cookie and would change a project or a task.
Usual == \A r \in Requests \ {"r1"} : ~In(r, "unsent") =>
             ~In("r1", "unsent") /\ request[r].write /\ request[r].area = "tasks"
                                /\ request[r].header # NoCsrf /\ request[r].cookie # NoCsrf

\* What becomes of users and sessions while requests go on; an administrator
\* is disabled by another one.
Meanwhile == \/ \E t \in Tokens : Logout(t)
             \/ \E u \in Users : /\ user[u].active /\ Admins # {u}
                                  /\ user' = [user EXCEPT ![u].active = FALSE]
                                  /\ UNCHANGED <<session, acting>>

PlatformInit == /\ focus \in Focuses
                /\ HostInit /\ ApiInit /\ ArtifactInit /\ ExecInit /\ FileInit /\ MigrationInit
                /\ IF focus = "requests" THEN SignedIn ELSE AccountInit
                \* The settings matter to the files alone.
                /\ retention = 0 \/ focus = "files"

PlatformNext ==
    /\ \/ /\ focus = "hosts" /\ HostNext
          /\ UNCHANGED <<accountVars, apiVars, artifactVars, execVars, fileVars, migrationVars>>
       \/ /\ focus = "accounts" /\ AccountNext
          /\ UNCHANGED <<hostVars, apiVars, artifactVars, execVars, fileVars, migrationVars>>
       \/ /\ focus = "requests"
          /\ \/ RequestNext /\ UNCHANGED accountVars
             \/ Meanwhile /\ UNCHANGED apiVars
          /\ UNCHANGED <<hostVars, artifactVars, execVars, fileVars, migrationVars>>
       \/ /\ focus = "artifacts" /\ ArtifactNext
          /\ UNCHANGED <<hostVars, accountVars, apiVars, execVars, fileVars, migrationVars>>
       \/ /\ focus = "executor" /\ ExecNext
          /\ UNCHANGED <<hostVars, accountVars, apiVars, artifactVars, fileVars, migrationVars>>
       \/ /\ focus = "files" /\ FileNext
          /\ UNCHANGED <<hostVars, accountVars, apiVars, artifactVars, execVars, migrationVars>>
       \/ /\ focus = "migration" /\ MigrationNext
          /\ UNCHANGED <<hostVars, accountVars, apiVars, artifactVars, execVars, fileVars>>
    /\ InOrder' /\ FirstChecked' /\ Usual'
    /\ UNCHANGED focus

PlatformSpec == PlatformInit /\ [][PlatformNext]_platformVars

\* The state of every part stays well typed.
PlatformTypeOK == HostTypeOK /\ AccountTypeOK /\ ApiTypeOK /\ ArtifactTypeOK
                    /\ ExecTypeOK /\ FileTypeOK /\ MigrationTypeOK

OperatorPerms == Permutations(Operators)

=============================================================================
