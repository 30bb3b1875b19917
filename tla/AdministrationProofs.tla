------------------------ MODULE AdministrationProofs ------------------------
(***************************************************************************)
(* What the administration of the platform preserves, for any number of    *)
(* hosts, users, requests and processes: every key belongs to one host and *)
(* what an administrator decided stands; who can remove the last           *)
(* administrator, and that only a reset changes a password; that the audit *)
(* log tells the truth; and that migrations are applied once, in order,    *)
(* and before anybody serves, wherever processes die.                      *)
(***************************************************************************)
EXTENDS HostRegistry, ApiRequests, Migration, TLAPS

-----------------------------------------------------------------------------
(* Hosts: the invariant *)

Writing(o) == working[o].step \in {"insert", "update"}

\* What the step of a request says of the rest of its record.
WorkInv ==
    /\ DOMAIN working = Operators
    /\ \A o \in Operators :
        /\ Writing(o) => /\ working[o].id \in Hosts
                         /\ working[o].type \in ConnectionTypes
                         /\ working[o].key \in sshKey \union {NoKey}
                         /\ working[o].type = "local_docker" => working[o].key = NoKey
        /\ working[o].step = "check" => working[o].id \in Hosts /\ ~working[o].disabled

\* A host claims the key in its row, and the key that a request is about to write
\* into it.
Claims(h, k) == \/ host[h].key = k
                \/ \E o \in Operators : Writing(o) /\ working[o].id = h /\ working[o].key = k

\* A stored key is claimed by one host at most: this is what makes KeyIsOwn
\* inductive, since a request holds its key before the row does.
ClaimInv == \A g, h \in Hosts, k \in Keys : Claims(g, k) /\ Claims(h, k) => g = h

\* Rows refer to keys that are stored, and a row that does not exist is blank.
RowInv == \A h \in Hosts : /\ host[h].key \in sshKey \union {NoKey}
                           /\ host[h].type = "local_docker" => host[h].key = NoKey
                           /\ ~host[h].exists => host[h] = NoHost

HostInv == HostTypeOK /\ WorkInv /\ ClaimInv /\ RowInv

-----------------------------------------------------------------------------
(* Hosts: steps *)

\* The first half of Create and Update: a key that is new, or the host's own.
LEMMA TakeKeeps ==
    ASSUME HostInv, NEW o \in Operators, NEW h \in Hosts, NEW k \in Keys \union {NoKey},
           working' = [working EXCEPT ![o] = working'[o]], UNCHANGED host,
           Writing(o)', working'[o].id = h, working'[o].key = k,
           working'[o].type \in ConnectionTypes,
           working'[o].type = "local_docker" => k = NoKey,
           \/ k \in Keys \ sshKey /\ sshKey' = sshKey \union {k}
           \/ k \in {NoKey, host[h].key} /\ UNCHANGED sshKey
    PROVE  HostInv'
<1> USE DEF HostInv
<1>1. HostTypeOK'
  BY DEF HostTypeOK, WorkInv
<1>2. WorkInv'
  BY DEF WorkInv, Writing, RowInv
<1>3. RowInv'
  BY DEF RowInv
<1>4. ClaimInv'
  <2> SUFFICES ASSUME NEW f \in Hosts, NEW g \in Hosts, NEW j \in Keys,
                      Claims(f, j)', Claims(g, j)'
               PROVE  f = g
    BY DEF ClaimInv
  <2>1. \A e \in Hosts : Claims(e, j)' => Claims(e, j) \/ (e = h /\ j = k)
    BY DEF Claims, Writing, WorkInv
  <2>2. CASE j # k
    BY <2>1, <2>2 DEF ClaimInv
  <2>3. CASE j = k /\ j \notin sshKey
    <3>1. \A e \in Hosts : ~Claims(e, j)
      BY <2>3, NoKeyIsNoId DEF Claims, RowInv, WorkInv
    <3> QED BY <2>1, <3>1
  <2>4. CASE j = k /\ j \in sshKey
    <3>1. Claims(h, j)
      BY <2>4, NoKeyIsNoId DEF Claims
    <3> QED BY <2>1, <3>1 DEF ClaimInv
  <2> QED BY <2>2, <2>3, <2>4
<1> QED BY <1>1, <1>2, <1>3, <1>4

\* A request that creates a host claims a key no other has.
LEMMA CreateKeeps ==
    ASSUME HostInv, NEW o \in Operators, NEW h \in Hosts, NEW i \in HostInputs, CreateHost(o, h, i)
    PROVE  HostInv'
<1>0. i.type \in ConnectionTypes /\ (i.withKey => i.type = "ssh")
  BY DEF HostInputs, ConnectionTypes
<1> DEFINE Row(k) == [step |-> "insert", id |-> h, type |-> i.type, key |-> k]
           Takes(k) == working' = [working EXCEPT ![o] = Row(k)]
<1>1. ASSUME NEW k \in Keys \union {NoKey}, Takes(k)
      PROVE  /\ working' = [working EXCEPT ![o] = working'[o]]
             /\ Writing(o)' /\ working'[o].id = h /\ working'[o].key = k
             /\ working'[o].type = i.type
  BY <1>1 DEF HostInv, WorkInv, Writing
<1>2. \/ i.withKey /\ \E k \in Keys : NewKey(k) /\ Takes(k)
      \/ ~i.withKey /\ Takes(NoKey) /\ UNCHANGED sshKey
  BY DEF CreateHost, Turn
<1>3. UNCHANGED host
  BY DEF CreateHost
<1> HIDE DEF Takes
<1>4. CASE i.withKey
  <2>1. PICK k \in Keys : NewKey(k) /\ Takes(k)
    BY <1>2, <1>4
  <2> QED BY <1>0, <1>1, <1>3, <1>4, <2>1, TakeKeeps DEF NewKey
<1>5. CASE ~i.withKey
  BY <1>0, <1>1, <1>2, <1>3, <1>5, TakeKeeps
<1> QED BY <1>4, <1>5

\* A request that updates a host keeps the key it has read, or claims a new one.
LEMMA ReadKeeps ==
    ASSUME HostInv, NEW o \in Operators, NEW h \in Hosts, NEW i \in HostInputs, ReadHost(o, h, i)
    PROVE  HostInv'
<1>0. i.type \in ConnectionTypes /\ (i.withKey => i.type = "ssh")
  BY DEF HostInputs, ConnectionTypes
<1> DEFINE kept == IF i.type = "local_docker" THEN NoKey ELSE host[h].key
           Row(k) == [step |-> "update", id |-> h, type |-> i.type, key |-> k,
                      disabled |-> host[h].status = "disabled"]
           Takes(k) == working' = [working EXCEPT ![o] = Row(k)]
<1>1. ASSUME NEW k \in Keys \union {NoKey}, Takes(k)
      PROVE  /\ working' = [working EXCEPT ![o] = working'[o]]
             /\ Writing(o)' /\ working'[o].id = h /\ working'[o].key = k
             /\ working'[o].type = i.type
  BY <1>1 DEF HostInv, WorkInv, Writing
<1>2. \/ i.withKey /\ \E k \in Keys : NewKey(k) /\ Takes(k)
      \/ Takes(kept) /\ UNCHANGED sshKey
  BY DEF ReadHost, Turn
<1>3. UNCHANGED host
  BY DEF ReadHost
<1>4. /\ kept \in Keys \union {NoKey}
      /\ kept \in {NoKey, host[h].key} /\ (i.type = "local_docker" => kept = NoKey)
  BY DEF HostInv, HostTypeOK, HostRow
<1> HIDE DEF Takes, kept
<1>5. ASSUME NEW k \in Keys, i.withKey, NewKey(k), Takes(k) PROVE HostInv'
  BY <1>0, <1>1, <1>3, <1>5, TakeKeeps DEF NewKey
<1>6. CASE Takes(kept) /\ UNCHANGED sshKey
  BY <1>0, <1>1, <1>3, <1>4, <1>6, TakeKeeps
<1> QED BY <1>2, <1>5, <1>6

\* The second half: the row gets what the request has claimed for it.
LEMMA StoreKeeps ==
    ASSUME HostInv, NEW o \in Operators, InsertHost(o) \/ UpdateHost(o)
    PROVE  HostInv'
<1> USE DEF HostInv
<1> DEFINE w == working[o]
<1>1. /\ Writing(o) /\ w.id \in Hosts /\ UNCHANGED sshKey
      /\ working' = [working EXCEPT ![o] = Free]
  BY DEF InsertHost, UpdateHost, Writing, WorkInv, Turn
<1>2. \A h \in Hosts : \/ host'[h] = host[h]
                       \/ /\ h = w.id /\ host'[h].key = w.key /\ host'[h].type = w.type
                          /\ host'[h].exists /\ host'[h] \in HostRow
  <2>1. w.key \in Keys \union {NoKey} /\ w.type \in ConnectionTypes
    BY <1>1 DEF WorkInv, HostTypeOK
  <2>2. CASE InsertHost(o)
    BY ZenonT(40), <1>1, <2>1, <2>2 DEF InsertHost, HostTypeOK, HostRow, NoHost, HostStatuses
  <2>3. CASE UpdateHost(o)
    BY SMTT(30), <1>1, <2>1, <2>3 DEF UpdateHost, HostTypeOK, HostRow, HostStatuses, HostLive
  <2> QED BY <2>2, <2>3
<1>3. HostTypeOK'
  <2>1. DOMAIN host' = Hosts /\ host' = [h \in Hosts |-> host'[h]]
    BY DEF InsertHost, UpdateHost, HostTypeOK
  <2> QED BY <1>1, <1>2, <2>1 DEF HostTypeOK, WorkInv
<1>4. WorkInv'
  BY <1>1 DEF WorkInv, Writing, Free
<1>5. RowInv'
  BY <1>1, <1>2 DEF RowInv, WorkInv
<1>6. \A h \in Hosts, k \in Keys : Claims(h, k)' => Claims(h, k)
  BY <1>1, <1>2 DEF Claims, Writing, Free, WorkInv
<1>7. ClaimInv'
  BY <1>6 DEF ClaimInv
<1> QED BY <1>3, <1>4, <1>5, <1>7

\* A step that takes up or ends a request without a key, and one that writes no
\* more than a status or the mark of deletion, claims nothing new.
LEMMA RowsKeep ==
    ASSUME HostInv, UNCHANGED sshKey,
           DOMAIN working' = Operators,
           \A o \in Operators : \/ working'[o] = working[o]
                                \/ working'[o].step = "idle"
                                \/ /\ working'[o].step = "check" /\ working'[o].id \in Hosts
                                   /\ ~working'[o].disabled,
           host' \in [Hosts -> HostRow],
           \A h \in Hosts : \/ host'[h] = host[h]
                            \/ /\ host'[h].exists /\ host'[h].key = host[h].key
                               /\ host'[h].type = host[h].type
    PROVE  HostInv'
<1> USE DEF HostInv
<1>1. HostTypeOK' /\ WorkInv' /\ RowInv'
  BY DEF HostTypeOK, WorkInv, RowInv, Writing
<1>2. \A h \in Hosts, k \in Keys : Claims(h, k)' => Claims(h, k)
  BY DEF Claims, Writing
<1>3. ClaimInv'
  BY <1>2 DEF ClaimInv
<1> QED BY <1>1, <1>3

\* A check reads its host and claims nothing.
LEMMA CheckKeeps ==
    ASSUME HostInv, NEW o \in Operators, NEW h \in Hosts, CheckHost(o, h)
    PROVE  HostInv'
BY RowsKeep DEF CheckHost, Turn, HostInv, WorkInv, HostTypeOK

\* The result of a check touches the status of its host alone.
LEMMA StoreCheckKeeps ==
    ASSUME HostInv, NEW o \in Operators, NEW result \in Results, StoreCheck(o, result)
    PROVE  HostInv'
<1>1. working[o].id \in Hosts
  BY DEF StoreCheck, HostInv, WorkInv
<1>2. result \in HostStatuses
  BY DEF Results, CheckSSH, CheckLocalDocker, HostStatuses
<1>3. host' \in [Hosts -> HostRow]
  BY <1>1, <1>2 DEF StoreCheck, HostInv, HostTypeOK, HostRow
<1>4. \A h \in Hosts : \/ host'[h] = host[h]
                       \/ /\ host'[h].exists /\ host'[h].key = host[h].key
                          /\ host'[h].type = host[h].type
  BY <1>1 DEF StoreCheck, HostInv, HostTypeOK, HostRow, HostLive
<1> QED BY <1>3, <1>4, RowsKeep DEF StoreCheck, Turn, Free, HostInv, WorkInv

\* Deleting or switching a host leaves its key with it.
LEMMA SettingKeeps ==
    ASSUME HostInv, NEW h \in Hosts,
           DeleteHost(h) \/ \E s \in {"unknown", "disabled"} : SetHostStatus(h, s)
    PROVE  HostInv'
<1>1. host' \in [Hosts -> HostRow]
  <2>1. host[h] \in HostRow
    BY DEF HostInv, HostTypeOK
  <2>2. CASE DeleteHost(h)
    <3>1. [host[h] EXCEPT !.deleted = TRUE] \in HostRow
      BY <2>1 DEF HostRow
    <3>2. host' = [host EXCEPT ![h] = [host[h] EXCEPT !.deleted = TRUE]]
      BY <2>2 DEF DeleteHost
    <3> QED BY <3>1, <3>2 DEF HostInv, HostTypeOK
  <2>3. ASSUME NEW s \in {"unknown", "disabled"}, SetHostStatus(h, s)
        PROVE  host' \in [Hosts -> HostRow]
    <3>1. [host[h] EXCEPT !.status = s] \in HostRow
      BY <2>1 DEF HostRow, HostStatuses
    <3>2. host' = [host EXCEPT ![h] = [host[h] EXCEPT !.status = s]]
      BY <2>3 DEF SetHostStatus
    <3> QED BY <3>1, <3>2 DEF HostInv, HostTypeOK
  <2> QED BY <2>2, <2>3
<1>2. \A g \in Hosts : \/ host'[g] = host[g]
                       \/ /\ host'[g].exists /\ host'[g].key = host[g].key
                          /\ host'[g].type = host[g].type
  BY DEF DeleteHost, SetHostStatus, HostInv, HostTypeOK, HostRow, HostLive
<1> QED BY <1>1, <1>2, RowsKeep DEF DeleteHost, SetHostStatus, HostInv, WorkInv

\* A restart of the server resets statuses and drops the requests.
LEMMA RestartKeeps ==
    ASSUME HostInv, RestartServer
    PROVE  HostInv'
<1>1. host' \in [Hosts -> HostRow]
  <2> DEFINE row == [NoHost EXCEPT !.exists = TRUE]
  <2>1. row \in HostRow
    BY DEF HostRow, NoHost, HostStatuses, ConnectionTypes
  <2>2. UNCHANGED host \/ \E h \in Hosts : host' = [host EXCEPT ![h] = row]
    BY DEF RestartServer
  <2> HIDE DEF row
  <2> QED BY <2>1, <2>2 DEF HostInv, HostTypeOK
<1>2. \A g \in Hosts : \/ host'[g] = host[g]
                       \/ /\ host'[g].exists /\ host'[g].key = host[g].key
                          /\ host'[g].type = host[g].type
  BY DEF RestartServer, HostInv, HostTypeOK, HostRow, NoHost, RowInv
<1> QED BY <1>1, <1>2, RowsKeep DEF RestartServer, Free

\* A request that ends claims nothing any more.
LEMMA DropKeeps ==
    ASSUME HostInv, NEW o \in Operators, DropRequest(o)
    PROVE  HostInv'
BY RowsKeep DEF DropRequest, Turn, Free, HostInv, WorkInv, HostTypeOK

\* Rows, requests and the keys both hold fit together in every reachable state.
THEOREM HostInvHolds == HostSpec => []HostInv
<1>1. HostInit => HostInv
  <2> SUFFICES ASSUME HostInit PROVE HostInv
    OBVIOUS
  <2>1. HostTypeOK
    BY DEF HostInit, HostTypeOK, HostRow, NoHost, HostStatuses, ConnectionTypes
  <2>2. WorkInv /\ RowInv
    BY DEF HostInit, WorkInv, RowInv, Writing, Free, NoHost
  <2>3. ClaimInv
    BY NoKeyIsNoId DEF HostInit, ClaimInv, Claims, Writing, Free, NoHost
  <2> QED BY <2>1, <2>2, <2>3 DEF HostInv
<1>2. HostInv /\ [HostNext]_hostVars => HostInv'
  <2> SUFFICES ASSUME HostInv, [HostNext]_hostVars PROVE HostInv'
    OBVIOUS
  <2>1. CASE HostNext
    BY <2>1, CreateKeeps, ReadKeeps, StoreKeeps, CheckKeeps, StoreCheckKeeps, SettingKeeps,
       RestartKeeps, DropKeeps DEF HostNext
  <2>2. CASE UNCHANGED hostVars
    BY <2>2, RowsKeep DEF hostVars, HostInv, HostTypeOK, WorkInv
  <2> QED BY <2>1, <2>2
<1> QED BY <1>1, <1>2, PTL DEF HostSpec

-----------------------------------------------------------------------------
(* Hosts: results *)

\* Hosts and their keys stay well typed.
THEOREM HostsTyped == HostSpec => []HostTypeOK
<1>1. HostInv => HostTypeOK
  BY DEF HostInv
<1> QED BY <1>1, HostInvHolds, PTL

\* No two hosts share an SSH key, a host refers to a stored key or to none, and a
\* host reached by the local socket to none, however requests overlap and restart.
THEOREM KeysAreOwn == HostSpec => []KeyIsOwn
<1>1. HostInv => KeyIsOwn
  <2> SUFFICES ASSUME HostInv PROVE KeyIsOwn
    OBVIOUS
  <2>1. \A h \in Hosts : host[h].key \in Keys \union {NoKey}
    BY DEF HostInv, HostTypeOK, HostRow
  <2>2. \A g, h \in Hosts : g # h /\ host[g].key = host[h].key => host[h].key = NoKey
    BY <2>1 DEF HostInv, ClaimInv, Claims
  <2> QED BY <2>2 DEF KeyIsOwn, HostInv, RowInv
<1> QED BY <1>1, HostInvHolds, PTL

\* What a step may do to a row that is deleted or disabled.
LEMMA DecisionStep ==
    ASSUME HostInv, [HostNext]_hostVars, NEW h \in Hosts
    PROVE  /\ host[h].deleted => host'[h] = host[h]
           /\ (host[h].status = "disabled" /\ host'[h].status # "disabled")
                => \/ working' = working
                   \/ \E o \in Operators : /\ working[o].step \in {"check", "update"}
                                           /\ working[o].id = h
                                           /\ ~working[o].disabled
<1> DEFINE Stands == /\ host[h].deleted => host'[h] = host[h]
                     /\ (host[h].status = "disabled" /\ host'[h].status # "disabled")
                          => \/ working' = working
                             \/ \E o \in Operators : /\ working[o].step \in {"check", "update"}
                                                     /\ working[o].id = h
                                                     /\ ~working[o].disabled
<1> USE DEF HostInv, HostTypeOK
<1>1. ASSUME NEW o \in Operators, InsertHost(o) PROVE Stands
  BY <1>1 DEF InsertHost, RowInv, NoHost, WorkInv, Writing
<1>2. ASSUME NEW o \in Operators, UpdateHost(o) PROVE Stands
  BY <1>2 DEF UpdateHost, HostLive, WorkInv, Writing
<1>3. ASSUME NEW o \in Operators, NEW result \in Results, StoreCheck(o, result) PROVE Stands
  BY <1>3 DEF StoreCheck, HostLive, WorkInv
<1>4. ASSUME NEW g \in Hosts, NEW s \in {"unknown", "disabled"}, SetHostStatus(g, s) PROVE Stands
  BY <1>4 DEF SetHostStatus, HostLive
<1>5. ASSUME NEW g \in Hosts, DeleteHost(g) PROVE Stands
  BY <1>5 DEF DeleteHost, HostLive
<1>6. ASSUME RestartServer PROVE Stands
  BY <1>6 DEF RestartServer, RowInv, NoHost
<1>7. CASE UNCHANGED host
  BY <1>7
<1> QED BY <1>1, <1>2, <1>3, <1>4, <1>5, <1>6, <1>7
        DEF HostNext, hostVars, CreateHost, ReadHost, CheckHost, DropRequest

\* Late results never touch a deleted host, and enable a disabled one only if
\* they began before it was disabled.
THEOREM HostDecisionsStand == HostSpec => HostDecisionStands
<1>1. HostInv /\ [HostNext]_hostVars =>
        [\A h \in Hosts :
           /\ host[h].deleted => host'[h] = host[h]
           /\ (host[h].status = "disabled" /\ host'[h].status # "disabled")
                => \/ working' = working
                   \/ \E o \in Operators : /\ working[o].step \in {"check", "update"}
                                           /\ working[o].id = h
                                           /\ ~working[o].disabled]_hostVars
  BY DecisionStep
<1> QED BY <1>1, HostInvHolds, PTL DEF HostSpec, HostDecisionStands

-----------------------------------------------------------------------------
(* Accounts: what a request has read *)

\* The record of a request whose position is known, with the check that
\* UpdateUser has made.
ActingInv ==
    /\ DOMAIN acting = Clients
    /\ \A c \in Clients :
        LET a == acting[c]
        IN /\ "target" \in DOMAIN a => a.target \in Users
           /\ a.step \in {"insert", "login", "update", "reset"} => a.target \in Users
           /\ a.step = "insert" => a.role \in Roles /\ a.password \in Passwords
           /\ a.step = "reset" => a.password \in Passwords
           /\ a.step \in {"admitted", "update"} => a.actor \in Users
           /\ a.step = "update" => /\ a.role \in Roles /\ a.active \in BOOLEAN
                                   /\ a.target = a.actor => a.role = "admin" /\ a.active

AccountInv == /\ user \in [Users -> UserRow]
              /\ session \in [Tokens -> Users \union {NoUser}]
              /\ ActingInv

\* The steps of a request that write no row: what it does next is given.
Thinks(c) ==
    \/ \E u \in Users, p \in Passwords :
         \/ InitializeAdmin(c, u, p) \/ Login(c, u, p) \/ ResetPassword(c, u, p)
         \/ \E role \in Roles : CreateUser(c, u, role, p)
    \/ \E u \in Users, role \in Roles, active \in BOOLEAN : UpdateUser(c, u, role, active)
    \/ EndRequest(c)
    \/ \E t \in Tokens : RequireAdmin(c, t)

\* The steps that write a users row.
Writes(c) == InsertUser(c) \/ UpdateUserRow(c) \/ UpdatePassword(c)

\* Every step is of one of these kinds.
LEMMA StepKinds ==
    ASSUME AccountNext
    PROVE  \/ \E c \in Clients : Thinks(c) \/ Writes(c)
           \/ \E c \in Clients, t \in Tokens : CreateSession(c, t)
           \/ \E t \in Tokens : DeleteSession(t)
BY DEF AccountNext, Thinks, Writes, Logout, SessionExpires

\* A request that reads or decides keeps the invariant and every row.
LEMMA ThinkingKeeps ==
    ASSUME AccountInv, NEW c \in Clients, Thinks(c)
    PROVE  AccountInv' /\ UNCHANGED <<user, session>>
<1> USE DEF AccountInv, ActingInv, Act, NoActing, Roles
<1>1. ASSUME NEW u \in Users, NEW p \in Passwords, InitializeAdmin(c, u, p)
      PROVE  AccountInv' /\ UNCHANGED <<user, session>>
  BY <1>1 DEF InitializeAdmin
<1>2. ASSUME NEW u \in Users, NEW p \in Passwords, Login(c, u, p)
      PROVE  AccountInv' /\ UNCHANGED <<user, session>>
  BY <1>2 DEF Login
<1>3. ASSUME NEW u \in Users, NEW p \in Passwords, ResetPassword(c, u, p)
      PROVE  AccountInv' /\ UNCHANGED <<user, session>>
  BY <1>3 DEF ResetPassword
<1>4. ASSUME NEW u \in Users, NEW p \in Passwords, NEW role \in Roles, CreateUser(c, u, role, p)
      PROVE  AccountInv' /\ UNCHANGED <<user, session>>
  BY <1>4 DEF CreateUser
<1>5. ASSUME NEW u \in Users, NEW role \in Roles, NEW active \in BOOLEAN,
             UpdateUser(c, u, role, active)
      PROVE  AccountInv' /\ UNCHANGED <<user, session>>
  BY <1>5 DEF UpdateUser
<1>6. ASSUME EndRequest(c)
      PROVE  AccountInv' /\ UNCHANGED <<user, session>>
  BY <1>6 DEF EndRequest
<1>7. ASSUME NEW t \in Tokens, RequireAdmin(c, t)
      PROVE  AccountInv' /\ UNCHANGED <<user, session>>
  BY <1>7 DEF RequireAdmin
<1> QED BY <1>1, <1>2, <1>3, <1>4, <1>5, <1>6, <1>7 DEF Thinks

\* A statement that writes a row keeps the invariant, and ends the request.
LEMMA UserRowKeeps ==
    ASSUME AccountInv, NEW c \in Clients, Writes(c)
    PROVE  AccountInv' /\ acting'[c] = NoActing
<1>1. ActingInv' /\ acting'[c] = NoActing
  BY DEF AccountInv, ActingInv, Writes, InsertUser, UpdateUserRow, UpdatePassword, Act, NoActing
<1>2. user' \in [Users -> UserRow]
  <2> USE DEF AccountInv, ActingInv, UserRow
  <2>1. CASE InsertUser(c)
    BY <2>1 DEF InsertUser
  <2>2. CASE UpdateUserRow(c)
    BY <2>2 DEF UpdateUserRow
  <2>3. CASE UpdatePassword(c)
    BY <2>3 DEF UpdatePassword
  <2> QED BY <2>1, <2>2, <2>3 DEF Writes
<1>3. session' = session
  BY DEF Writes, InsertUser, UpdateUserRow, UpdatePassword
<1> QED BY <1>1, <1>2, <1>3 DEF AccountInv

\* Sessions come and go without a row of a user being written.
LEMMA SessionsKeep ==
    ASSUME AccountInv,
           \/ \E c \in Clients, t \in Tokens : CreateSession(c, t)
           \/ \E t \in Tokens : DeleteSession(t)
    PROVE  AccountInv' /\ UNCHANGED user
<1>1. ASSUME NEW c \in Clients, NEW t \in Tokens, CreateSession(c, t)
      PROVE  AccountInv' /\ UNCHANGED user
  BY <1>1 DEF AccountInv, ActingInv, CreateSession, Act, NoActing
<1>2. ASSUME NEW t \in Tokens, DeleteSession(t)
      PROVE  AccountInv' /\ UNCHANGED user
  BY <1>2 DEF AccountInv, ActingInv, DeleteSession
<1> QED BY <1>1, <1>2

\* The invariant is kept by every step.
LEMMA AccountStep ==
    ASSUME AccountInv, [AccountNext]_accountVars
    PROVE  AccountInv'
<1>1. CASE AccountNext
  BY <1>1, StepKinds, ThinkingKeeps, UserRowKeeps, SessionsKeep
<1>2. CASE UNCHANGED accountVars
  BY <1>2 DEF accountVars, AccountInv, ActingInv
<1> QED BY <1>1, <1>2

\* The empty database is allowed.
LEMMA InitAccounts == AccountInit => AccountInv
<1> SUFFICES ASSUME AccountInit PROVE AccountInv
  OBVIOUS
<1> DEFINE any == CHOOSE p \in Passwords : TRUE
           blank(p) == [exists |-> FALSE, role |-> "viewer", active |-> FALSE, password |-> p]
<1>1. any \in Passwords
  BY SomePassword
<1>2. user \in [Users -> UserRow]
  <2> user \in [Users -> {blank(p) : p \in {any}}]
    BY DEF AccountInit
  <2> HIDE DEF any
  <2>1. \A p \in Passwords : blank(p) \in UserRow
    BY DEF UserRow, Roles
  <2> HIDE DEF blank
  <2> QED BY <1>1, <2>1
<1>3. session \in [Tokens -> Users \union {NoUser}]
  BY DEF AccountInit
<1>4. ActingInv
  BY DEF AccountInit, ActingInv, NoActing
<1> QED BY <1>2, <1>3, <1>4 DEF AccountInv

\* The invariant is inductive.
THEOREM AccountInvHolds == AccountSpec => []AccountInv
<1>1. AccountInv /\ [AccountNext]_accountVars => AccountInv'
  BY AccountStep
<1> QED BY InitAccounts, <1>1, PTL DEF AccountSpec

-----------------------------------------------------------------------------
(* Accounts: results *)

\* Users, sessions and the targets of requests stay well typed, for every number
\* of users, sessions and requests.
THEOREM AccountsTyped == AccountSpec => []AccountTypeOK
<1>1. AccountInv => AccountTypeOK
  BY DEF AccountInv, ActingInv, AccountTypeOK
<1> QED BY <1>1, AccountInvHolds, PTL

\* If a step leaves no active administrator where there was one, it is the
\* statement of UpdateUser for an actor that is no active administrator any more:
\* an actor who still is one either is not the target, and stays, or has been
\* stopped by the check.
LEMMA StaleActorStep ==
    ASSUME AccountInv, [AccountNext]_accountVars, Admins # {}, Admins' = {}
    PROVE  \E c \in Clients : acting[c].step = "update" /\ ~IsActiveAdmin(acting[c].actor)
<1>1. user' # user
  BY DEF Admins, IsActiveAdmin
<1>2. PICK c \in Clients : Writes(c)
  BY <1>1, StepKinds, ThinkingKeeps, SessionsKeep DEF accountVars
<1>3. PICK u \in Users : IsActiveAdmin(u)
  BY DEF Admins
<1>4. \A w \in Users : ~IsActiveAdmin(w)'
  BY DEF Admins
<1>5. ~InsertUser(c)
  BY <1>3, <1>4 DEF InsertUser, IsActiveAdmin, AccountInv, UserRow
<1>6. ~UpdatePassword(c)
  BY <1>3, <1>4 DEF UpdatePassword, IsActiveAdmin, AccountInv, UserRow
<1>7. UpdateUserRow(c)
  BY <1>2, <1>5, <1>6 DEF Writes
<1>8. ASSUME IsActiveAdmin(acting[c].actor) PROVE FALSE
  <2>1. /\ acting[c].actor \in Users
        /\ acting[c].target = acting[c].actor => acting[c].role = "admin" /\ acting[c].active
    BY <1>7 DEF UpdateUserRow, AccountInv, ActingInv
  <2>2. IsActiveAdmin(acting[c].actor)'
    BY <1>4, <1>7, <1>8, <2>1 DEF UpdateUserRow, IsActiveAdmin, AccountInv, UserRow
  <2> QED BY <1>4, <1>7, <1>8, <2>1 DEF UpdateUserRow, IsActiveAdmin, AccountInv, UserRow
<1> QED BY <1>7, <1>8 DEF UpdateUserRow

\* Whoever removes the last active administrator has lost that standing since the
\* request was admitted: one administrator alone cannot do it, whatever the
\* requests in flight.
THEOREM LastAdminNeedsStaleActor == AccountSpec => LastAdminByStaleActor
<1>1. AccountInv /\ [AccountNext]_accountVars =>
        [(Admins # {} /\ Admins' = {})
           => \E c \in Clients : acting[c].step = "update" /\ ~IsActiveAdmin(acting[c].actor)]_accountVars
  BY StaleActorStep
<1> QED BY <1>1, AccountInvHolds, PTL DEF AccountSpec, LastAdminByStaleActor

\* Only the statement of a reset changes the password of a user that exists.
LEMMA ResetStep ==
    ASSUME AccountInv, [AccountNext]_accountVars,
           NEW u \in Users, user[u].exists, user'[u].password # user[u].password
    PROVE  \E c \in Clients : /\ acting[c].step = "reset" /\ acting[c].target = u
                              /\ acting'[c] = NoActing
<1>1. user' # user
  OBVIOUS
<1>2. PICK c \in Clients : Writes(c)
  BY <1>1, StepKinds, ThinkingKeeps, SessionsKeep DEF accountVars
<1>3. ~InsertUser(c)
  BY DEF InsertUser, AccountInv, ActingInv, UserRow
<1>4. ~UpdateUserRow(c)
  BY DEF UpdateUserRow, AccountInv, ActingInv, UserRow
<1>5. UpdatePassword(c)
  BY <1>2, <1>3, <1>4 DEF Writes
<1>6. acting[c].target = u
  BY <1>5 DEF UpdatePassword, AccountInv, ActingInv, UserRow
<1> QED BY <1>2, <1>5, <1>6, UserRowKeeps DEF UpdatePassword

\* A password changes by a reset and by nothing else: an update of the user that
\* read the row before does not bring the old one back.
THEOREM ResetsAreKept == AccountSpec => ResetIsKept
<1>1. AccountInv /\ [AccountNext]_accountVars =>
        [\A u \in Users : (user[u].exists /\ user'[u].password # user[u].password)
           => \E c \in Clients : /\ acting[c].step = "reset" /\ acting[c].target = u
                                 /\ acting'[c] = NoActing]_accountVars
  BY ResetStep
<1> QED BY <1>1, AccountInvHolds, PTL DEF AccountSpec, ResetIsKept

-----------------------------------------------------------------------------
(* Requests to the API: the invariant *)

RowOf == [request : Requests, actor : Users \union {NoUser}, status : Codes]

\* The audit log has rows of requests that are over, one of each at most, with
\* the user that admitted the request and what the client was answered.
AuditInv ==
    /\ auditLog \in Seq(RowOf)
    /\ \A i \in DOMAIN auditLog :
          /\ In(auditLog[i].request, "over")
          /\ auditLog[i].actor = request[auditLog[i].request].actor
          /\ auditLog[i].actor \in Users
          /\ auditLog[i].status = request[auditLog[i].request].status
    /\ \A i, j \in DOMAIN auditLog : auditLog[i].request = auditLog[j].request => i = j

\* A request that has reached its handler has a user; one that changed something
\* passes the audit log before it is over, unless the row is lost.
RequestInv ==
    /\ request \in [Requests -> RequestRow]
    /\ changed \subseteq Requests
    /\ \A r \in Requests :
          request[r].step \in {"handler", "audit"} => request[r].actor \in Users
    /\ \A r \in changed :
          \/ In(r, "audit") /\ request[r].write
          \/ In(r, "over") /\ \/ request[r].lost \/ ~Audited(request[r].area)
                              \/ \E i \in DOMAIN auditLog : auditLog[i].request = r

ApiInv == AuditInv /\ RequestInv

-----------------------------------------------------------------------------
(* Requests to the API: steps *)

\* Accounts go on as they do without requests.
THEOREM ApiIncludesAccounts == ApiSpec => AccountSpec
<1>1. [ApiNext]_<<accountVars, apiVars>> => [AccountNext]_accountVars
  BY DEF ApiNext
<1> QED BY <1>1, PTL DEF ApiSpec, AccountSpec

\* A request that is not over goes on, and no row is written.
LEMMA GoingKeeps ==
    ASSUME ApiInv, NEW r \in Requests, NEW q \in RequestRow, Goes(r, q),
           ~In(r, "over"), UNCHANGED auditLog,
           q.step \in {"handler", "audit"} => q.actor \in Users,
           \/ /\ UNCHANGED changed
              /\ \/ ~In(r, "audit")
                 \/ q.step = "audit" /\ q.write = request[r].write
                 \/ q.step = "over" /\ (q.lost \/ ~q.write \/ ~Audited(q.area))
                       /\ q.write = request[r].write
           \/ /\ changed' = changed \union {r} /\ ~In(r, "audit")
              /\ \/ q.step = "audit" /\ q.write
                 \/ q.step = "over" /\ q.lost
    PROVE  ApiInv'
<1> USE DEF ApiInv, RequestInv, In
<1>1. request' = [request EXCEPT ![r] = q] /\ request' \in [Requests -> RequestRow]
  BY DEF Goes
<1>2. request'[r] = q /\ \A s \in Requests \ {r} : request'[s] = request[s]
  BY <1>1
<1>3. \A i \in DOMAIN auditLog : auditLog[i].request \in Requests \ {r}
  <2> SUFFICES ASSUME NEW i \in DOMAIN auditLog PROVE auditLog[i].request \in Requests \ {r}
    OBVIOUS
  <2>1. auditLog[i] \in RowOf /\ request[auditLog[i].request].step = "over"
    BY DEF AuditInv
  <2> QED BY <2>1 DEF RowOf
<1>4. AuditInv'
  BY <1>2, <1>3 DEF AuditInv
<1>5. changed' \subseteq Requests
  OBVIOUS
<1>6. \A s \in Requests : request'[s].step \in {"handler", "audit"} => request'[s].actor \in Users
  BY <1>2
<1>7. ASSUME NEW s \in changed'
      PROVE  \/ request'[s].step = "audit" /\ request'[s].write
             \/ request'[s].step = "over"
                  /\ \/ request'[s].lost \/ ~Audited(request'[s].area)
                     \/ \E i \in DOMAIN auditLog' : auditLog'[i].request = s
  <2>1. CASE s # r
    BY <1>2, <1>7, <2>1
  <2>2. CASE s = r
    BY <1>2, <1>7, <2>2
  <2> QED BY <2>1, <2>2
<1> QED BY <1>1, <1>4, <1>5, <1>6, <1>7

\* Changing one field of a request leaves a request: its step,
LEMMA StepSet ==
    ASSUME NEW q \in RequestRow, NEW step \in RequestSteps
    PROVE  LET n == [q EXCEPT !.step = step]
           IN /\ n \in RequestRow /\ n.step = step /\ n.actor = q.actor /\ n.write = q.write
              /\ n.area = q.area /\ n.lost = q.lost /\ n.status = q.status
BY DEF RequestRow

\* its status,
LEMMA StatusSet ==
    ASSUME NEW q \in RequestRow, NEW status \in Codes
    PROVE  LET n == [q EXCEPT !.status = status]
           IN /\ n \in RequestRow /\ n.step = q.step /\ n.actor = q.actor /\ n.write = q.write
              /\ n.area = q.area /\ n.lost = q.lost /\ n.status = status
BY DEF RequestRow

\* that its row is lost,
LEMMA LostSet ==
    ASSUME NEW q \in RequestRow
    PROVE  LET n == [q EXCEPT !.lost = TRUE]
           IN /\ n \in RequestRow /\ n.step = q.step /\ n.actor = q.actor /\ n.write = q.write
              /\ n.area = q.area /\ n.lost = TRUE /\ n.status = q.status
BY DEF RequestRow

\* that its time is up.
LEMMA LateSet ==
    ASSUME NEW q \in RequestRow
    PROVE  LET n == [q EXCEPT !.late = TRUE]
           IN /\ n \in RequestRow /\ n.step = q.step /\ n.actor = q.actor /\ n.write = q.write
              /\ n.area = q.area /\ n.lost = q.lost /\ n.status = q.status
BY DEF RequestRow

\* The audit middleware inserts the row of a request as it is over.
LEMMA AuditRowKeeps ==
    ASSUME ApiInv, NEW r \in Requests, Record(r)
    PROVE  ApiInv'
<1> DEFINE q == request[r]
           over == [q EXCEPT !.step = "over"]
           lost == [over EXCEPT !.lost = TRUE]
           due == q.write /\ Audited(q.area)
<1>1. /\ q.step = "audit" /\ UNCHANGED changed
      /\ \/ due /\ auditLog' = Append(auditLog, AuditRow(r)) /\ Goes(r, over)
         \/ ~due /\ UNCHANGED auditLog /\ Goes(r, over)
         \/ due /\ UNCHANGED auditLog /\ Goes(r, lost)
  BY DEF Record, In, To
<1>2. q \in RequestRow /\ q.actor \in Users /\ q.status \in Codes
  BY <1>1 DEF ApiInv, RequestInv, RequestRow
<1>3. /\ over \in RequestRow /\ over.step = "over" /\ over.actor = q.actor /\ over.write = q.write
      /\ over.area = q.area /\ over.status = q.status
      /\ lost \in RequestRow /\ lost.step = "over" /\ lost.lost /\ lost.write = q.write
  <2>1. "over" \in RequestSteps
    BY DEF RequestSteps
  <2>2. /\ over \in RequestRow /\ over.step = "over" /\ over.actor = q.actor /\ over.write = q.write
        /\ over.area = q.area /\ over.status = q.status
    BY <1>2, <2>1, StepSet
  <2> HIDE DEF over
  <2>3. lost \in RequestRow /\ lost.step = over.step /\ lost.lost /\ lost.write = over.write
    BY <2>2, LostSet
  <2> QED BY <2>2, <2>3
<1> HIDE DEF over, lost
<1>4. CASE ~due /\ UNCHANGED auditLog /\ Goes(r, over)
  BY <1>1, <1>3, <1>4, GoingKeeps DEF In
<1>5. CASE due /\ UNCHANGED auditLog /\ Goes(r, lost)
  BY <1>1, <1>3, <1>5, GoingKeeps DEF In
<1>6. CASE due /\ auditLog' = Append(auditLog, AuditRow(r)) /\ Goes(r, over)
  <2> DEFINE row == AuditRow(r)
             n == Len(auditLog) + 1
  <2>1. /\ row \in RowOf /\ row.request = r /\ row.actor = q.actor /\ row.status = q.status
    BY <1>2 DEF AuditRow, RowOf
  <2>2. auditLog \in Seq(RowOf) /\ n \in Nat /\ \A i \in DOMAIN auditLog : i \in 1..Len(auditLog)
    BY DEF ApiInv, AuditInv
  <2> HIDE DEF row
  <2>3. /\ auditLog' \in Seq(RowOf) /\ DOMAIN auditLog' = DOMAIN auditLog \union {n}
        /\ n \notin DOMAIN auditLog /\ auditLog'[n] = row
        /\ \A i \in DOMAIN auditLog : auditLog'[i] = auditLog[i]
    BY <1>6, <2>1, <2>2 DEF row
  <2> HIDE DEF n
  <2>4. \A i \in DOMAIN auditLog : auditLog[i] \in RowOf /\ auditLog[i].request \in Requests \ {r}
    <3> SUFFICES ASSUME NEW i \in DOMAIN auditLog
                 PROVE  auditLog[i] \in RowOf /\ auditLog[i].request \in Requests \ {r}
      OBVIOUS
    <3>1. auditLog[i] \in RowOf /\ request[auditLog[i].request].step = "over"
      BY <2>2 DEF ApiInv, AuditInv, In
    <3> QED BY <1>1, <3>1 DEF RowOf
  <2>5. /\ request' \in [Requests -> RequestRow] /\ request'[r] = over
        /\ \A s \in Requests \ {r} : request'[s] = request[s]
    BY <1>3, <1>6 DEF Goes, ApiInv, RequestInv
  <2>6. AuditInv'
    <3>1. ASSUME NEW i \in DOMAIN auditLog'
          PROVE  /\ request'[auditLog'[i].request].step = "over"
                 /\ auditLog'[i].actor = request'[auditLog'[i].request].actor
                 /\ auditLog'[i].actor \in Users
                 /\ auditLog'[i].status = request'[auditLog'[i].request].status
      <4>1. CASE i = n
        BY <1>2, <1>3, <2>1, <2>3, <2>5, <4>1
      <4>2. CASE i \in DOMAIN auditLog
        BY <2>3, <2>4, <2>5, <4>2 DEF ApiInv, AuditInv, In
      <4> QED BY <2>3, <4>1, <4>2
    <3>2. ASSUME NEW i \in DOMAIN auditLog', NEW j \in DOMAIN auditLog',
                 auditLog'[i].request = auditLog'[j].request
          PROVE  i = j
      BY <2>1, <2>3, <2>4, <3>2 DEF ApiInv, AuditInv
    <3> QED BY <2>3, <3>1, <3>2 DEF AuditInv, In
  <2>7. RequestInv'
    <3>1. ASSUME NEW s \in changed
          PROVE  \/ request'[s].step = "audit" /\ request'[s].write
                 \/ request'[s].step = "over"
                      /\ \/ request'[s].lost \/ ~Audited(request'[s].area)
                         \/ \E i \in DOMAIN auditLog' : auditLog'[i].request = s
      <4>1. CASE s = r
        BY <1>3, <2>1, <2>3, <2>5, <4>1
      <4>2. CASE s # r
        BY <2>3, <2>5, <4>2 DEF ApiInv, RequestInv, In
      <4> QED BY <4>1, <4>2
    <3>2. \A s \in Requests : request'[s].step \in {"handler", "audit"} => request'[s].actor \in Users
      BY <1>3, <2>5 DEF ApiInv, RequestInv
    <3> QED BY <1>1, <2>5, <3>1, <3>2 DEF ApiInv, RequestInv, In
  <2> QED BY <2>6, <2>7 DEF ApiInv
<1> QED BY <1>1, <1>4, <1>5, <1>6

\* Of a killed process no request goes on, and no row is written of those it had.
LEMMA KilledKeeps ==
    ASSUME ApiInv, Killed
    PROVE  ApiInv'
<1>1. ASSUME NEW r \in Requests
      PROVE  /\ request'[r] \in RequestRow
             /\ In(r, "over") => request'[r] = request[r]
             /\ \/ request'[r] = request[r] /\ request[r].step \in {"unsent", "over"}
                \/ request'[r].step = "over" /\ request'[r].lost
  <2> DEFINE over == [request[r] EXCEPT !.step = "over"]
             lost == [over EXCEPT !.lost = TRUE]
  <2>1. request[r] \in RequestRow
    BY DEF ApiInv, RequestInv
  <2>2. lost \in RequestRow /\ lost.step = "over" /\ lost.lost
    <3>1. "over" \in RequestSteps
      BY DEF RequestSteps
    <3>2. over \in RequestRow /\ over.step = "over"
      BY <2>1, <3>1, StepSet
    <3> HIDE DEF over
    <3> QED BY <3>2, LostSet
  <2>3. request'[r] = IF request[r].step \in {"unsent", "over"} THEN request[r] ELSE lost
    BY DEF Killed
  <2> HIDE DEF lost
  <2> QED BY <2>1, <2>2, <2>3 DEF In
<1>2. request' \in [Requests -> RequestRow] /\ UNCHANGED <<changed, auditLog>>
  <2>1. request' = [r \in Requests |-> request'[r]]
    BY DEF Killed
  <2> QED BY <1>1, <2>1 DEF Killed
<1>3. \A i \in DOMAIN auditLog : request'[auditLog[i].request] = request[auditLog[i].request]
  <2> SUFFICES ASSUME NEW i \in DOMAIN auditLog
               PROVE  request'[auditLog[i].request] = request[auditLog[i].request]
    OBVIOUS
  <2>1. auditLog[i] \in RowOf /\ In(auditLog[i].request, "over")
    BY DEF ApiInv, AuditInv
  <2> QED BY <1>1, <2>1 DEF RowOf
<1>4. AuditInv'
  BY <1>2, <1>3 DEF ApiInv, AuditInv, In
<1>5. RequestInv'
  BY <1>1, <1>2 DEF ApiInv, RequestInv, In
<1> QED BY <1>4, <1>5 DEF ApiInv

\* A request arrives: whatever it carries, it has no user yet.
LEMMA ReceiveKeeps ==
    ASSUME ApiInv, NEW r \in Requests, NEW write \in BOOLEAN, NEW area \in Areas, NEW t \in Tokens,
           NEW cookie \in CsrfTokens \union {NoCsrf}, NEW header \in CsrfTokens \union {NoCsrf},
           Receive(r, write, area, cookie, header, t)
    PROVE  ApiInv'
<1> DEFINE q == request[r]
           n1 == [q EXCEPT !.step = "csrf"]
           n2 == [n1 EXCEPT !.write = write]
           n3 == [n2 EXCEPT !.area = area]
           n4 == [n3 EXCEPT !.cookie = cookie]
           n5 == [n4 EXCEPT !.header = header]
           n6 == [n5 EXCEPT !.token = t]
           n == [q EXCEPT !.step = "csrf", !.write = write, !.area = area, !.cookie = cookie,
                          !.header = header, !.token = t]
<1>1. q \in RequestRow
  BY DEF ApiInv, RequestInv
<1>2. /\ q.step = "unsent" /\ Goes(r, [n1 EXCEPT !.write = write, !.area = area, !.cookie = cookie,
                                                 !.header = header, !.token = t])
      /\ UNCHANGED <<changed, auditLog>>
  BY DEF Receive, In, To
<1>3. n1 \in RequestRow /\ n1.step = "csrf"
  BY <1>1 DEF RequestRow, RequestSteps
<1> HIDE DEF q, n1
<1>4. [n1 EXCEPT !.write = write, !.area = area, !.cookie = cookie, !.header = header, !.token = t] = n6
  OBVIOUS
<1>5. n2 \in RequestRow /\ n2.step = "csrf"
  BY <1>3 DEF RequestRow
<1> HIDE DEF n2
<1>6. n3 \in RequestRow /\ n3.step = "csrf"
  BY <1>5 DEF RequestRow
<1> HIDE DEF n3
<1>7. n4 \in RequestRow /\ n4.step = "csrf"
  BY <1>6 DEF RequestRow
<1> HIDE DEF n4
<1>8. n5 \in RequestRow /\ n5.step = "csrf"
  BY <1>7 DEF RequestRow
<1> HIDE DEF n5
<1>9. n6 \in RequestRow /\ n6.step = "csrf"
  BY <1>8 DEF RequestRow
<1> HIDE DEF n6
<1>10. request[r].step = "unsent" /\ Goes(r, n6)
  BY <1>2, <1>4 DEF q
<1> QED BY <1>2, <1>9, <1>10, GoingKeeps DEF In

\* A request without its token is over before it has a user.
LEMMA CsrfKeeps ==
    ASSUME ApiInv, NEW r \in Requests, CsrfCheck(r)
    PROVE  ApiInv'
<1> DEFINE q == request[r]
           session1 == [q EXCEPT !.step = "session"]
           over == [q EXCEPT !.step = "over"]
           refused == [over EXCEPT !.status = 403]
<1>1. /\ In(r, "csrf") /\ UNCHANGED <<changed, auditLog>>
      /\ Goes(r, session1) \/ Goes(r, refused)
  BY DEF CsrfCheck, Answered, To
<1>2. q \in RequestRow /\ {"session", "over"} \subseteq RequestSteps /\ 403 \in Codes
  BY DEF ApiInv, RequestInv, RequestSteps, Codes
<1>3. session1 \in RequestRow /\ session1.step = "session"
  BY <1>2, StepSet
<1>4. over \in RequestRow /\ over.step = "over"
  BY <1>2, StepSet
<1> HIDE DEF session1, over
<1>5. refused \in RequestRow /\ refused.step = over.step
  BY <1>2, <1>4, StatusSet
<1> HIDE DEF refused
<1> QED BY <1>1, <1>3, <1>4, <1>5, GoingKeeps DEF In

\* The user of a request is the one its session names then.
LEMMA AuthenticateKeeps ==
    ASSUME ApiInv, AccountInv, NEW r \in Requests, Authenticate(r)
    PROVE  ApiInv'
<1> DEFINE q == request[r]
           u == session[q.token]
           handler == [q EXCEPT !.step = "handler"]
           acted == [handler EXCEPT !.actor = u]
           admitted == [acted EXCEPT !.role = user[u].role]
           over == [q EXCEPT !.step = "over"]
           refused == [over EXCEPT !.status = 401]
<1>1. /\ In(r, "session") /\ UNCHANGED <<changed, auditLog>>
      /\ \/ u # NoUser /\ Goes(r, [handler EXCEPT !.actor = u, !.role = user[u].role])
         \/ Goes(r, refused)
  BY DEF Authenticate, FindUserBySessionHash, Answered, To
<1>2. q \in RequestRow /\ {"handler", "over"} \subseteq RequestSteps /\ 401 \in Codes
  BY DEF ApiInv, RequestInv, RequestSteps, Codes
<1>3. u # NoUser => u \in Users /\ user[u].role \in Roles
  BY <1>2 DEF AccountInv, UserRow, RequestRow
<1>4. handler \in RequestRow /\ handler.step = "handler"
  BY <1>2, StepSet
<1>5. over \in RequestRow /\ over.step = "over"
  BY <1>2, StepSet
<1> HIDE DEF handler, over, u
<1>6. refused \in RequestRow /\ refused.step = "over"
  BY <1>2, <1>5, StatusSet
<1>7. u # NoUser => acted \in RequestRow /\ acted.step = "handler" /\ acted.actor = u
  BY <1>3, <1>4 DEF RequestRow
<1>8. [handler EXCEPT !.actor = u, !.role = user[u].role] = admitted
  OBVIOUS
<1> HIDE DEF acted, refused
<1>9. u # NoUser => admitted \in RequestRow /\ admitted.step = "handler" /\ admitted.actor \in Users
  BY <1>3, <1>7 DEF RequestRow
<1> HIDE DEF admitted
<1>10. CASE u # NoUser /\ Goes(r, admitted)
  BY <1>1, <1>9, <1>10, GoingKeeps DEF In
<1>11. CASE Goes(r, refused)
  BY <1>1, <1>6, <1>11, GoingKeeps DEF In
<1> QED BY <1>1, <1>8, <1>10, <1>11

\* A handler changes something only if the request is a write, and goes on to the
\* audit log, unless it panics.
LEMMA HandlerKeeps ==
    ASSUME ApiInv, NEW r \in Requests, Handle(r) \/ Panics(r)
    PROVE  ApiInv'
<1> DEFINE q == request[r]
           audit == [q EXCEPT !.step = "audit"]
           over == [q EXCEPT !.step = "over"]
           failed == [over EXCEPT !.status = 500]
           lost == [failed EXCEPT !.lost = TRUE]
           answered(s) == [audit EXCEPT !.status = s]
<1>1. q \in RequestRow /\ {"audit", "over"} \subseteq RequestSteps /\ 500 \in Codes
  BY DEF ApiInv, RequestInv, RequestSteps, Codes
<1>2. /\ In(r, "handler") /\ UNCHANGED auditLog
      /\ \/ UNCHANGED changed
         \/ changed' = changed \union {r} /\ q.write
      /\ \/ \E s \in Codes : Goes(r, answered(s))
         \/ Goes(r, [over EXCEPT !.status = 500, !.lost = TRUE])
  <2>1. CASE Handle(r)
    <3>1. PICK s \in Codes, change \in BOOLEAN :
            /\ change => q.write
            /\ Goes(r, [To(r, "audit") EXCEPT !.status = s])
            /\ changed' = IF change THEN changed \union {r} ELSE changed
      BY <2>1 DEF Handle
    <3>2. In(r, "handler") /\ UNCHANGED auditLog
      BY <2>1 DEF Handle
    <3>3. Goes(r, answered(s))
      BY <3>1 DEF To
    <3>4. UNCHANGED changed \/ (changed' = changed \union {r} /\ q.write)
      BY <3>1
    <3> QED BY <3>2, <3>3, <3>4
  <2>2. CASE Panics(r)
    BY <2>2 DEF Panics, To
  <2> QED BY <2>1, <2>2
<1>3. q.actor \in Users
  BY <1>2 DEF ApiInv, RequestInv, In
<1>4. audit \in RequestRow /\ audit.step = "audit" /\ audit.actor = q.actor /\ audit.write = q.write
  BY <1>1, StepSet
<1>5. over \in RequestRow /\ over.step = "over"
  <2>1. "over" \in RequestSteps
    BY <1>1
  <2> QED BY <1>1, <2>1, StepSet
<1> HIDE DEF audit, over
<1>6. \A s \in Codes : /\ answered(s) \in RequestRow /\ answered(s).step = "audit"
                       /\ answered(s).actor \in Users /\ answered(s).write = q.write
  BY <1>3, <1>4, StatusSet
<1>7. failed \in RequestRow /\ failed.step = "over"
  BY <1>1, <1>5, StatusSet
<1>8. [over EXCEPT !.status = 500, !.lost = TRUE] = lost
  OBVIOUS
<1> HIDE DEF failed
<1>9. lost \in RequestRow /\ lost.step = "over" /\ lost.lost
  BY <1>7, LostSet
<1> HIDE DEF answered, lost, q
<1>10. ASSUME NEW s \in Codes, Goes(r, answered(s)) PROVE ApiInv'
  BY <1>2, <1>6, <1>10, GoingKeeps DEF In
<1>11. CASE Goes(r, lost)
  BY <1>2, <1>9, <1>11, GoingKeeps DEF In
<1> QED BY <1>2, <1>8, <1>10, <1>11

\* That the time is up changes nothing else of a request.
LEMMA TimeUpKeeps ==
    ASSUME ApiInv, NEW r \in Requests, TimeUp(r)
    PROVE  ApiInv'
<1> DEFINE q == request[r]
           n == [q EXCEPT !.late = TRUE]
<1>1. q.step \notin {"unsent", "over"} /\ Goes(r, n) /\ UNCHANGED <<changed, auditLog>>
  BY DEF TimeUp
<1>2. q \in RequestRow
  BY DEF ApiInv, RequestInv
<1>3. /\ n \in RequestRow /\ n.step = q.step /\ n.actor = q.actor /\ n.write = q.write
      /\ n.area = q.area
  BY <1>2, LateSet
<1>4. q.step \in {"handler", "audit"} => q.actor \in Users
  BY DEF ApiInv, RequestInv
<1> HIDE DEF n
<1> QED BY <1>1, <1>3, <1>4, GoingKeeps DEF In

-----------------------------------------------------------------------------
(* Requests to the API: results *)

\* Nothing has been sent at first.
LEMMA InitApi == ApiInit => ApiInv
<1> SUFFICES ASSUME ApiInit PROVE ApiInv
  OBVIOUS
<1>1. (CHOOSE t \in Tokens : TRUE) \in Tokens
  BY SomeToken
<1>2. request \in [Requests -> RequestRow]
  BY <1>1 DEF ApiInit, RequestRow, RequestSteps, Areas, Roles, Codes
<1>3. RequestInv
  BY <1>2 DEF ApiInit, RequestInv
<1>4. AuditInv
  BY DEF ApiInit, AuditInv
<1> QED BY <1>3, <1>4 DEF ApiInv

\* A request that goes on, and one that is left alone, keeps the invariant while
\* users and sessions are what AccountInv says.
LEMMA ApiStep ==
    ASSUME ApiInv, AccountInv, RequestNext \/ UNCHANGED apiVars
    PROVE  ApiInv'
<1>1. CASE RequestNext
  BY <1>1, ReceiveKeeps, CsrfKeeps, AuthenticateKeeps, HandlerKeeps, AuditRowKeeps, TimeUpKeeps,
     KilledKeeps DEF RequestNext
<1>2. CASE UNCHANGED apiVars
  BY <1>2 DEF apiVars, ApiInv, AuditInv, RequestInv, In
<1> QED BY <1>1, <1>2

\* Requests, what they changed and the audit log fit together in every reachable
\* state.
THEOREM ApiInvHolds == ApiSpec => []ApiInv
<1>1. ApiInv /\ AccountInv /\ [ApiNext]_<<accountVars, apiVars>> => ApiInv'
  BY ApiStep DEF ApiNext
<1> QED BY InitApi, <1>1, ApiIncludesAccounts, AccountInvHolds, PTL DEF ApiSpec

\* ApiTypeOK: requests, and those that changed something, stay well typed.
THEOREM RequestsTyped == ApiSpec => []ApiTypeOK
<1>1. ApiInv => ApiTypeOK
  BY DEF ApiInv, RequestInv, ApiTypeOK
<1> QED BY <1>1, ApiInvHolds, PTL

\* Each row is of one finished request, and whoever changed something has one.
LEMMA AuditFollows == ApiInv => AuditIsTrue
<1> SUFFICES ASSUME ApiInv PROVE AuditIsTrue
  OBVIOUS
<1>1. AuditMatches
  <2> SUFFICES ASSUME NEW i \in DOMAIN auditLog
               PROVE  LET q == request[auditLog[i].request]
                      IN /\ auditLog[i].actor = q.actor /\ q.actor # NoUser
                         /\ auditLog[i].status = q.status
                         /\ \A j \in DOMAIN auditLog : auditLog[j].request = auditLog[i].request
                                                         => i = j
    BY DEF AuditMatches
  <2> QED BY NoUserIsNoName DEF ApiInv, AuditInv
<1>2. ChangeIsAudited
  <2> SUFFICES ASSUME NEW r \in changed, In(r, "over"), Audited(request[r].area),
                      ~request[r].lost
               PROVE  \E i \in DOMAIN auditLog : auditLog[i].request = r
    BY DEF ChangeIsAudited
  <2> QED BY DEF ApiInv, RequestInv, In
<1> QED BY <1>1, <1>2 DEF AuditIsTrue

\* The audit log tells the truth and all of it: a row names the user whose session
\* admitted the request and what the client was answered, and whoever changed
\* something has one.
THEOREM AuditTellsTruth == ApiSpec => []AuditIsTrue
BY AuditFollows, ApiInvHolds, PTL

-----------------------------------------------------------------------------
(* Migrations *)

\* The version between the INSERT of its mark and the mark that it is clean.
Holds(p, v) == server[p].step \in {"apply", "clean"} /\ server[p].at = v

\* What the step of a process says of the marks: the versions before its own are
\* clean, and a version it has marked is dirty, with or without its SQL.
StepInv ==
    \A p \in Servers :
        LET s == server[p]
        IN /\ s.step \in {"read", "begin", "apply", "clean"} =>
                s.at \in Versions /\ \A w \in 1..(s.at - 1) : mark[w] = "clean"
           /\ s.step = "serving" => \A w \in Versions : mark[w] = "clean"
           /\ s.step = "apply" => mark[s.at] = "dirty" /\ applied[s.at] = 0
           /\ s.step = "clean" => mark[s.at] = "dirty" /\ applied[s.at] = 1

\* The INSERT of the mark is won by one process, for good.
OneHolder == \A p, q \in Servers, v \in Versions : Holds(p, v) /\ Holds(q, v) => p = q

MarkInv ==
    \A v \in Versions :
        /\ mark[v] = "absent" => applied[v] = 0
        /\ mark[v] = "clean" => applied[v] = 1 /\ \A w \in 1..v : mark[w] = "clean"
        /\ applied[v] <= 1

MigrationInv == MigrationTypeOK /\ DOMAIN server = Servers /\ StepInv /\ OneHolder /\ MarkInv

\* The process that reaches the next version, or serves, leaves clean ones behind.
LEMMA NextKeeps ==
    ASSUME MigrationInv, NEW p \in Servers, server[p].at \in Versions,
           \A w \in 1..server[p].at : mark'[w] = "clean",
           \A w \in Versions : mark'[w] = mark[w] \/ w = server[p].at,
           server[p].step \in {"read", "clean"},
           mark'[server[p].at] = "clean", applied[server[p].at] = 1,
           mark' \in [Versions -> {"absent", "dirty", "clean"}],
           server[p].step = "read" => UNCHANGED mark,
           UNCHANGED applied, NextVersion(p, server[p].at)
    PROVE  MigrationInv'
<1> USE LastIsNumber DEF MigrationInv, Versions
<1> DEFINE v == server[p].at
<1>1. \/ v = Last /\ server' = [server EXCEPT ![p] = [step |-> "serving", at |-> v]]
      \/ v < Last /\ server' = [server EXCEPT ![p] = [step |-> "read", at |-> v + 1]]
  BY DEF NextVersion, At, MigrationTypeOK
<1>2. MigrationTypeOK' /\ (DOMAIN server = Servers)'
  <2>1. server'[p] \in [step : Steps, at : Nat \ {0}] /\ DOMAIN server' = Servers
    BY <1>1 DEF Steps
  <2>2. \A q \in Servers \ {p} : server'[q] = server[q]
    BY <1>1
  <2> QED BY <2>1, <2>2 DEF MigrationTypeOK
<1>3. \A q \in Servers, w \in Versions : Holds(q, w)' => Holds(q, w) /\ q # p
  BY <1>1 DEF Holds
<1>4. OneHolder'
  BY <1>3 DEF OneHolder
<1>5. MarkInv'
  BY DEF MarkInv
<1>6. StepInv'
  <2>1. ASSUME NEW q \in Servers, q # p
        PROVE  /\ server'[q] = server[q]
               /\ server[q].step \in {"apply", "clean"} => mark'[server[q].at] = mark[server[q].at]
    <3>1. server'[q] = server[q]
      BY <1>1, <2>1
    <3>2. ASSUME server[q].step \in {"apply", "clean"} PROVE mark'[server[q].at] = mark[server[q].at]
      BY <2>1, <3>2 DEF OneHolder, Holds, StepInv
    <3> QED BY <3>1, <3>2
  <2>2. \A w \in Versions : mark[w] = "clean" => mark'[w] = "clean"
    OBVIOUS
  <2>3. ASSUME NEW q \in Servers, q # p
        PROVE  LET s == server'[q]
               IN /\ s.step \in {"read", "begin", "apply", "clean"} =>
                       s.at \in Versions /\ \A w \in 1..(s.at - 1) : mark'[w] = "clean"
                  /\ s.step = "serving" => \A w \in Versions : mark'[w] = "clean"
                  /\ s.step = "apply" => mark'[s.at] = "dirty" /\ applied'[s.at] = 0
                  /\ s.step = "clean" => mark'[s.at] = "dirty" /\ applied'[s.at] = 1
    BY <2>1, <2>2, <2>3 DEF StepInv
  <2>4. LET s == server'[p]
        IN /\ s.step \in {"read", "begin", "apply", "clean"} =>
                s.at \in Versions /\ \A w \in 1..(s.at - 1) : mark'[w] = "clean"
           /\ s.step = "serving" => \A w \in Versions : mark'[w] = "clean"
           /\ s.step \notin {"apply", "clean"}
    BY <1>1
  <2> QED BY <2>3, <2>4 DEF StepInv
<1> QED BY <1>2, <1>4, <1>5, <1>6

\* A version that is clean has been passed by whoever reads its mark.
LEMMA PassOverKeeps ==
    ASSUME MigrationInv, NEW p \in Servers, PassOver(p)
    PROVE  MigrationInv'
<1>1. /\ server[p].at \in Versions /\ server[p].step = "read"
      /\ \A w \in 1..(server[p].at - 1) : mark[w] = "clean"
      /\ mark[server[p].at] = "clean" /\ UNCHANGED <<mark, applied>>
      /\ NextVersion(p, server[p].at)
  BY DEF PassOver, MigrationInv, StepInv
<1>2. applied[server[p].at] = 1 /\ \A w \in 1..server[p].at : mark[w] = "clean"
  BY <1>1 DEF MigrationInv, MarkInv
<1> QED BY <1>1, <1>2, NextKeeps DEF MigrationInv, MigrationTypeOK

\* A version is marked clean by the process that has committed it.
LEMMA MarkCleanKeeps ==
    ASSUME MigrationInv, NEW p \in Servers, MarkClean(p)
    PROVE  MigrationInv'
<1> USE LastIsNumber DEF MigrationInv, Versions
<1>1. /\ server[p].at \in Versions /\ server[p].step = "clean"
      /\ \A w \in 1..(server[p].at - 1) : mark[w] = "clean"
      /\ applied[server[p].at] = 1 /\ UNCHANGED applied
      /\ NextVersion(p, server[p].at)
      /\ mark' = [mark EXCEPT ![server[p].at] = "clean"]
  BY DEF MarkClean, StepInv
<1>2. /\ mark'[server[p].at] = "clean"
      /\ mark' \in [Versions -> {"absent", "dirty", "clean"}]
      /\ \A w \in Versions : mark'[w] = mark[w] \/ w = server[p].at
  BY <1>1 DEF MigrationTypeOK
<1>3. \A w \in 1..server[p].at : mark'[w] = "clean"
  BY <1>1, <1>2 DEF MigrationTypeOK
<1> QED BY <1>1, <1>2, <1>3, NextKeeps

\* A process that starts, ends, or only looks holds no version afterwards.
LEMMA LookKeeps ==
    ASSUME MigrationInv, NEW p \in Servers,
           Open(p) \/ RefuseDirty(p) \/ SeeAbsent(p) \/ Dies(p)
    PROVE  MigrationInv'
<1> USE LastIsNumber DEF MigrationInv, Versions
<1>1. /\ UNCHANGED <<mark, applied>>
      /\ \/ server' = [server EXCEPT ![p] = [step |-> "down", at |-> 1]]
         \/ Last = 0 /\ server' = [server EXCEPT ![p] = [step |-> "serving", at |-> 1]]
         \/ Last > 0 /\ server' = [server EXCEPT ![p] = [step |-> "read", at |-> 1]]
         \/ /\ server[p].step = "read"
            /\ server' = [server EXCEPT ![p] = [step |-> "begin", at |-> server[p].at]]
  BY DEF Open, RefuseDirty, SeeAbsent, Dies, At
<1>2. MigrationTypeOK' /\ (DOMAIN server = Servers)'
  BY <1>1 DEF MigrationTypeOK, Steps
<1>3. StepInv'
  BY <1>1 DEF StepInv
<1>4. OneHolder'
  BY <1>1 DEF OneHolder, Holds
<1>5. MarkInv'
  BY <1>1 DEF MarkInv
<1> QED BY <1>2, <1>3, <1>4, <1>5

\* The INSERT succeeds only where no other process stands.
LEMMA MarkDirtyKeeps ==
    ASSUME MigrationInv, NEW p \in Servers, MarkDirty(p)
    PROVE  MigrationInv'
<1> USE LastIsNumber DEF MigrationInv, Versions
<1> DEFINE v == server[p].at
<1>1. /\ v \in Versions /\ server[p].step = "begin" /\ mark[v] = "absent"
      /\ \A w \in 1..(v - 1) : mark[w] = "clean"
      /\ mark' = [mark EXCEPT ![v] = "dirty"] /\ UNCHANGED applied
      /\ server' = [server EXCEPT ![p].step = "apply"]
  BY DEF MarkDirty, StepInv
<1>2. MigrationTypeOK' /\ (DOMAIN server = Servers)'
  BY <1>1 DEF MigrationTypeOK, Steps
<1>3. \A q \in Servers : ~Holds(q, v)
  BY <1>1 DEF Holds, StepInv
<1>4. StepInv'
  BY <1>1, <1>3 DEF StepInv, MarkInv, Holds, MigrationTypeOK
<1>5. OneHolder'
  BY <1>1, <1>3 DEF OneHolder, Holds
<1>6. MarkInv'
  BY <1>1 DEF MarkInv, MigrationTypeOK
<1> QED BY <1>2, <1>4, <1>5, <1>6

\* The SQL is committed by the process that holds the version.
LEMMA ApplyKeeps ==
    ASSUME MigrationInv, NEW p \in Servers, Apply(p)
    PROVE  MigrationInv'
<1> USE LastIsNumber DEF MigrationInv, Versions
<1> DEFINE v == server[p].at
<1>1. /\ v \in Versions /\ server[p].step = "apply" /\ mark[v] = "dirty" /\ applied[v] = 0
      /\ \A w \in 1..(v - 1) : mark[w] = "clean"
      /\ applied' = [applied EXCEPT ![v] = 1] /\ UNCHANGED mark
      /\ server' = [server EXCEPT ![p].step = "clean"]
  <2>1. /\ v \in Versions /\ server[p].step = "apply" /\ mark[v] = "dirty" /\ applied[v] = 0
        /\ \A w \in 1..(v - 1) : mark[w] = "clean"
    BY DEF Apply, StepInv
  <2>2. /\ applied' = [applied EXCEPT ![v] = applied[v] + 1] /\ UNCHANGED mark
        /\ server' = [server EXCEPT ![p].step = "clean"]
    BY DEF Apply
  <2> HIDE DEF v
  <2>3. applied[v] + 1 = 1
    BY <2>1
  <2> QED BY <2>1, <2>2, <2>3
<1>2. MigrationTypeOK' /\ (DOMAIN server = Servers)'
  BY <1>1 DEF MigrationTypeOK, Steps
<1>3. \A q \in Servers \ {p} : ~Holds(q, v)
  BY <1>1 DEF Holds, OneHolder
<1>4. StepInv'
  BY <1>1, <1>3 DEF StepInv, Holds, MigrationTypeOK
<1>5. OneHolder'
  BY <1>1, <1>3 DEF OneHolder, Holds
<1>6. MarkInv'
  BY <1>1 DEF MarkInv, MigrationTypeOK
<1> QED BY <1>2, <1>4, <1>5, <1>6

\* Marks, applied migrations and processes fit together in every reachable state.
THEOREM MigrationInvHolds == MigrationSpec => []MigrationInv
<1>1. MigrationInit => MigrationInv
  BY LastIsNumber DEF MigrationInit, MigrationInv, MigrationTypeOK, StepInv, OneHolder, MarkInv,
                      Holds, Versions, Steps
<1>2. MigrationInv /\ [MigrationNext]_migrationVars => MigrationInv'
  <2> SUFFICES ASSUME MigrationInv, [MigrationNext]_migrationVars PROVE MigrationInv'
    OBVIOUS
  <2>1. CASE MigrationNext
    BY <2>1, PassOverKeeps, MarkCleanKeeps, LookKeeps, MarkDirtyKeeps, ApplyKeeps
    DEF MigrationNext
  <2>2. CASE UNCHANGED migrationVars
    BY <2>2 DEF migrationVars, MigrationInv, MigrationTypeOK, StepInv, OneHolder, MarkInv, Holds
  <2> QED BY <2>1, <2>2
<1> QED BY <1>1, <1>2, PTL DEF MigrationSpec

\* Marks and steps stay well typed.
THEOREM MigrationTyped == MigrationSpec => []MigrationTypeOK
<1>1. MigrationInv => MigrationTypeOK
  BY DEF MigrationInv
<1> QED BY <1>1, MigrationInvHolds, PTL

\* However many processes start side by side, and wherever they die, the SQL of a
\* migration is committed at most once, in the order of versions, and a process
\* serves only on a schema that is migrated to the last one.
THEOREM SchemaIsWhole == MigrationSpec => []SchemaWhole
<1>1. MigrationInv => AppliedOnce
  BY DEF MigrationInv, MarkInv, AppliedOnce, MigrationTypeOK
<1>2. MigrationInv => CleanIsApplied
  BY LastIsNumber DEF MigrationInv, MarkInv, CleanIsApplied, Versions
<1>3. MigrationInv => ServesMigrated
  BY DEF MigrationInv, MarkInv, StepInv, ServesMigrated
<1>4. MigrationInv => SchemaWhole
  BY <1>1, <1>2, <1>3 DEF SchemaWhole
<1> QED BY <1>4, MigrationInvHolds, PTL

=============================================================================
