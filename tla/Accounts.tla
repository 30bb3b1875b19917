------------------------------ MODULE Accounts ------------------------------
(***************************************************************************)
(* Users, their sessions and the requests of administrators.  A request is *)
(* admitted once, by its session, and acts afterwards as the user it was   *)
(* admitted for, whatever becomes of that user meanwhile.                  *)
(***************************************************************************)
EXTENDS Naturals

CONSTANTS Users,      \* usernames; one names one row, which is never deleted
          Passwords,  \* those that validatePassword accepts
          Tokens,     \* session tokens NewSessionToken may return
          Clients,    \* requests in flight at one time
          NoUser

ASSUME NoUserIsNoName == NoUser \notin Users
ASSUME SomePassword == Passwords # {}

VARIABLES
    user,     \* users rows
    session,  \* sessions rows: whose session a token opens
    acting    \* each request: its step and what it has read

accountVars == <<user, session, acting>>

Roles == {"admin", "maintainer", "viewer"}

UserRow == [exists : BOOLEAN, role : Roles, active : BOOLEAN, password : Passwords]

NoActing == [step |-> "idle"]

Act(c, a) == acting' = [acting EXCEPT ![c] = a]

-----------------------------------------------------------------------------
(* The first administrator *)

CountUsers == {u \in Users : user[u].exists}

\* IsInitialized and the hashing of the password precede the INSERT.
InitializeAdmin(c, u, p) ==
    /\ acting[c] = NoActing
    /\ CountUsers = {}
    /\ Act(c, [step |-> "insert", target |-> u, role |-> "admin", password |-> p])
    /\ UNCHANGED <<user, session>>

\* Repository.CreateUser: the username is unique.
InsertUser(c) ==
    LET a == acting[c]
    IN /\ a.step = "insert"
       /\ user' = IF user[a.target].exists
                    THEN user
                    ELSE [user EXCEPT ![a.target] = [exists |-> TRUE, role |-> a.role,
                                                     active |-> TRUE, password |-> a.password]]
       /\ Act(c, NoActing)
       /\ UNCHANGED session

-----------------------------------------------------------------------------
(* Sessions *)

FindUserByUsername(u) == user[u].exists

Login(c, u, p) ==
    /\ acting[c] = NoActing
    /\ FindUserByUsername(u)
    /\ user[u].active /\ user[u].password = p
    /\ Act(c, [step |-> "login", target |-> u])
    /\ UNCHANGED <<user, session>>

CreateSession(c, t) ==
    /\ acting[c].step = "login"
    /\ session[t] = NoUser
    /\ session' = [session EXCEPT ![t] = acting[c].target]
    /\ Act(c, NoActing)
    /\ UNCHANGED user

DeleteSession(t) == session' = [session EXCEPT ![t] = NoUser] /\ UNCHANGED <<user, acting>>

Logout(t) == session[t] # NoUser /\ DeleteSession(t)

\* FindUserBySessionHash finds no user for an expired session: it is as if
\* the row were gone.
SessionExpires(t) == session[t] # NoUser /\ DeleteSession(t)

FindUserBySessionHash(t, u) == session[t] = u /\ u # NoUser /\ user[u].exists /\ user[u].active

-----------------------------------------------------------------------------
(* What administrators do *)

\* requireAdmin
RequireAdmin(c, t) ==
    /\ acting[c] = NoActing
    /\ \E u \in Users : /\ FindUserBySessionHash(t, u)
                        /\ user[u].role = "admin"
                        /\ Act(c, [step |-> "admitted", actor |-> u])
    /\ UNCHANGED <<user, session>>

CreateUser(c, u, role, p) ==
    /\ acting[c].step = "admitted"
    /\ Act(c, [step |-> "insert", target |-> u, role |-> role, password |-> p])
    /\ UNCHANGED <<user, session>>

FindUserByID(u) == user[u].exists

\* mutant: an administrator may give the role up
UpdateUserSelf(c, u, role, active) ==
    LET actor == acting[c].actor
    IN /\ acting[c].step = "admitted"
       /\ FindUserByID(u)
       /\ Act(c, [step |-> "update", actor |-> actor, target |-> u, role |-> role,
                  active |-> active, password |-> user[u].password])
       /\ UNCHANGED <<user, session>>

\* UpdateUser: nobody takes their own role or account away.
UpdateUser(c, u, role, active) ==
    LET actor == acting[c].actor
    IN /\ acting[c].step = "admitted"
       /\ FindUserByID(u)
       /\ u = actor => role = "admin" /\ active
       /\ Act(c, [step |-> "update", actor |-> actor, target |-> u, role |-> role,
                  active |-> active, password |-> user[u].password])
       /\ UNCHANGED <<user, session>>

\* mutant: the row is written as it was read
UpdateUserWhole(c) ==
    LET a == acting[c]
    IN /\ a.step = "update"
       /\ user' = [user EXCEPT ![a.target].role = a.role, ![a.target].active = a.active,
                               ![a.target].password = a.password]
       /\ Act(c, NoActing)
       /\ UNCHANGED session

\* Repository.UpdateUser
UpdateUserRow(c) ==
    LET a == acting[c]
    IN /\ a.step = "update"
       /\ user' = [user EXCEPT ![a.target].role = a.role, ![a.target].active = a.active]
       /\ Act(c, NoActing)
       /\ UNCHANGED session

ResetPassword(c, u, p) ==
    /\ acting[c].step = "admitted"
    /\ FindUserByID(u)
    /\ Act(c, [step |-> "reset", target |-> u, password |-> p])
    /\ UNCHANGED <<user, session>>

\* Sessions that are open stay open.
UpdatePassword(c) ==
    LET a == acting[c]
    IN /\ a.step = "reset"
       /\ user' = [user EXCEPT ![a.target].password = a.password]
       /\ Act(c, NoActing)
       /\ UNCHANGED session

\* A request is refused, a statement fails, or the client goes away.
EndRequest(c) == acting[c] # NoActing /\ Act(c, NoActing) /\ UNCHANGED <<user, session>>

-----------------------------------------------------------------------------

AccountInit == /\ user \in [Users -> {[exists |-> FALSE, role |-> "viewer", active |-> FALSE,
                                       password |-> p] : p \in {CHOOSE p \in Passwords : TRUE}}]
               /\ session = [t \in Tokens |-> NoUser]
               /\ acting = [c \in Clients |-> NoActing]

AccountNext ==
    \/ \E c \in Clients, u \in Users, p \in Passwords :
         \/ InitializeAdmin(c, u, p) \/ Login(c, u, p) \/ ResetPassword(c, u, p)
         \/ \E role \in Roles : CreateUser(c, u, role, p)
    \/ \E c \in Clients, u \in Users, role \in Roles, active \in BOOLEAN : UpdateUser(c, u, role, active)
    \/ \E c \in Clients : InsertUser(c) \/ UpdateUserRow(c) \/ UpdatePassword(c) \/ EndRequest(c)
    \/ \E c \in Clients, t \in Tokens : CreateSession(c, t) \/ RequireAdmin(c, t)
    \/ \E t \in Tokens : Logout(t) \/ SessionExpires(t)

AccountSpec == AccountInit /\ [][AccountNext]_accountVars

-----------------------------------------------------------------------------
(* Properties *)

AccountTypeOK == /\ user \in [Users -> UserRow]
                 /\ session \in [Tokens -> Users \union {NoUser}]
                 /\ \A c \in Clients : "target" \in DOMAIN acting[c] => acting[c].target \in Users

IsActiveAdmin(u) == user[u].exists /\ user[u].active /\ user[u].role = "admin"
Admins == {u \in Users : IsActiveAdmin(u)}

\* The last active administrator is removed only by a request whose actor has
\* lost that standing since the request was admitted: the check of UpdateUser
\* looks at the actor alone, and the actor is a snapshot.
LastAdminByStaleActor ==
    [][(Admins # {} /\ Admins' = {})
         => \E c \in Clients : acting[c].step = "update" /\ ~IsActiveAdmin(acting[c].actor)]_accountVars

\* A password is changed by a reset and by nothing else; in particular an
\* update of the user that read the row before the reset does not undo it.
ResetIsKept ==
    [][\A u \in Users : (user[u].exists /\ user'[u].password # user[u].password)
         => \E c \in Clients : /\ acting[c].step = "reset" /\ acting[c].target = u
                               /\ acting'[c] = NoActing]_accountVars

\* Once the system has been set up there is an active administrator.
OneAdminStays == CountUsers # {} => Admins # {}

=============================================================================
