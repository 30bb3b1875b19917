----------------------------- MODULE ApiRequests -----------------------------
(***************************************************************************)
(* A request to the API passes the middlewares of the server one after     *)
(* the other: the timeout, the CSRF check, the lookup of its session, the  *)
(* handler, and on the way back the audit log.  Users and sessions change  *)
(* meanwhile (Accounts).                                                   *)
(***************************************************************************)
EXTENDS Accounts, Sequences

CONSTANTS Requests,    \* requests, each of which is sent once
          CsrfTokens,  \* values of the cookie ibp_csrf_token
          NoCsrf       \* neither cookie nor header

ASSUME NoCsrfIsNoToken == NoCsrf \notin CsrfTokens
ASSUME SomeToken == Tokens # {}

VARIABLES
    request,  \* each request: where it is and what is known of it
    changed,  \* the requests whose handler has changed something
    auditLog  \* audit_logs rows in the order of insertion

apiVars == <<request, changed, auditLog>>

\* Who may write: "hosts" stands for hosts, registries and settings, "tasks" for
\* projects and build tasks.  Artifacts are mounted without the audit log.
Areas == {"hosts", "tasks", "artifacts"}
MayWrite(area) == IF area = "hosts" THEN {"admin"} ELSE {"admin", "maintainer"}
Audited(area) == area # "artifacts"

RequestSteps == {"unsent", "csrf", "session", "handler", "audit", "over"}
Codes == {0, 200, 400, 401, 403, 500}

\* late: the 60 s are over or the client is gone.  lost: the audit log could not
\* be written.
RequestRow == [step : RequestSteps, write : BOOLEAN, area : Areas,
               cookie : CsrfTokens \union {NoCsrf}, header : CsrfTokens \union {NoCsrf},
               token : Tokens, actor : Users \union {NoUser}, role : Roles,
               status : Codes, late : BOOLEAN, lost : BOOLEAN]

In(r, step) == request[r].step = step
Goes(r, q) == request' = [request EXCEPT ![r] = q]
To(r, step) == [request[r] EXCEPT !.step = step]
Answered(r, status) == Goes(r, [To(r, "over") EXCEPT !.status = status])

-----------------------------------------------------------------------------
(* The chain of middlewares *)

Receive(r, write, area, cookie, header, t) ==
    /\ In(r, "unsent")
    /\ Goes(r, [To(r, "csrf") EXCEPT !.write = write, !.area = area,
                                     !.cookie = cookie, !.header = header, !.token = t])
    /\ UNCHANGED <<changed, auditLog>>

\* csrfProtection.middleware
CsrfCheck(r) ==
    LET q == request[r]
    IN /\ In(r, "csrf")
       /\ IF q.write => q.cookie # NoCsrf /\ q.header = q.cookie
            THEN Goes(r, To(r, "session"))
            ELSE Answered(r, 403)
       /\ UNCHANGED <<changed, auditLog>>

\* auth.Middleware: the user of the session, as it is now, goes into the context.
\* A lookup that fails is answered like a missing session.
Authenticate(r) ==
    LET u == session[request[r].token]
    IN /\ In(r, "session")
       /\ \/ /\ FindUserBySessionHash(request[r].token, u) /\ ~request[r].late
             /\ Goes(r, [To(r, "handler") EXCEPT !.actor = u, !.role = user[u].role])
          \/ Answered(r, 401)
       /\ UNCHANGED <<changed, auditLog>>

\* The handler checks the role of that user; what it then does may fail before
\* or after a first change, and changes nothing once the context is done.
Handle(r) ==
    LET q == request[r]
        allowed == q.role \in MayWrite(q.area)
    IN /\ In(r, "handler")
       /\ \E status \in Codes \ {0, 401}, change \in BOOLEAN :
            /\ (q.write /\ ~allowed) <=> status = 403
            /\ change => q.write /\ allowed /\ ~q.late /\ status \in {200, 500}
            /\ Goes(r, [To(r, "audit") EXCEPT !.status = status])
            /\ changed' = IF change THEN changed \union {r} ELSE changed
       /\ UNCHANGED auditLog

\* middleware.Recoverer answers for a handler that panics; the code of the audit
\* middleware after the call of the handler is not reached.
Panics(r) ==
    LET q == request[r]
    IN /\ In(r, "handler")
       /\ Goes(r, [To(r, "over") EXCEPT !.status = 500, !.lost = TRUE])
       /\ changed' \in {changed} \union
            (IF q.write /\ q.role \in MayWrite(q.area) /\ ~q.late THEN {changed \union {r}} ELSE {})
       /\ UNCHANGED auditLog

\* recordInput
AuditRow(r) == [request |-> r, actor |-> request[r].actor, status |-> request[r].status]

\* mutant: the row is written in the context of the request
RecordInRequest(r) ==
    /\ In(r, "audit")
    /\ IF request[r].write /\ Audited(request[r].area) /\ ~request[r].late
         THEN auditLog' = Append(auditLog, AuditRow(r)) ELSE UNCHANGED auditLog
    /\ Goes(r, To(r, "over"))
    /\ UNCHANGED changed

\* audit.Middleware, in a context of its own of 2 s: the INSERT may fail, or find
\* no connection in time.
Record(r) ==
    LET due == request[r].write /\ Audited(request[r].area)
    IN /\ In(r, "audit")
       /\ \/ auditLog' = (IF due THEN Append(auditLog, AuditRow(r)) ELSE auditLog) /\ Goes(r, To(r, "over"))
          \/ due /\ UNCHANGED auditLog /\ Goes(r, [To(r, "over") EXCEPT !.lost = TRUE])
       /\ UNCHANGED changed

\* timeoutExceptLogStreams, or the client has closed the connection.
TimeUp(r) == /\ request[r].step \notin {"unsent", "over"}
             /\ Goes(r, [request[r] EXCEPT !.late = TRUE])
             /\ UNCHANGED <<changed, auditLog>>

\* The process ends with every request in flight.
Killed ==
    /\ request' = [r \in Requests |-> IF request[r].step \in {"unsent", "over"} THEN request[r]
                                      ELSE [request[r] EXCEPT !.step = "over", !.lost = TRUE]]
    /\ UNCHANGED <<changed, auditLog>>

-----------------------------------------------------------------------------

ApiInit ==
    /\ request = [r \in Requests |->
         [step |-> "unsent", write |-> FALSE, area |-> "hosts", cookie |-> NoCsrf, header |-> NoCsrf,
          token |-> CHOOSE t \in Tokens : TRUE, actor |-> NoUser, role |-> "viewer", status |-> 0,
          late |-> FALSE, lost |-> FALSE]]
    /\ changed = {}
    /\ auditLog = <<>>

RequestNext ==
    \/ \E r \in Requests, write \in BOOLEAN, area \in Areas, t \in Tokens :
         \E cookie, header \in CsrfTokens \union {NoCsrf} : Receive(r, write, area, cookie, header, t)
    \/ \E r \in Requests : \/ CsrfCheck(r) \/ Authenticate(r) \/ Handle(r)
                           \/ Panics(r) \/ Record(r) \/ TimeUp(r)
    \/ Killed

ApiNext == \/ RequestNext /\ UNCHANGED accountVars
           \/ AccountNext /\ UNCHANGED apiVars

ApiSpec == AccountInit /\ ApiInit /\ [][ApiNext]_<<accountVars, apiVars>>

-----------------------------------------------------------------------------
(* Properties *)

ApiTypeOK == /\ request \in [Requests -> RequestRow]
             /\ changed \subseteq Requests

\* A request leaves at most one row in the audit log; it names the user whose
\* session admitted the request, whoever has that session or role by now, and the
\* status the client was given.
AuditMatches ==
    \A i \in DOMAIN auditLog :
        LET q == request[auditLog[i].request]
        IN /\ auditLog[i].actor = q.actor /\ q.actor # NoUser
           /\ auditLog[i].status = q.status
           /\ \A j \in DOMAIN auditLog : auditLog[j].request = auditLog[i].request => i = j

\* Whoever changed something behind the audit log has a row in it once the request
\* is over, also when the client had left or the time was up, unless the handler
\* panicked, the INSERT of the row failed or the process ended.
ChangeIsAudited ==
    \A r \in changed : (In(r, "over") /\ Audited(request[r].area) /\ ~request[r].lost)
                          => \E i \in DOMAIN auditLog : auditLog[i].request = r

\* The audit log tells the truth, and all of it: see its two parts.
AuditIsTrue == AuditMatches /\ ChangeIsAudited

=============================================================================
