---------------------------- MODULE HostRegistry ----------------------------
(***************************************************************************)
(* Build hosts as administrators manage them: the build_hosts rows, the    *)
(* SSH keys stored for them and the checks that probe a host between two   *)
(* statements.  What the scheduler does with hosts is in BuildTask.        *)
(***************************************************************************)
EXTENDS Naturals

CONSTANTS Hosts,      \* identifiers id.New may return
          Keys,       \* likewise, for the SSH keys in the credentials table
          Operators,  \* requests in flight at one time
          NoKey

ASSUME NoKeyIsNoId == NoKey \notin Keys

VARIABLES
    host,    \* build_hosts rows
    sshKey,  \* identifiers of the stored SSH keys
    working  \* each request: its step and what it has read

hostVars == <<host, sshKey, working>>

HostStatuses == {"unknown", "online", "offline", "unavailable", "disabled"}
ConnectionTypes == {"local_docker", "ssh"}

HostRow == [exists : BOOLEAN, deleted : BOOLEAN, type : ConnectionTypes, status : HostStatuses,
            key : Keys \union {NoKey}]

NoHost == [exists |-> FALSE, deleted |-> FALSE, type |-> "local_docker", status |-> "unknown",
           key |-> NoKey]

Free == [step |-> "idle"]

HostLive(h) == host[h].exists /\ ~host[h].deleted

\* normalizeInput: a key is ignored for a host reached by the local socket.
HostInputs == {[type |-> "local_docker", withKey |-> FALSE]}
                 \union [type : {"ssh"}, withKey : BOOLEAN]

Turn(o, w) == working' = [working EXCEPT ![o] = w]

-----------------------------------------------------------------------------
(* Rows and keys *)

\* mutant: an identifier may be in use
NewKeyAny(k) == k \in Keys /\ sshKey' = sshKey \union {k}

\* createSSHCredential
NewKey(k) == k \notin sshKey /\ sshKey' = sshKey \union {k}

\* Create stores the key, then the host.
CreateHost(o, h, i) ==
    LET goOn(k) == Turn(o, [step |-> "insert", id |-> h, type |-> i.type, key |-> k])
    IN /\ working[o] = Free
       /\ ~host[h].exists
       /\ IF i.withKey THEN \E k \in Keys : NewKey(k) /\ goOn(k)
                       ELSE goOn(NoKey) /\ UNCHANGED sshKey
       /\ UNCHANGED host

InsertHost(o) ==
    LET w == working[o]
    IN /\ w.step = "insert"
       /\ ~host[w.id].exists
       /\ host' = [host EXCEPT ![w.id] = [NoHost EXCEPT !.exists = TRUE, !.type = w.type,
                                                        !.key = w.key]]
       /\ Turn(o, Free)
       /\ UNCHANGED sshKey

\* Update reads the row, then stores the key: under the identifier of the row's
\* key when it has one, else under a new one.  A local host gives its key up.
ReadHost(o, h, i) ==
    LET row == host[h]
        kept == IF i.type = "local_docker" THEN NoKey ELSE row.key
        goOn(k) == Turn(o, [step |-> "update", id |-> h, type |-> i.type, key |-> k,
                            disabled |-> row.status = "disabled"])
    IN /\ working[o] = Free
       /\ HostLive(h)
       /\ IF i.withKey /\ kept = NoKey THEN \E k \in Keys : NewKey(k) /\ goOn(k)
                                       ELSE goOn(kept) /\ UNCHANGED sshKey
       /\ UNCHANGED host

\* mutant: the type is kept, the key is not
UpdateHostKey(o) ==
    LET w == working[o]
    IN /\ w.step = "update"
       /\ host' = IF HostLive(w.id)
                    THEN [host EXCEPT ![w.id].status = IF w.disabled THEN "disabled" ELSE "unknown",
                                      ![w.id].key = w.key]
                    ELSE host
       /\ Turn(o, Free)
       /\ UNCHANGED sshKey

\* Repository.Update forgets what a check had found.
UpdateHost(o) ==
    LET w == working[o]
    IN /\ w.step = "update"
       /\ host' = IF HostLive(w.id)
                    THEN [host EXCEPT ![w.id].status = IF w.disabled THEN "disabled" ELSE "unknown",
                                      ![w.id].type = w.type, ![w.id].key = w.key]
                    ELSE host
       /\ Turn(o, Free)
       /\ UNCHANGED sshKey

\* Enable and Disable
SetHostStatus(h, s) == /\ HostLive(h)
                       /\ host' = [host EXCEPT ![h].status = s]
                       /\ UNCHANGED <<sshKey, working>>

DeleteHost(h) == /\ HostLive(h)
                 /\ host' = [host EXCEPT ![h].deleted = TRUE]
                 /\ UNCHANGED <<sshKey, working>>

\* The process restarts, which ends every request; EnsureDefaultLocalHost then
\* creates a local host when there is none.
RestartServer ==
    /\ IF \E h \in Hosts : HostLive(h) /\ host[h].type = "local_docker"
         THEN UNCHANGED host
         ELSE \E h \in Hosts : /\ ~host[h].exists
                               /\ host' = [host EXCEPT ![h] = [NoHost EXCEPT !.exists = TRUE]]
    /\ working' = [o \in Operators |-> Free]
    /\ UNCHANGED sshKey

-----------------------------------------------------------------------------
(* Checks *)

\* Check reads the row and its key; a disabled host is not probed.
CheckHost(o, h) ==
    /\ working[o] = Free
    /\ HostLive(h)
    /\ host[h].status # "disabled"
    /\ host[h].type = "ssh" => host[h].key \in sshKey \union {NoKey}
    /\ Turn(o, [step |-> "check", id |-> h, type |-> host[h].type, disabled |-> FALSE])
    /\ UNCHANGED <<host, sshKey>>

\* checkLocalDocker: `docker version` answers or the check fails.
CheckLocalDocker == {"online", "unavailable"}

\* checkSSH: the remote script ends well with its last command, whether or not
\* the `docker version` in it did: a host without Docker is online too.
CheckSSH == {"online", "offline"}

Results == CheckSSH \union CheckLocalDocker

Probe(type) == IF type = "ssh" THEN CheckSSH ELSE CheckLocalDocker

\* mutant: the result is stored whether or not the row was deleted
StoreCheckAny(o, result) ==
    LET w == working[o]
    IN /\ w.step = "check"
       /\ result \in Probe(w.type)
       /\ host' = [host EXCEPT ![w.id].status = result]
       /\ Turn(o, Free)
       /\ UNCHANGED sshKey

\* UpdateCheckResult
StoreCheck(o, result) ==
    LET w == working[o]
    IN /\ w.step = "check"
       /\ result \in Probe(w.type)
       /\ host' = IF HostLive(w.id)
                    THEN [host EXCEPT ![w.id].status = result]
                    ELSE host
       /\ Turn(o, Free)
       /\ UNCHANGED sshKey

\* A statement fails, the client is gone or the 60 s are over.
DropRequest(o) == working[o] # Free /\ Turn(o, Free) /\ UNCHANGED <<host, sshKey>>

-----------------------------------------------------------------------------

HostInit == /\ host = [h \in Hosts |-> NoHost]
            /\ sshKey = {}
            /\ working = [o \in Operators |-> Free]

HostNext ==
    \/ \E o \in Operators, h \in Hosts, i \in HostInputs : CreateHost(o, h, i) \/ ReadHost(o, h, i)
    \/ \E o \in Operators : InsertHost(o) \/ UpdateHost(o) \/ DropRequest(o)
    \/ \E h \in Hosts, s \in {"unknown", "disabled"} : SetHostStatus(h, s)
    \/ \E h \in Hosts : DeleteHost(h)
    \/ \E o \in Operators, h \in Hosts : CheckHost(o, h)
    \/ \E o \in Operators, result \in Results : StoreCheck(o, result)
    \/ RestartServer

HostSpec == HostInit /\ [][HostNext]_hostVars

-----------------------------------------------------------------------------
(* Properties *)

HostTypeOK == /\ host \in [Hosts -> HostRow]
              /\ sshKey \subseteq Keys
              /\ DOMAIN working = Operators

\* The key of a host is stored and is its own, so that storing a new value for it
\* changes no other host, and a host reached by the local socket has none,
\* whichever creations, updates and restarts overlap (Update writes type and key
\* of one reading in one statement).
KeyIsOwn ==
    /\ \A h \in Hosts : /\ host[h].key \in sshKey \union {NoKey}
                        /\ host[h].type = "local_docker" => host[h].key = NoKey
    /\ \A g, h \in Hosts : g # h /\ host[g].key = host[h].key => host[h].key = NoKey

\* What administrators decided stands.  Nothing writes to a deleted host: not the
\* result of a check, nor an update.  A disabled host takes part in scheduling
\* again only by Enable, or by a check or an update that had read it before it was
\* disabled.
HostDecisionStands ==
    [][\A h \in Hosts :
         /\ host[h].deleted => host'[h] = host[h]
         /\ (host[h].status = "disabled" /\ host'[h].status # "disabled")
              => \/ working' = working
                 \/ \E o \in Operators : /\ working[o].step \in {"check", "update"}
                                         /\ working[o].id = h
                                         /\ ~working[o].disabled]_hostVars

=============================================================================
