------------------------------ MODULE Executor ------------------------------
(***************************************************************************)
(* LocalDockerExecutor: a task is built and then pushed, an artifact is    *)
(* pushed again.  Each call is a sequence of docker and ssh commands.  A   *)
(* command that succeeds may defer a cleanup; when one fails, or the last  *)
(* one is done, the deferred cleanups run, the latest first.               *)
(***************************************************************************)
EXTENDS Naturals, Sequences

CONSTANTS Ops,      \* tasks and repush operations, by their identifier
          Refs,     \* image references
          Calls,    \* kinds of call that are made, a subset of {"build", "repush"}
          Secrets,  \* whether the registry has credentials, a subset of BOOLEAN
          NoImage   \* a reference that names no image on a host

ASSUME NoImageIsNoOp == NoImage \notin Ops
ASSUME HomeIsNoOp == Ops \intersect {"home", "remoteHome"} = {}
ASSUME SomeRef == Refs # {}
ASSUME SecretsAreFlags == Secrets \subseteq BOOLEAN

VARIABLES
    op,       \* each operation: its call, the commands left, the deferred cleanups
    keyFiles, \* identity files each operation has in the temporary directory
    left,     \* directories each operation has on its host
    login,    \* docker configurations that hold the credentials of the registry
    image     \* what a reference names on a host: the task that built it

execVars == <<op, keyFiles, left, login, image>>

Commands == {"identity", "upload", "mkconfig", "login", "tag", "build", "push", "inspect"}
Cleanups == {"removeKey", "removeContext", "removeConfig", "logout"}
Directories == {"context", "config"}
Configs == Ops \union {"home", "remoteHome"}
Images == Ops \union {NoImage}

\* failed: the ssh commands that failed; taken, pushed, got: the image that was
\* tagged or built, pushed, inspected last; moved: another operation has given
\* the reference to another image meanwhile.
OpRow == [call : {"none", "build", "push", "repush"}, result : {"none", "running", "ok", "failed"},
          ssh : BOOLEAN, secret : BOOLEAN, ref : Refs, source : Refs,
          todo : Seq(Commands), defers : Seq(Cleanups),
          failed : SUBSET (Commands \union Cleanups),
          taken : Images, pushed : Images, got : Images, moved : BOOLEAN]

Running(o) == op[o].result = "running"

When(condition, commands) == IF condition THEN commands ELSE <<>>

-----------------------------------------------------------------------------
(* The commands of each call *)

BuildLocal(secret) == When(secret, <<"login">>) \o <<"build", "inspect">>

BuildSSH(secret) ==
    <<"identity", "upload">> \o When(secret, <<"mkconfig", "login">>) \o <<"build", "inspect">>

PushLocal(secret) == <<"mkconfig">> \o When(secret, <<"login">>) \o <<"push", "inspect">>

PushSSH(secret) == <<"identity", "mkconfig">> \o When(secret, <<"login">>) \o <<"push", "inspect">>

RepushLocal(secret, source, target) == When(source # target, <<"tag">>) \o PushLocal(secret)

\* The push prepares an identity of its own.
RepushSSH(secret, source, target) ==
    <<"identity">> \o When(source # target, <<"tag">>) \o PushSSH(secret)

\* mutant: a push uses the configuration of the user, like a local build
LoginConfigHome(o) == IF op[o].ssh THEN o ELSE "home"

\* Where credentials are stored: a local build has no configuration of its own.
LoginConfig(o) == IF op[o].call = "build" /\ ~op[o].ssh THEN "home" ELSE o

\* Where a command looks for them.  The remote build is
\* DOCKER_CONFIG=... cd ... && docker build ..., which sets the variable for cd.
UsedConfig(o, command) ==
    IF command = "build" THEN IF op[o].ssh THEN "remoteHome" ELSE "home" ELSE LoginConfig(o)

\* mutant: the configuration directory is removed only with the login in it
DeferForLogin(command) ==
    CASE command = "identity" -> <<"removeKey">> [] command = "upload" -> <<"removeContext">>
      [] command = "login" -> <<"logout", "removeConfig">> [] OTHER -> <<>>

\* mutant: the key file is removed twice
DeferKeyTwice(command) ==
    CASE command = "identity" -> <<"removeKey", "removeKey">>
      [] command = "upload" -> <<"removeContext">> [] command = "mkconfig" -> <<"removeConfig">>
      [] command = "login" -> <<"logout">> [] OTHER -> <<>>

DeferredFor(command) ==
    CASE command = "identity" -> <<"removeKey">> [] command = "upload" -> <<"removeContext">>
      [] command = "mkconfig" -> <<"removeConfig">> [] command = "login" -> <<"logout">>
      [] OTHER -> <<>>

-----------------------------------------------------------------------------
(* What commands do *)

Place(o) == <<op[o].ssh, op[o].ref>>

\* The image a command leaves under the operation's reference.
ImageAfter(o, command) == CASE command = "build" -> o
                            [] command = "tag" -> image[<<op[o].ssh, op[o].source>>]
                            [] OTHER -> image[Place(o)]

\* prepareSSHIdentity, uploadSSHContext, `docker login`, `docker build`, ...
Effect(o, command) ==
    /\ keyFiles' = IF command = "identity" THEN [keyFiles EXCEPT ![o] = @ + 1] ELSE keyFiles
    /\ left' = CASE command = "upload" -> [left EXCEPT ![o] = @ \union {"context"}]
                 [] command = "mkconfig" -> [left EXCEPT ![o] = @ \union {"config"}]
                 [] OTHER -> left
    /\ login' = IF command = "login" THEN login \union {LoginConfig(o)}
                ELSE IF command = "mkconfig" THEN login \ {o} ELSE login
    /\ image' = [image EXCEPT ![Place(o)] = ImageAfter(o, command)]

\* The others that use the reference find another image under it.
Moved(o, command) ==
    {p \in Ops \ {o} : command \in {"build", "tag"} /\ op[p].call # "none" /\ Place(p) = Place(o)}

\* A registry that wants credentials refuses a build or a push without them.
MaySucceed(o, command) ==
    /\ command \in {"build", "push"} /\ op[o].secret => UsedConfig(o, command) \in login
    /\ command \in {"tag", "push", "inspect"} => ImageAfter(o, command) # NoImage

CommandSucceeds(o) ==
    LET command == Head(op[o].todo)
    IN /\ Running(o) /\ op[o].todo # <<>>
       /\ MaySucceed(o, command)
       /\ Effect(o, command)
       /\ op' = [p \in Ops |->
                   IF p = o
                     THEN [op[o] EXCEPT !.todo = Tail(@), !.defers = DeferredFor(command) \o @,
                             !.taken = IF command \in {"tag", "build"} THEN image'[Place(o)] ELSE @,
                             !.pushed = IF command = "push" THEN image[Place(o)] ELSE @,
                             !.got = IF command = "inspect" THEN image[Place(o)] ELSE @]
                     ELSE [op[p] EXCEPT !.moved = @ \/ p \in Moved(o, command)]]

\* What a command may have done before it failed, or was killed because the task
\* was cancelled, its time was up or the request was over.
MayBeDone(o, command) == /\ command \notin {"identity", "inspect"}
                         /\ command = "mkconfig" => op[o].ssh
                         /\ ImageAfter(o, command) # NoImage \/ command # "tag"

CommandFails(o, done) ==
    LET command == Head(op[o].todo)
    IN /\ Running(o) /\ op[o].todo # <<>>
       /\ IF done THEN MayBeDone(o, command) /\ Effect(o, command)
                  ELSE UNCHANGED <<keyFiles, left, login, image>>
       /\ op' = [p \in Ops |->
                   IF p = o THEN [op[o] EXCEPT !.todo = <<>>, !.failed = @ \union {command}]
                            ELSE [op[p] EXCEPT !.moved = @ \/ (done /\ p \in Moved(o, command))]]

\* The latest deferred cleanup.  Those that run a command may fail, which is
\* written to the log; they do not use the context of the call.
Unwind(o) ==
    LET cleanup == Head(op[o].defers)
        Clean == /\ keyFiles' = IF cleanup = "removeKey" THEN [keyFiles EXCEPT ![o] = @ - 1] ELSE keyFiles
                 /\ left' = CASE cleanup = "removeContext" -> [left EXCEPT ![o] = @ \ {"context"}]
                              [] cleanup = "removeConfig" -> [left EXCEPT ![o] = @ \ {"config"}]
                              [] OTHER -> left
                 /\ login' = CASE cleanup = "logout" -> login \ {LoginConfig(o)}
                               [] cleanup = "removeConfig" -> login \ {o}
                               [] OTHER -> login
    IN /\ Running(o) /\ op[o].todo = <<>> /\ op[o].defers # <<>>
       /\ \/ Clean /\ op' = [op EXCEPT ![o].defers = Tail(@)]
          \/ /\ cleanup = "logout" \/ (op[o].ssh /\ cleanup # "removeKey")
             /\ op' = [op EXCEPT ![o].defers = Tail(@), ![o].failed = @ \union {cleanup}]
             /\ UNCHANGED <<keyFiles, left, login>>
       /\ UNCHANGED image

-----------------------------------------------------------------------------
(* Calls *)

\* A task or a repush comes into being, on some host, for some registry.
Build(o, ssh, secret, ref) ==
    /\ "build" \in Calls /\ op[o].call = "none"
    /\ op' = [op EXCEPT ![o].call = "build", ![o].result = "running", ![o].ssh = ssh,
                        ![o].secret = secret, ![o].ref = ref,
                        ![o].todo = IF ssh THEN BuildSSH(secret) ELSE BuildLocal(secret)]
    /\ UNCHANGED <<keyFiles, left, login, image>>

\* mutant: every push uses one reference
PushOneRef(o, secret) ==
    /\ op[o].call = "build" /\ op[o].result = "ok"
    /\ op' = [op EXCEPT ![o].call = "push", ![o].result = "running", ![o].secret = secret,
                        ![o].ref = CHOOSE ref \in Refs : TRUE,
                        ![o].todo = IF op[o].ssh THEN PushSSH(secret) ELSE PushLocal(secret)]
    /\ UNCHANGED <<keyFiles, left, login, image>>

\* The task goes on to its push.
Push(o, secret) ==
    /\ op[o].call = "build" /\ op[o].result = "ok"
    /\ op' = [op EXCEPT ![o].call = "push", ![o].result = "running", ![o].secret = secret,
                        ![o].todo = IF op[o].ssh THEN PushSSH(secret) ELSE PushLocal(secret)]
    /\ UNCHANGED <<keyFiles, left, login, image>>

\* An artifact is pushed again, under the reference the other registry gives it.
Repush(o, ssh, secret, source, target) ==
    /\ "repush" \in Calls /\ op[o].call = "none"
    /\ image[<<ssh, source>>] # NoImage
    /\ op' = [op EXCEPT ![o].call = "repush", ![o].result = "running", ![o].ssh = ssh,
                        ![o].secret = secret, ![o].ref = target, ![o].source = source,
                        ![o].taken = image[<<ssh, source>>],
                        ![o].todo = IF ssh THEN RepushSSH(secret, source, target)
                                           ELSE RepushLocal(secret, source, target)]
    /\ UNCHANGED <<keyFiles, left, login, image>>

CallReturns(o) ==
    /\ Running(o) /\ op[o].todo = <<>> /\ op[o].defers = <<>>
    /\ op' = [op EXCEPT ![o].result = IF op[o].failed \intersect Commands = {} THEN "ok" ELSE "failed"]
    /\ UNCHANGED <<keyFiles, left, login, image>>

-----------------------------------------------------------------------------

ExecInit ==
    /\ LET ref == CHOOSE ref \in Refs : TRUE
       IN op = [o \in Ops |-> [call |-> "none", result |-> "none", ssh |-> FALSE, secret |-> FALSE,
                               ref |-> ref, source |-> ref, todo |-> <<>>, defers |-> <<>>,
                               failed |-> {}, taken |-> NoImage,
                               pushed |-> NoImage, got |-> NoImage, moved |-> FALSE]]
    /\ keyFiles = [o \in Ops |-> 0]
    /\ left = [o \in Ops |-> {}]
    /\ login = {}
    /\ image = [place \in BOOLEAN \X Refs |-> NoImage]

ExecNext ==
    \/ \E o \in Ops, ssh \in BOOLEAN, secret \in Secrets, ref \in Refs :
         \/ Build(o, ssh, secret, ref)
         \/ \E source \in Refs : Repush(o, ssh, secret, source, ref)
    \/ \E o \in Ops, secret \in Secrets : Push(o, secret)
    \/ \E o \in Ops : CommandSucceeds(o) \/ Unwind(o) \/ CallReturns(o)
    \/ \E o \in Ops, done \in BOOLEAN : CommandFails(o, done)

ExecSpec == ExecInit /\ [][ExecNext]_execVars

-----------------------------------------------------------------------------
(* Properties *)

ExecTypeOK == /\ op \in [Ops -> OpRow]
              /\ keyFiles \in [Ops -> 0..2]
              /\ left \in [Ops -> SUBSET Directories]
              /\ login \subseteq Configs
              /\ image \in [BOOLEAN \X Refs -> Images]

AboutTo(o, command) == Running(o) /\ op[o].todo # <<>> /\ Head(op[o].todo) = command

LoggedIn(o, command) == AboutTo(o, command) /\ op[o].secret => UsedConfig(o, command) \in login

\* A push runs with the credentials it was given, whatever logs in or out on the
\* same machine at the time: its docker configuration is its own.
PushLoggedIn == \A o \in Ops : LoggedIn(o, "push")

\* A call that has returned leaves no key file, no context and no credentials
\* behind, however it ended, unless the ssh command that created or that removed
\* them failed; and the user's own configuration is logged in only if a `docker
\* login` or a `docker logout` failed.
LeftoversFailed ==
    /\ \A o \in Ops : ~Running(o) =>
         LET Failed(commands) == op[o].failed \intersect commands # {}
         IN /\ keyFiles[o] = 0
            /\ "context" \in left[o] => Failed({"upload", "removeContext"})
            /\ "config" \in left[o] => op[o].ssh /\ Failed({"mkconfig", "removeConfig"})
            /\ o \in login => "config" \in left[o]
    /\ ("home" \in login /\ \A o \in Ops : ~Running(o))
         => \E o \in Ops : op[o].failed \intersect {"login", "logout"} # {}

\* A push pushes the image the task built, or the repush was asked for, and reports
\* that image, unless another operation has given the same reference on the same
\* host to an image of its own in between.
OwnImage ==
    \A o \in Ops : (op[o].call \in {"push", "repush"} /\ op[o].pushed # NoImage /\ ~op[o].moved)
        => /\ op[o].pushed = op[o].taken
           /\ op[o].call = "push" => op[o].taken = o
           /\ op[o].result = "ok" => op[o].got = op[o].pushed

\* A local build has the credentials of its pull registry until it ends.
LocalPullLoggedIn == \A o \in Ops : ~op[o].ssh => LoggedIn(o, "build")

\* A remote build uses the docker configuration that was logged in for it.
RemotePullLoggedIn == \A o \in Ops : op[o].ssh => LoggedIn(o, "build")

=============================================================================
