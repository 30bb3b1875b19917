----------------------------- MODULE BuildFiles -----------------------------
(***************************************************************************)
(* The files of a build: its context directory and its log.  A start       *)
(* prepares them, the build writes the log, viewers follow it, and the     *)
(* retention cleaner deletes what is old.  None of them takes a lock.      *)
(***************************************************************************)
EXTENDS Naturals, Sequences

CONSTANTS FileTasks,  \* build tasks
          Starters,   \* the scheduler and requests that start a task
          Viewers,    \* open log streams
          Days,       \* values of retention.context_days and retention.log_days; 0 is never
          MaxLines    \* bound on the lines ever written to the log of a task

ASSUME DaysAreNumbers == Days \subseteq Nat
ASSUME MaxLinesIsNumber == MaxLines \in Nat

VARIABLES
    taskState,   \* the status of each task, as far as files depend on it
    running,     \* the tasks whose build runs in this process
    contextDir,  \* age of each context directory, by the modification time of the directory
    logFile,     \* each log: whether it exists, its lines, its age
    written,     \* lines written to each log so far: a line is known by its number
    starting,    \* each start: its step
    stream,      \* each log stream
    retention,   \* the stored setting
    cleaner      \* the retention pass in progress

fileVars == <<taskState, running, contextDir, logFile, written, starting, stream, retention, cleaner>>

TaskStates == {"queued", "dispatching", "building", "ended"}

NoLog == [exists |-> FALSE, lines |-> <<>>, old |-> FALSE]
NoStart == [step |-> "idle"]
NoStream == [step |-> "closed"]
NoPass == [step |-> "idle"]

\* aged: a start has found files of an earlier one that were old.  interrupted:
\* the task has ended while its build was running.
Row(state) == [state |-> state, aged |-> FALSE, interrupted |-> FALSE]

\* A line is appended; the file is then as young as can be.
LogAfter(t) == [logFile EXCEPT ![t].lines = Append(@, written[t] + 1), ![t].old = FALSE]

-----------------------------------------------------------------------------
(* Start: the context, the log, then the build *)

\* A queued task is dispatched; one that is being dispatched is started again.
BeginStart(s, t) ==
    /\ starting[s] = NoStart
    /\ taskState[t].state \in {"queued", "dispatching"}
    /\ taskState' = [taskState EXCEPT ![t].state = "dispatching"]
    /\ starting' = [starting EXCEPT ![s] = [step |-> "mkdir", task |-> t]]
    /\ UNCHANGED <<running, contextDir, logFile, written, stream, retention, cleaner>>

\* os.MkdirAll leaves a directory that exists as it is.
MakeContext(s) ==
    LET t == starting[s].task
    IN /\ starting[s].step = "mkdir"
       /\ contextDir' = [contextDir EXCEPT ![t] = IF @ = "none" THEN "fresh" ELSE @]
       /\ taskState' = [taskState EXCEPT ![t].aged = @ \/ contextDir[t] = "old" \/ logFile[t].old]
       /\ starting' = [starting EXCEPT ![s].step = "write"]
       /\ UNCHANGED <<running, logFile, written, stream, retention, cleaner>>

\* The rest of prepareBuildContext.  Files that exist are written in place, which
\* is not a change of the directory; the log begins anew.
WriteContext(s) ==
    LET t == starting[s].task
    IN /\ starting[s].step = "write" /\ contextDir[t] # "none"
       /\ written[t] < MaxLines
       /\ logFile' = [logFile EXCEPT ![t] = [exists |-> TRUE, lines |-> <<written[t] + 1>>, old |-> FALSE]]
       /\ written' = [written EXCEPT ![t] = @ + 1]
       /\ stream' = [v \in Viewers |->
                       IF stream[v].step # "closed" /\ stream[v].task = t
                         THEN [stream[v] EXCEPT !.truncated = TRUE] ELSE stream[v]]
       /\ starting' = [starting EXCEPT ![s].step = "start"]
       /\ UNCHANGED <<taskState, running, contextDir, retention, cleaner>>

Ended(t) == [taskState EXCEPT ![t].state = "ended", ![t].interrupted = t \in running]

\* FailTask: the directory is gone again.  It also ends a task that another start
\* has begun to build.
PrepareFails(s) ==
    LET t == starting[s].task
    IN /\ starting[s].step = "write" /\ contextDir[t] = "none"
       /\ taskState' = IF taskState[t].state = "ended" THEN taskState ELSE Ended(t)
       /\ starting' = [starting EXCEPT ![s] = NoStart]
       /\ UNCHANGED <<running, contextDir, logFile, written, stream, retention, cleaner>>

\* StartBuild: of two starts one finds the task no longer dispatching.
StartBuild(s) ==
    LET t == starting[s].task
        won == taskState[t].state = "dispatching"
    IN /\ starting[s].step = "start"
       /\ taskState' = IF won THEN [taskState EXCEPT ![t].state = "building"] ELSE taskState
       /\ running' = IF won THEN running \union {t} ELSE running
       /\ starting' = [starting EXCEPT ![s] = NoStart]
       /\ UNCHANGED <<contextDir, logFile, written, stream, retention, cleaner>>

-----------------------------------------------------------------------------
(* The build *)

BuildWrites(t) ==
    /\ t \in running /\ logFile[t].exists /\ written[t] < MaxLines
    /\ logFile' = LogAfter(t)
    /\ written' = [written EXCEPT ![t] = @ + 1]
    /\ UNCHANGED <<taskState, running, contextDir, starting, stream, retention, cleaner>>

\* The executor has returned and closed the log before the status is written.
BuildEnds(t) ==
    /\ t \in running
    /\ running' = running \ {t}
    /\ taskState' = IF taskState[t].state = "building"
                      THEN [taskState EXCEPT ![t].state = "ended"] ELSE taskState
    /\ UNCHANGED <<contextDir, logFile, written, starting, stream, retention, cleaner>>

\* The status of a cancelled task is written while its commands are being killed.
CancelTask(t) ==
    /\ taskState[t].state # "ended"
    /\ taskState' = Ended(t)
    /\ UNCHANGED <<running, contextDir, logFile, written, starting, stream, retention, cleaner>>

-----------------------------------------------------------------------------
(* streamLogs *)

OpenStream(v, t) ==
    /\ stream[v] = NoStream
    /\ taskState[t].state # "queued" /\ logFile[t].exists
    /\ stream' = [stream EXCEPT ![v] = [step |-> "read", task |-> t, offset |-> 0, sent |-> <<>>,
                                        truncated |-> FALSE]]
    /\ UNCHANGED <<taskState, running, contextDir, logFile, written, starting, retention, cleaner>>

\* A file that is shorter than what has been sent is sent from its beginning.
From(offset, size) == IF size < offset THEN 0 ELSE offset

\* writeLogStreamChunk
SendChunk(v, next) ==
    LET w == stream[v]
        lines == logFile[w.task].lines
        from == From(w.offset, Len(lines))
    IN [w EXCEPT !.step = next, !.offset = Len(lines), !.sent = @ \o SubSeq(lines, from + 1, Len(lines))]

ReadChunk(v) ==
    /\ stream[v].step = "read" /\ logFile[stream[v].task].exists
    /\ stream' = [stream EXCEPT ![v] = SendChunk(v, "ask")]
    /\ UNCHANGED <<taskState, running, contextDir, logFile, written, starting, retention, cleaner>>

\* mutant: the stream is done as soon as its task is
AskDone(v) ==
    /\ stream[v].step = "ask"
    /\ stream' = [stream EXCEPT ![v].step = IF taskState[stream[v].task].state = "ended"
                                              THEN "done" ELSE "read"]
    /\ UNCHANGED <<taskState, running, contextDir, logFile, written, starting, retention, cleaner>>

\* The status is read after the file; when it is final the file is read once more.
AskStatus(v) ==
    /\ stream[v].step = "ask"
    /\ stream' = [stream EXCEPT ![v].step = IF taskState[stream[v].task].state = "ended"
                                              THEN "final" ELSE "read"]
    /\ UNCHANGED <<taskState, running, contextDir, logFile, written, starting, retention, cleaner>>

FinalChunk(v) ==
    /\ stream[v].step = "final" /\ logFile[stream[v].task].exists
    /\ stream' = [stream EXCEPT ![v] = SendChunk(v, "done")]
    /\ UNCHANGED <<taskState, running, contextDir, logFile, written, starting, retention, cleaner>>

\* The viewer leaves, or the log is gone.
CloseStream(v) ==
    /\ stream[v] # NoStream
    /\ stream' = [stream EXCEPT ![v] = NoStream]
    /\ UNCHANGED <<taskState, running, contextDir, logFile, written, starting, retention, cleaner>>

-----------------------------------------------------------------------------
(* Retention *)

\* normalizeValue refuses what is not a number of days.
UpdateSetting(days) ==
    /\ days \in Days
    /\ retention' = days
    /\ UNCHANGED <<taskState, running, contextDir, logFile, written, starting, stream, cleaner>>

\* settingInt falls back only on what cannot have been stored.
SettingInt(stored, fallback) == IF stored \in Nat THEN stored ELSE fallback

Fallback == 30  \* the configured default

\* RunOnce: a setting that cannot be read is the configured default.
RunOnce(readable) ==
    /\ cleaner = NoPass
    /\ (IF readable THEN SettingInt(retention, Fallback) ELSE Fallback) > 0
    /\ cleaner' = [step |-> "pass"]
    /\ UNCHANGED <<taskState, running, contextDir, logFile, written, starting, stream, retention>>

\* mutant: what is younger than the retention period is deleted
OldEnoughYoung(kind, t) == IF kind = "context" THEN contextDir[t] = "fresh" ELSE logFile[t].exists

\* entry.Info: the modification time of the directory or file itself.
OldEnough(kind, t) == IF kind = "context" THEN contextDir[t] = "old"
                                          ELSE logFile[t].exists /\ logFile[t].old

\* cleanupChildrenOlderThan looks at an entry, then removes it.
SeeOld(kind, t) ==
    /\ cleaner.step = "pass"
    /\ OldEnough(kind, t)
    /\ cleaner' = [step |-> "remove", kind |-> kind, task |-> t]
    /\ UNCHANGED <<taskState, running, contextDir, logFile, written, starting, stream, retention>>

RemoveOld ==
    /\ cleaner.step = "remove"
    /\ IF cleaner.kind = "context"
         THEN contextDir' = [contextDir EXCEPT ![cleaner.task] = "none"] /\ UNCHANGED logFile
         ELSE logFile' = [logFile EXCEPT ![cleaner.task] = NoLog] /\ UNCHANGED contextDir
    /\ cleaner' = [step |-> "pass"]
    /\ UNCHANGED <<taskState, running, written, starting, stream, retention>>

EndPass ==
    /\ cleaner.step = "pass"
    /\ cleaner' = NoPass
    /\ UNCHANGED <<taskState, running, contextDir, logFile, written, starting, stream, retention>>

-----------------------------------------------------------------------------
(* Time and restarts *)

\* More than the retention period passes.  No build and no start takes that long:
\* build.timeout_minutes is assumed to be shorter.
TimePasses(t) ==
    /\ t \notin running
    /\ \A s \in Starters : starting[s] # NoStart => starting[s].task # t
    /\ cleaner.step # "remove"
    /\ contextDir' = [contextDir EXCEPT ![t] = IF @ = "fresh" THEN "old" ELSE @]
    /\ logFile' = [logFile EXCEPT ![t].old = @ \/ logFile[t].exists]
    /\ UNCHANGED <<taskState, running, written, starting, stream, retention, cleaner>>

Restart ==
    /\ running' = {}
    /\ starting' = [s \in Starters |-> NoStart]
    /\ stream' = [v \in Viewers |-> NoStream]
    /\ cleaner' = NoPass
    /\ UNCHANGED <<taskState, contextDir, logFile, written, retention>>

-----------------------------------------------------------------------------

FileInit ==
    /\ taskState = [t \in FileTasks |-> Row("queued")]
    /\ running = {}
    /\ contextDir = [t \in FileTasks |-> "none"]
    /\ logFile = [t \in FileTasks |-> NoLog]
    /\ written = [t \in FileTasks |-> 0]
    /\ starting = [s \in Starters |-> NoStart]
    /\ stream = [v \in Viewers |-> NoStream]
    /\ retention \in Days
    /\ cleaner = NoPass

FileNext ==
    \/ \E s \in Starters : \/ \E t \in FileTasks : BeginStart(s, t)
                           \/ MakeContext(s) \/ WriteContext(s) \/ PrepareFails(s) \/ StartBuild(s)
    \/ \E t \in FileTasks : BuildWrites(t) \/ BuildEnds(t) \/ CancelTask(t) \/ TimePasses(t)
    \/ \E v \in Viewers : \/ \E t \in FileTasks : OpenStream(v, t)
                          \/ ReadChunk(v) \/ AskStatus(v) \/ FinalChunk(v) \/ CloseStream(v)
    \/ \E days \in Days : UpdateSetting(days)
    \/ \E readable \in BOOLEAN : RunOnce(readable)
    \/ \E kind \in {"context", "log"}, t \in FileTasks : SeeOld(kind, t)
    \/ RemoveOld \/ EndPass \/ Restart

FileSpec == FileInit /\ [][FileNext]_fileVars

-----------------------------------------------------------------------------
(* Properties *)

FileTypeOK == /\ \A t \in FileTasks : taskState[t].state \in TaskStates
              /\ running \subseteq FileTasks
              /\ contextDir \in [FileTasks -> {"none", "fresh", "old"}]
              /\ \A t \in FileTasks : logFile[t].lines \in Seq(1..MaxLines)
              /\ written \in [FileTasks -> 0..MaxLines]
              /\ retention \in Days

\* A build keeps its context directory and its log while it runs, whatever the
\* cleaner does, unless they were old already when the start found them: preparing
\* a context again does not make its directory any younger.
RunningKeepsFiles ==
    \A t \in running : /\ contextDir[t] = "none" => taskState[t].aged
                       /\ logFile[t].exists \/ taskState[t].aged

\* A stream sends the log line by line from its beginning, leaves out nothing and
\* repeats nothing, unless another start of the task truncated the log meanwhile.
StreamIsPrefix ==
    \A v \in Viewers : (stream[v].step # "closed" /\ logFile[stream[v].task].exists /\ ~stream[v].truncated)
        => LET lines == logFile[stream[v].task].lines
               count == Len(stream[v].sent)
           IN count <= Len(lines) /\ stream[v].sent = SubSeq(lines, 1, count)

\* A stream that says it is done has sent the whole log, unless the task ended
\* while its build was still being killed, or the log was truncated.
DoneIsComplete ==
    \A v \in Viewers :
        (/\ stream[v].step = "done" /\ ~stream[v].truncated
         /\ logFile[stream[v].task].exists /\ ~taskState[stream[v].task].interrupted)
        => stream[v].sent = logFile[stream[v].task].lines

\* What a viewer is sent is the log of the build: see the two parts.
StreamIsFaithful == StreamIsPrefix /\ DoneIsComplete

=============================================================================
