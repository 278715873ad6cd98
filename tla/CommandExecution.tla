--------------------------- MODULE CommandExecution ---------------------------
(***************************************************************************)
(* One ExecutorJob with its ProcessCommandExecutor, its JsCommandExecutor   *)
(* and its QbsProcess, for the time of one build.  The job is handed one     *)
(* transformer after the other and runs the commands of each in order; its   *)
(* two command executors are reused by all of them.                          *)
(*                                                                           *)
(* Threads: the executor's thread runs the job, both executors and the       *)
(* QbsProcess; every action of it is one event that its event loop handles,  *)
(* with everything the handler calls.  The JavaScript thread evaluates       *)
(* scripts.  The process launcher, a process of its own, is reduced here to  *)
(* the signals it causes; ProcessLauncher models it.                         *)
(***************************************************************************)
EXTENDS Naturals, Sequences

CONSTANTS
    Transformers,   \* the command lists a transformer may have
    MaxRuns,        \* bound on the transformers given to this job
    MaxPauses       \* bound on the scripts of rules that are interrupted

Command == [kind : {"process", "js"},   \* ProcessCommand or JavaScriptCommand
            timeout : BOOLEAN,          \* the command has a time limit
            dry : BOOLEAN]              \* a dry run that the command does not ignore

ASSUME TransformersAssumption == Transformers \subseteq Seq(Command)
ASSUME BoundsAssumption == MaxRuns \in Nat /\ MaxPauses \in Nat

VARIABLES
    job,            \* ExecutorJob: its transformer's commands and its place in them
    watchdog,       \* AbstractCommandExecutor::m_watchdog of both executors
    cancelReason,   \* ProcessCommandExecutor::m_cancelReason holds an error
    process,        \* QbsProcess: m_state, m_error, m_socketError, m_exitCode
    posted,         \* zero timers of the executor's thread
    js,             \* JsCommandExecutor and its thread object
    launcher,       \* external: the launcher's socket, and whether it runs a program
    signals,        \* external: signals of the socket on their way to QbsProcess
    engineActive,   \* the script of a rule is being evaluated and has paused
    pauses,         \* how often that has happened
    buildCanceled,  \* Executor::cancelJobs() has been called
    runs,           \* how many transformers were handed over
    carried,        \* history: commands of this transformer that were carried out
    timedOut,       \* history: the watchdog of the process executor has fired
    report          \* ExecutorJob::finished() that is on its way to the executor, with its error

vars == <<job, watchdog, cancelReason, process, posted, js, launcher, signals,
          engineActive, pauses, buildCanceled, runs, carried,
          timedOut, report>>

Idle == [active |-> FALSE, commands |-> <<>>, idx |-> 0, canceled |-> FALSE]

Kind == job.commands[job.idx].kind

\* Whether the job is waiting for a command of kind k that is really run.
Awaits(k) == job.active /\ Kind = k /\ ~job.commands[job.idx].dry

TypeOK ==
    /\ job.commands \in Transformers \cup {<<>>}
    /\ job.idx \in (IF job.active THEN 1 .. Len(job.commands) ELSE {0})
    /\ job.active \in BOOLEAN /\ job.canceled \in BOOLEAN
    /\ watchdog \in [{"process", "js"} -> BOOLEAN]
    /\ process \in [state : {"NotRunning", "Starting", "Running"},
                    failedToStart : BOOLEAN, socketError : BOOLEAN, exitOk : BOOLEAN]
    /\ posted \in Seq({"dryRunFinished", "onProcessError", "onProcessFinished"})
    /\ js.running \in BOOLEAN /\ js.evaluating \in BOOLEAN /\ js.cancelled \in BOOLEAN
    /\ js.queue \in Seq({"start", "cancel", "timeout"})
    /\ js.success \in BOOLEAN /\ js.finished \in BOOLEAN
    /\ launcher.socket \in {"connecting", "ready", "failed", "lost"}
    /\ launcher.program \in BOOLEAN
    /\ signals \in Seq({"ready", "socketError", "processError", "exitOk", "exitFailed"})
    /\ {cancelReason, engineActive, buildCanceled, timedOut} \subseteq BOOLEAN
    /\ runs \in 0 .. MaxRuns /\ pauses \in 0 .. MaxPauses
    /\ carried \in 0 .. Len(job.commands)
    /\ report \in {"none", "success", "failure"}

Init ==
    /\ job = Idle
    /\ watchdog = [k \in {"process", "js"} |-> FALSE]
    /\ cancelReason = FALSE
    /\ process = [state |-> "NotRunning", failedToStart |-> FALSE, socketError |-> FALSE,
                  exitOk |-> TRUE]
    /\ posted = <<>>
    /\ js = [running |-> FALSE, evaluating |-> FALSE, cancelled |-> FALSE,
             queue |-> <<>>, success |-> FALSE, finished |-> FALSE]
    /\ launcher = [socket |-> "connecting", program |-> FALSE]
    /\ signals = <<>>
    /\ engineActive = FALSE /\ pauses = 0
    /\ buildCanceled = FALSE
    /\ runs = 0 /\ carried = 0
    /\ timedOut = FALSE /\ report = "none"

(***************************************************************************)
(* ExecutorJob.  The operators below are the tails of event handlers: p, q,  *)
(* s and w are the process, the timers, the JavaScript side and the          *)
(* watchdogs as the handler has left them, j is the job.                     *)
(***************************************************************************)
Executors(p, q, s, w) == process' = p /\ posted' = q /\ js' = s /\ watchdog' = w

Carried == IF job.active THEN carried ELSE 0

\* Mutant: the index of the current command is not reset.
SetFinishedKeepIndex(result, p, q, s, w) ==
    /\ job' = [job EXCEPT !.active = FALSE, !.canceled = FALSE]
    /\ report' = result
    /\ carried' = 0
    /\ Executors(p, q, s, w)

SetFinished(result, p, q, s, w) ==
    /\ job' = Idle
    /\ report' = result
    /\ carried' = 0
    /\ Executors(p, q, s, w)

\* doStart() of both executors if the command is not to be run for real.
StartDry(j, p, q, s, w) ==
    /\ job' = j
    /\ carried' = Carried + 1
    /\ Executors(p, Append(q, "dryRunFinished"), s, w)
    /\ report' = "none"
    /\ UNCHANGED launcher

\* The working directory does not exist or the response file cannot be written.
StartInvalid(p, q, s, w) ==
    /\ SetFinished("failure", p, q, s, w)
    /\ UNCHANGED launcher

\* QbsProcess::start() after a socket error: errorOccurred() is emitted before
\* start() returns, and the watchdog is started all the same.
StartWithoutSocket(j, c, p, q, s, w) ==
    LET failed == [p EXCEPT !.failedToStart = TRUE]
        timed == [w EXCEPT !.process = c.timeout] IN
    /\ IF engineActive
       THEN /\ job' = j /\ carried' = Carried
            /\ Executors(failed, Append(q, "onProcessError"), s, timed)
            /\ report' = "none"
       ELSE IF cancelReason
       THEN /\ job' = j /\ carried' = Carried
            /\ Executors(failed, q, s, timed)
            /\ report' = "none"
       ELSE SetFinished("failure", failed, q, s, timed)
    /\ UNCHANGED launcher

\* QbsProcess::start(): without a connection the process waits for handleSocketReady().
StartProcess(j, c, p, q, s, w) ==
    LET ready == launcher.socket = "ready" IN
    /\ job' = j
    /\ carried' = Carried
    /\ launcher' = [launcher EXCEPT !.program = ready]
    /\ Executors([p EXCEPT !.state = IF ready THEN "Running" ELSE "Starting"], q, s,
                 [w EXCEPT !.process = c.timeout])
    /\ report' = "none"

StartScript(j, c, p, q, s, w) ==
    /\ job' = j
    /\ carried' = Carried
    /\ Executors(p, q, [s EXCEPT !.running = TRUE, !.queue = Append(@, "start")],
                 [w EXCEPT !.js = c.timeout])
    /\ report' = "none"
    /\ UNCHANGED launcher

\* AbstractCommandExecutor::start() for the command that j has arrived at.
StartCommand(j, p, q, s, w) ==
    LET c == j.commands[j.idx] IN
    \/ c.dry /\ StartDry(j, p, q, s, w)
    \/ ~c.dry /\ c.kind = "js" /\ StartScript(j, c, p, q, s, w)
    \/ /\ ~c.dry /\ c.kind = "process"
       /\ \/ StartInvalid(p, q, s, w)
          \/ p.socketError /\ StartWithoutSocket(j, c, p, q, s, w)
          \/ ~p.socketError /\ StartProcess(j, c, p, q, s, w)

RunNextCommand(j, p, q, s, w) ==
    IF j.idx = Len(j.commands)
    THEN SetFinished("success", p, q, s, w) /\ UNCHANGED launcher
    ELSE StartCommand([j EXCEPT !.idx = @ + 1], p, q, s, w)

\* Mutant: the watchdog is not stopped.
OnCommandFinishedWatched(ok, p, q, s) ==
    IF job.canceled \/ ~ok
    THEN SetFinished("failure", p, q, s, watchdog) /\ UNCHANGED launcher
    ELSE RunNextCommand(job, p, q, s, watchdog)

\* Mutant: a canceled job goes on with its commands.
OnCommandFinishedGoOn(ok, p, q, s) ==
    LET w == [watchdog EXCEPT ![Kind] = FALSE] IN
    IF ~ok
    THEN SetFinished("failure", p, q, s, w) /\ UNCHANGED launcher
    ELSE RunNextCommand(job, p, q, s, w)

\* The signal finished() of a command executor, which also stops its watchdog.
OnCommandFinished(ok, p, q, s) ==
    LET w == [watchdog EXCEPT ![Kind] = FALSE] IN
    IF job.canceled \/ ~ok
    THEN SetFinished("failure", p, q, s, w) /\ UNCHANGED launcher
    ELSE RunNextCommand(job, p, q, s, w)

\* The executor hands over a transformer.  It has made the job available again when it dealt
\* with the last report, and hands over nothing once it has canceled its jobs.
Run(t) ==
    /\ ~job.active
    /\ report = "none"
    /\ ~buildCanceled
    /\ ~engineActive
    /\ runs < MaxRuns
    /\ runs' = runs + 1
    /\ LET j == [Idle EXCEPT !.active = TRUE, !.commands = t] IN
       \/ t = <<>> /\ SetFinished("success", process, posted, js, watchdog)
                   /\ UNCHANGED launcher
       \/ t # <<>> /\ RunNextCommand(j, process, posted, js, watchdog)
    /\ UNCHANGED <<cancelReason, signals, engineActive, pauses, buildCanceled, timedOut>>

\* Executor::onJobFinished(), for which finished() was queued, and finishJob().  While the script
\* of a rule is being evaluated the signal is sent again.
OnJobFinished ==
    /\ report # "none"
    /\ ~engineActive
    /\ report' = "none"
    /\ UNCHANGED <<job, watchdog, cancelReason, process, posted, js, launcher, signals,
                   engineActive, pauses, buildCanceled, runs, carried, timedOut>>

\* Executor::cancelJobs(): every job that is running a command is canceled.
\* A process that waits for the connection fails on the spot.
CancelJob ==
    /\ ~buildCanceled
    /\ buildCanceled' = TRUE
    /\ IF ~job.active THEN UNCHANGED <<job, process, posted, js, launcher, watchdog,
                                       cancelReason, carried, report>>
       ELSE LET j == [job EXCEPT !.canceled = TRUE] IN
            \/ /\ Kind = "js"
               /\ job' = j
               /\ js' = IF js.running THEN [js EXCEPT !.queue = Append(@, "cancel")] ELSE js
               /\ UNCHANGED <<process, posted, launcher, watchdog, cancelReason, carried, report>>
            \/ /\ Kind = "process"
               /\ cancelReason' = FALSE
               /\ IF process.state # "Starting"
                  THEN job' = j /\ UNCHANGED <<process, posted, watchdog, carried, report>>
                  ELSE LET p == [process EXCEPT !.state = "NotRunning", !.failedToStart = TRUE] IN
                       IF engineActive
                       THEN /\ job' = j
                            /\ process' = p
                            /\ posted' = Append(posted, "onProcessError")
                            /\ UNCHANGED <<watchdog, carried, report>>
                       ELSE SetFinished("failure", p, posted, js,
                                        [watchdog EXCEPT !.process = FALSE])
               /\ UNCHANGED <<js, launcher>>
    /\ UNCHANGED <<signals, engineActive, pauses, runs, timedOut>>

(***************************************************************************)
(* ProcessCommandExecutor and QbsProcess                                     *)
(***************************************************************************)

\* Mutant: an error is forgotten if a script has paused.
OnProcessErrorForgotten(p, q) ==
    IF engineActive \/ cancelReason
    THEN /\ posted' = q
         /\ process' = p
         /\ UNCHANGED <<job, watchdog, js, launcher, carried, report>>
    ELSE OnCommandFinished(FALSE, p, q, js)

\* QbsProcess::errorOccurred() reaches ProcessCommandExecutor::onProcessError(), with
\* the process p and the timers q.  While a script has paused the slot posts itself;
\* after a timeout it leaves the matter to onProcessFinished().
OnProcessError(p, q) ==
    IF engineActive
    THEN /\ posted' = Append(q, "onProcessError")
         /\ process' = p
         /\ UNCHANGED <<job, watchdog, js, launcher, carried, report>>
    ELSE IF cancelReason
    THEN /\ posted' = q
         /\ process' = p
         /\ UNCHANGED <<job, watchdog, js, launcher, carried, report>>
    ELSE OnCommandFinished(FALSE, p, q, js)

\* ProcessCommandExecutor::sendProcessOutput().  QbsProcess::m_error and m_cancelReason
\* are what the last failure on this executor has made of them.
OnProcessFinished(p, q) ==
    IF engineActive
    THEN /\ posted' = Append(q, "onProcessFinished")
         /\ process' = p
         /\ UNCHANGED <<job, watchdog, js, launcher, carried, report>>
    ELSE OnCommandFinished(~cancelReason /\ ~p.failedToStart /\ p.exitOk, p, q, js)

\* Mutant: the command is reported as failed before its process has ended.
ProcessTimeoutAtOnce ==
    /\ watchdog.process /\ job.active
    /\ cancelReason' = TRUE
    /\ timedOut' = TRUE
    /\ OnCommandFinished(FALSE, process, posted, js)
    /\ UNCHANGED <<signals, engineActive, pauses, buildCanceled, runs>>

\* The watchdog of the process executor; cancel() with a reason.
ProcessTimeout ==
    /\ watchdog.process
    /\ cancelReason' = TRUE
    /\ timedOut' = TRUE
    /\ IF process.state = "Starting"
       THEN LET p == [process EXCEPT !.state = "NotRunning", !.failedToStart = TRUE] IN
            /\ process' = p
            /\ posted' = IF engineActive THEN Append(posted, "onProcessError") ELSE posted
       ELSE UNCHANGED <<process, posted>>
    /\ watchdog' = [watchdog EXCEPT !.process = FALSE]
    /\ UNCHANGED <<job, js, launcher, signals, engineActive, pauses, buildCanceled, runs,
                   carried, report>>

\* The zero timers of the executor's thread.
HandlePosted ==
    /\ posted # <<>>
    /\ LET q == Tail(posted) IN
       \/ Head(posted) = "dryRunFinished" /\ OnCommandFinished(TRUE, process, q, js)
       \/ Head(posted) = "onProcessError" /\ OnProcessError(process, q)
       \/ Head(posted) = "onProcessFinished" /\ OnProcessFinished(process, q)
    /\ UNCHANGED <<cancelReason, signals, engineActive, pauses, buildCanceled, runs, timedOut>>

\* The signals of the launcher's socket, as QbsProcess handles them.
HandleSignal ==
    /\ signals # <<>>
    /\ signals' = Tail(signals)
    /\ LET signal == Head(signals)
           failed == [process EXCEPT !.state = "NotRunning", !.failedToStart = TRUE]
           starts == signal = "ready" /\ process.state = "Starting" IN
       \/ /\ \/ signal = "ready"
             \/ signal = "socketError" /\ process.state = "NotRunning"
          /\ process' = [process EXCEPT !.socketError = signal = "socketError",
                                        !.state = IF starts THEN "Running" ELSE @]
          /\ launcher' = IF starts THEN [launcher EXCEPT !.program = launcher.socket = "ready"]
                                   ELSE launcher
          /\ UNCHANGED <<job, watchdog, posted, js, carried, report>>
       \/ /\ signal = "socketError"
          /\ process.state # "NotRunning"
          /\ OnProcessError([failed EXCEPT !.socketError = TRUE], posted)
       \/ signal = "processError" /\ OnProcessError(failed, posted)
       \/ /\ signal \in {"exitOk", "exitFailed"}
          /\ OnProcessFinished([process EXCEPT !.state = "NotRunning",
                                               !.exitOk = signal = "exitOk"], posted)
    /\ UNCHANGED <<cancelReason, engineActive, pauses, buildCanceled, runs, timedOut>>

(***************************************************************************)
(* JsCommandExecutor and JsCommandExecutorThreadObject                       *)
(***************************************************************************)

\* The watchdog of the JavaScript executor: the thread object is told later.
ScriptTimeout ==
    /\ watchdog.js
    /\ watchdog' = [watchdog EXCEPT !.js = FALSE]
    /\ js' = IF js.running THEN [js EXCEPT !.queue = Append(@, "timeout")] ELSE js
    /\ UNCHANGED <<job, cancelReason, process, posted, launcher, signals, engineActive, pauses,
                   buildCanceled, runs, carried, timedOut, report>>

\* What the JavaScript thread does leaves the executor's thread alone.
ScriptThreadStep ==
    UNCHANGED <<job, watchdog, cancelReason, process, posted, launcher, signals, engineActive,
                pauses, buildCanceled, runs, timedOut, report>>

\* start() of the thread object: after a cancel it answers without evaluating.
ScriptStart ==
    /\ js.queue # <<>> /\ Head(js.queue) = "start"
    /\ js' = IF js.cancelled
             THEN [js EXCEPT !.queue = Tail(@), !.finished = TRUE]
             ELSE [js EXCEPT !.queue = Tail(@), !.evaluating = TRUE, !.success = TRUE]
    /\ ScriptThreadStep
    /\ UNCHANGED carried

\* cancel() of the thread object, called between scripts or from within one.
ScriptCancel ==
    /\ js.queue # <<>> /\ Head(js.queue) # "start"
    /\ js' = [js EXCEPT !.queue = Tail(@), !.cancelled = TRUE,
                        !.success = Head(js.queue) = "cancel"]
    /\ ScriptThreadStep
    /\ UNCHANGED carried

\* The script returns, throws, or has been aborted.
ScriptEnd ==
    /\ js.evaluating
    /\ \E throws \in BOOLEAN :
         /\ js' = [js EXCEPT !.evaluating = FALSE, !.finished = TRUE,
                             !.success = @ /\ ~throws]
         /\ carried' = IF throws \/ js.cancelled THEN carried ELSE carried + 1
    /\ ScriptThreadStep

\* JsCommandExecutor::onJavaScriptCommandFinished() in the executor's thread.
ScriptFinished ==
    /\ js.finished
    /\ OnCommandFinished(js.success, process, posted,
                         [js EXCEPT !.finished = FALSE, !.running = FALSE])
    /\ UNCHANGED <<cancelReason, signals, engineActive, pauses, buildCanceled, runs, timedOut>>

(***************************************************************************)
(* The surroundings                                                          *)
(***************************************************************************)
LauncherStep ==
    UNCHANGED <<job, watchdog, cancelReason, process, posted, js, engineActive, pauses,
                buildCanceled, runs, timedOut, report>>

LauncherConnects ==
    /\ launcher.socket = "connecting"
    /\ launcher' = [launcher EXCEPT !.socket = "ready"]
    /\ signals' = Append(signals, "ready")
    /\ LauncherStep /\ UNCHANGED carried

\* The launcher cannot be started, or its connection is lost.
LauncherLost ==
    /\ launcher.socket \in {"connecting", "ready"}
    /\ launcher' = [socket |-> IF launcher.socket = "ready" THEN "lost" ELSE "failed",
                    program |-> FALSE]
    /\ signals' = IF launcher.socket = "ready" THEN Append(signals, "socketError") ELSE signals
    /\ LauncherStep /\ UNCHANGED carried

\* The program exits by itself or because it was stopped, or could not be started.
\* An exit counts as failed too if its output cannot be saved to the given file.
ProgramEnds(answer) ==
    /\ launcher.program
    /\ launcher' = [launcher EXCEPT !.program = FALSE]
    /\ signals' = Append(signals, answer)
    /\ carried' = IF answer = "exitOk" THEN carried + 1 ELSE carried
    /\ LauncherStep

\* The script of a rule runs so long that it handles events (RulesApplicator).
EnginePauses ==
    /\ ~engineActive
    /\ pauses < MaxPauses
    /\ engineActive' = TRUE
    /\ pauses' = pauses + 1
    /\ UNCHANGED <<job, watchdog, cancelReason, process, posted, js, launcher, signals,
                   buildCanceled, runs, carried, timedOut, report>>

EngineReturns ==
    /\ engineActive
    /\ engineActive' = FALSE
    /\ UNCHANGED <<job, watchdog, cancelReason, process, posted, js, launcher, signals,
                   pauses, buildCanceled, runs, carried, timedOut, report>>

Next ==
    \/ \E t \in Transformers : Run(t)
    \/ OnJobFinished
    \/ CancelJob
    \/ HandlePosted \/ HandleSignal \/ ProcessTimeout
    \/ ScriptTimeout \/ ScriptStart \/ ScriptCancel \/ ScriptEnd \/ ScriptFinished
    \/ LauncherConnects \/ LauncherLost
    \/ \E answer \in {"exitOk", "exitFailed", "processError"} : ProgramEnds(answer)
    \/ EnginePauses \/ EngineReturns

Spec == Init /\ [][Next]_vars

(***************************************************************************)
(* Both threads handle their events, scripts and programs end, the launcher   *)
(* connects or is lost, and BuildJob::handleLauncherError() cancels the build *)
(* when it is.  Nothing makes a watchdog fire or the user cancel.             *)
(***************************************************************************)
Fairness ==
    /\ WF_vars(HandlePosted) /\ WF_vars(HandleSignal) /\ WF_vars(EngineReturns)
    /\ WF_vars(ScriptStart) /\ WF_vars(ScriptCancel) /\ WF_vars(ScriptEnd)
    /\ WF_vars(ScriptFinished)
    /\ WF_vars(LauncherConnects \/ LauncherLost)
    /\ WF_vars(\E answer \in {"exitOk", "exitFailed", "processError"} : ProgramEnds(answer))
    /\ WF_vars(launcher.socket \in {"failed", "lost"} /\ CancelJob)

FairSpec == Spec /\ Fairness

(***************************************************************************)
(* Properties                                                                *)
(***************************************************************************)

\* The executors implement the contract of a job, in which the transformers are numbered as they
\* are handed over: every run() is answered once, and by nothing but the end of that run; success
\* means that every command was carried out, and a canceled job fails.
Contract == INSTANCE JobContract WITH
    NoWork <- 0,
    work <- IF job.active \/ report # "none" THEN runs ELSE 0,
    running <- job.active,
    todo <- IF job.active THEN Len(job.commands) - carried ELSE 0,
    canceled <- job.canceled,
    report <- report
ImplementsContract == Contract!Spec

\* A watchdog never outlives the command it was started for, where it would cancel a
\* later one.  QbsProcess::start() is the exception: if the socket is gone the command
\* has failed before the watchdog is started.
WatchdogGuardsItsCommand ==
    \A k \in {"process", "js"} : watchdog[k] => Awaits(k) \/ process.socketError

\* A command leaves nothing behind: while the job does not wait for a process, no
\* process of the executor runs, no answer of one is on its way and no watchdog is set, and the
\* same for scripts.  Otherwise an answer to one command would be taken for that of the next,
\* or one of the assertions at the start of doStart(), handleErrorPacket(),
\* handleFinishedPacket() and onCommandFinished() would fail.
NothingLeftBehind ==
    LET answers == {"processError", "exitOk", "exitFailed"}
        slots == {"onProcessError", "onProcessFinished"}
        answered == \E i \in DOMAIN posted : posted[i] \in slots
        pending == \E i \in DOMAIN signals : signals[i] \in answers IN
    /\ TypeOK
    /\ process.state # "NotRunning" \/ launcher.program \/ pending \/ answered
         => Awaits("process")
    /\ launcher.program \/ pending => process.state = "Running"
    /\ answered => process.state = "NotRunning"
    /\ js.running => Awaits("js")
    /\ js.evaluating \/ js.finished \/ (\E i \in DOMAIN js.queue : js.queue[i] = "start")
         => js.running
    /\ WatchdogGuardsItsCommand

\* A job that runs a transformer reports, whatever happens to its programs, its scripts and the
\* launcher, as long as no process has timed out: onProcessError() ignores an error once a
\* timeout has canceled the process, and counts on a call of onProcessFinished() that need
\* not come.
EveryJobReports == job.active ~> (~job.active \/ timedOut)
===============================================================================
