---------------------------- MODULE CommandProofs ----------------------------
(***************************************************************************)
(* Proofs about CommandExecution, for every set of transformers and every     *)
(* bound: a command leaves nothing behind for the next one, and the job with  *)
(* its command executors implements JobContract.                              *)
(*                                                                           *)
(* The invariant IInv has one part for every place in which something of a    *)
(* command can be: the job itself, the zero timers, the process with the       *)
(* answers that are on their way, the socket, the script thread with its       *)
(* queue, the watchdogs, and the commands that have been carried out.  The     *)
(* handlers that end a command all go through CommandFinished: they have to    *)
(* show that everything of the command is Over, and get that the job is Tidy   *)
(* with the next command started, and that the step is one of the contract.    *)
(***************************************************************************)
EXTENDS CommandExecution, Queues

\* What the launcher may say of a program, everything its socket signals, and the slots that
\* ProcessCommandExecutor may post to itself.
Answers == {"processError", "exitOk", "exitFailed"}
Signals == Answers \cup {"ready", "socketError"}
Slots == {"onProcessError", "onProcessFinished"}

\* The records and functions of TypeOK.  There is never more than one zero timer.
JobRecord == [active : BOOLEAN, commands : Seq(Command), idx : Nat, canceled : BOOLEAN]
ProcessRecord == [state : {"NotRunning", "Starting", "Running"},
                  failedToStart : BOOLEAN, socketError : BOOLEAN, exitOk : BOOLEAN]
ScriptRecord == [running : BOOLEAN, evaluating : BOOLEAN, cancelled : BOOLEAN,
                 queue : Seq({"start", "cancel", "timeout"}), success : BOOLEAN,
                 finished : BOOLEAN]
LauncherRecord == [socket : {"connecting", "ready", "failed", "lost"}, program : BOOLEAN]
Watchdogs == [{"process", "js"} -> BOOLEAN]
Timers == {<<>>, <<"dryRunFinished">>, <<"onProcessError">>, <<"onProcessFinished">>}

\* The types of what the handlers of the executor's thread change, and of everything else.
ExecutorTypes ==
    /\ job \in JobRecord /\ process \in ProcessRecord /\ js \in ScriptRecord
    /\ launcher \in LauncherRecord /\ watchdog \in Watchdogs /\ posted \in Timers
    /\ carried \in Nat /\ report \in {"none", "success", "failure"}

OtherTypes ==
    /\ signals \in Seq(Signals)
    /\ cancelReason \in BOOLEAN /\ engineActive \in BOOLEAN /\ buildCanceled \in BOOLEAN
    /\ timedOut \in BOOLEAN
    /\ runs \in 0 .. MaxRuns /\ pauses \in 0 .. MaxPauses

\* Nothing follows the news that the connection was lost.
LastWord(s) == \A a \in Answers \cup {"ready"} : Precedes(s, a, "socketError")

\* The current command is simulated.
DryRun == job.active /\ job.commands[job.idx].dry

\* A running job is at one of its commands and has reported nothing; another one is idle.  Only
\* Executor::cancelJobs() cancels a job.
JobInv ==
    /\ job.active => /\ job.commands \in Transformers
                     /\ job.idx \in 1 .. Len(job.commands)
                     /\ report = "none"
    /\ ~job.active => job = Idle /\ carried = 0
    /\ job.canceled => buildCanceled

\* A zero timer belongs to the command the job is at.
PostedInv ==
    /\ posted = <<"dryRunFinished">> => DryRun
    /\ posted \in {<<"onProcessError">>, <<"onProcessFinished">>}
         => Awaits("process") /\ process.state = "NotRunning"

\* A process that was started belongs to the command the job waits for.  A program runs, or has
\* answered, only while its QbsProcess is in the state Running, and it answers once.
ProcessInv ==
    /\ process.state # "NotRunning" => Awaits("process")
    /\ launcher.program \/ ~None(signals, Answers) => process.state = "Running"
    /\ launcher.program => None(signals, Answers)
    /\ One(signals, Answers)

\* QbsProcess::m_socketError is only set once the connection is lost, and nothing that is on
\* its way can take it back.
SocketInv ==
    /\ process.socketError => /\ process.state = "NotRunning" /\ launcher.socket = "lost"
                              /\ None(signals, {"ready"})
    /\ launcher.socket \in {"connecting", "failed"} => None(signals, {"ready", "socketError"})
    /\ launcher.socket = "ready" => None(signals, {"socketError"})
    /\ launcher.program => launcher.socket = "ready"
    /\ LastWord(signals)

\* A script that was started belongs to the command the job waits for; it waits in the queue, is
\* evaluated or has finished, never two of these.  A thread object whose script was canceled but
\* counts as successful was canceled by the executor, which also canceled the job.
ScriptInv ==
    /\ js.running => Awaits("js")
    /\ js.evaluating \/ js.finished \/ ~None(js.queue, {"start"}) => js.running
    /\ One(js.queue, {"start"})
    /\ js.evaluating => ~js.finished /\ None(js.queue, {"start"})
    /\ js.finished => None(js.queue, {"start"})
    /\ js.evaluating /\ ~js.cancelled => js.success
    /\ ~None(js.queue, {"cancel"}) \/ (js.cancelled /\ js.success)
         => buildCanceled /\ (job.active => job.canceled)

\* A watchdog belongs to the command the job waits for, but for the one that is started although
\* QbsProcess::start() has failed at once.
WatchdogInv ==
    /\ watchdog["js"] => Awaits("js")
    /\ watchdog["process"] => Awaits("process") \/ process.socketError

\* Every command before the current one was carried out, and a command is only about to be
\* reported as successful if it was carried out itself.
CarriedInv ==
    /\ DryRun => carried = job.idx
    /\ job.active => carried \in {job.idx - 1, job.idx}
    /\ Awaits("js") /\ ~js.finished => carried = job.idx - 1
    /\ js.finished /\ js.success => carried = job.idx \/ job.canceled
    /\ launcher.program \/ process.state = "Starting" => carried = job.idx - 1
    /\ ~None(signals, {"exitOk"}) => carried = job.idx
    /\ posted = <<"onProcessFinished">> /\ process.exitOk => carried = job.idx

\* What the handlers of the executor's thread have to leave behind ...
Tidy ==
    /\ ExecutorTypes /\ JobInv /\ PostedInv /\ ProcessInv /\ SocketInv /\ ScriptInv /\ WatchdogInv
    /\ CarriedInv

\* The inductive invariant.
IInv == Tidy /\ OtherTypes

\* ... and what they have to make sure of before a command ends: signals' is what they leave of
\* the signals, p the process and s the JavaScript side.
SignalsFit ==
    /\ signals' \in Seq(Signals)
    /\ launcher.socket \in {"connecting", "failed"} => None(signals', {"ready", "socketError"})
    /\ launcher.socket = "ready" => None(signals', {"socketError"})
    /\ LastWord(signals')

\* Nothing of the current command is on its way any more.
Over(p, s) ==
    /\ SignalsFit /\ None(signals', Answers) /\ ~launcher.program
    /\ p \in ProcessRecord /\ p.state = "NotRunning"
    /\ p.socketError => launcher.socket = "lost" /\ None(signals', {"ready"})
    /\ s \in ScriptRecord /\ ~s.running /\ ~s.evaluating /\ ~s.finished
    /\ None(s.queue, {"start"})

\* The two ways in which a job goes on when a command is over: it reports, or it is at another
\* command with n commands carried out.
Ends(result) == job' = Idle /\ report' = result /\ carried' = 0
Goes(j, n) ==
    /\ job'.active = TRUE /\ job'.canceled = FALSE /\ job'.commands = j.commands
    /\ report' = "none" /\ carried' = n

\* The timers, as tuples.
LEMMA TimersDiffer ==
    /\ <<>> # <<"dryRunFinished">> /\ <<>> # <<"onProcessError">> /\ <<>> # <<"onProcessFinished">>
    /\ <<"dryRunFinished">> # <<"onProcessError">> /\ <<"dryRunFinished">> # <<"onProcessFinished">>
    /\ <<"onProcessError">> # <<"onProcessFinished">>
  <1>1. \A x : <<>> # <<x>>
    <2>1. \A x : Len(<<>>) # Len(<<x>>)
      OBVIOUS
    <2> QED
      BY <2>1
  <1>2. \A x, y : <<x>> = <<y>> => x = y
    OBVIOUS
  <1> QED
    BY <1>1, <1>2

\* Posting to an empty list of timers, and handling the only one.
LEMMA TimerQueue ==
    \A x : /\ Append(<<>>, x) = <<x>> /\ Head(<<x>>) = x /\ Tail(<<x>>) = <<>>
  OBVIOUS

\* ExecutorJob::runNextCommand() reports success after the last command, reports the failure of
\* a command that cannot be started, or starts one, which a dry run carries out at once.
LEMMA Outcomes ==
    ASSUME NEW j \in JobRecord, NEW p, NEW q, NEW s, NEW w, j.active, ~j.canceled,
           j.idx \in 0 .. Len(j.commands), RunNextCommand(j, p, q, s, w)
    PROVE  \/ j.idx = Len(j.commands) /\ Ends("success")
           \/ Ends("failure")
           \/ Goes(j, Carried)
           \/ j.idx < Len(j.commands) /\ Goes(j, Carried + 1)
  <1> DEFINE k == [j EXCEPT !.idx = @ + 1]
  <1>1. k.active = TRUE /\ k.commands = j.commands /\ k.canceled = FALSE
    BY DEF JobRecord
  <1> HIDE DEF k
  <1>2. CASE j.idx = Len(j.commands)
    BY <1>2 DEF RunNextCommand, SetFinished, Ends
  <1>3. CASE j.idx # Len(j.commands)
    <2>1. StartCommand(k, p, q, s, w) /\ j.idx < Len(j.commands)
      BY <1>3 DEF RunNextCommand, k, JobRecord
    <2> QED
      BY <1>1, <2>1 DEF StartCommand, StartDry, StartScript, StartInvalid, StartWithoutSocket,
                        StartProcess, SetFinished, Ends, Goes
  <1> QED
    BY <1>2, <1>3

\* ExecutorJob::runNextCommand(), called when everything of the last command is over, leaves the
\* job tidy: whatever the next command starts, posts or arms is its own.
LEMMA NextCommand ==
    ASSUME NEW j \in JobRecord, NEW p, NEW s, NEW w \in Watchdogs,
           launcher \in LauncherRecord, carried \in Nat,
           j.active, ~j.canceled, j.commands \in Transformers, j.idx \in 0 .. Len(j.commands),
           Carried = j.idx,
           Over(p, s), None(s.queue, {"cancel"}), ~s.cancelled \/ ~s.success,
           ~w["js"], w["process"] => p.socketError,
           RunNextCommand(j, p, <<>>, s, w)
    PROVE  Tidy'
  <1> DEFINE k == [j EXCEPT !.idx = @ + 1]
             c == k.commands[k.idx]
  <1>1. /\ k \in JobRecord /\ k.active /\ k.commands = j.commands /\ ~k.canceled
        /\ k.idx = j.idx + 1
    BY DEF JobRecord
  <1>0. Idle \in JobRecord /\ ~Idle.active /\ ~Idle.canceled
    BY DEF Idle, JobRecord
  <1>a. None(signals', {"exitOk"}) /\ One(signals', Answers)
    BY DEF Over, None, One, Answers
  <1>b. One(s.queue, {"start"})
    BY DEF Over, None, One
  <1> USE DEF Over, SignalsFit, Tidy, ExecutorTypes, JobInv, PostedInv, ProcessInv, SocketInv, ScriptInv,
             WatchdogInv, CarriedInv, DryRun, Awaits, Kind, Timers
  <1> HIDE DEF k
  <1>2. CASE j.idx = Len(j.commands)
    <2>1. /\ job' = Idle /\ report' = "success" /\ carried' = 0 /\ process' = p /\ posted' = <<>>
          /\ js' = s /\ watchdog' = w /\ launcher' = launcher
      BY <1>2 DEF RunNextCommand, SetFinished, Executors
    <2> QED
      BY <2>1, <1>0, <1>a, <1>b
  <1>3. CASE j.idx # Len(j.commands)
    <2>1. StartCommand(k, p, <<>>, s, w)
      BY <1>3 DEF RunNextCommand, k
    <2>2. k.idx \in 1 .. Len(k.commands) /\ c \in Command /\ k.idx = j.idx + 1 /\ j.idx \in Nat
      BY <1>1, <1>3 DEF JobRecord
    <2>3. c.dry \in BOOLEAN /\ c.timeout \in BOOLEAN /\ c.kind \in {"process", "js"}
      BY <2>2 DEF Command
    <2>4. CASE c.dry /\ StartDry(k, p, <<>>, s, w)
      <3>1. /\ job' = k /\ report' = "none" /\ carried' = j.idx + 1 /\ process' = p
            /\ posted' = <<"dryRunFinished">> /\ js' = s /\ watchdog' = w /\ launcher' = launcher
        BY <2>4 DEF StartDry, Executors
      <3> QED
        BY <3>1, <1>1, <1>a, <1>b, <2>2, <2>3, <2>4
    <2>5. CASE ~c.dry /\ c.kind = "js" /\ StartScript(k, c, p, <<>>, s, w)
      <3> DEFINE t == [s EXCEPT !.running = TRUE, !.queue = Append(@, "start")]
      <3>1. /\ job' = k /\ report' = "none" /\ carried' = j.idx /\ process' = p /\ posted' = <<>>
            /\ js' = t /\ watchdog' = [w EXCEPT !["js"] = c.timeout] /\ launcher' = launcher
        BY <2>5 DEF StartScript, Executors
      <3>0. Append(s.queue, "start") \in Seq({"start", "cancel", "timeout"})
        BY AppendToQueue DEF ScriptRecord
      <3>2. /\ t \in ScriptRecord /\ t.running /\ ~t.evaluating /\ ~t.finished
            /\ ~t.cancelled \/ ~t.success
            /\ t.queue = Append(s.queue, "start")
        BY <3>0 DEF ScriptRecord
      <3>3. One(t.queue, {"start"}) /\ None(t.queue, {"cancel"})
        BY <3>2, <1>b, AppendToQueue DEF ScriptRecord
      <3>4. watchdog' \in Watchdogs /\ watchdog'["process"] = w["process"]
        BY <2>3, <3>1 DEF Watchdogs
      <3> HIDE DEF t
      <3>5. JobInv'
        BY <3>1, <3>2, <3>3, <3>4, <1>1, <1>a, <2>2, <2>5
      <3>6. PostedInv' /\ ProcessInv' 
        BY <3>1, <3>2, <3>3, <3>4, <1>1, <1>a, <2>2, <2>5
      <3>7. SocketInv' 
        BY <3>1, <3>2, <3>3, <3>4, <1>1, <1>a, <2>2, <2>5
      <3>8. ScriptInv'
        BY <3>1, <3>2, <3>3, <3>4, <1>1, <1>a, <2>2, <2>5
      <3>9. WatchdogInv'
        BY <3>1, <3>2, <3>3, <3>4, <1>1, <1>a, <2>2, <2>5
      <3>10. CarriedInv'
        <4>1. ~DryRun' /\ job'.idx = j.idx + 1 /\ carried' = j.idx /\ posted' # <<"onProcessFinished">>
          BY <3>1, <1>1, <2>5, TimersDiffer
        <4>2. process'.state = "NotRunning" /\ ~launcher'.program /\ ~js'.finished
          BY <3>1, <3>2
        <4>3. j.idx + 1 - 1 = j.idx
          BY <2>2
        <4> HIDE DEF Over, SignalsFit, Tidy, ExecutorTypes, JobInv, PostedInv, ProcessInv, SocketInv,
                     ScriptInv, WatchdogInv, DryRun, Awaits, Kind, Timers
        <4> QED
          BY <4>1, <4>2, <4>3, <1>a
      <3> QED
        BY <3>5, <3>6, <3>7, <3>8, <3>9, <3>10, <3>1, <3>2, <3>3, <3>4, <1>1, <1>a, <2>2, <2>5
    <2>6. CASE ~c.dry /\ c.kind = "process" /\ StartInvalid(p, <<>>, s, w)
      <3>1. /\ job' = Idle /\ report' = "failure" /\ carried' = 0 /\ process' = p /\ posted' = <<>>
            /\ js' = s /\ watchdog' = w /\ launcher' = launcher
        BY <2>6 DEF StartInvalid, SetFinished, Executors
      <3> QED
        BY <3>1, <1>0, <1>a, <1>b
    <2>7. CASE ~c.dry /\ c.kind = "process" /\ p.socketError /\ StartWithoutSocket(k, c, p, <<>>, s, w)
      <3> DEFINE f == [p EXCEPT !.failedToStart = TRUE]
      <3>1. /\ process' = f /\ js' = s /\ watchdog' = [w EXCEPT !["process"] = c.timeout]
            /\ launcher' = launcher
            /\ \/ /\ job' = k /\ report' = "none" /\ carried' = j.idx
                  /\ posted' \in {<<>>, <<"onProcessError">>}
               \/ job' = Idle /\ report' = "failure" /\ carried' = 0 /\ posted' = <<>>
        BY <2>7 DEF StartWithoutSocket, SetFinished, Executors
      <3>2. f \in ProcessRecord /\ f.state = "NotRunning" /\ f.socketError = p.socketError
        BY DEF ProcessRecord
      <3>3. watchdog' \in Watchdogs /\ watchdog'["js"] = w["js"]
        BY <2>3, <3>1 DEF Watchdogs
      <3> HIDE DEF f
      <3>5. JobInv'
        BY <3>1, <3>2, <3>3, <1>0, <1>1, <1>a, <1>b, <2>2, <2>7, TimersDiffer
      <3>6. PostedInv' /\ ProcessInv' 
        BY <3>1, <3>2, <3>3, <1>0, <1>1, <1>a, <1>b, <2>2, <2>7, TimersDiffer
      <3>7. SocketInv' 
        BY <3>1, <3>2, <3>3, <1>0, <1>1, <1>a, <1>b, <2>2, <2>7, TimersDiffer
      <3>8. ScriptInv'
        BY <3>1, <3>2, <3>3, <1>0, <1>1, <1>a, <1>b, <2>2, <2>7, TimersDiffer
      <3>9. WatchdogInv'
        BY <3>1, <3>2, <3>3, <1>0, <1>1, <1>a, <1>b, <2>2, <2>7, TimersDiffer
      <3>10. CarriedInv'
        <4>1. CASE job' = k /\ carried' = j.idx /\ posted' \in {<<>>, <<"onProcessError">>}
          <5>1. ~DryRun' /\ job'.idx = j.idx + 1
            BY <4>1, <1>1, <2>7
          <5>2. posted' # <<"onProcessFinished">>
            BY <4>1, TimersDiffer
          <5>3. process'.state = "NotRunning" /\ ~launcher'.program /\ ~js'.finished
            BY <3>1, <3>2
          <5>4. j.idx + 1 - 1 = j.idx
            BY <2>2
          <5> HIDE DEF Over, SignalsFit, Tidy, ExecutorTypes, JobInv, PostedInv, ProcessInv, SocketInv,
                     ScriptInv, WatchdogInv, DryRun, Awaits, Kind, Timers
          <5> QED
            BY <4>1, <5>1, <5>2, <5>3, <5>4, <1>a
        <4>2. CASE job' = Idle /\ posted' = <<>>
          BY <4>2, <3>1, <3>2, <1>0, <1>a, TimersDiffer
        <4> QED
          BY <3>1, <4>1, <4>2
      <3> QED
        BY <3>5, <3>6, <3>7, <3>8, <3>9, <3>10, <3>1, <3>2, <3>3, <1>0, <1>1, <1>a, <1>b, <2>2, <2>7
    <2>8. CASE ~c.dry /\ c.kind = "process" /\ ~p.socketError /\ StartProcess(k, c, p, <<>>, s, w)
      <3> DEFINE ready == launcher.socket = "ready"
                 r == [p EXCEPT !.state = IF ready THEN "Running" ELSE "Starting"]
                 l == [launcher EXCEPT !.program = ready]
      <3>1. /\ job' = k /\ report' = "none" /\ carried' = j.idx /\ posted' = <<>> /\ process' = r
            /\ js' = s /\ watchdog' = [w EXCEPT !["process"] = c.timeout] /\ launcher' = l
        BY <2>8 DEF StartProcess, Executors
      <3>2. /\ r \in ProcessRecord /\ r.state \in {"Running", "Starting"} /\ ~r.socketError
            /\ r.state = "Running" <=> ready
        BY <2>8 DEF ProcessRecord
      <3>3. l \in LauncherRecord /\ l.socket = launcher.socket /\ l.program = ready
        BY DEF LauncherRecord
      <3>4. watchdog' \in Watchdogs /\ watchdog'["js"] = w["js"]
        BY <2>3, <3>1 DEF Watchdogs
      <3> HIDE DEF r, l
      <3>5. JobInv'
        BY <3>1, <3>2, <3>3, <3>4, <1>1, <1>a, <1>b, <2>2, <2>8
      <3>6. PostedInv' /\ ProcessInv' 
        BY <3>1, <3>2, <3>3, <3>4, <1>1, <1>a, <1>b, <2>2, <2>8
      <3>7. SocketInv' 
        BY <3>1, <3>2, <3>3, <3>4, <1>1, <1>a, <1>b, <2>2, <2>8
      <3>8. ScriptInv'
        BY <3>1, <3>2, <3>3, <3>4, <1>1, <1>a, <1>b, <2>2, <2>8
      <3>9. WatchdogInv'
        BY <3>1, <3>2, <3>3, <3>4, <1>1, <1>a, <1>b, <2>2, <2>8
      <3>10. CarriedInv'
        BY <3>1, <3>2, <3>3, <3>4, <1>1, <1>a, <1>b, <2>2, <2>8
      <3> QED
        BY <3>5, <3>6, <3>7, <3>8, <3>9, <3>10, <3>1, <3>2, <3>3, <3>4, <1>1, <1>a, <1>b, <2>2, <2>8
    <2> QED
      BY <2>1, <2>3, <2>4, <2>5, <2>6, <2>7, <2>8 DEF StartCommand
  <1> QED
    BY <1>2, <1>3

\* How the steps of the job look to the executor.
LEMMA ContractSteps ==
    ASSUME IInv, UNCHANGED runs
    PROVE  /\ job.active /\ Ends("failure") => Contract!Fail
           /\ job.active /\ carried = Len(job.commands) /\ ~job.canceled /\ Ends("success")
                => Contract!Succeed
           /\ job.active /\ ~job.canceled /\ Goes(job, carried) => UNCHANGED Contract!vars
           /\ job.active /\ ~job.canceled /\ carried < Len(job.commands) /\ Goes(job, carried + 1)
                => Contract!CarryOut
           /\ job.active /\ job' = [job EXCEPT !.canceled = TRUE] /\ UNCHANGED <<carried, report>>
                => Contract!Cancel
           /\ UNCHANGED <<job, report>> /\ job.active /\ carried < Len(job.commands)
                 /\ carried' = carried + 1
                => Contract!CarryOut
           /\ UNCHANGED <<job, carried, report>> => UNCHANGED Contract!vars
  <1>1. /\ job \in JobRecord /\ Len(job.commands) \in Nat /\ carried \in Nat
        /\ job.active => report = "none"
        /\ ~job.active => job = Idle /\ carried = 0
        /\ job.active <=> job.active = TRUE
        /\ ~job.canceled <=> job.canceled = FALSE
    BY DEF IInv, Tidy, ExecutorTypes, JobInv, JobRecord
  <1>2. ~Idle.active /\ Idle.active = FALSE /\ Idle.canceled = FALSE
    BY DEF Idle
  <1> USE DEF Ends, Goes
  <1>3. job.active /\ Ends("failure") => Contract!Fail
    BY <1>1, <1>2 DEF Contract!Fail
  <1>4. job.active /\ carried = Len(job.commands) /\ ~job.canceled /\ Ends("success")
            => Contract!Succeed
    <2> SUFFICES ASSUME job.active, carried = Len(job.commands), ~job.canceled, Ends("success")
                 PROVE  Contract!Succeed
      OBVIOUS
    <2>1. Len(job.commands) - carried = 0
      BY <1>1
    <2>2. ~job'.active /\ job'.active = FALSE /\ job'.canceled = FALSE /\ report' = "success"
      BY <1>2
    <2> QED
      BY <1>1, <2>1, <2>2 DEF Contract!Succeed
  <1>5. job.active /\ ~job.canceled /\ Goes(job, carried) => UNCHANGED Contract!vars
    BY <1>1 DEF Contract!vars
  <1>6. job.active /\ ~job.canceled /\ carried < Len(job.commands) /\ Goes(job, carried + 1)
                => Contract!CarryOut
    <2> SUFFICES ASSUME job.active, ~job.canceled, carried < Len(job.commands), Goes(job, carried + 1)
                 PROVE  Contract!CarryOut
      OBVIOUS
    <2>1. /\ Len(job.commands) - carried > 0
          /\ Len(job'.commands) - carried' = (Len(job.commands) - carried) - 1
      BY <1>1
    <2>2. job'.active /\ job'.active = job.active /\ job'.canceled = job.canceled /\ report' = report
      BY <1>1
    <2> QED
      BY <2>1, <2>2 DEF Contract!CarryOut
  <1>7. job.active /\ job' = [job EXCEPT !.canceled = TRUE] /\ UNCHANGED <<carried, report>>
                => Contract!Cancel
    BY <1>1 DEF Contract!Cancel, JobRecord
  <1>8. UNCHANGED <<job, report>> /\ job.active /\ carried < Len(job.commands)
                 /\ carried' = carried + 1
                => Contract!CarryOut
    BY <1>1 DEF Contract!CarryOut
  <1>9. UNCHANGED <<job, carried, report>> => UNCHANGED Contract!vars
    BY <1>1 DEF Contract!vars
  <1> QED
    BY <1>3, <1>4, <1>5, <1>6, <1>7, <1>8, <1>9

\* How run() looks to the executor: with commands, with an error before the first one, or without
\* any command.
LEMMA AcceptSteps ==
    ASSUME IInv, ~job.active, report = "none", runs' = runs + 1
    PROVE  /\ Ends("failure") => Contract!AcceptAndFail
           /\ Ends("success") => Contract!AcceptEmpty
           /\ job'.active /\ ~job'.canceled /\ report' = "none"
                 /\ Len(job'.commands) \in Nat /\ carried' \in 0 .. Len(job'.commands)
                => Contract!Accept
  <1>1. /\ job = Idle /\ carried = 0 /\ ~Idle.active /\ Idle.active = FALSE
        /\ Idle.canceled = FALSE
    BY DEF IInv, Tidy, JobInv, Idle
  <1>2. runs' # 0
    BY BoundsAssumption DEF IInv, OtherTypes
  <1> USE DEF Contract!Free, Ends
  <1>3. Ends("failure") => Contract!AcceptAndFail
    BY <1>1, <1>2 DEF Contract!AcceptAndFail
  <1>4. Ends("success") => Contract!AcceptEmpty
    BY <1>1, <1>2 DEF Contract!AcceptEmpty
  <1>5. job'.active /\ ~job'.canceled /\ report' = "none"
                 /\ Len(job'.commands) \in Nat /\ carried' \in 0 .. Len(job'.commands)
                => Contract!Accept
    BY <1>1, <1>2 DEF Contract!Accept
  <1> QED
    BY <1>3, <1>4, <1>5

\* ExecutorJob::setFinished() leaves nothing behind.
LEMMA JobEnds ==
    ASSUME NEW result \in {"success", "failure"}, NEW p, NEW s, NEW w \in Watchdogs,
           launcher \in LauncherRecord, Over(p, s),
           ~None(s.queue, {"cancel"}) \/ (s.cancelled /\ s.success) => buildCanceled',
           ~w["js"], w["process"] => p.socketError,
           SetFinished(result, p, <<>>, s, w), UNCHANGED launcher
    PROVE  Tidy'
  <1>1. Idle \in JobRecord /\ ~Idle.active /\ ~Idle.canceled
    BY DEF Idle, JobRecord
  <1>2. None(signals', {"exitOk"}) /\ One(signals', Answers)
    BY DEF Over, None, One, Answers
  <1>3. One(s.queue, {"start"})
    BY DEF Over, None, One
  <1>4. /\ job' = Idle /\ report' = result /\ carried' = 0 /\ process' = p /\ posted' = <<>>
        /\ js' = s /\ watchdog' = w /\ launcher' = launcher
    BY DEF SetFinished, Executors
  <1> QED
    BY <1>1, <1>2, <1>3, <1>4, TimersDiffer
       DEF Over, SignalsFit, Tidy, ExecutorTypes, JobInv, PostedInv, ProcessInv, SocketInv, ScriptInv,
           WatchdogInv, CarriedInv, DryRun, Awaits, Kind, Timers

\* The watchdogs once that of the current command has been stopped.
LEMMA WatchdogStopped ==
    ASSUME IInv, job.active, NEW p, process.socketError => p.socketError
    PROVE  LET w == [watchdog EXCEPT ![Kind] = FALSE]
           IN  w \in Watchdogs /\ ~w["js"] /\ (w["process"] => p.socketError)
  <1>1. job.idx \in 1 .. Len(job.commands) /\ job.commands \in Seq(Command)
    BY DEF IInv, Tidy, ExecutorTypes, JobInv, JobRecord
  <1>3. job.commands[job.idx] \in Command
    BY <1>1
  <1>2. Kind \in {"process", "js"}
    BY <1>3 DEF Kind, Command
  <1> QED
    BY <1>2 DEF IInv, Tidy, ExecutorTypes, WatchdogInv, Awaits, Watchdogs

\* ExecutorJob::onCommandFinished(), called when everything of the command is over, leaves the job
\* tidy, and looks to the executor like a step of the contract.
LEMMA CommandFinished ==
    ASSUME IInv, NEW ok \in BOOLEAN, NEW p, NEW s, job.active, Over(p, s),
           UNCHANGED <<buildCanceled, runs>>,
           ~None(s.queue, {"cancel"}) \/ (s.cancelled /\ s.success) => buildCanceled /\ job.canceled,
           ok => carried = job.idx \/ job.canceled,
           process.socketError => p.socketError,
           OnCommandFinished(ok, p, <<>>, s)
    PROVE  Tidy' /\ [Contract!Next]_(Contract!vars)
  <1> DEFINE w == [watchdog EXCEPT ![Kind] = FALSE]
  <1>1. w \in Watchdogs /\ ~w["js"] /\ (w["process"] => p.socketError)
    BY WatchdogStopped
  <1>2. /\ job \in JobRecord /\ launcher \in LauncherRecord /\ carried \in Nat
        /\ job.commands \in Transformers /\ job.idx \in 0 .. Len(job.commands)
    BY DEF IInv, Tidy, ExecutorTypes, JobInv, JobRecord
  <1>3. CASE job.canceled \/ ~ok
    <2>1. SetFinished("failure", p, <<>>, s, w) /\ UNCHANGED launcher
      BY <1>3 DEF OnCommandFinished
    <2> HIDE DEF w
    <2>2. Tidy'
      BY <1>1, <1>2, <2>1, JobEnds
    <2>3. Ends("failure")
      BY <2>1 DEF SetFinished, Ends
    <2> QED
      BY <2>2, <2>3, ContractSteps DEF Contract!Next
  <1>4. CASE ~job.canceled /\ ok
    <2>1. RunNextCommand(job, p, <<>>, s, w)
      BY <1>4 DEF OnCommandFinished
    <2> HIDE DEF w
    <2>2. Carried = job.idx /\ carried = job.idx
      BY <1>4 DEF Carried
    <2>3. Tidy'
      BY <1>1, <1>2, <1>4, <2>1, <2>2, NextCommand
    <2>4. \/ job.idx = Len(job.commands) /\ Ends("success")
          \/ Ends("failure")
          \/ Goes(job, carried)
          \/ job.idx < Len(job.commands) /\ Goes(job, carried + 1)
      BY <1>2, <1>4, <2>1, <2>2, Outcomes
    <2> QED
      BY <1>4, <2>2, <2>3, <2>4, ContractSteps DEF Contract!Next
  <1> QED
    BY <1>3, <1>4

\* The job waits for a process or for a script, not for both, and for neither in a dry run.
LEMMA Kinds ==
    ASSUME IInv, job.active
    PROVE  Kind \in {"process", "js"} /\ ~(Awaits("process") /\ Awaits("js"))
           /\ (DryRun => ~Awaits("process") /\ ~Awaits("js"))
  <1>1. job.idx \in 1 .. Len(job.commands) /\ job.commands \in Seq(Command)
    BY DEF IInv, Tidy, ExecutorTypes, JobInv, JobRecord
  <1>2. job.commands[job.idx] \in Command
    BY <1>1
  <1> QED
    BY <1>2 DEF Kind, Command, Awaits, DryRun

\* While the job does not wait for a script, there is nothing of one.
LEMMA NoScript ==
    ASSUME IInv, ~Awaits("js")
    PROVE  /\ js \in ScriptRecord /\ ~js.running /\ ~js.evaluating /\ ~js.finished
           /\ None(js.queue, {"start"})
           /\ ~None(js.queue, {"cancel"}) \/ (js.cancelled /\ js.success)
                => buildCanceled /\ (job.active => job.canceled)
  BY DEF IInv, Tidy, ExecutorTypes, ScriptInv

\* Neither a process nor a script of the job is on its way.
LEMMA Quiet ==
    ASSUME IInv, UNCHANGED signals, process.state = "NotRunning", ~Awaits("js")
    PROVE  Over(process, js)
  BY NoScript DEF IInv, Tidy, ExecutorTypes, OtherTypes, ProcessInv, SocketInv, Over, SignalsFit

\* ExecutorJob::run() finds nothing of an earlier transformer.
LEMMA RunStep ==
    ASSUME IInv, NEW t \in Transformers, Run(t)
    PROVE  IInv' /\ [Contract!Next]_(Contract!vars)
  <1>1. /\ ~job.active /\ ~buildCanceled /\ buildCanceled' = buildCanceled /\ UNCHANGED signals
        /\ report = "none" /\ runs' = runs + 1
    BY DEF Run
  <1>2. ~Awaits("process") /\ ~Awaits("js") /\ ~DryRun
    BY <1>1 DEF Awaits, DryRun
  <1>3. process.state = "NotRunning" /\ posted = <<>> /\ job = Idle /\ carried = 0
    BY <1>1, <1>2 DEF IInv, Tidy, ExecutorTypes, ProcessInv, PostedInv, JobInv, Timers
  <1>4. Over(process, js)
    BY <1>1, <1>2, <1>3, Quiet
  <1>5. /\ watchdog \in Watchdogs /\ ~watchdog["js"] /\ (watchdog["process"] => process.socketError)
        /\ None(js.queue, {"cancel"}) /\ (~js.cancelled \/ ~js.success)
        /\ launcher \in LauncherRecord /\ carried \in Nat
    BY <1>1, <1>2 DEF IInv, Tidy, ExecutorTypes, WatchdogInv, ScriptInv
  <1>6. OtherTypes'
    <2>1. runs \in Nat /\ runs < MaxRuns /\ runs' = runs + 1
      BY BoundsAssumption DEF Run, IInv, OtherTypes
    <2> QED
      BY <2>1, BoundsAssumption DEF Run, IInv, OtherTypes
  <1>7. CASE t = <<>>
    <2>1. SetFinished("success", process, <<>>, js, watchdog) /\ UNCHANGED launcher
      BY <1>3, <1>7 DEF Run
    <2>2. Tidy'
      BY <1>4, <1>5, <2>1, JobEnds
    <2>3. Ends("success")
      BY <2>1 DEF SetFinished, Ends
    <2> QED
      BY <1>1, <1>6, <2>2, <2>3, AcceptSteps DEF Contract!Next, IInv
  <1>8. CASE t # <<>>
    <2> DEFINE j == [Idle EXCEPT !.active = TRUE, !.commands = t]
    <2>1. RunNextCommand(j, process, <<>>, js, watchdog)
      BY <1>3, <1>8 DEF Run
    <2>2. t \in Seq(Command) /\ Len(t) \in Nat
      BY TransformersAssumption
    <2>3. j \in JobRecord /\ j.active /\ ~j.canceled /\ j.commands = t /\ j.idx = 0
      BY <2>2 DEF Idle, JobRecord
    <2> HIDE DEF j
    <2>4. Carried = 0
      BY <1>1 DEF Carried
    <2>5. Tidy'
      BY <1>4, <1>5, <2>1, <2>2, <2>3, <2>4, NextCommand
    <2>6. \/ Ends("success")
          \/ Ends("failure")
          \/ Goes(j, 0)
          \/ 0 < Len(t) /\ Goes(j, 1)
      <3>1. 0 \in 0 .. Len(t)
        BY <2>2
      <3> QED
        BY <2>1, <2>3, <2>4, <3>1, Outcomes
    <2>7. ASSUME Goes(j, 0) \/ (0 < Len(t) /\ Goes(j, 1)) PROVE Contract!Accept
      BY <1>1, <2>2, <2>3, <2>7, AcceptSteps DEF Goes
    <2>8. Contract!Next
      BY <1>1, <2>6, <2>7, AcceptSteps DEF Contract!Next
    <2> QED
      BY <1>6, <2>5, <2>8 DEF IInv
  <1> QED
    BY <1>7, <1>8

\* An answer of the process is waiting for the paused script, or was left to onProcessFinished().
LEMMA AnswerWaits ==
    ASSUME IInv, Awaits("process"), Over(process', js),
           posted' \in {<<>>, <<"onProcessError">>, <<"onProcessFinished">>},
           posted' = <<"onProcessFinished">> /\ process'.exitOk => carried = job.idx,
           process.socketError => process'.socketError,
           UNCHANGED <<job, watchdog, js, launcher, carried, report, buildCanceled, runs>>
    PROVE  Tidy' /\ [Contract!Next]_(Contract!vars)
  <1>1. UNCHANGED Contract!vars
    BY ContractSteps
  <1>2. None(signals', {"exitOk"}) /\ One(signals', Answers)
    BY DEF Over, None, One, Answers
  <1>3. Awaits("process")' /\ ~DryRun' /\ ~Awaits("js") /\ (Awaits("js")' <=> Awaits("js"))
    BY DEF Awaits, DryRun, Kind
  <1> USE DEF Over, SignalsFit, Tidy, ExecutorTypes, JobInv, PostedInv, ProcessInv, SocketInv,
           ScriptInv, WatchdogInv, CarriedInv, Timers, IInv
  <1>4. ExecutorTypes' /\ JobInv'
    OBVIOUS
  <1>5. PostedInv' /\ ProcessInv'
    BY <1>2, <1>3, TimersDiffer
  <1>6. SocketInv' /\ ScriptInv' /\ WatchdogInv'
    BY <1>2, <1>3
  <1>7. CarriedInv'
    BY <1>2, <1>3
  <1> QED
    BY <1>1, <1>4, <1>5, <1>6, <1>7

\* ProcessCommandExecutor::onProcessError().
LEMMA ProcessError ==
    ASSUME IInv, NEW p, Awaits("process"), Over(p, js), process.socketError => p.socketError,
           UNCHANGED <<buildCanceled, runs>>, OnProcessError(p, <<>>)
    PROVE  Tidy' /\ [Contract!Next]_(Contract!vars)
  <1>1. job.active /\ ~Awaits("js")
    BY Kinds DEF Awaits
  <1>2. CASE engineActive \/ cancelReason
    <2>1. /\ posted' \in {<<>>, <<"onProcessError">>} /\ process' = p
          /\ UNCHANGED <<job, watchdog, js, launcher, carried, report>>
      BY <1>2, TimerQueue DEF OnProcessError
    <2> QED
      BY <2>1, AnswerWaits, TimersDiffer
  <1>3. CASE ~engineActive /\ ~cancelReason
    <2>1. OnCommandFinished(FALSE, p, <<>>, js)
      BY <1>3 DEF OnProcessError
    <2> QED
      BY <1>1, <2>1, NoScript, CommandFinished
  <1> QED
    BY <1>2, <1>3

\* ProcessCommandExecutor::onProcessFinished().
LEMMA ProcessFinished ==
    ASSUME IInv, NEW p, Awaits("process"), Over(p, js), process.socketError => p.socketError,
           p.exitOk => carried = job.idx,
           UNCHANGED <<buildCanceled, runs>>, OnProcessFinished(p, <<>>)
    PROVE  Tidy' /\ [Contract!Next]_(Contract!vars)
  <1>1. job.active /\ ~Awaits("js")
    BY Kinds DEF Awaits
  <1>2. CASE engineActive
    <2>1. /\ posted' = <<"onProcessFinished">> /\ process' = p
          /\ UNCHANGED <<job, watchdog, js, launcher, carried, report>>
      BY <1>2, TimerQueue DEF OnProcessFinished
    <2> QED
      BY <2>1, AnswerWaits, TimersDiffer
  <1>3. CASE ~engineActive
    <2> DEFINE ok == ~cancelReason /\ ~p.failedToStart /\ p.exitOk
    <2>1. OnCommandFinished(ok, p, <<>>, js)
      BY <1>3 DEF OnProcessFinished
    <2>2. ok \in BOOLEAN /\ (ok => carried = job.idx)
      OBVIOUS
    <2> HIDE DEF ok
    <2> QED
      BY <1>1, <2>1, <2>2, NoScript, CommandFinished
  <1> QED
    BY <1>2, <1>3

\* A zero timer fires: the command it belongs to is over.
LEMMA HandlePostedStep ==
    ASSUME IInv, HandlePosted
    PROVE  IInv' /\ [Contract!Next]_(Contract!vars)
  <1>1. OtherTypes' /\ UNCHANGED <<signals, buildCanceled, runs>>
    BY DEF IInv, OtherTypes, HandlePosted
  <1>2. posted \in Timers /\ posted # <<>>
    BY DEF IInv, Tidy, ExecutorTypes, HandlePosted
  <1>3. CASE posted = <<"dryRunFinished">>
    <2>1. Head(posted) = "dryRunFinished" /\ Tail(posted) = <<>>
      BY <1>3, TimerQueue
    <2>2. OnCommandFinished(TRUE, process, <<>>, js)
      BY <2>1 DEF HandlePosted
    <2>3. DryRun /\ job.active /\ carried = job.idx
      BY <1>3 DEF IInv, Tidy, PostedInv, CarriedInv, DryRun
    <2>4. ~Awaits("process") /\ ~Awaits("js")
      BY <2>3, Kinds
    <2>5. process.state = "NotRunning"
      BY <2>4 DEF IInv, Tidy, ProcessInv
    <2>6. Over(process, js)
      BY <1>1, <2>4, <2>5, Quiet
    <2>7. Tidy' /\ [Contract!Next]_(Contract!vars)
      BY <1>1, <2>2, <2>3, <2>4, <2>6, NoScript, CommandFinished
    <2> QED
      BY <1>1, <2>7 DEF IInv
  <1>4. CASE posted \in {<<"onProcessError">>, <<"onProcessFinished">>}
    <2>1. Awaits("process") /\ process.state = "NotRunning"
      BY <1>4 DEF IInv, Tidy, PostedInv
    <2>2. ~Awaits("js")
      BY <2>1, Kinds DEF Awaits
    <2>3. Over(process, js)
      BY <1>1, <2>1, <2>2, Quiet
    <2>4. CASE posted = <<"onProcessError">>
      <3>1. OnProcessError(process, <<>>)
        BY <2>4, TimerQueue DEF HandlePosted
      <3> QED
        BY <1>1, <2>1, <2>3, <3>1, ProcessError DEF IInv
    <2>5. CASE posted = <<"onProcessFinished">>
      <3>1. OnProcessFinished(process, <<>>)
        BY <2>5, TimerQueue DEF HandlePosted
      <3>2. process.exitOk => carried = job.idx
        BY <2>5 DEF IInv, Tidy, CarriedInv
      <3> QED
        BY <1>1, <2>1, <2>3, <3>1, <3>2, ProcessFinished DEF IInv
    <2> QED
      BY <1>4, <2>4, <2>5
  <1> QED
    BY <1>2, <1>3, <1>4 DEF Timers

\* The signals after the first has been taken.
LEMMA SignalTaken ==
    ASSUME IInv, signals # <<>>, signals' = Tail(signals)
    PROVE  /\ SignalsFit /\ Head(signals) \in Signals
           /\ Head(signals) \in Answers => ~None(signals, Answers) /\ None(signals', Answers)
           /\ Head(signals) = "exitOk" => ~None(signals, {"exitOk"})
           /\ None(signals, {"ready"}) => None(signals', {"ready"}) /\ Head(signals) # "ready"
           /\ None(signals, Answers) => None(signals', Answers)
           /\ None(signals, {"exitOk"}) => None(signals', {"exitOk"})
           /\ Head(signals) = "ready" => launcher.socket \in {"ready", "lost"}
           /\ Head(signals) = "socketError" => /\ launcher.socket = "lost" /\ None(signals', Answers)
                                               /\ None(signals', {"ready"})
           /\ One(signals', Answers)
  <1>1. signals \in Seq(Signals) /\ launcher \in LauncherRecord
    BY DEF IInv, Tidy, ExecutorTypes, OtherTypes
  <1>2. /\ Head(signals) \in Signals /\ signals' \in Seq(Signals)
        /\ \A S : None(signals, S) <=> None(signals', S) /\ Head(signals) \notin S
        /\ \A S : One(signals, S) => One(signals', S) /\ (Head(signals) \in S => None(signals', S))
        /\ \A a, b : Precedes(signals, a, b) => /\ Precedes(signals', a, b)
                                                /\ Head(signals) = b /\ a # b => None(signals', {a})
    BY <1>1, TakeFromQueue
  <1>3. LastWord(signals')
    BY <1>2 DEF IInv, Tidy, SocketInv, LastWord
  <1>4. SignalsFit
    BY <1>2, <1>3 DEF IInv, Tidy, SocketInv, SignalsFit
  <1>5. Head(signals) = "socketError" => \A a \in Answers \cup {"ready"} : None(signals', {a})
    <2>1. \A a \in Answers \cup {"ready"} : a # "socketError"
      BY DEF Answers
    <2> QED
      BY <1>2, <2>1 DEF IInv, Tidy, SocketInv, LastWord
  <1>6. (\A a \in Answers \cup {"ready"} : None(signals', {a}))
           => None(signals', Answers) /\ None(signals', {"ready"})
    BY DEF None
  <1>7. Head(signals) = "ready" => launcher.socket \in {"ready", "lost"}
    BY <1>1, <1>2 DEF IInv, Tidy, SocketInv, LauncherRecord
  <1>8. Head(signals) = "socketError" => launcher.socket = "lost"
    BY <1>1, <1>2 DEF IInv, Tidy, SocketInv, LauncherRecord
  <1>9. One(signals', Answers)
    BY <1>2 DEF IInv, Tidy, ProcessInv
  <1>10. Head(signals) \in Answers => None(signals', Answers)
    BY <1>2 DEF IInv, Tidy, ProcessInv
  <1> QED
    BY <1>2, <1>4, <1>5, <1>6, <1>7, <1>8, <1>9, <1>10

\* QbsProcess::handleSocketReady(), and handleSocketError() while no process is running.
LEMMA SocketSignal ==
    ASSUME IInv, HandleSignal,
           \/ Head(signals) = "ready"
           \/ Head(signals) = "socketError" /\ process.state = "NotRunning"
    PROVE  Tidy' /\ [Contract!Next]_(Contract!vars)
  <1> DEFINE gone == Head(signals) = "socketError"
             starts == Head(signals) = "ready" /\ process.state = "Starting"
             p == [process EXCEPT !.socketError = gone, !.state = IF starts THEN "Running" ELSE @]
             l == [launcher EXCEPT !.program = launcher.socket = "ready"]
  <1>1. /\ signals # <<>> /\ signals' = Tail(signals)
        /\ process' = p /\ launcher' = (IF starts THEN l ELSE launcher)
        /\ UNCHANGED <<job, watchdog, posted, js, carried, report, buildCanceled, runs>>
    <2>1. Head(signals) \notin {"processError", "exitOk", "exitFailed"}
      OBVIOUS
    <2>2. ~(Head(signals) = "socketError" /\ process.state # "NotRunning")
      OBVIOUS
    <2> QED
      BY <2>1, <2>2 DEF HandleSignal
  <1>2. UNCHANGED Contract!vars
    BY <1>1, ContractSteps
  <1>3. /\ p \in ProcessRecord /\ p.socketError = gone
        /\ p.state = (IF starts THEN "Running" ELSE process.state)
    BY DEF IInv, Tidy, ExecutorTypes, ProcessRecord
  <1>4. /\ l \in LauncherRecord /\ l.socket = launcher.socket
        /\ l.program = (launcher.socket = "ready")
    BY DEF IInv, Tidy, ExecutorTypes, LauncherRecord
  <1>5. \A k \in {"process", "js"} : Awaits(k)' <=> Awaits(k)
    BY <1>1 DEF Awaits, Kind
  <1>6. DryRun' <=> DryRun
    BY <1>1 DEF DryRun
  <1>7. launcher'.socket = launcher.socket /\ launcher' \in LauncherRecord
    BY <1>1, <1>4 DEF IInv, Tidy, ExecutorTypes
  <1>8. launcher'.program => launcher.socket = "ready" /\ (launcher.program \/ starts)
    BY <1>1, <1>4 DEF IInv, Tidy, SocketInv
  <1> HIDE DEF p, l
  <1> USE DEF Tidy, IInv
  <1>9. ExecutorTypes' /\ JobInv'
    BY <1>1, <1>3, <1>7 DEF ExecutorTypes, JobInv
  <1>10. PostedInv'
    BY <1>1, <1>3, <1>5, <1>6 DEF PostedInv
  <1>11. ProcessInv'
    BY <1>1, <1>3, <1>5, <1>8, SignalTaken DEF ProcessInv
  <1>12. SocketInv'
    BY <1>1, <1>3, <1>7, <1>8, SignalTaken DEF SocketInv, SignalsFit
  <1>13. ScriptInv' 
    BY <1>1, <1>5 DEF ScriptInv
  <1>14. WatchdogInv'
    BY <1>1, <1>3, <1>5, SignalTaken DEF WatchdogInv, SocketInv
  <1>15. CarriedInv'
    <2>1. launcher'.program \/ process'.state = "Starting" => launcher.program \/ process.state = "Starting"
      BY <1>1, <1>3, <1>8
    <2>2. process'.exitOk = process.exitOk
      BY <1>1 DEF p, ExecutorTypes, ProcessRecord
    <2>3. ~None(signals', {"exitOk"}) => ~None(signals, {"exitOk"})
      BY <1>1, SignalTaken
    <2> QED
      BY <1>1, <1>5, <1>6, <2>1, <2>2, <2>3 DEF CarriedInv
  <1> QED
    BY <1>2, <1>9, <1>10, <1>11, <1>12, <1>13, <1>14, <1>15

\* QbsProcess handles a signal of the socket: an answer ends the command it belongs to.
LEMMA HandleSignalStep ==
    ASSUME IInv, HandleSignal
    PROVE  IInv' /\ [Contract!Next]_(Contract!vars)
  <1>1. /\ signals # <<>> /\ signals' = Tail(signals)
        /\ UNCHANGED <<cancelReason, engineActive, pauses, buildCanceled, runs, timedOut>>
    BY DEF HandleSignal
  <1>2. OtherTypes'
    BY <1>1, SignalTaken DEF IInv, OtherTypes, SignalsFit
  <1>3. process \in ProcessRecord /\ posted \in Timers
    BY DEF IInv, Tidy, ExecutorTypes
  <1> SUFFICES Tidy' /\ [Contract!Next]_(Contract!vars)
    BY <1>2 DEF IInv
  <1>4. CASE Head(signals) = "ready" \/ (Head(signals) = "socketError" /\ process.state = "NotRunning")
    BY <1>4, SocketSignal
  <1>5. CASE Head(signals) \in Answers \/ (Head(signals) = "socketError" /\ process.state # "NotRunning")
    <2>1. process.state # "NotRunning" /\ Awaits("process") /\ ~process.socketError
      BY <1>1, <1>5, SignalTaken DEF IInv, Tidy, ProcessInv, SocketInv
    <2>2. ~Awaits("js") /\ ~DryRun
      BY <2>1, Kinds DEF Awaits
    <2>3. posted = <<>>
      BY <1>3, <2>1, <2>2 DEF IInv, Tidy, PostedInv, Timers
    <2>4. ~launcher.program /\ None(signals', Answers) /\ SignalsFit
      BY <1>1, <1>5, SignalTaken DEF IInv, Tidy, ProcessInv, SocketInv
    <2>5. /\ Head(signals) = "socketError" => launcher.socket = "lost" /\ None(signals', {"ready"})
          /\ Head(signals) = "exitOk" => carried = job.idx
      BY <1>1, SignalTaken DEF IInv, Tidy, CarriedInv
    <2> DEFINE failed == [process EXCEPT !.state = "NotRunning", !.failedToStart = TRUE]
               lost == [failed EXCEPT !.socketError = TRUE]
               exited == [process EXCEPT !.state = "NotRunning", !.exitOk = Head(signals) = "exitOk"]
    <2>6. /\ failed \in ProcessRecord /\ failed.state = "NotRunning" /\ ~failed.socketError
          /\ lost \in ProcessRecord /\ lost.state = "NotRunning"
          /\ exited \in ProcessRecord /\ exited.state = "NotRunning" /\ ~exited.socketError
          /\ exited.exitOk = (Head(signals) = "exitOk")
      BY <1>3, <2>1 DEF ProcessRecord
    <2>7. CASE Head(signals) = "processError"
      <3>1. OnProcessError(failed, <<>>)
        BY <2>3, <2>7 DEF HandleSignal
      <3>2. Over(failed, js)
        BY <2>2, <2>4, <2>6, NoScript DEF Over
      <3> QED
        BY <1>1, <2>1, <3>1, <3>2, ProcessError
    <2>8. CASE Head(signals) = "socketError"
      <3>1. OnProcessError(lost, <<>>)
        BY <1>5, <2>3, <2>8 DEF HandleSignal, Answers
      <3>2. Over(lost, js)
        BY <2>2, <2>4, <2>5, <2>6, <2>8, NoScript DEF Over
      <3> QED
        BY <1>1, <2>1, <3>1, <3>2, ProcessError
    <2>9. CASE Head(signals) \in {"exitOk", "exitFailed"}
      <3>1. OnProcessFinished(exited, <<>>)
        BY <2>3, <2>9 DEF HandleSignal
      <3>2. Over(exited, js)
        BY <2>2, <2>4, <2>6, NoScript DEF Over
      <3>3. exited.exitOk => carried = job.idx
        BY <2>5, <2>6
      <3> QED
        BY <1>1, <2>1, <3>1, <3>2, <3>3, ProcessFinished
    <2> QED
      BY <1>5, <2>7, <2>8, <2>9 DEF Answers
  <1> QED
    BY <1>1, <1>4, <1>5, SignalTaken DEF Signals

\* A call to the thread object is queued.
LEMMA CallQueued ==
    ASSUME IInv, NEW e \in {"cancel", "timeout"}
    PROVE  LET s == [js EXCEPT !.queue = Append(@, e)] IN
           /\ js \in ScriptRecord /\ s \in ScriptRecord /\ s.queue = Append(js.queue, e)
           /\ s.running = js.running /\ s.evaluating = js.evaluating /\ s.finished = js.finished
           /\ s.cancelled = js.cancelled /\ s.success = js.success
           /\ None(js.queue, {"start"}) <=> None(Append(js.queue, e), {"start"})
           /\ One(js.queue, {"start"}) => One(Append(js.queue, e), {"start"})
           /\ e = "timeout" => (None(js.queue, {"cancel"}) <=> None(Append(js.queue, e), {"cancel"}))
  <1>1. js \in ScriptRecord /\ js.queue \in Seq({"start", "cancel", "timeout"})
    BY DEF IInv, Tidy, ExecutorTypes, ScriptRecord
  <1>2. /\ Append(js.queue, e) \in Seq({"start", "cancel", "timeout"})
        /\ \A S : None(Append(js.queue, e), S) <=> None(js.queue, S) /\ e \notin S
        /\ \A S : One(js.queue, S) /\ (e \notin S \/ None(js.queue, S)) => One(Append(js.queue, e), S)
    BY <1>1, AppendToQueue
  <1> DEFINE r == Append(js.queue, e)
  <1> HIDE DEF r
  <1>3. LET s == [js EXCEPT !.queue = r] IN
           /\ s \in ScriptRecord /\ s.queue = r
           /\ s.running = js.running /\ s.evaluating = js.evaluating /\ s.finished = js.finished
           /\ s.cancelled = js.cancelled /\ s.success = js.success
    BY <1>1, <1>2 DEF ScriptRecord, r
  <1>4. e \notin {"start"} /\ (e = "timeout" => e \notin {"cancel"})
    OBVIOUS
  <1> QED
    BY <1>1, <1>2, <1>3, <1>4 DEF r

\* Executor::cancelJobs() tells the script thread, or the process that is not yet started.
LEMMA CancelJobStep ==
    ASSUME IInv, CancelJob
    PROVE  IInv' /\ [Contract!Next]_(Contract!vars)
  <1>1. buildCanceled' = TRUE /\ UNCHANGED <<signals, engineActive, pauses, runs, timedOut>>
    BY DEF CancelJob
  <1>2. OtherTypes'
    <2>1. cancelReason' \in BOOLEAN
      BY Kinds DEF CancelJob, IInv, OtherTypes
    <2> QED
      BY <1>1, <2>1 DEF IInv, OtherTypes
  <1> SUFFICES Tidy' /\ [Contract!Next]_(Contract!vars)
    BY <1>2 DEF IInv
  <1> DEFINE j == [job EXCEPT !.canceled = TRUE]
  <1>3. /\ j \in JobRecord /\ j.active = job.active /\ j.commands = job.commands /\ j.idx = job.idx
        /\ j.canceled = TRUE
    BY DEF IInv, Tidy, ExecutorTypes, JobRecord
  <1>4. CASE ~job.active
    <2>1. UNCHANGED <<job, process, posted, js, launcher, watchdog, carried, report>>
      BY <1>4 DEF CancelJob
    <2>2. UNCHANGED Contract!vars
      BY <1>1, <2>1, ContractSteps
    <2> QED
      BY <1>1, <2>1, <2>2 DEF IInv, Tidy, ExecutorTypes, JobInv, PostedInv, ProcessInv, SocketInv, ScriptInv,
           WatchdogInv, CarriedInv, DryRun, Awaits, Kind
  <1> HIDE DEF j
  <1>5. ASSUME job' = j PROVE /\ \A k \in {"process", "js"} : Awaits(k)' <=> Awaits(k)
                              /\ DryRun' <=> DryRun
                              /\ job.active => job'.active /\ job'.canceled
    BY <1>3, <1>5 DEF Awaits, DryRun, Kind
  <1>6. CASE job.active /\ Kind = "js"
    <2>1. /\ job' = j /\ js' = (IF js.running THEN [js EXCEPT !.queue = Append(@, "cancel")] ELSE js)
          /\ UNCHANGED <<process, posted, launcher, watchdog, carried, report>>
      BY <1>6 DEF CancelJob, j
    <2>2. Contract!Cancel
      BY <1>1, <1>6, <2>1, ContractSteps DEF j
    <2>3. /\ js' \in ScriptRecord /\ js'.running = js.running /\ js'.evaluating = js.evaluating
          /\ js'.finished = js.finished /\ js'.cancelled = js.cancelled /\ js'.success = js.success
          /\ js'.queue \in {js.queue, Append(js.queue, "cancel")}
      BY <2>1, CallQueued
    <2>4. /\ None(js.queue, {"start"}) <=> None(js'.queue, {"start"})
          /\ One(js.queue, {"start"}) => One(js'.queue, {"start"})
      BY <2>3, CallQueued
    <2> USE DEF Tidy, IInv
    <2>5. ExecutorTypes' /\ JobInv' /\ PostedInv' /\ ProcessInv' /\ SocketInv' /\ WatchdogInv'
      BY <1>1, <1>3, <1>5, <1>6, <2>1, <2>3 DEF ExecutorTypes, JobInv, PostedInv, ProcessInv, SocketInv,
           WatchdogInv
    <2>6. ScriptInv'
      BY <1>1, <1>5, <1>6, <2>1, <2>3, <2>4 DEF ScriptInv
    <2>7. CarriedInv'
      BY <1>1, <1>3, <1>5, <1>6, <2>1, <2>3 DEF CarriedInv
    <2> QED
      BY <2>2, <2>5, <2>6, <2>7 DEF Contract!Next
  <1>7. CASE job.active /\ Kind = "process" /\ process.state # "Starting"
    <2>1. job' = j /\ UNCHANGED <<process, posted, launcher, watchdog, carried, report, js>>
      BY <1>7 DEF CancelJob, j
    <2>2. Contract!Cancel
      BY <1>1, <1>7, <2>1, ContractSteps DEF j
    <2> USE DEF Tidy, IInv
    <2>5. ExecutorTypes' /\ JobInv' /\ PostedInv' /\ ProcessInv' /\ SocketInv' /\ WatchdogInv'
      BY <1>1, <1>3, <1>5, <1>7, <2>1 DEF ExecutorTypes, JobInv, PostedInv, ProcessInv, SocketInv,
           WatchdogInv
    <2>6. ScriptInv'
      BY <1>1, <1>5, <1>7, <2>1 DEF ScriptInv
    <2>7. CarriedInv'
      BY <1>1, <1>3, <1>5, <1>7, <2>1 DEF CarriedInv
    <2> QED
      BY <2>2, <2>5, <2>6, <2>7 DEF Contract!Next
  <1>8. CASE job.active /\ Kind = "process" /\ process.state = "Starting"
    <2> DEFINE p == [process EXCEPT !.state = "NotRunning", !.failedToStart = TRUE]
    <2>1. Awaits("process") /\ ~Awaits("js") /\ ~DryRun
      BY <1>8, Kinds DEF IInv, Tidy, ProcessInv
    <2>2. posted = <<>>
      BY <1>8, <2>1 DEF IInv, Tidy, ExecutorTypes, PostedInv, Timers
    <2>3. p \in ProcessRecord /\ p.state = "NotRunning" /\ p.socketError = process.socketError
      BY DEF IInv, Tidy, ExecutorTypes, ProcessRecord
    <2>4. Over(p, js)
      BY <1>1, <1>8, <2>1, <2>3, NoScript DEF Over, SignalsFit, IInv, Tidy, ProcessInv, SocketInv, OtherTypes
    <2>5. CASE engineActive
      <3>1. /\ job' = j /\ process' = p /\ posted' = <<"onProcessError">>
            /\ UNCHANGED <<js, launcher, watchdog, carried, report>>
        BY <1>8, <2>2, <2>5, TimerQueue DEF CancelJob, j
      <3>2. Contract!Cancel
        BY <1>1, <1>8, <3>1, ContractSteps DEF j
      <3> HIDE DEF p
      <3> USE DEF Tidy, IInv
      <3>3. ExecutorTypes' /\ JobInv' 
        BY <1>1, <1>3, <1>5, <1>8, <3>1, <2>3 DEF ExecutorTypes, JobInv, Timers
      <3>4. PostedInv' /\ WatchdogInv'
        BY <1>5, <2>1, <2>3, <3>1, TimersDiffer DEF PostedInv, WatchdogInv
      <3>5. ProcessInv' /\ SocketInv'
        BY <1>1, <1>5, <1>8, <2>1, <2>3, <2>4, <3>1 DEF ProcessInv, SocketInv, Over
      <3>6. ScriptInv'
        BY <1>1, <1>5, <1>8, <3>1 DEF ScriptInv
      <3>7. CarriedInv'
        BY <1>1, <1>3, <1>5, <1>8, <2>1, <2>3, <3>1, TimersDiffer DEF CarriedInv
      <3> QED
        BY <3>2, <3>3, <3>4, <3>5, <3>6, <3>7 DEF Contract!Next
    <2>6. CASE ~engineActive
      <3> DEFINE w == [watchdog EXCEPT !["process"] = FALSE]
      <3>1. SetFinished("failure", p, <<>>, js, w) /\ UNCHANGED launcher
        BY <1>8, <2>2, <2>6 DEF CancelJob
      <3>2. w \in Watchdogs /\ ~w["js"] /\ ~w["process"]
        BY <2>1 DEF IInv, Tidy, ExecutorTypes, WatchdogInv, Watchdogs
      <3> HIDE DEF w, p
      <3>3. Tidy'
        BY <1>1, <2>4, <3>1, <3>2, JobEnds DEF IInv, Tidy, ExecutorTypes
      <3>4. Ends("failure")
        BY <3>1 DEF SetFinished, Ends
      <3> QED
        BY <1>1, <1>8, <3>3, <3>4, ContractSteps DEF Contract!Next
    <2> QED
      BY <2>5, <2>6
  <1> QED
    BY <1>4, <1>6, <1>7, <1>8, Kinds

\* The watchdog of ProcessCommandExecutor fires.
LEMMA ProcessTimeoutStep ==
    ASSUME IInv, ProcessTimeout
    PROVE  IInv' /\ [Contract!Next]_(Contract!vars)
  <1>1. /\ watchdog["process"] /\ cancelReason' = TRUE /\ timedOut' = TRUE
        /\ watchdog' = [watchdog EXCEPT !["process"] = FALSE]
        /\ UNCHANGED <<job, js, launcher, signals, engineActive, pauses, buildCanceled, runs,
                       carried, report>>
    BY DEF ProcessTimeout
  <1>2. OtherTypes' /\ UNCHANGED Contract!vars
    BY <1>1, ContractSteps DEF IInv, OtherTypes
  <1>3. watchdog' \in Watchdogs /\ watchdog'["js"] = watchdog["js"] /\ ~watchdog'["process"]
    BY <1>1 DEF IInv, Tidy, ExecutorTypes, Watchdogs
  <1>4. /\ \A k \in {"process", "js"} : Awaits(k)' <=> Awaits(k)
        /\ DryRun' <=> DryRun
    BY <1>1 DEF Awaits, DryRun, Kind
  <1>5. CASE process.state # "Starting"
    <2>1. UNCHANGED <<process, posted>>
      BY <1>5 DEF ProcessTimeout
    <2>2. Tidy'
      BY <1>1, <1>3, <1>4, <2>1 DEF IInv, Tidy, ExecutorTypes, JobInv, PostedInv, ProcessInv, SocketInv,
         ScriptInv, WatchdogInv, CarriedInv
    <2> QED
      BY <1>2, <2>2 DEF IInv
  <1>6. CASE process.state = "Starting"
    <2> DEFINE p == [process EXCEPT !.state = "NotRunning", !.failedToStart = TRUE]
    <2>1. Awaits("process") /\ job.active /\ ~process.socketError
      BY <1>6 DEF IInv, Tidy, ProcessInv, SocketInv, Awaits
    <2>2. ~DryRun /\ ~Awaits("js")
      BY <2>1, Kinds
    <2>3. posted = <<>>
      BY <1>6, <2>2 DEF IInv, Tidy, ExecutorTypes, PostedInv, Timers
    <2>4. process' = p /\ posted' \in {<<>>, <<"onProcessError">>}
      BY <1>6, <2>3, TimerQueue DEF ProcessTimeout
    <2>5. p \in ProcessRecord /\ p.state = "NotRunning" /\ ~p.socketError
      BY <2>1 DEF IInv, Tidy, ExecutorTypes, ProcessRecord
    <2> HIDE DEF p
    <2> USE DEF IInv, Tidy
    <2>6. ExecutorTypes' /\ JobInv'
      BY <1>1, <1>3, <2>4, <2>5 DEF ExecutorTypes, JobInv, Timers
    <2>7. PostedInv'
      BY <1>4, <2>1, <2>4, <2>5, TimersDiffer DEF PostedInv
    <2>8. ProcessInv' /\ SocketInv'
      BY <1>1, <1>6, <2>4, <2>5 DEF ProcessInv, SocketInv
    <2>9. ScriptInv' /\ WatchdogInv'
      BY <1>1, <1>3, <1>4 DEF ScriptInv, WatchdogInv
    <2>10. CarriedInv'
      BY <1>1, <1>4, <2>2, <2>4, <2>5, TimersDiffer DEF CarriedInv
    <2> QED
      BY <1>2, <2>6, <2>7, <2>8, <2>9, <2>10
  <1> QED
    BY <1>5, <1>6

\* A step that changes nothing but the JavaScript side, and its watchdog.
LEMMA ScriptSide ==
    ASSUME IInv, js' \in ScriptRecord, watchdog' \in Watchdogs,
           watchdog'["process"] = watchdog["process"], watchdog'["js"] => watchdog["js"],
           ScriptInv', CarriedInv', carried' \in Nat, job.active \/ UNCHANGED carried,
           UNCHANGED <<job, cancelReason, process, posted, launcher, signals, engineActive, pauses,
                       buildCanceled, runs, timedOut, report>>
    PROVE  IInv'
  <1>1. /\ \A k \in {"process", "js"} : Awaits(k)' <=> Awaits(k)
        /\ DryRun' <=> DryRun
    BY DEF Awaits, DryRun, Kind
  <1>2. OtherTypes' /\ ExecutorTypes' /\ JobInv'
    BY DEF IInv, Tidy, OtherTypes, ExecutorTypes, JobInv
  <1>3. PostedInv' /\ ProcessInv' /\ SocketInv' /\ WatchdogInv'
    BY <1>1 DEF IInv, Tidy, PostedInv, ProcessInv, SocketInv, WatchdogInv
  <1> QED
    BY <1>2, <1>3 DEF IInv, Tidy

\* The watchdog of JsCommandExecutor fires.
LEMMA ScriptTimeoutStep ==
    ASSUME IInv, ScriptTimeout
    PROVE  IInv' /\ [Contract!Next]_(Contract!vars)
  <1>1. /\ watchdog' = [watchdog EXCEPT !["js"] = FALSE]
        /\ js' = (IF js.running THEN [js EXCEPT !.queue = Append(@, "timeout")] ELSE js)
        /\ UNCHANGED <<job, cancelReason, process, posted, launcher, signals, engineActive, pauses,
                       buildCanceled, runs, carried, timedOut, report>>
    BY DEF ScriptTimeout
  <1>2. watchdog' \in Watchdogs /\ watchdog'["process"] = watchdog["process"] /\ ~watchdog'["js"]
    BY <1>1 DEF IInv, Tidy, ExecutorTypes, Watchdogs
  <1>3. /\ js' \in ScriptRecord /\ js'.running = js.running /\ js'.evaluating = js.evaluating
        /\ js'.finished = js.finished /\ js'.cancelled = js.cancelled /\ js'.success = js.success
        /\ None(js.queue, {"start"}) <=> None(js'.queue, {"start"})
        /\ None(js.queue, {"cancel"}) <=> None(js'.queue, {"cancel"})
        /\ One(js.queue, {"start"}) => One(js'.queue, {"start"})
    BY <1>1, CallQueued
  <1>4. /\ \A k \in {"process", "js"} : Awaits(k)' <=> Awaits(k)
        /\ DryRun' <=> DryRun
    BY <1>1 DEF Awaits, DryRun, Kind
  <1>5. ScriptInv' /\ CarriedInv'
    BY <1>1, <1>3, <1>4 DEF IInv, Tidy, ScriptInv, CarriedInv
  <1>6. carried \in Nat /\ UNCHANGED Contract!vars
    BY <1>1, ContractSteps DEF IInv, Tidy, ExecutorTypes
  <1> QED
    BY <1>1, <1>2, <1>3, <1>5, <1>6, ScriptSide

\* The thread object takes the next call from its queue.
LEMMA CallTaken ==
    ASSUME IInv, js.queue # <<>>
    PROVE  /\ js.queue \in Seq({"start", "cancel", "timeout"})
           /\ Head(js.queue) \in {"start", "cancel", "timeout"}
           /\ Tail(js.queue) \in Seq({"start", "cancel", "timeout"})
           /\ \A S : None(js.queue, S) <=> None(Tail(js.queue), S) /\ Head(js.queue) \notin S
           /\ One(Tail(js.queue), {"start"})
           /\ Head(js.queue) = "start" => None(Tail(js.queue), {"start"})
  <1>1. js.queue \in Seq({"start", "cancel", "timeout"}) /\ One(js.queue, {"start"})
    BY DEF IInv, Tidy, ExecutorTypes, ScriptRecord, ScriptInv
  <1> QED
    BY <1>1, TakeFromQueue

\* JsCommandExecutorThreadObject::start().
LEMMA ScriptStartStep ==
    ASSUME IInv, ScriptStart
    PROVE  IInv' /\ [Contract!Next]_(Contract!vars)
  <1>1. /\ js.queue # <<>> /\ Head(js.queue) = "start"
        /\ js' = (IF js.cancelled
                  THEN [js EXCEPT !.queue = Tail(@), !.finished = TRUE]
                  ELSE [js EXCEPT !.queue = Tail(@), !.evaluating = TRUE, !.success = TRUE])
        /\ UNCHANGED <<job, watchdog, cancelReason, process, posted, launcher, signals, engineActive,
                       pauses, buildCanceled, runs, carried, timedOut, report>>
    BY DEF ScriptStart, ScriptThreadStep
  <1>2. /\ ~None(js.queue, {"start"}) /\ None(Tail(js.queue), {"start"}) /\ One(Tail(js.queue), {"start"})
        /\ None(Tail(js.queue), {"cancel"}) <=> None(js.queue, {"cancel"})
        /\ Tail(js.queue) \in Seq({"start", "cancel", "timeout"})
    BY <1>1, CallTaken
  <1>3. js.running /\ ~js.evaluating /\ ~js.finished /\ Awaits("js") /\ job.active
    BY <1>2 DEF IInv, Tidy, ScriptInv, Awaits
  <1>4. /\ js' \in ScriptRecord /\ js'.queue = Tail(js.queue) /\ js'.running = js.running
        /\ js'.cancelled = js.cancelled
        /\ js.cancelled => js'.finished = TRUE /\ js'.evaluating = FALSE /\ js'.success = js.success
        /\ ~js.cancelled => js'.finished = FALSE /\ js'.evaluating = TRUE /\ js'.success = TRUE
    BY <1>1, <1>2, <1>3 DEF IInv, Tidy, ExecutorTypes, ScriptRecord
  <1>5. /\ \A k \in {"process", "js"} : Awaits(k)' <=> Awaits(k)
        /\ DryRun' <=> DryRun
    BY <1>1 DEF Awaits, DryRun, Kind
  <1>6. ScriptInv' /\ CarriedInv'
    BY <1>1, <1>2, <1>3, <1>4, <1>5 DEF IInv, Tidy, ScriptInv, CarriedInv
  <1>7. carried \in Nat /\ watchdog \in Watchdogs /\ UNCHANGED Contract!vars
    BY <1>1, ContractSteps DEF IInv, Tidy, ExecutorTypes
  <1> QED
    BY <1>1, <1>4, <1>6, <1>7, ScriptSide

\* JsCommandExecutorThreadObject::cancel().
LEMMA ScriptCancelStep ==
    ASSUME IInv, ScriptCancel
    PROVE  IInv' /\ [Contract!Next]_(Contract!vars)
  <1>1. /\ js.queue # <<>> /\ Head(js.queue) # "start"
        /\ js' = [js EXCEPT !.queue = Tail(@), !.cancelled = TRUE,
                            !.success = Head(js.queue) = "cancel"]
        /\ UNCHANGED <<job, watchdog, cancelReason, process, posted, launcher, signals, engineActive,
                       pauses, buildCanceled, runs, carried, timedOut, report>>
    BY DEF ScriptCancel, ScriptThreadStep
  <1>2. /\ None(js.queue, {"start"}) <=> None(Tail(js.queue), {"start"})
        /\ One(Tail(js.queue), {"start"})
        /\ None(js.queue, {"cancel"}) => None(Tail(js.queue), {"cancel"}) /\ Head(js.queue) # "cancel"
        /\ Tail(js.queue) \in Seq({"start", "cancel", "timeout"})
    BY <1>1, CallTaken
  <1>4. /\ js' \in ScriptRecord /\ js'.queue = Tail(js.queue) /\ js'.running = js.running
        /\ js'.cancelled = TRUE /\ js'.success = (Head(js.queue) = "cancel")
        /\ js'.finished = js.finished /\ js'.evaluating = js.evaluating
    BY <1>1, <1>2 DEF IInv, Tidy, ExecutorTypes, ScriptRecord
  <1>5. /\ \A k \in {"process", "js"} : Awaits(k)' <=> Awaits(k)
        /\ DryRun' <=> DryRun
    BY <1>1 DEF Awaits, DryRun, Kind
  <1>6. ScriptInv'
    BY <1>1, <1>2, <1>4, <1>5 DEF IInv, Tidy, ScriptInv
  <1>7. CarriedInv'
    <2>1. js'.finished /\ js'.success => carried = job.idx \/ job.canceled
      BY <1>2, <1>4 DEF IInv, Tidy, ScriptInv, Awaits
    <2> QED
      BY <1>1, <1>4, <1>5, <2>1 DEF IInv, Tidy, CarriedInv
  <1>8. carried \in Nat /\ watchdog \in Watchdogs /\ UNCHANGED Contract!vars
    BY <1>1, ContractSteps DEF IInv, Tidy, ExecutorTypes
  <1> QED
    BY <1>1, <1>4, <1>6, <1>7, <1>8, ScriptSide

\* The script ends: it was carried out unless it threw or was aborted.
LEMMA ScriptEndStep ==
    ASSUME IInv, ScriptEnd
    PROVE  IInv' /\ [Contract!Next]_(Contract!vars)
  <1>1. PICK throws \in BOOLEAN :
          /\ js' = [js EXCEPT !.evaluating = FALSE, !.finished = TRUE, !.success = @ /\ ~throws]
          /\ carried' = IF throws \/ js.cancelled THEN carried ELSE carried + 1
    BY DEF ScriptEnd
  <1>2. /\ js.evaluating
        /\ UNCHANGED <<job, watchdog, cancelReason, process, posted, launcher, signals, engineActive,
                       pauses, buildCanceled, runs, timedOut, report>>
    BY DEF ScriptEnd, ScriptThreadStep
  <1>3. js.running /\ Awaits("js") /\ job.active /\ ~js.finished
    BY <1>2 DEF IInv, Tidy, ScriptInv, Awaits
  <1>4. /\ carried = job.idx - 1 /\ carried \in Nat /\ job.idx \in Nat /\ Len(job.commands) \in Nat
        /\ job.idx <= Len(job.commands) /\ ~Awaits("process") /\ ~DryRun
    BY <1>3, Kinds DEF IInv, Tidy, CarriedInv, ExecutorTypes, JobInv, JobRecord
  <1>5. /\ js' \in ScriptRecord /\ js'.queue = js.queue /\ js'.running = js.running
        /\ js'.cancelled = js.cancelled /\ js'.evaluating = FALSE /\ js'.finished = TRUE
        /\ js'.success => js.success /\ ~throws
    BY <1>1 DEF IInv, Tidy, ExecutorTypes, ScriptRecord
  <1>6. /\ \A k \in {"process", "js"} : Awaits(k)' <=> Awaits(k)
        /\ DryRun' <=> DryRun
    BY <1>2 DEF Awaits, DryRun, Kind
  <1>7. ScriptInv'
    BY <1>2, <1>3, <1>5, <1>6 DEF IInv, Tidy, ScriptInv
  <1>8. carried' \in Nat /\ carried' \in {carried, carried + 1} /\ carried' \in {job.idx - 1, job.idx}
    BY <1>1, <1>4
  <1>9. CarriedInv'
    <2>1. js'.success => carried' = job.idx \/ job.canceled
      BY <1>1, <1>3, <1>4, <1>5 DEF IInv, Tidy, ScriptInv
    <2>2. process.state = "NotRunning" /\ ~launcher.program /\ None(signals, Answers)
      BY <1>4 DEF IInv, Tidy, ExecutorTypes, ProcessInv
    <2>3. posted # <<"onProcessFinished">>
      BY <1>4 DEF IInv, Tidy, PostedInv
    <2>4. None(signals, {"exitOk"})
      BY <2>2 DEF None, Answers
    <2> QED
      BY <1>2, <1>4, <1>5, <1>6, <1>8, <2>1, <2>2, <2>3, <2>4 DEF CarriedInv
  <1>10. watchdog \in Watchdogs
    BY DEF IInv, Tidy, ExecutorTypes
  <1>11. [Contract!Next]_(Contract!vars)
    BY <1>1, <1>2, <1>3, <1>4, ContractSteps DEF Contract!Next
  <1> QED
    BY <1>2, <1>3, <1>5, <1>7, <1>8, <1>9, <1>10, <1>11, ScriptSide

\* JsCommandExecutor::onJavaScriptCommandFinished(): the script is over.
LEMMA ScriptFinishedStep ==
    ASSUME IInv, ScriptFinished
    PROVE  IInv' /\ [Contract!Next]_(Contract!vars)
  <1> DEFINE s == [js EXCEPT !.finished = FALSE, !.running = FALSE]
  <1>1. /\ js.finished /\ OnCommandFinished(js.success, process, posted, s)
        /\ UNCHANGED <<cancelReason, signals, engineActive, pauses, buildCanceled, runs, timedOut>>
    BY DEF ScriptFinished
  <1>2. Awaits("js") /\ job.active /\ ~js.evaluating /\ None(js.queue, {"start"})
    BY <1>1 DEF IInv, Tidy, ScriptInv, Awaits
  <1>3. ~Awaits("process") /\ ~DryRun
    BY <1>2, Kinds
  <1>4. process.state = "NotRunning" /\ ~launcher.program /\ None(signals, Answers) /\ posted = <<>>
    BY <1>3 DEF IInv, Tidy, ExecutorTypes, ProcessInv, PostedInv, Timers
  <1>5. /\ s \in ScriptRecord /\ ~s.running /\ ~s.evaluating /\ ~s.finished /\ s.queue = js.queue
        /\ s.cancelled = js.cancelled /\ s.success = js.success /\ js.success \in BOOLEAN
    BY <1>2 DEF IInv, Tidy, ExecutorTypes, ScriptRecord
  <1> HIDE DEF s
  <1>6. Over(process, s)
    BY <1>1, <1>2, <1>4, <1>5 DEF Over, SignalsFit, IInv, Tidy, ExecutorTypes, SocketInv, OtherTypes
  <1>7. /\ ~None(s.queue, {"cancel"}) \/ (s.cancelled /\ s.success) => buildCanceled /\ job.canceled
        /\ js.success => carried = job.idx \/ job.canceled
    BY <1>1, <1>2, <1>5 DEF IInv, Tidy, ScriptInv, CarriedInv
  <1>8. Tidy' /\ [Contract!Next]_(Contract!vars)
    BY <1>1, <1>2, <1>4, <1>5, <1>6, <1>7, CommandFinished
  <1>9. OtherTypes'
    BY <1>1 DEF IInv, OtherTypes
  <1> QED
    BY <1>8, <1>9 DEF IInv

\* A step of the launcher, or of nobody, changes none of what the handlers own.
LEMMA LauncherSide ==
    ASSUME IInv, launcher' \in LauncherRecord, ProcessInv', SocketInv', CarriedInv', OtherTypes',
           carried' \in Nat, job.active \/ UNCHANGED carried,
           UNCHANGED <<job, watchdog, process, posted, js, buildCanceled, report>>
    PROVE  IInv'
  <1>1. /\ \A k \in {"process", "js"} : Awaits(k)' <=> Awaits(k)
        /\ DryRun' <=> DryRun
    BY DEF Awaits, DryRun, Kind
  <1>2. ExecutorTypes' /\ JobInv'
    BY DEF IInv, Tidy, ExecutorTypes, JobInv
  <1>3. PostedInv' /\ ScriptInv' /\ WatchdogInv'
    BY <1>1 DEF IInv, Tidy, PostedInv, ScriptInv, WatchdogInv
  <1> QED
    BY <1>2, <1>3 DEF IInv, Tidy

\* The launcher sends a signal.
LEMMA SignalSent ==
    ASSUME IInv, NEW e \in Signals
    PROVE  /\ Append(signals, e) \in Seq(Signals)
           /\ \A S : None(Append(signals, e), S) <=> None(signals, S) /\ e \notin S
           /\ e \notin Answers \/ None(signals, Answers) => One(Append(signals, e), Answers)
           /\ e = "socketError" \/ None(signals, {"socketError"}) => LastWord(Append(signals, e))
  <1>1. signals \in Seq(Signals) /\ One(signals, Answers) /\ LastWord(signals)
    BY DEF IInv, Tidy, OtherTypes, ProcessInv, SocketInv
  <1>2. \A a \in Answers \cup {"ready"} : a # "socketError"
    BY DEF Answers
  <1>3. /\ Append(signals, e) \in Seq(Signals)
        /\ \A S : None(Append(signals, e), S) <=> None(signals, S) /\ e \notin S
        /\ \A S : One(signals, S) /\ (e \notin S \/ None(signals, S)) => One(Append(signals, e), S)
        /\ \A a, b : Precedes(signals, a, b) /\ (e # a \/ None(signals, {b})) /\ a # b
                        => Precedes(Append(signals, e), a, b)
    BY <1>1, AppendToQueue
  <1> QED
    BY <1>1, <1>2, <1>3 DEF LastWord

\* The launcher connects, or its connection is lost.
LEMMA LauncherStepKeeps ==
    ASSUME IInv, LauncherConnects \/ LauncherLost
    PROVE  IInv' /\ [Contract!Next]_(Contract!vars)
  <1>1. UNCHANGED <<job, watchdog, cancelReason, process, posted, js, engineActive, pauses,
                    buildCanceled, runs, carried, timedOut, report>>
    BY DEF LauncherConnects, LauncherLost, LauncherStep
  <1>2. carried \in Nat /\ launcher \in LauncherRecord /\ UNCHANGED Contract!vars
    BY <1>1, ContractSteps DEF IInv, Tidy, ExecutorTypes
  <1>3. /\ \A k \in {"process", "js"} : Awaits(k)' <=> Awaits(k)
        /\ DryRun' <=> DryRun
    BY <1>1 DEF Awaits, DryRun, Kind
  <1>4. "ready" \in Signals /\ "socketError" \in Signals
        /\ "ready" \notin Answers /\ "socketError" \notin Answers
    BY DEF Signals, Answers
  <1>5. CASE LauncherConnects
    <2>1. /\ launcher.socket = "connecting" /\ signals' = Append(signals, "ready")
          /\ launcher' \in LauncherRecord /\ launcher'.socket = "ready"
          /\ launcher'.program = launcher.program
      BY <1>2, <1>5 DEF LauncherConnects, LauncherRecord
    <2>2. /\ signals' \in Seq(Signals) /\ One(signals', Answers) /\ LastWord(signals')
          /\ None(signals', Answers) <=> None(signals, Answers)
          /\ None(signals', {"exitOk"}) <=> None(signals, {"exitOk"})
          /\ None(signals', {"socketError"})
      BY <1>4, <2>1, SignalSent DEF IInv, Tidy, SocketInv, None
    <2>3. OtherTypes' /\ ProcessInv' /\ CarriedInv'
      BY <1>1, <1>3, <2>1, <2>2 DEF IInv, Tidy, OtherTypes, ProcessInv, CarriedInv
    <2>4. SocketInv'
      BY <1>1, <2>1, <2>2 DEF IInv, Tidy, SocketInv
    <2> QED
      BY <1>1, <1>2, <2>1, <2>3, <2>4, LauncherSide
  <1>6. CASE LauncherLost
    <2>1. /\ launcher.socket \in {"connecting", "ready"} /\ launcher' \in LauncherRecord
          /\ launcher'.socket = (IF launcher.socket = "ready" THEN "lost" ELSE "failed")
          /\ ~launcher'.program
          /\ signals' = (IF launcher.socket = "ready" THEN Append(signals, "socketError") ELSE signals)
      BY <1>2, <1>6 DEF LauncherLost, LauncherRecord
    <2>2. /\ signals' \in Seq(Signals) /\ One(signals', Answers) /\ LastWord(signals')
          /\ None(signals', Answers) <=> None(signals, Answers)
          /\ None(signals', {"exitOk"}) <=> None(signals, {"exitOk"})
      BY <1>4, <2>1, SignalSent DEF IInv, Tidy, OtherTypes, ProcessInv, SocketInv
    <2>3. OtherTypes' /\ ProcessInv' /\ CarriedInv'
      BY <1>1, <1>3, <2>1, <2>2 DEF IInv, Tidy, OtherTypes, ProcessInv, CarriedInv
    <2>4. SocketInv'
      BY <1>1, <2>1, <2>2 DEF IInv, Tidy, SocketInv
    <2> QED
      BY <1>1, <1>2, <2>1, <2>3, <2>4, LauncherSide
  <1> QED
    BY <1>5, <1>6

\* The launcher reports the end of the program: nothing of it was on its way before.
LEMMA ProgramEndsStep ==
    ASSUME IInv, NEW answer \in Answers, ProgramEnds(answer)
    PROVE  IInv' /\ [Contract!Next]_(Contract!vars)
  <1>1. /\ launcher.program /\ signals' = Append(signals, answer)
        /\ launcher' = [launcher EXCEPT !.program = FALSE]
        /\ carried' = (IF answer = "exitOk" THEN carried + 1 ELSE carried)
        /\ UNCHANGED <<job, watchdog, cancelReason, process, posted, js, engineActive, pauses,
                       buildCanceled, runs, timedOut, report>>
    BY DEF ProgramEnds, LauncherStep
  <1>2. /\ launcher.socket = "ready" /\ process.state = "Running" /\ Awaits("process") /\ job.active
        /\ None(signals, Answers) /\ None(signals, {"socketError"}) /\ carried = job.idx - 1
    BY <1>1 DEF IInv, Tidy, ProcessInv, SocketInv, CarriedInv, Awaits
  <1>3. /\ carried \in Nat /\ job.idx \in Nat /\ Len(job.commands) \in Nat
        /\ job.idx <= Len(job.commands) /\ ~Awaits("js") /\ ~DryRun
    BY <1>2, Kinds DEF IInv, Tidy, ExecutorTypes, JobInv, JobRecord
  <1>4. launcher' \in LauncherRecord /\ launcher'.socket = "ready" /\ ~launcher'.program
    BY <1>1, <1>2 DEF IInv, Tidy, ExecutorTypes, LauncherRecord
  <1>5. answer \in Signals /\ answer \notin {"ready"} /\ answer \notin {"socketError"}
    BY DEF Answers, Signals
  <1>6. /\ signals' \in Seq(Signals) /\ One(signals', Answers) /\ LastWord(signals')
        /\ None(signals', {"exitOk"}) <=> None(signals, {"exitOk"}) /\ answer # "exitOk"
        /\ None(signals', {"ready"}) <=> None(signals, {"ready"})
        /\ None(signals', {"socketError"})
    BY <1>1, <1>2, <1>5, SignalSent
  <1>7. None(signals, {"exitOk"}) /\ posted # <<"onProcessFinished">>
    BY <1>2 DEF IInv, Tidy, PostedInv, None, Answers
  <1>8. /\ \A k \in {"process", "js"} : Awaits(k)' <=> Awaits(k)
        /\ DryRun' <=> DryRun
    BY <1>1 DEF Awaits, DryRun, Kind
  <1>9. ProcessInv' /\ SocketInv' /\ OtherTypes'
    BY <1>1, <1>2, <1>4, <1>6, <1>8 DEF IInv, Tidy, ProcessInv, SocketInv, OtherTypes
  <1>10. carried' \in Nat /\ carried' \in {job.idx - 1, job.idx} /\ (answer = "exitOk" => carried' = job.idx)
    BY <1>1, <1>2, <1>3
  <1>11. ~js.finished
    BY <1>3, NoScript
  <1>12. CarriedInv'
    BY <1>1, <1>2, <1>3, <1>4, <1>6, <1>7, <1>8, <1>10, <1>11 DEF CarriedInv
  <1>13. [Contract!Next]_(Contract!vars)
    BY <1>1, <1>2, <1>3, ContractSteps DEF Contract!Next
  <1> QED
    BY <1>1, <1>2, <1>4, <1>9, <1>10, <1>12, <1>13, LauncherSide

\* The executor takes the report of a job that has finished.
LEMMA OnJobFinishedStep ==
    ASSUME IInv, OnJobFinished
    PROVE  IInv' /\ [Contract!Next]_(Contract!vars)
  <1>1. /\ UNCHANGED <<job, watchdog, cancelReason, process, posted, js, launcher, signals,
                       engineActive, pauses, buildCanceled, runs, carried, timedOut>>
        /\ report # "none" /\ report' = "none"
    BY DEF OnJobFinished
  <1>2. ~job.active
    BY <1>1 DEF IInv, Tidy, JobInv
  <1>3. Contract!Collect
    BY <1>1, <1>2 DEF Contract!Collect
  <1>4. OtherTypes'
    BY <1>1 DEF IInv, OtherTypes
  <1>5. Tidy'
    BY <1>1 DEF IInv, Tidy, ExecutorTypes, JobInv, PostedInv, ProcessInv, SocketInv,
         ScriptInv, WatchdogInv, CarriedInv, Awaits, DryRun, Kind
  <1> QED
    BY <1>3, <1>4, <1>5 DEF IInv, Contract!Next

\* The script of a rule pauses or returns.
LEMMA EngineStep ==
    ASSUME IInv, EnginePauses \/ EngineReturns
    PROVE  IInv' /\ [Contract!Next]_(Contract!vars)
  <1>1. UNCHANGED <<job, watchdog, cancelReason, process, posted, js, launcher, signals,
                    buildCanceled, runs, carried, timedOut, report>>
    BY DEF EnginePauses, EngineReturns
  <1>2. engineActive' \in BOOLEAN /\ pauses' \in 0 .. MaxPauses
    <2>1. engineActive' \in BOOLEAN
      BY DEF EnginePauses, EngineReturns
    <2>2. pauses' = pauses \/ (pauses < MaxPauses /\ pauses' = pauses + 1)
      BY DEF EnginePauses, EngineReturns
    <2>3. MaxPauses \in Nat /\ pauses \in 0 .. MaxPauses
      BY BoundsAssumption DEF IInv, OtherTypes
    <2> QED
      BY <2>1, <2>2, <2>3
  <1>3. UNCHANGED Contract!vars
    BY <1>1, ContractSteps
  <1>4. OtherTypes'
    BY <1>1, <1>2 DEF IInv, OtherTypes
  <1>5. Tidy'
    BY <1>1 DEF IInv, Tidy, ExecutorTypes, JobInv, PostedInv, ProcessInv, SocketInv,
         ScriptInv, WatchdogInv, CarriedInv, Awaits, DryRun, Kind
  <1> QED
    BY <1>3, <1>4, <1>5 DEF IInv

\* A new job satisfies the invariant, and the contract's initial condition.
LEMMA InitInv ==
    ASSUME Init
    PROVE  IInv /\ Contract!Init
  <1>1. /\ job = Idle /\ ~Idle.active /\ Idle.active = FALSE /\ Idle.canceled = FALSE /\ Idle \in JobRecord
    BY DEF Init, Idle, JobRecord
  <1>2. /\ signals = <<>> /\ js.queue = <<>> /\ signals \in Seq(Signals)
        /\ js.queue \in Seq({"start", "cancel", "timeout"})
    BY DEF Init
  <1>3. /\ \A S : None(signals, S) /\ One(signals, S) /\ None(js.queue, S) /\ One(js.queue, S)
        /\ LastWord(signals)
    BY <1>2, EmptyQueue DEF LastWord
  <1>4. OtherTypes
    <2>1. runs \in 0 .. MaxRuns /\ pauses \in 0 .. MaxPauses
      BY BoundsAssumption DEF Init
    <2>2. /\ cancelReason \in BOOLEAN /\ engineActive \in BOOLEAN /\ buildCanceled \in BOOLEAN
          /\ timedOut \in BOOLEAN
      BY DEF Init
    <2> QED
      BY <1>2, <2>1, <2>2 DEF OtherTypes
  <1>5. ExecutorTypes
    BY <1>1, <1>2 DEF Init, ExecutorTypes, ProcessRecord, ScriptRecord, LauncherRecord, Watchdogs, Timers
  <1>6. JobInv /\ PostedInv /\ ProcessInv
    BY <1>1, <1>3, TimersDiffer DEF Init, JobInv, PostedInv, ProcessInv
  <1>7. SocketInv /\ ScriptInv /\ WatchdogInv
    BY <1>1, <1>3 DEF Init, SocketInv, ScriptInv, WatchdogInv
  <1>8. CarriedInv
    BY <1>1, <1>3, TimersDiffer DEF Init, CarriedInv, Awaits, DryRun
  <1>9. Contract!Init
    BY <1>1 DEF Init, Contract!Init
  <1> QED
    BY <1>4, <1>5, <1>6, <1>7, <1>8, <1>9 DEF IInv, Tidy

\* Every step keeps the invariant, and is a step of the contract or invisible to the executor.
LEMMA NextStep ==
    ASSUME IInv, [Next]_vars
    PROVE  IInv' /\ [Contract!Next]_(Contract!vars)
  <1>1. CASE Next
    <2>1. {"exitOk", "exitFailed", "processError"} = Answers
      BY DEF Answers
    <2> QED
      BY <1>1, <2>1, RunStep, OnJobFinishedStep, CancelJobStep, HandlePostedStep, HandleSignalStep, ProcessTimeoutStep,
         ScriptTimeoutStep, ScriptStartStep, ScriptCancelStep, ScriptEndStep, ScriptFinishedStep,
         LauncherStepKeeps, ProgramEndsStep, EngineStep
         DEF Next
  <1>2. CASE UNCHANGED vars
    <2>1. UNCHANGED Contract!vars
      BY <1>2, ContractSteps DEF vars
    <2>2. IInv'
      BY <1>2 DEF vars, IInv, Tidy, OtherTypes, ExecutorTypes, JobInv, PostedInv, ProcessInv, SocketInv,
         ScriptInv, WatchdogInv, CarriedInv, Awaits, DryRun, Kind
    <2> QED
      BY <2>1, <2>2
  <1> QED
    BY <1>1, <1>2

\* The invariant is strong enough.
LEMMA InvImplies ==
    ASSUME IInv
    PROVE  NothingLeftBehind
  <1>1. TypeOK
    <2>1. posted \in Seq({"dryRunFinished", "onProcessError", "onProcessFinished"})
      <3>1. posted \in Timers
        BY DEF IInv, Tidy, ExecutorTypes
      <3>2. \A x \in {"dryRunFinished", "onProcessError", "onProcessFinished"} :
              <<x>> \in Seq({"dryRunFinished", "onProcessError", "onProcessFinished"})
        OBVIOUS
      <3>3. <<>> \in Seq({"dryRunFinished", "onProcessError", "onProcessFinished"})
        OBVIOUS
      <3> QED
        BY <3>1, <3>2, <3>3 DEF Timers
    <2>2. /\ job.commands \in Transformers \cup {<<>>}
          /\ job.idx \in (IF job.active THEN 1 .. Len(job.commands) ELSE {0})
          /\ job.active \in BOOLEAN /\ job.canceled \in BOOLEAN
          /\ carried \in 0 .. Len(job.commands)
      BY DEF IInv, Tidy, ExecutorTypes, JobInv, CarriedInv, Idle, JobRecord
    <2>3. /\ js.running \in BOOLEAN /\ js.evaluating \in BOOLEAN /\ js.cancelled \in BOOLEAN
          /\ js.queue \in Seq({"start", "cancel", "timeout"})
          /\ js.success \in BOOLEAN /\ js.finished \in BOOLEAN
          /\ launcher.socket \in {"connecting", "ready", "failed", "lost"}
          /\ launcher.program \in BOOLEAN
      BY DEF IInv, Tidy, ExecutorTypes, ScriptRecord, LauncherRecord
    <2>4. /\ signals \in Seq({"ready", "socketError", "processError", "exitOk", "exitFailed"})
          /\ {cancelReason, engineActive, buildCanceled, timedOut} \subseteq BOOLEAN
          /\ runs \in 0 .. MaxRuns /\ pauses \in 0 .. MaxPauses
      <3>1. Signals = {"ready", "socketError", "processError", "exitOk", "exitFailed"}
        BY DEF Signals, Answers
      <3> QED
        BY <3>1 DEF IInv, OtherTypes
    <2>5. watchdog \in [{"process", "js"} -> BOOLEAN] /\ process \in ProcessRecord
          /\ report \in {"none", "success", "failure"}
      BY DEF IInv, Tidy, ExecutorTypes, Watchdogs
    <2> QED
      BY <2>1, <2>2, <2>3, <2>4, <2>5 DEF TypeOK, ProcessRecord
  <1>2. (\E i \in DOMAIN posted : posted[i] \in Slots)
          => posted \in {<<"onProcessError">>, <<"onProcessFinished">>}
    BY DEF IInv, Tidy, ExecutorTypes, Timers, Slots
  <1>3. (\E i \in DOMAIN signals : signals[i] \in Answers) <=> ~None(signals, Answers)
    BY DEF None
  <1>4. (\E i \in DOMAIN js.queue : js.queue[i] = "start") <=> ~None(js.queue, {"start"})
    BY DEF None
  <1>5. WatchdogGuardsItsCommand
    BY DEF IInv, Tidy, WatchdogInv, WatchdogGuardsItsCommand
  <1>6. /\ process.state # "NotRunning" => Awaits("process")
        /\ launcher.program \/ ~None(signals, Answers) => process.state = "Running"
        /\ posted \in {<<"onProcessError">>, <<"onProcessFinished">>}
             => Awaits("process") /\ process.state = "NotRunning"
        /\ js.running => Awaits("js")
        /\ js.evaluating \/ js.finished \/ ~None(js.queue, {"start"}) => js.running
    BY DEF IInv, Tidy, ProcessInv, PostedInv, ScriptInv
  <1> QED
    BY <1>1, <1>2, <1>3, <1>4, <1>5, <1>6 DEF NothingLeftBehind, Answers, Slots

\* Every reachable state of the job and its command executors satisfies the invariant.
THEOREM Invariance == Spec => []IInv
  <1>1. Init => IInv
    BY InitInv
  <1>2. IInv /\ [Next]_vars => IInv'
    BY NextStep
  <1> QED
    BY <1>1, <1>2, PTL DEF Spec

\* NothingLeftBehind holds of every transformer list: no process, script, answer, zero timer or
\* watchdog of one command of an ExecutorJob is there for the next one.
THEOREM NothingLeft == Spec => []NothingLeftBehind
  <1>1. IInv => NothingLeftBehind
    BY InvImplies
  <1> QED
    BY <1>1, Invariance, PTL

\* An ExecutorJob with its command executors implements JobContract: one report for every run(),
\* success only if every command was carried out, and never for a canceled job.
THEOREM JobsKeepTheContract == Spec => ImplementsContract
  <1>1. Init => Contract!Init
    BY InitInv
  <1>2. IInv /\ [Next]_vars => [Contract!Next]_(Contract!vars)
    BY NextStep
  <1> QED
    BY <1>1, <1>2, Invariance, PTL DEF Spec, ImplementsContract, Contract!Spec
===============================================================================
