---------------------------- MODULE ProcessLauncher ----------------------------
(***************************************************************************)
(* How qbs runs programs: through one launcher process that all builds of    *)
(* the qbs process share.                                                    *)
(*                                                                           *)
(* The main thread owns LauncherInterface, which starts and stops the         *)
(* launcher, and LauncherSocket, the connection to it.  Every build has an    *)
(* executor in a thread of its own; a build is given one QbsProcess here, and *)
(* several builds may run at the same time.  The launcher is a process with   *)
(* an event loop of its own (LauncherSocketHandler).                          *)
(*                                                                           *)
(* Programs are numbered by their QbsProcess, so that the properties can tell *)
(* the answer to one program from the answer to the next.                     *)
(***************************************************************************)
EXTENDS Naturals, Sequences, FiniteSets

CONSTANTS
    Builds,         \* the build jobs of this qbs process
    MayOverlap,     \* whether a build may start while another one is running
    MaxPrograms,    \* bound on the programs of all builds
    MaxStops,       \* bound on the timeouts of all builds
    MaxCrashes      \* bound on the crashes of launchers

ASSUME BuildsAssumption == IsFiniteSet(Builds)
ASSUME OverlapAssumption == MayOverlap \in BOOLEAN
ASSUME BoundsAssumption == {MaxPrograms, MaxStops, MaxCrashes} \subseteq Nat

VARIABLES
    phase,          \* of every build: "new", "running" or "done"
    canceled,       \* of every build: "no", "requested" or "done"
    process,        \* of every build: QbsProcess::m_state, m_socketError, the program's number
    starts,         \* how many programs were started
    stops,          \* how many programs timed out
    inbox,          \* of every build: queued signals for its QbsProcess
    startRequests,  \* LauncherInterface::m_startRequests
    server,         \* LauncherInterface::m_server is listening
    socket,         \* LauncherSocket::m_socket is set
    requests,       \* LauncherSocket::m_requests
    posted,         \* a call of LauncherSocket::handleRequests() is due
    toLauncher,     \* what has been written to the launcher
    toQbs,          \* what the launcher has written; "closed" if it is gone
    launcher,       \* "none", "starting", "up" or "dead" (LauncherInterface::m_process)
    noticed,        \* the main thread has seen that the launcher is gone
    programs,       \* launcher: the program of every token and how far its stop has got
    crashes,
    stopped         \* history: the programs that somebody has asked to stop

vars == <<phase, canceled, process, starts, stops, inbox, startRequests, server, socket,
          requests, posted, toLauncher, toQbs, launcher, noticed, programs, crashes, stopped>>

counters == <<starts, stops>>
buildVars == <<phase, canceled, process, counters, stopped>>
interfaceVars == <<startRequests, server, socket, launcher, noticed, crashes>>
queueVars == <<requests, posted>>
launcherVars == <<toLauncher, toQbs, programs>>

Running == {b \in Builds : phase[b] = "running"}
Pending(b) == process[b].state # "NotRunning"

NoProgram == [n |-> 0, stop |-> "Inactive"]
NoPrograms == [b \in Builds |-> NoProgram]

Packet == [type : {"start", "stop"}, build : Builds, n : 1 .. MaxPrograms]
Answer == [type : {"error", "finished"}, build : Builds, n : 1 .. MaxPrograms]

TypeOK ==
    /\ phase \in [Builds -> {"new", "running", "done"}]
    /\ canceled \in [Builds -> {"no", "requested", "done"}]
    /\ process \in [Builds -> [state : {"NotRunning", "Starting", "Running"},
                               socketError : BOOLEAN, n : 0 .. MaxPrograms]]
    /\ starts \in 0 .. MaxPrograms /\ stops \in 0 .. MaxStops
    /\ inbox \in [Builds -> Seq([type : {"ready", "socketError"}] \cup Answer)]
    /\ startRequests \in 0 .. Cardinality(Builds)
    /\ {server, socket, posted, noticed} \subseteq BOOLEAN
    /\ requests \in Seq(Packet) /\ toLauncher \in Seq(Packet)
    /\ toQbs \in Seq([type : {"closed"}] \cup Answer)
    /\ launcher \in {"none", "starting", "up", "dead"}
    /\ programs \in [Builds -> [n : 0 .. MaxPrograms,
                                stop : {"Inactive", "Terminating", "Killing"}]]
    /\ crashes \in 0 .. MaxCrashes
    /\ stopped \subseteq Builds \X (1 .. MaxPrograms)

Init ==
    /\ phase = [b \in Builds |-> "new"]
    /\ canceled = [b \in Builds |-> "no"]
    /\ process = [b \in Builds |-> [state |-> "NotRunning", socketError |-> FALSE, n |-> 0]]
    /\ starts = 0 /\ stops = 0
    /\ inbox = [b \in Builds |-> <<>>]
    /\ startRequests = 0
    /\ server = FALSE /\ socket = FALSE
    /\ requests = <<>> /\ posted = FALSE
    /\ toLauncher = <<>> /\ toQbs = <<>>
    /\ launcher = "none" /\ noticed = FALSE
    /\ programs = NoPrograms
    /\ crashes = 0
    /\ stopped = {}

\* A signal of LauncherSocket reaches every QbsProcess there is.
Emit(signal) ==
    inbox' = [b \in Builds |-> IF b \in Running THEN Append(inbox[b], [type |-> signal])
                                                ELSE inbox[b]]

\* LauncherInterface::errorOccurred(): every build job cancels itself.
CancelBuilds(running) ==
    canceled' = [b \in Builds |-> IF b \in running /\ canceled[b] = "no" THEN "requested"
                                                                        ELSE canceled[b]]

(***************************************************************************)
(* LauncherInterface and LauncherSocket, in the main thread                  *)
(***************************************************************************)

\* BuildJob::build() calls LauncherInterface::doStart(): the first of several builds
\* starts the launcher, unless no connection can be listened for.
StartBuild(b) ==
    /\ phase[b] = "new"
    /\ MayOverlap \/ Running = {}
    /\ phase' = [phase EXCEPT ![b] = "running"]
    /\ startRequests' = startRequests + 1
    /\ \/ startRequests > 0 /\ UNCHANGED <<server, launcher, noticed, canceled>>
       \/ /\ startRequests = 0
          /\ server' = TRUE /\ launcher' = "starting" /\ noticed' = FALSE
          /\ UNCHANGED canceled
       \/ /\ startRequests = 0
          /\ launcher' = "dead" /\ noticed' = TRUE
          /\ canceled' = [canceled EXCEPT ![b] = "requested"]
          /\ UNCHANGED server
    /\ UNCHANGED <<process, counters, stopped, inbox, socket, crashes, queueVars, launcherVars>>

\* Mutant: the processes are not told that there is a connection.
LauncherConnectsSilently ==
    /\ launcher = "starting" /\ server
    /\ ~posted
    /\ launcher' = "up"
    /\ server' = FALSE
    /\ socket' = TRUE
    /\ UNCHANGED <<buildVars, inbox, startRequests, noticed, crashes, queueVars, launcherVars>>

\* handleNewConnection() and setSocket().  The main loop has been idle since the launcher
\* was started, so that a call that was due then is no longer due.
LauncherConnects ==
    /\ launcher = "starting" /\ server
    /\ ~posted
    /\ launcher' = "up"
    /\ server' = FALSE
    /\ socket' = TRUE
    /\ Emit("ready")
    /\ UNCHANGED <<buildVars, startRequests, noticed, crashes, queueVars, launcherVars>>

\* handleProcessError(): the launcher cannot be executed.
LauncherFailsToStart ==
    /\ launcher = "starting"
    /\ launcher' = "dead" /\ noticed' = TRUE
    /\ CancelBuilds(Running)
    /\ UNCHANGED <<phase, process, counters, stopped, inbox, startRequests, server, socket,
                   crashes, queueVars, launcherVars>>

\* The launcher is gone, and what was on its way to it.
LauncherCrashes ==
    /\ launcher \in {"starting", "up"}
    /\ crashes < MaxCrashes
    /\ crashes' = crashes + 1
    /\ launcher' = "dead" /\ noticed' = FALSE
    /\ toLauncher' = <<>>
    /\ toQbs' = IF launcher = "up" THEN Append(toQbs, [type |-> "closed"]) ELSE toQbs
    /\ programs' = NoPrograms
    /\ UNCHANGED <<buildVars, inbox, startRequests, server, socket, queueVars>>

\* handleProcessFinished()
NoticeCrash ==
    /\ launcher = "dead" /\ ~noticed
    /\ noticed' = TRUE
    /\ CancelBuilds(Running)
    /\ UNCHANGED <<phase, process, counters, stopped, inbox, startRequests, server, socket,
                   launcher, crashes, queueVars, launcherVars>>

\* handleSocketDataAvailable(), handleSocketDisconnected() and handleError()
ReadSocket ==
    /\ socket
    /\ toQbs # <<>>
    /\ toQbs' = Tail(toQbs)
    /\ LET packet == Head(toQbs) IN
       \/ packet.type = "closed" /\ socket' = FALSE /\ Emit("socketError")
       \/ /\ packet.type # "closed"
          /\ inbox' = IF packet.build \in Running
                      THEN [inbox EXCEPT ![packet.build] = Append(@, packet)] ELSE inbox
          /\ UNCHANGED socket
    /\ UNCHANGED <<buildVars, startRequests, server, launcher, noticed, crashes, queueVars,
                   toLauncher, programs>>

\* Without a connection the assertion makes the function return, and the requests stay.
HandleRequests ==
    /\ posted
    /\ posted' = FALSE
    /\ IF socket
       THEN /\ requests' = <<>>
            /\ toLauncher' = IF launcher = "up" THEN toLauncher \o requests ELSE toLauncher
       ELSE UNCHANGED <<requests, toLauncher>>
    /\ UNCHANGED <<buildVars, inbox, interfaceVars, toQbs, programs>>

\* The part of doStop() that follows the count: the server is closed, the launcher told to
\* quit and the socket dropped.  The requests are not cleared.
ShutDown(last) ==
    IF ~last
    THEN UNCHANGED <<server, socket, launcher, noticed, launcherVars>>
    ELSE /\ server' = FALSE /\ socket' = FALSE
         /\ launcher' = "none" /\ noticed' = FALSE
         /\ toLauncher' = <<>> /\ toQbs' = <<>>
         /\ programs' = NoPrograms

EndBuild(b) ==
    /\ phase' = [phase EXCEPT ![b] = "done"]
    /\ inbox' = [inbox EXCEPT ![b] = <<>>]
    /\ UNCHANGED <<canceled, process, counters, stopped, crashes, queueVars>>

\* Mutant: a canceled build is counted down twice.
FinishBuildTwice(b) ==
    /\ phase[b] = "running" /\ ~Pending(b)
    /\ startRequests' = startRequests - (IF canceled[b] = "no" THEN 1 ELSE 2)
    /\ ShutDown(startRequests = 1)
    /\ EndBuild(b)

\* Mutant: every build shuts the launcher down.
FinishBuildShutDown(b) ==
    /\ phase[b] = "running" /\ ~Pending(b)
    /\ startRequests' = startRequests - 1
    /\ ShutDown(TRUE)
    /\ EndBuild(b)

\* Mutant: the build does not wait for its last process.
FinishBuildEarly(b) ==
    /\ phase[b] = "running"
    /\ startRequests' = startRequests - 1
    /\ ShutDown(startRequests = 1)
    /\ EndBuild(b)

\* BuildJob::finish() calls LauncherInterface::doStop(): the last build shuts the launcher
\* down.  The executor has waited for its jobs.
FinishBuild(b) ==
    /\ phase[b] = "running" /\ ~Pending(b)
    /\ startRequests' = startRequests - 1
    /\ ShutDown(startRequests = 1)
    /\ EndBuild(b)

(***************************************************************************)
(* QbsProcess, in the thread of its build                                    *)
(***************************************************************************)

\* LauncherSocket::sendData(), called from the executors' threads.
SendData(packet) ==
    IF socket
    THEN /\ requests' = Append(requests, packet)
         /\ posted' = (posted \/ requests = <<>>)
    ELSE UNCHANGED <<requests, posted>>

StartPacket(b, n) == [type |-> "start", build |-> b, n |-> n]
StopPacket(b, n) == [type |-> "stop", build |-> b, n |-> n]

\* QbsProcess::start(): the program fails at once, is requested, or waits.
StartProgram(b) ==
    LET n == process[b].n + 1 IN
    /\ phase[b] = "running" /\ canceled[b] = "no"
    /\ ~Pending(b)
    /\ starts < MaxPrograms
    /\ starts' = starts + 1
    /\ \/ /\ process[b].socketError
          /\ process' = [process EXCEPT ![b].n = n]
          /\ UNCHANGED queueVars
       \/ /\ ~process[b].socketError /\ socket
          /\ process' = [process EXCEPT ![b].n = n, ![b].state = "Running"]
          /\ SendData(StartPacket(b, n))
       \/ /\ ~process[b].socketError /\ ~socket
          /\ process' = [process EXCEPT ![b].n = n, ![b].state = "Starting"]
          /\ UNCHANGED queueVars
    /\ UNCHANGED <<phase, canceled, stops, stopped, inbox, interfaceVars, launcherVars>>

\* Mutant: the process counts as ended once its stop is requested.
CancelProgramAtOnce(b) ==
    /\ process' = [process EXCEPT ![b].state = "NotRunning"]
    /\ \/ process[b].state # "Running" /\ UNCHANGED <<queueVars, stopped>>
       \/ /\ process[b].state = "Running"
          /\ SendData(StopPacket(b, process[b].n))
          /\ stopped' = stopped \cup {<<b, process[b].n>>}

\* QbsProcess::cancel()
CancelProgram(b) ==
    \/ ~Pending(b) /\ UNCHANGED <<process, queueVars, stopped>>
    \/ /\ process[b].state = "Starting"
       /\ process' = [process EXCEPT ![b].state = "NotRunning"]
       /\ UNCHANGED <<queueVars, stopped>>
    \/ /\ process[b].state = "Running"
       /\ SendData(StopPacket(b, process[b].n))
       /\ stopped' = stopped \cup {<<b, process[b].n>>}
       /\ UNCHANGED process

\* A command runs out of time.
TimeOut(b) ==
    /\ Pending(b)
    /\ stops < MaxStops
    /\ stops' = stops + 1
    /\ CancelProgram(b)
    /\ UNCHANGED <<phase, canceled, starts, inbox, interfaceVars, launcherVars>>

RequestCancel(b) ==
    /\ phase[b] = "running" /\ canceled[b] = "no"
    /\ canceled' = [canceled EXCEPT ![b] = "requested"]
    /\ UNCHANGED <<phase, process, counters, stopped, inbox, interfaceVars, queueVars, launcherVars>>

\* The executor notices the request and cancels its jobs.
CancelJobs(b) ==
    /\ phase[b] = "running" /\ canceled[b] = "requested"
    /\ canceled' = [canceled EXCEPT ![b] = "done"]
    /\ CancelProgram(b)
    /\ UNCHANGED <<phase, counters, inbox, interfaceVars, launcherVars>>

\* handleSocketReady(), handleSocketError(), handleErrorPacket(), handleFinishedPacket()
HandleSignal(b) ==
    /\ inbox[b] # <<>>
    /\ inbox' = [inbox EXCEPT ![b] = Tail(@)]
    /\ LET signal == Head(inbox[b]).type IN
       \/ /\ signal = "ready" /\ process[b].state = "Starting"
          /\ process' = [process EXCEPT ![b].socketError = FALSE, ![b].state = "Running"]
          /\ SendData(StartPacket(b, process[b].n))
       \/ /\ signal = "ready" /\ process[b].state # "Starting"
          /\ process' = [process EXCEPT ![b].socketError = FALSE]
          /\ UNCHANGED queueVars
       \/ /\ signal = "socketError"
          /\ process' = [process EXCEPT ![b].socketError = TRUE, ![b].state = "NotRunning"]
          /\ UNCHANGED queueVars
       \/ /\ signal \in {"error", "finished"}
          /\ process' = [process EXCEPT ![b].state = "NotRunning"]
          /\ UNCHANGED queueVars
    /\ UNCHANGED <<phase, canceled, counters, stopped, interfaceVars, launcherVars>>

(***************************************************************************)
(* LauncherSocketHandler and Process, in the launcher                        *)
(***************************************************************************)
LauncherStep == launcher = "up" /\ UNCHANGED <<buildVars, inbox, interfaceVars, queueVars>>

Reply(type, b) == Append(toQbs, [type |-> type, build |-> b, n |-> programs[b].n])

\* Mutant: the program is not let go of when its stop is given up.
StopProgramKeep(b) ==
    \/ /\ programs[b].stop # "Killing"
       /\ programs' = [programs EXCEPT ![b].stop = IF @ = "Inactive" THEN "Terminating"
                                                                     ELSE "Killing"]
       /\ UNCHANGED toQbs
    \/ /\ programs[b].stop = "Killing"
       /\ programs' = [programs EXCEPT ![b].stop = "Inactive"]
       /\ toQbs' = Reply("finished", b)

\* Process::cancel(): terminate, kill three seconds later, and then give up on it.
StopProgram(b) ==
    \/ /\ programs[b].stop = "Inactive"
       /\ programs' = [programs EXCEPT ![b].stop = "Terminating"]
       /\ UNCHANGED toQbs
    \/ /\ programs[b].stop = "Terminating"
       /\ programs' = [programs EXCEPT ![b].stop = "Killing"]
       /\ UNCHANGED toQbs
    \/ /\ programs[b].stop = "Killing"
       /\ programs' = [programs EXCEPT ![b] = NoProgram]
       /\ toQbs' = Reply("finished", b)

\* handleStartPacket() ignores a start while the program of that token is running,
\* handleStopPacket() a stop while none is running.
HandlePacket ==
    /\ toLauncher # <<>>
    /\ toLauncher' = Tail(toLauncher)
    /\ LET packet == Head(toLauncher)
           b == packet.build
           isRunning == programs[b].n # 0 IN
       \/ /\ packet.type = "start"
          /\ programs' = IF isRunning THEN programs ELSE [programs EXCEPT ![b].n = packet.n]
          /\ UNCHANGED toQbs
       \/ packet.type = "stop" /\ isRunning /\ StopProgram(b)
       \/ packet.type = "stop" /\ ~isRunning /\ UNCHANGED <<programs, toQbs>>
    /\ LauncherStep

\* The timer of the stop procedure.
StopTimer(b) ==
    /\ programs[b].stop # "Inactive"
    /\ StopProgram(b)
    /\ UNCHANGED toLauncher
    /\ LauncherStep

\* Mutant: the timer of the stop procedure goes on.
ProgramEndsUnstopped(b, type) ==
    /\ programs[b].n # 0
    /\ programs' = [programs EXCEPT ![b].n = 0]
    /\ toQbs' = Reply(type, b)
    /\ UNCHANGED toLauncher
    /\ LauncherStep

\* handleProcessFinished(), or handleProcessError() if the program could not be started.
ProgramEnds(b, type) ==
    /\ programs[b].n # 0
    /\ programs' = [programs EXCEPT ![b] = NoProgram]
    /\ toQbs' = Reply(type, b)
    /\ UNCHANGED toLauncher
    /\ LauncherStep

Next ==
    \/ LauncherConnects \/ LauncherFailsToStart \/ LauncherCrashes \/ NoticeCrash
    \/ ReadSocket \/ HandleRequests \/ HandlePacket
    \/ \E b \in Builds :
         \/ StartBuild(b) \/ FinishBuild(b)
         \/ StartProgram(b) \/ TimeOut(b) \/ RequestCancel(b) \/ CancelJobs(b)
         \/ HandleSignal(b)
         \/ StopTimer(b)
         \/ \E type \in {"error", "finished"} : ProgramEnds(b, type)

Spec == Init /\ [][Next]_vars

(***************************************************************************)
(* All threads and the launcher handle their events, the launcher starts or   *)
(* fails, and programs end.  Builds, timeouts, crashes and the user's cancel   *)
(* requests need not happen, and a stop timer may be overtaken by the end of   *)
(* its program.                                                              *)
(***************************************************************************)
Fairness ==
    /\ WF_vars(LauncherConnects) /\ WF_vars(LauncherFailsToStart)
    /\ WF_vars(NoticeCrash) /\ WF_vars(ReadSocket) /\ WF_vars(HandleRequests)
    /\ WF_vars(HandlePacket)
    /\ \A b \in Builds :
         /\ WF_vars(CancelJobs(b)) /\ WF_vars(HandleSignal(b))
         /\ WF_vars(\E type \in {"error", "finished"} : ProgramEnds(b, type))

FairSpec == Spec /\ Fairness

(***************************************************************************)
(* Properties                                                                *)
(***************************************************************************)

\* The launcher lives as long as a build needs it, and no longer: doStart() and doStop()
\* count the builds.
LauncherServesBuilds == (Running # {}) = (launcher # "none")

\* An answer that is on its way belongs to the program its QbsProcess is waiting for, and
\* there is one at most.  handleErrorPacket() and handleFinishedPacket() assert as much,
\* and a late answer would otherwise end the next program of the same QbsProcess.
AnswersMatch ==
    \A b \in Running :
      LET sent == {i \in DOMAIN toQbs : toQbs[i].type # "closed" /\ toQbs[i].build = b}
          received == {i \in DOMAIN inbox[b] : inbox[b][i].type \in {"error", "finished"}}
          awaited(a) == process[b].state = "Running" /\ a.n = process[b].n IN
      /\ \A i \in sent : awaited(toQbs[i]) /\ sent = {i} /\ received = {}
      /\ \A i \in received : awaited(inbox[b][i]) /\ received = {i}

\* The launcher runs a program only while the QbsProcess that asked for it waits for it.
NoStrayPrograms ==
    \A b \in Builds : programs[b].n # 0 =>
        phase[b] = "running" /\ process[b].state = "Running" /\ programs[b].n = process[b].n

\* The launcher never drops a start request because the last program of the same
\* QbsProcess is still running; qbs would wait for its answer forever.
StartsAreObeyed ==
    toLauncher # <<>> /\ Head(toLauncher).type = "start"
        => programs[Head(toLauncher).build].n = 0

\* What is known by a token is the program its QbsProcess waits for, wherever it is: an answer
\* on its way, a program in the launcher, a start request the launcher is about to read.
TokensMatch == TypeOK /\ AnswersMatch /\ NoStrayPrograms /\ StartsAreObeyed

\* Only a program that somebody wanted to stop is terminated or killed, although stop
\* requests and stop timers race with the end of the program and the start of the next.
InnocentProgramsLive ==
    \A b \in Builds : programs[b].stop # "Inactive" => <<b, programs[b].n>> \in stopped

\* Requests are queued and no call of handleRequests() is due: it has returned early.
Stranded == requests # <<>> /\ ~posted

\* The launcher was gone when the build began, and nobody has told the build.
Orphaned(b) == launcher = "dead" /\ noticed /\ canceled[b] = "no"

\* Every program that is started is answered for, whether it ends, cannot be started, is
\* stopped or loses its launcher.  The exceptions are requests that were left behind by
\* an earlier build, and a build that begins when the launcher of another one has crashed.
EveryProgramAnswered ==
    \A b \in Builds : Pending(b) ~> (~Pending(b) \/ Stranded \/ Orphaned(b))

\* handleRequests() is called only while there is a connection, as its assertion says.
RequestsFindTheSocket == [][HandleRequests => socket]_vars
===============================================================================
