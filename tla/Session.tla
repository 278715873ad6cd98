-------------------------------- MODULE Session --------------------------------
(***************************************************************************)
(* A qbs session: one client, whose requests arrive one after the other in   *)
(* the main thread, and the jobs of the API, each with a worker thread.  The *)
(* client may send anything at any time, also what the documentation does    *)
(* not allow while a request is being handled.                               *)
(*                                                                           *)
(* Requests are numbered, and so are the jobs and the TopLevelProjects, by    *)
(* the request that they were made for.  0 stands for none.                  *)
(***************************************************************************)
EXTENDS Naturals

CONSTANT MaxRequests    \* bound on the requests, apart from cancel-job and quit

ASSUME BoundAssumption == MaxRequests \in Nat

Requests == 1 .. MaxRequests

VARIABLES
    sent,       \* how many requests have arrived
    answers,    \* what was replied to every request
    withdrawn,  \* history: the requests that the client has given up by another one
    phase,      \* "open", "quitting" or "ended"
    current,    \* m_currentJob
    pending,    \* m_resolveRequest
    project,    \* m_project: the TopLevelProject it refers to
    jobs,       \* the AbstractJobs, with their InternalJobs
    locker,     \* the TopLevelProject, or the one in the making, that owns the BuildGraphLocker
    lockless    \* history: the projects that stay valid although a setup whose store has failed
                \* has taken their locker, and those that were made from them

vars == <<sent, answers, withdrawn, phase, current, pending, project, jobs, locker, lockless>>

\* stage: "queued" as long as the start of the worker thread is an event in the main thread's
\* queue, "locking" and "working" in the worker thread, then "returned" until the main thread
\* has handled the signal, then "finished" until the object is deleted.  uses: the existing
\* project of a setup, or the project of a build.  waits: the request has wait-lock-build-graph.
\* moved: a failed setup had already taken the build data from the existing project.  slot: what
\* finished() is connected to.
Job == [kind : {"setup", "build"},
        stage : {"none", "queued", "locking", "working", "returned", "finished"},
        canceling : BOOLEAN, uses : 0 .. MaxRequests, result : 0 .. MaxRequests,
        waits : BOOLEAN, failed : BOOLEAN, moved : BOOLEAN,
        slot : {"session", "quit", "none"}, deleteLater : BOOLEAN]
NoJob == [kind |-> "build", stage |-> "none", canceling |-> FALSE, uses |-> 0, result |-> 0,
          waits |-> FALSE, failed |-> FALSE, moved |-> FALSE, slot |-> "none",
          deleteLater |-> FALSE]

Unfinished(j) == jobs[j].stage \in {"queued", "locking", "working", "returned"}

TypeOK ==
    /\ sent \in 0 .. MaxRequests
    /\ answers \in [Requests -> {"none", "ok", "error"}]
    /\ withdrawn \subseteq Requests
    /\ phase \in {"open", "quitting", "ended"}
    /\ {current, pending, project, locker} \subseteq 0 .. sent
    /\ lockless \subseteq 1 .. sent
    /\ jobs \in [Requests -> Job]
    /\ current # 0 /\ phase # "ended" => Unfinished(current)

Init ==
    /\ sent = 0
    /\ answers = [n \in Requests |-> "none"]
    /\ withdrawn = {}
    /\ phase = "open"
    /\ current = 0 /\ pending = 0 /\ project = 0 /\ locker = 0
    /\ jobs = [n \in Requests |-> NoJob]
    /\ lockless = {}

\* The TopLevelProjects that a job keeps alive, with the one in the making if it has allocated the
\* locker.
Holds(j, job) ==
    IF job.stage = "none" THEN {}
    ELSE {job.uses, job.result}
           \cup (IF job.kind = "setup" /\ job.stage = "working" /\ job.uses = 0 THEN {j} ELSE {})

\* The locker goes with the last reference to its project.
KeepLocker(owner, session, alive) ==
    IF owner = session \/ \E j \in Requests : owner \in Holds(j, alive[j]) THEN owner ELSE 0

----------------------------------------------------------------------------
(* The requests.                                                           *)

Reply(n, answer) == answers' = [answers EXCEPT ![n] = answer]

Receive == phase = "open" /\ sent < MaxRequests /\ sent' = sent + 1

\* A job on project p.  A build starts its thread at once, a setup by a timer with no delay.
NewJob(kind, p) ==
    [NoJob EXCEPT !.kind = kind, !.uses = p, !.slot = "session",
                  !.stage = IF kind = "setup" THEN "queued" ELSE "working"]

\* Session::setupProject().  While a setup job is being canceled the request is kept for later.
Resolve ==
    LET n == sent + 1
        busy == current # 0
        later == busy /\ jobs[current].kind = "setup" /\ jobs[current].canceling IN
    /\ Receive
    /\ \/ /\ later
          /\ pending' = n
          /\ withdrawn' = withdrawn \cup ({current, pending} \ {0})
          /\ UNCHANGED <<answers, current, jobs>>
       \/ /\ busy /\ ~later
          /\ Reply(n, "error")
          /\ UNCHANGED <<withdrawn, current, pending, jobs>>
       \/ /\ ~busy
          /\ current' = n
          /\ jobs' = [jobs EXCEPT ![n] = NewJob("setup", project)]
          /\ UNCHANGED <<answers, withdrawn, pending>>
    /\ UNCHANGED <<phase, project, locker, lockless>>

\* Session::buildProject(), and likewise cleanProject() and installProject().
Build ==
    LET n == sent + 1
        refused == current # 0 \/ project = 0 IN
    /\ Receive
    /\ \/ /\ refused
          /\ Reply(n, "error")
          /\ UNCHANGED <<current, jobs>>
       \/ /\ ~refused
          /\ current' = n
          /\ jobs' = [jobs EXCEPT ![n] = NewJob("build", project)]
          /\ UNCHANGED answers
    /\ UNCHANGED <<withdrawn, phase, pending, project, locker, lockless>>

Canceled(j) == [jobs[j] EXCEPT !.canceling = TRUE]

\* Mutant: the released project is kept as well.
ReleaseKeepingProject ==
    LET n == sent + 1
        left == IF current = 0 THEN jobs
                ELSE [jobs EXCEPT ![current] = [Canceled(current) EXCEPT !.slot = "none"]] IN
    /\ Receive
    /\ project # 0
    /\ jobs' = left
    /\ withdrawn' = withdrawn \cup ({current, pending} \ {0})
    /\ current' = 0 /\ pending' = 0
    /\ Reply(n, "ok")
    /\ UNCHANGED <<phase, project, locker, lockless>>

\* Session::releaseProject().  Nobody waits for the current job any more, nor deletes it.
Release ==
    LET n == sent + 1
        left == IF current = 0 THEN jobs
                ELSE [jobs EXCEPT ![current] = [Canceled(current) EXCEPT !.slot = "none"]] IN
    /\ Receive
    /\ \/ project = 0 /\ Reply(n, "error")
          /\ UNCHANGED <<withdrawn, current, pending, project, jobs, locker>>
       \/ /\ project # 0
          /\ jobs' = left
          /\ withdrawn' = withdrawn \cup ({current, pending} \ {0})
          /\ current' = 0 /\ project' = 0 /\ pending' = 0
          /\ locker' = KeepLocker(locker, 0, left)
          /\ Reply(n, "ok")
    /\ UNCHANGED <<phase, lockless>>

\* Session::cancelCurrentJob().  A request that was kept for later is dropped, and the current
\* one replied to after all.
Cancel ==
    /\ phase = "open"
    /\ current # 0
    /\ jobs' = [jobs EXCEPT ![current] = Canceled(current)]
    /\ pending' = 0
    /\ withdrawn' = (withdrawn \ {current}) \cup ({pending} \ {0})
    /\ UNCHANGED <<sent, answers, phase, current, project, locker, lockless>>

\* Mutant: nothing is connected to the end of the job.
QuitUnconnected ==
    /\ phase = "open"
    /\ \/ current = 0 /\ phase' = "ended" /\ UNCHANGED jobs
       \/ /\ current # 0
          /\ phase' = "quitting"
          /\ jobs' = [jobs EXCEPT ![current] = [Canceled(current) EXCEPT !.slot = "none"]]
    /\ UNCHANGED <<sent, answers, withdrawn, current, pending, project, locker, lockless>>

\* Session::quitSession()
Quit ==
    /\ phase = "open"
    /\ \/ current = 0 /\ phase' = "ended" /\ UNCHANGED jobs
       \/ /\ current # 0
          /\ phase' = "quitting"
          /\ jobs' = [jobs EXCEPT ![current] = [Canceled(current) EXCEPT !.slot = "quit"]]
    /\ UNCHANGED <<sent, answers, withdrawn, current, pending, project, locker, lockless>>

----------------------------------------------------------------------------
(* The jobs: what the worker threads do.                                   *)

\* InternalJobThreadWrapper::start().  The events of a thread are handled in order, and a job
\* that is deleted later was posted before its successor was started.  A setup without an
\* existing project gets a locker first, and waits for it if the request says so.
StartRequested(j) ==
    /\ jobs[j].stage = "queued" /\ phase # "ended"
    /\ \A i \in Requests : ~jobs[i].deleteLater
    /\ \/ /\ jobs[j].uses = 0
          /\ \E waits \in BOOLEAN :
                 jobs' = [jobs EXCEPT ![j].stage = "locking", ![j].waits = waits]
       \/ /\ jobs[j].uses # 0
          /\ jobs' = [jobs EXCEPT ![j].stage = "working"]
    /\ UNCHANGED <<sent, answers, withdrawn, phase, current, pending, project, locker, lockless>>

WorkerStep == phase # "ended" /\ UNCHANGED <<sent, answers, withdrawn, phase, current, pending, project>>

\* The constructor of BuildGraphLocker, in InternalSetupProjectJob::start().
Lock(j) ==
    /\ jobs[j].stage = "locking"
    /\ locker = 0
    /\ locker' = j
    /\ jobs' = [jobs EXCEPT ![j].stage = "working"]
    /\ UNCHANGED lockless
    /\ WorkerStep

\* The constructor gives up: the lock is taken, by this process or by another one, or the job was
\* canceled, or the lock cannot be had at all.
LockFails(j) ==
    /\ jobs[j].stage = "locking"
    /\ jobs' = [jobs EXCEPT ![j].stage = "returned", ![j].failed = TRUE]
    /\ UNCHANGED <<locker, lockless>>
    /\ WorkerStep

\* The constructor tries again for as long as the lock is taken.  Nothing says that it will be
\* given up, by another process or by a job of this one.
WaitsForLock(j) == jobs[j].stage = "locking" /\ jobs[j].waits /\ ~jobs[j].canceling

\* What execute() may leave in m_newProject: a new project, or the existing one if it was only
\* restored or has not changed.
Results(j) == {j, jobs[j].uses} \ {0}

\* The end of InternalSetupProjectJob::start(): the new project gets the locker that was allocated,
\* or that of the existing project, if it has one.
HandOver(j, result) == locker' = IF jobs[j].uses \in {0, locker} THEN result ELSE locker

\* A project that is made from one without a locker has none.
Inherited(j, result) == lockless \cup (IF jobs[j].uses \in lockless THEN {result} ELSE {})

SetupSucceeds(j) ==
    /\ jobs[j].kind = "setup" /\ jobs[j].stage = "working"
    /\ \E result \in Results(j) :
           /\ jobs' = [jobs EXCEPT ![j].stage = "returned", ![j].result = result]
           /\ HandOver(j, result)
           /\ lockless' = Inherited(j, result)
    /\ WorkerStep

\* InternalJob::storeBuildGraph() does not throw: the setup goes on, with an error.  A project that
\* was resolved from scratch leaves the existing one its build data.
StoreFails(j) ==
    /\ jobs[j].kind = "setup" /\ jobs[j].stage = "working"
    /\ \E result \in Results(j), moved \in BOOLEAN :
           /\ moved => jobs[j].uses \notin {0, result}
           /\ jobs' = [jobs EXCEPT ![j].stage = "returned", ![j].result = result,
                                   ![j].failed = TRUE, ![j].moved = moved]
           /\ HandOver(j, result)
           /\ lockless' = Inherited(j, result) \cup
                              (IF moved THEN {} ELSE {jobs[j].uses} \ {0, result})
    /\ WorkerStep

\* A locker that the setup has allocated is deleted.  The existing project keeps its own.
SetupFails(j) ==
    /\ jobs[j].kind = "setup" /\ jobs[j].stage = "working"
    /\ \E moved \in BOOLEAN :
           /\ moved => jobs[j].uses # 0
           /\ jobs' = [jobs EXCEPT ![j].stage = "returned", ![j].failed = TRUE, ![j].moved = moved]
    /\ locker' = IF jobs[j].uses = 0 THEN 0 ELSE locker
    /\ UNCHANGED lockless
    /\ WorkerStep

BuildEnds(j) ==
    /\ jobs[j].kind = "build" /\ jobs[j].stage = "working"
    /\ \E failed \in BOOLEAN :
           jobs' = [jobs EXCEPT ![j].stage = "returned", ![j].failed = failed]
    /\ UNCHANGED <<locker, lockless>>
    /\ WorkerStep

----------------------------------------------------------------------------
(* The jobs: the main thread.                                              *)

\* Mutant: only a setup that failed invalidates the existing project.
AfterFinishFailed(j) ==
    IF /\ jobs[j].kind = "setup" /\ jobs[j].uses # 0 /\ project = jobs[j].uses
       /\ jobs[j].moved
    THEN 0 ELSE project

\* SetupProjectJob::finish(): "there must always be at most one valid Project object for the
\* same build directory", so that the existing one becomes invalid.
AfterFinish(j) ==
    IF /\ jobs[j].kind = "setup" /\ jobs[j].uses # 0 /\ project = jobs[j].uses
       /\ ~jobs[j].failed \/ jobs[j].moved
    THEN 0 ELSE project

Answer(j) == IF jobs[j].failed THEN "error" ELSE "ok"

\* Mutant: the superseded job is not deleted.
SupersedeLeaking(j) ==
    LET alive == [jobs EXCEPT ![j].stage = "finished", ![pending] = NewJob("setup", AfterFinish(j))] IN
    /\ jobs[j].kind = "setup" /\ pending # 0
    /\ jobs' = alive
    /\ project' = AfterFinish(j)
    /\ current' = pending /\ pending' = 0
    /\ locker' = KeepLocker(locker, AfterFinish(j), alive)
    /\ UNCHANGED <<sent, answers, withdrawn, phase, lockless>>

\* Mutant: the request that was kept is forgotten.
SupersedeForgotten(j) ==
    LET alive == [jobs EXCEPT ![j].stage = "finished", ![j].deleteLater = TRUE] IN
    /\ jobs[j].kind = "setup" /\ pending # 0
    /\ jobs' = alive
    /\ project' = AfterFinish(j)
    /\ current' = 0 /\ pending' = 0
    /\ locker' = KeepLocker(locker, AfterFinish(j), alive)
    /\ UNCHANGED <<sent, answers, withdrawn, phase, lockless>>

\* The slot of a setup job whose request was superseded: the next one starts.
Supersede(j) ==
    LET alive == [jobs EXCEPT ![j].stage = "finished", ![j].deleteLater = TRUE,
                              ![pending] = NewJob("setup", AfterFinish(j))] IN
    /\ jobs[j].kind = "setup" /\ pending # 0
    /\ jobs' = alive
    /\ project' = AfterFinish(j)
    /\ current' = pending /\ pending' = 0
    /\ locker' = KeepLocker(locker, AfterFinish(j), alive)
    /\ UNCHANGED <<sent, answers, withdrawn, phase, lockless>>

\* Mutant: m_currentJob is not reset.
SendReplyStillCurrent(j) ==
    LET alive == [jobs EXCEPT ![j].stage = "finished", ![j].deleteLater = TRUE]
        session == IF jobs[j].kind = "setup" THEN jobs[j].result ELSE project IN
    /\ jobs[j].kind = "build" \/ pending = 0
    /\ jobs' = alive
    /\ project' = session
    /\ Reply(j, Answer(j))
    /\ locker' = KeepLocker(locker, session, alive)
    /\ UNCHANGED <<sent, withdrawn, phase, current, pending, lockless>>

\* Mutant: a superseded setup is replied to.
SendReplyAlways(j) ==
    LET alive == [jobs EXCEPT ![j].stage = "finished", ![j].deleteLater = TRUE]
        session == IF jobs[j].kind = "setup" THEN jobs[j].result ELSE project IN
    /\ jobs' = alive
    /\ project' = session
    /\ current' = 0
    /\ Reply(j, Answer(j))
    /\ locker' = KeepLocker(locker, session, alive)
    /\ UNCHANGED <<sent, withdrawn, phase, pending, lockless>>

\* The slot of any other job sends the reply.
SendReply(j) ==
    LET alive == [jobs EXCEPT ![j].stage = "finished", ![j].deleteLater = TRUE]
        session == IF jobs[j].kind = "setup" THEN jobs[j].result ELSE project IN
    /\ jobs[j].kind = "build" \/ pending = 0
    /\ jobs' = alive
    /\ project' = session
    /\ current' = 0
    /\ Reply(j, Answer(j))
    /\ locker' = KeepLocker(locker, session, alive)
    /\ UNCHANGED <<sent, withdrawn, phase, pending, lockless>>

\* AbstractJob::handleFinished()
HandleFinished(j) ==
    /\ jobs[j].stage = "returned" /\ phase # "ended"
    /\ \/ jobs[j].slot = "session" /\ (Supersede(j) \/ SendReply(j))
       \/ /\ jobs[j].slot # "session"
          /\ jobs' = [jobs EXCEPT ![j].stage = "finished"]
          /\ project' = AfterFinish(j)
          /\ phase' = IF jobs[j].slot = "quit" THEN "ended" ELSE phase
          /\ UNCHANGED <<sent, answers, withdrawn, current, pending, locker, lockless>>

\* The event loop deletes the job, and with it the projects that only the job refers to.
Delete(j) ==
    LET alive == [jobs EXCEPT ![j] = NoJob] IN
    /\ jobs[j].deleteLater /\ phase # "ended"
    /\ jobs' = alive
    /\ locker' = KeepLocker(locker, project, alive)
    /\ UNCHANGED <<sent, answers, withdrawn, phase, current, pending, project, lockless>>

----------------------------------------------------------------------------

Work(j) ==
    \/ Lock(j) \/ LockFails(j)
    \/ SetupSucceeds(j) \/ StoreFails(j) \/ SetupFails(j) \/ BuildEnds(j)

Next ==
    \/ Resolve \/ Build \/ Release \/ Cancel \/ Quit
    \/ \E j \in Requests : StartRequested(j) \/ Work(j) \/ HandleFinished(j) \/ Delete(j)

Spec == Init /\ [][Next]_vars

\* The worker threads return, unless they wait for the lock, and the event loop runs.  No client has
\* to send anything.
Fairness ==
    \A j \in Requests : /\ WF_vars(StartRequested(j)) /\ WF_vars(Work(j) /\ ~WaitsForLock(j))
                        /\ WF_vars(HandleFinished(j)) /\ WF_vars(Delete(j))

FairSpec == Spec /\ Fairness

----------------------------------------------------------------------------
(* Properties.                                                             *)

\* The session's project, as long as it is valid, has the lock on its build graph: however a
\* setup has ended, was canceled or superseded, the session does not go on with a project whose
\* locker InternalSetupProjectJob::start() has handed over to another one.  It may have lost it
\* only while the signal of that very setup is under way, or if a setup that has resolved from
\* scratch and could not store was superseded, or was the last one before quit:
\* SetupProjectJob::finish() takes its error for that of a setup that has left the existing
\* project alone.
ProjectHasTheLock ==
    project # 0 =>
        \/ locker = project
        \/ /\ current # 0 /\ jobs[current].uses = project
           /\ jobs[current].stage = "returned" /\ locker = jobs[current].result
        \/ project \in lockless

\* Two jobs never work on the same project at the same time.  lockProject() would refuse the
\* second one; that it never has to depends on m_currentJob, which release-project resets.
JobsDoNotShareProjects ==
    \A i, j \in Requests :
        Unfinished(i) /\ Unfinished(j) /\ jobs[i].uses = jobs[j].uses /\ jobs[i].uses # 0 => i = j

\* A project is used by one job at a time, in this process and, by its lock, in all others.
ProjectsAreExclusive == TypeOK /\ ProjectHasTheLock /\ JobsDoNotShareProjects

\* A session does not lock itself out: when a setup wants the lock, the project that had it is
\* gone with its job, although the worker thread was started by the job's own slot.  Only a
\* project that was released while a job was running on it still has the lock.
NoSelfLock ==
    \A j \in Requests :
        jobs[j].stage = "locking" /\ locker # 0 =>
            \E i \in Requests : jobs[i].slot = "none" /\ locker \in Holds(i, jobs[i])

\* No request is replied to twice, and none after it was superseded: the reply would be taken
\* for that of a later request.
RepliesAreFinal ==
    [][\A n \in Requests : answers'[n] # answers[n] => answers[n] = "none" /\ n \notin withdrawn]_vars

\* Every request is replied to, unless the client has superseded it, or released the project, or
\* quit.  A request with wait-lock-build-graph may have to wait for ever as long as the lock is
\* taken, but not once it was canceled or has the lock.
EveryRequestAnswered ==
    \A n \in Requests :
        n <= sent ~> answers[n] # "none" \/ n \in withdrawn \/ phase # "open" \/ WaitsForLock(n)

\* After quit the session ends.
QuitEndsSession == phase = "quitting" ~> phase = "ended"
=============================================================================
