----------------------------- MODULE SessionProofs -----------------------------
(***************************************************************************)
(* The safety properties of a session, for any number of requests.           *)
(*                                                                           *)
(* The argument is about who relies on the BuildGraphLocker.  A job that has *)
(* not finished relies on the project it uses, on the one it is making or on *)
(* the one it has made (Claim), every such project owns the locker, and so   *)
(* there is at most one of them (OneClaim): a job that goes on after its     *)
(* project was released keeps every other job from getting the lock, and a   *)
(* setup that takes the locker over takes it from its own existing project.  *)
(* A project that a failed store has left without a locker (lockless) gives  *)
(* nobody a claim, and neither does what is made from it.                    *)
(***************************************************************************)
EXTENDS Session, TLAPS

\* A number that has not arrived yet, waits in m_resolveRequest or belongs to a job that has not
\* finished is the number of no project that anybody refers to.  A project that was made without a
\* locker was made by a job that has returned.
NumberInv ==
    /\ \A n \in Requests : n > sent =>
          jobs[n].stage = "none" /\ answers[n] = "none" /\ n \notin withdrawn
    /\ \A n \in Requests : n > sent \/ n = pending \/ Unfinished(n) =>
          project # n /\ \A i \in Requests : jobs[i].uses # n
    /\ \A n \in Requests : n \in lockless =>
          n # pending /\ jobs[n].stage \in {"none", "returned", "finished"}

\* What the stage of a job says of its other fields.  Only a project that is there can be
\* released, so that a job nobody waits for has a project.  Nobody deletes such a job.
JobInv ==
    \A j \in Requests :
        /\ jobs[j].result # 0 =>
              /\ jobs[j].result \in {j, jobs[j].uses}
              /\ jobs[j].stage \in {"returned", "finished"}
        /\ jobs[j].stage \in {"queued", "locking"} => jobs[j].kind = "setup"
        /\ jobs[j].stage = "locking" => jobs[j].uses = 0
        /\ jobs[j].failed => jobs[j].stage \in {"returned", "finished"}
        /\ jobs[j].stage = "returned" /\ jobs[j].kind = "setup" =>
              jobs[j].failed \/ jobs[j].result # 0
        /\ Unfinished(j) => answers[j] = "none"
        /\ Unfinished(j) /\ (jobs[j].slot = "none" \/ jobs[j].kind = "build") => jobs[j].uses # 0
        /\ jobs[j].kind = "build" => jobs[j].result = 0
        /\ jobs[j].deleteLater => jobs[j].stage = "finished"
        /\ jobs[j].stage = "finished" =>
              jobs[j].deleteLater \/ jobs[j].slot = "none" \/ phase = "ended"

\* m_currentJob is the one job whose end is waited for, and it uses m_project.  It has been
\* withdrawn only if another request waits in m_resolveRequest, and then it is a setup.
CurrentInv ==
    /\ current # 0 /\ phase # "ended" =>
          /\ Unfinished(current)
          /\ jobs[current].uses = project
          /\ jobs[current].slot = (IF phase = "open" THEN "session" ELSE "quit")
          /\ current \in withdrawn => pending # 0
    /\ \A j \in Requests : Unfinished(j) /\ jobs[j].slot # "none" =>
          j = current /\ phase # "ended"
    /\ pending # 0 /\ phase # "ended" =>
          /\ current # 0 /\ jobs[current].kind = "setup"
          /\ jobs[pending].stage = "none"
          /\ answers[pending] = "none"
          /\ pending \notin withdrawn

\* A job that has been released uses neither the session's project nor that of another job.
ShareInv ==
    /\ JobsDoNotShareProjects
    /\ \A j \in Requests : Unfinished(j) /\ j # current /\ project # 0 => jobs[j].uses # project

\* The project that job j relies on until it has finished: the one it has made, the one it uses, or
\* the one in the making.  0 if it relies on none.
Relies(j) ==
    IF jobs[j].stage \notin {"queued", "working", "returned"} THEN 0
    ELSE IF jobs[j].result # 0 THEN jobs[j].result
    ELSE IF jobs[j].uses # 0 THEN jobs[j].uses
    ELSE IF jobs[j].stage = "working" THEN j ELSE 0

\* The owner of the locker that job j has a claim to.  A project without a locker gives none.
Claim(j) == IF Relies(j) \in lockless THEN 0 ELSE Relies(j)

\* The session's project is about to be replaced: the setup has taken its locker and returned, and
\* SetupProjectJob::finish() will invalidate it.
Replaced ==
    /\ current # 0
    /\ jobs[current].stage = "returned" /\ jobs[current].kind = "setup"
    /\ jobs[current].result = current /\ jobs[current].uses = project
    /\ ~jobs[current].failed \/ jobs[current].moved

\* Every claim is granted; with OneClaim below, there is at most one.  The session's project has
\* the locker, unless it is one of those without, or about to be replaced.  Somebody refers to the
\* project that owns the locker.  No job waits for the locker while another one waits to be deleted.
LockInv ==
    /\ \A j \in Requests : Claim(j) # 0 => locker = Claim(j)
    /\ project # 0 /\ project \notin lockless /\ locker # project => Replaced /\ locker = current
    /\ locker # 0 /\ locker # project => \E i \in Requests : locker \in Holds(i, jobs[i])
    /\ \A i, j \in Requests : jobs[j].stage = "locking" => ~jobs[i].deleteLater

\* The inductive invariant.
IInv == TypeOK /\ NumberInv /\ JobInv /\ CurrentInv /\ ShareInv /\ LockInv

----------------------------------------------------------------------------

\* A step that changes no job but j.
OthersStay(j) == \A i \in Requests : i # j => jobs'[i] = jobs[i]

\* What the types say of a job.
LEMMA JobTypes ==
  ASSUME TypeOK, NEW j \in Requests
  PROVE  /\ jobs[j] \in Job
         /\ jobs[j].uses \in 0 .. MaxRequests /\ jobs[j].result \in 0 .. MaxRequests
         /\ jobs[j].failed \in BOOLEAN /\ jobs[j].deleteLater \in BOOLEAN
         /\ jobs[j].moved \in BOOLEAN /\ jobs[j].waits \in BOOLEAN /\ jobs[j].canceling \in BOOLEAN
         /\ j \in Nat /\ j # 0 /\ MaxRequests \in Nat
BY BoundAssumption DEF TypeOK, Job, Requests

\* What the types say of the numbers of requests, jobs and projects.
LEMMA NumberTypes ==
  ASSUME TypeOK
  PROVE  /\ sent \in Nat /\ sent <= MaxRequests /\ MaxRequests \in Nat
         /\ current \in 0 .. sent /\ pending \in 0 .. sent
         /\ project \in 0 .. sent /\ locker \in 0 .. sent
         /\ current # 0 => current \in Requests
         /\ pending # 0 => pending \in Requests
         /\ lockless \subseteq 1 .. sent /\ 0 \notin lockless /\ lockless \subseteq Requests
BY BoundAssumption DEF TypeOK, Requests

\* At most one job relies on the locker at a time.
LEMMA OneClaim ==
  ASSUME IInv, NEW i \in Requests, NEW j \in Requests, Claim(i) # 0, Claim(j) # 0
  PROVE  i = j
<1>1. Claim(i) = locker /\ Claim(j) = locker
  BY DEF IInv, LockInv
<1>2. Unfinished(i) /\ Unfinished(j)
  BY DEF Claim, Relies, Unfinished
<1>3. Claim(i) \in {i, jobs[i].uses} /\ Claim(j) \in {j, jobs[j].uses}
  BY DEF IInv, JobInv, Claim, Relies
<1> QED
  BY <1>1, <1>2, <1>3 DEF IInv, NumberInv, ShareInv, JobsDoNotShareProjects

----------------------------------------------------------------------------
\* A request that is refused, by setupProject(), buildProject() or releaseProject().
LEMMA RefuseStep ==
  ASSUME IInv, Receive, Reply(sent + 1, "error"),
         UNCHANGED <<withdrawn, phase, current, pending, project, jobs, locker, lockless>>
  PROVE  IInv'
<1>1. /\ sent + 1 \in Requests /\ sent' = sent + 1 /\ sent \in Nat
      /\ answers' \in [Requests -> {"none", "ok", "error"}]
      /\ \A i \in Requests : i # sent + 1 => answers'[i] = answers[i]
      /\ sent' \in 0 .. MaxRequests
  BY BoundAssumption DEF IInv, TypeOK, Receive, Reply, Requests
<1>2. jobs[sent + 1].stage = "none"
  BY <1>1 DEF IInv, NumberInv
<1>3. TypeOK'
  BY <1>1 DEF IInv, TypeOK, Unfinished
<1>4. NumberInv'
  BY <1>1 DEF IInv, NumberInv, Unfinished, Requests
<1>5. JobInv'
  BY <1>1, <1>2 DEF IInv, JobInv, Unfinished
<1>6. CurrentInv'
  BY <1>1, NumberTypes DEF IInv, CurrentInv, Unfinished
<1>7. ShareInv'
  BY DEF IInv, ShareInv, JobsDoNotShareProjects, Unfinished
<1>8. LockInv'
  BY DEF IInv, LockInv, Replaced, Claim, Relies, Holds
<1> QED
  BY <1>3, <1>4, <1>5, <1>6, <1>7, <1>8 DEF IInv

\* The fields of a new job.
LEMMA NewJobFields ==
  ASSUME NEW kind \in {"setup", "build"}, NEW p \in 0 .. MaxRequests
  PROVE  /\ NewJob(kind, p) \in Job
         /\ NewJob(kind, p).kind = kind /\ NewJob(kind, p).uses = p
         /\ NewJob(kind, p).result = 0 /\ NewJob(kind, p).slot = "session"
         /\ NewJob(kind, p).stage = IF kind = "setup" THEN "queued" ELSE "working"
         /\ ~NewJob(kind, p).deleteLater /\ ~NewJob(kind, p).failed
<1>1. NoJob \in Job /\ NoJob.result = 0 /\ ~NoJob.deleteLater /\ ~NoJob.failed
  BY BoundAssumption DEF NoJob, Job
<1>2. (IF kind = "setup" THEN "queued" ELSE "working") \in {"queued", "working"}
  OBVIOUS
<1> QED
  BY <1>1, <1>2 DEF NewJob, Job

\* A request that starts a job, by setupProject() or buildProject().
LEMMA BeginStep ==
  ASSUME IInv, NEW kind \in {"setup", "build"}, kind = "build" => project # 0,
         NEW n \in Requests, n = sent + 1, Receive, current = 0, current' = n,
         jobs' = [jobs EXCEPT ![n] = NewJob(kind, project)],
         UNCHANGED <<answers, withdrawn, phase, pending, project, locker, lockless>>
  PROVE  IInv'
<1> USE DEF IInv
<1>1. /\ n \in Requests /\ sent' = n /\ sent \in Nat /\ n > sent /\ sent' \in 0 .. MaxRequests
      /\ n # 0 /\ (\A i \in Requests : i # 0) /\ pending = 0 /\ phase = "open"
      /\ project \in 0 .. MaxRequests
  BY BoundAssumption, NumberTypes DEF TypeOK, Receive, Requests, CurrentInv
<1>2. /\ NewJob(kind, project) \in Job
      /\ NewJob(kind, project).kind = kind /\ NewJob(kind, project).uses = project
      /\ NewJob(kind, project).result = 0 /\ NewJob(kind, project).slot = "session"
      /\ NewJob(kind, project).stage = IF kind = "setup" THEN "queued" ELSE "working"
      /\ ~NewJob(kind, project).deleteLater /\ ~NewJob(kind, project).failed
  BY <1>1, NewJobFields
<1>3. /\ jobs' \in [Requests -> Job] /\ OthersStay(n) /\ jobs'[n] = NewJob(kind, project)
  BY <1>1, <1>2 DEF TypeOK, OthersStay
<1>4. jobs[n].stage = "none" /\ answers[n] = "none" /\ n \notin withdrawn /\ project # n
  BY <1>1 DEF NumberInv
<1>5. TypeOK'
  BY <1>1, <1>2, <1>3, NumberTypes DEF TypeOK, Unfinished
<1>6. NumberInv'
  BY <1>1, <1>2, <1>3, <1>4, NumberTypes DEF NumberInv, Unfinished, OthersStay, Requests
<1>7. JobInv'
  BY <1>1, <1>2, <1>3, <1>4 DEF JobInv, Unfinished, OthersStay
<1>8. CurrentInv'
  BY <1>1, <1>2, <1>3, <1>4 DEF CurrentInv, Unfinished, OthersStay
<1>9. ShareInv'
  BY <1>1, <1>2, <1>3, <1>4 DEF ShareInv, JobsDoNotShareProjects, Unfinished, OthersStay
<1>10. LockInv'
  <2>1. project # 0 /\ project \notin lockless => locker = project
    BY DEF LockInv, Replaced
  <2>2. Claim(n)' = 0 \/ (Claim(n)' = project /\ project \notin lockless)
    BY <1>1, <1>2, <1>3 DEF Claim, Relies
  <2>3. Holds(n, jobs[n]) = {}
    BY <1>4 DEF Holds
  <2>4. \A i \in Requests : i # n => Claim(i)' = Claim(i) /\ Holds(i, jobs'[i]) = Holds(i, jobs[i])
    BY <1>3 DEF OthersStay, Claim, Relies, Holds
  <2>5. \A j \in Requests : Claim(j)' # 0 => locker = Claim(j)'
    <3> TAKE j \in Requests
    <3> QED
      BY <2>1, <2>2, <2>4 DEF LockInv
  <2>6. locker # 0 /\ locker # project => \E i \in Requests : locker \in Holds(i, jobs'[i])
    BY <2>3, <2>4 DEF LockInv
  <2>7. \A i, j \in Requests : jobs'[j].stage = "locking" => ~jobs'[i].deleteLater
    BY <1>2, <1>3 DEF LockInv, OthersStay
  <2> QED
    BY <2>1, <2>5, <2>6, <2>7 DEF LockInv
<1> QED
  BY <1>5, <1>6, <1>7, <1>8, <1>9, <1>10

\* One job is replaced.
LEMMA JobChange ==
  ASSUME TypeOK, NEW c \in Requests, NEW job \in Job, jobs' = [jobs EXCEPT ![c] = job]
  PROVE  jobs' \in [Requests -> Job] /\ OthersStay(c) /\ jobs'[c] = job
BY DEF TypeOK, OthersStay

\* The fields of a canceled job.
LEMMA CanceledFields ==
  ASSUME TypeOK, NEW j \in Requests
  PROVE  /\ Canceled(j) \in Job
         /\ Canceled(j).stage = jobs[j].stage /\ Canceled(j).uses = jobs[j].uses
         /\ Canceled(j).result = jobs[j].result /\ Canceled(j).kind = jobs[j].kind
         /\ Canceled(j).failed = jobs[j].failed /\ Canceled(j).deleteLater = jobs[j].deleteLater
         /\ Canceled(j).slot = jobs[j].slot /\ Canceled(j).moved = jobs[j].moved
<1>1. jobs[j] \in Job
  BY DEF TypeOK
<1> QED
  BY <1>1 DEF Canceled, Job

\* The fields of a canceled job that was connected to another slot.
LEMMA SlotFields ==
  ASSUME TypeOK, NEW j \in Requests, NEW s \in {"session", "quit", "none"}
  PROVE  LET job == [Canceled(j) EXCEPT !.slot = s] IN
         /\ job \in Job
         /\ job.stage = jobs[j].stage /\ job.uses = jobs[j].uses
         /\ job.result = jobs[j].result /\ job.kind = jobs[j].kind
         /\ job.failed = jobs[j].failed /\ job.deleteLater = jobs[j].deleteLater
         /\ job.slot = s /\ job.moved = jobs[j].moved
BY CanceledFields DEF Job

\* A step that at most cancels job c and connects it to another slot.
LEMMA CancelEffect ==
  ASSUME TypeOK, NEW c \in Requests, NEW job \in Job, jobs' = [jobs EXCEPT ![c] = job],
         job.stage = jobs[c].stage, job.uses = jobs[c].uses,
         job.result = jobs[c].result, job.kind = jobs[c].kind,
         job.failed = jobs[c].failed, job.deleteLater = jobs[c].deleteLater,
         job.moved = jobs[c].moved
  PROVE  /\ jobs' \in [Requests -> Job]
         /\ \A i \in Requests :
            /\ jobs'[i].stage = jobs[i].stage /\ jobs'[i].uses = jobs[i].uses
            /\ jobs'[i].result = jobs[i].result /\ jobs'[i].kind = jobs[i].kind
            /\ jobs'[i].failed = jobs[i].failed /\ jobs'[i].deleteLater = jobs[i].deleteLater
            /\ jobs'[i].moved = jobs[i].moved
            /\ jobs'[i].slot = IF i = c THEN job.slot ELSE jobs[i].slot
BY JobChange DEF OthersStay

\* Session::setupProject() keeps the request for later.
LEMMA LaterStep ==
  ASSUME IInv, NEW n \in Requests, n = sent + 1, Receive, current # 0,
         jobs[current].kind = "setup", pending' = n,
         withdrawn' = withdrawn \cup ({current, pending} \ {0}),
         UNCHANGED <<answers, current, jobs, phase, project, locker, lockless>>
  PROVE  IInv'
<1> USE DEF IInv
<1>1. /\ sent' = n /\ sent \in Nat /\ n > sent /\ sent' \in 0 .. MaxRequests
      /\ n # 0 /\ current # n /\ pending # n /\ phase = "open"
      /\ current <= sent /\ pending <= sent /\ current \in Nat /\ pending \in Nat
      /\ current \in Requests /\ (pending # 0 => pending \in Requests)
  BY NumberTypes DEF Receive, Requests
<1>2. jobs[n].stage = "none" /\ answers[n] = "none" /\ n \notin withdrawn' /\ project # n
  BY <1>1 DEF NumberInv
<1>3. TypeOK'
  <2>1. withdrawn' \subseteq Requests
    BY <1>1 DEF TypeOK
  <2> QED
    BY <1>1, <2>1, NumberTypes DEF TypeOK, Unfinished
<1>4. NumberInv'
  BY <1>1, <1>2, NumberTypes DEF NumberInv, Unfinished, Requests
<1>5. JobInv'
  BY DEF JobInv, Unfinished
<1>6. CurrentInv'
  BY <1>1, <1>2 DEF CurrentInv, Unfinished
<1>7. ShareInv'
  BY DEF ShareInv, JobsDoNotShareProjects, Unfinished
<1>8. LockInv'
  BY DEF LockInv, Replaced, Claim, Relies, Holds
<1> QED
  BY <1>3, <1>4, <1>5, <1>6, <1>7, <1>8

\* A step that drops references to projects: the locker stays with a project that anybody relies
\* on, and goes otherwise.
LEMMA KeptLock ==
  ASSUME TypeOK', JobInv', locker' = KeepLocker(locker, project', jobs'),
         \A j \in Requests : Claim(j)' # 0 => locker = Claim(j)',
         project' # 0 /\ project' \notin lockless' /\ locker # project' =>
            Replaced' /\ locker = current',
         \A i, j \in Requests : (jobs[j].stage = "locking" => ~jobs[i].deleteLater)'
  PROVE  LockInv'
<1>1. locker' \in {locker, 0}
  BY DEF KeepLocker
<1>2. \A j \in Requests : Claim(j)' # 0 => Claim(j)' \in Holds(j, jobs'[j])
  <2> SUFFICES ASSUME NEW j \in Requests, Claim(j)' # 0
               PROVE  Claim(j)' \in Holds(j, jobs'[j])
    OBVIOUS
  <2> QED
    BY DEF TypeOK, Job, JobInv, Claim, Relies, Holds, Unfinished
<1>3. \A j \in Requests : Claim(j)' # 0 => locker' = locker
  BY <1>2 DEF KeepLocker
<1>4. project' # 0 /\ project' \notin lockless' => locker' = locker
  <2>1. CASE locker = project'
    BY <2>1 DEF KeepLocker
  <2>2. CASE project' # 0 /\ project' \notin lockless' /\ locker # project'
    <3>1. current' \in Requests /\ Replaced' /\ locker = current'
      BY <2>2, BoundAssumption DEF Replaced, TypeOK, Requests
    <3>2. locker \in Holds(current', jobs'[current'])
      BY <3>1 DEF Replaced, Holds
    <3> QED
      BY <3>1, <3>2 DEF KeepLocker
  <2> QED
    BY <2>1, <2>2
<1>5. locker' # 0 /\ locker' # project' => \E i \in Requests : locker' \in Holds(i, jobs'[i])
  BY DEF KeepLocker
<1>6. \A j \in Requests : Claim(j)' # 0 => locker' = Claim(j)'
  BY <1>3
<1> QED
  BY <1>4, <1>5, <1>6 DEF LockInv

\* Session::releaseProject(), with or without a current job.
LEMMA ReleaseStep ==
  ASSUME IInv, NEW n \in Requests, n = sent + 1, Receive, project # 0,
         current = 0 => jobs' = jobs,
         current # 0 => jobs' = [jobs EXCEPT ![current] = [Canceled(current) EXCEPT !.slot = "none"]],
         withdrawn' = withdrawn \cup ({current, pending} \ {0}),
         current' = 0, project' = 0, pending' = 0,
         locker' = KeepLocker(locker, 0, jobs'), Reply(n, "ok"), UNCHANGED <<phase, lockless>>
  PROVE  IInv'
<1> USE DEF IInv
<1>1. /\ sent' = n /\ sent \in Nat /\ n > sent /\ sent' \in 0 .. MaxRequests
      /\ n # 0 /\ current # n /\ pending # n /\ phase = "open"
      /\ current <= sent /\ pending <= sent /\ current \in Nat /\ pending \in Nat
      /\ (current # 0 => current \in Requests) /\ (pending # 0 => pending \in Requests)
      /\ locker \in 0 .. sent
  BY NumberTypes DEF Receive, Requests
<1>2. jobs[n].stage = "none" /\ answers[n] = "none" /\ n \notin withdrawn /\ project # n
  BY <1>1 DEF NumberInv
<1>3. /\ jobs' \in [Requests -> Job]
      /\ \A i \in Requests :
            /\ jobs'[i].stage = jobs[i].stage /\ jobs'[i].uses = jobs[i].uses
            /\ jobs'[i].result = jobs[i].result /\ jobs'[i].kind = jobs[i].kind
            /\ jobs'[i].failed = jobs[i].failed /\ jobs'[i].deleteLater = jobs[i].deleteLater
            /\ jobs'[i].moved = jobs[i].moved
            /\ jobs'[i].slot = IF i = current THEN "none" ELSE jobs[i].slot
  <2>1. CASE current = 0
    BY <1>1, <2>1 DEF TypeOK, Requests
  <2>2. CASE current # 0
    <3> DEFINE job == [Canceled(current) EXCEPT !.slot = "none"]
    <3>1. /\ job \in Job
          /\ job.stage = jobs[current].stage /\ job.uses = jobs[current].uses
          /\ job.result = jobs[current].result /\ job.kind = jobs[current].kind
          /\ job.failed = jobs[current].failed /\ job.deleteLater = jobs[current].deleteLater
          /\ job.moved = jobs[current].moved
          /\ job.slot = "none"
      BY <1>1, <2>2, SlotFields
    <3>2. jobs' = [jobs EXCEPT ![current] = job] /\ current \in Requests
      BY <1>1, <2>2
    <3> HIDE DEF job
    <3> QED
      BY <3>1, <3>2, CancelEffect
  <2> QED
    BY <2>1, <2>2
<1>4. /\ answers' \in [Requests -> {"none", "ok", "error"}]
      /\ \A i \in Requests : i # n => answers'[i] = answers[i]
  BY <1>1 DEF TypeOK, Reply
<1>5. current # 0 => jobs[current].uses = project
  BY <1>1 DEF CurrentInv
<1>6. TypeOK'
  <2>1. withdrawn' \subseteq Requests
    BY <1>1 DEF TypeOK
  <2>2. locker' \in 0 .. sent'
    BY <1>1 DEF KeepLocker
  <2> QED
    BY <1>1, <1>3, <1>4, <2>1, <2>2 DEF TypeOK
<1>7. NumberInv'
  BY <1>1, <1>2, <1>3, <1>4 DEF NumberInv, Unfinished, Requests
<1>8. JobInv'
  <2> SUFFICES ASSUME NEW j \in Requests PROVE (JobInv!(j))'
    BY DEF JobInv
  <2> QED
    BY <1>1, <1>2, <1>3, <1>4, <1>5 DEF JobInv, Unfinished
<1>9. CurrentInv'
  BY <1>1, <1>3 DEF CurrentInv, Unfinished
<1>10. ShareInv'
  BY <1>3 DEF ShareInv, JobsDoNotShareProjects, Unfinished
<1>11. LockInv'
  <2>1. \A j \in Requests : Claim(j)' = Claim(j)
    BY <1>3 DEF Claim, Relies
  <2>2. \A i, j \in Requests : (jobs[j].stage = "locking" => ~jobs[i].deleteLater)'
    BY <1>3 DEF LockInv
  <2> QED
    BY <1>6, <1>8, <2>1, <2>2, KeptLock DEF LockInv
<1> QED
  BY <1>6, <1>7, <1>8, <1>9, <1>10, <1>11

\* Session::cancelCurrentJob()
LEMMA CancelStep ==
  ASSUME IInv, Cancel
  PROVE  IInv'
<1> USE DEF IInv
<1>1. /\ phase = "open" /\ current # 0 /\ current \in Requests /\ pending' = 0 /\ pending \in Nat
      /\ (pending # 0 => pending \in Requests) /\ pending <= sent
      /\ withdrawn' = (withdrawn \ {current}) \cup ({pending} \ {0})
      /\ UNCHANGED <<sent, answers, phase, current, project, locker, lockless>>
  BY NumberTypes DEF Cancel
<1>2. /\ jobs' \in [Requests -> Job]
      /\ \A i \in Requests :
            /\ jobs'[i].stage = jobs[i].stage /\ jobs'[i].uses = jobs[i].uses
            /\ jobs'[i].result = jobs[i].result /\ jobs'[i].kind = jobs[i].kind
            /\ jobs'[i].failed = jobs[i].failed /\ jobs'[i].deleteLater = jobs[i].deleteLater
            /\ jobs'[i].moved = jobs[i].moved
            /\ jobs'[i].slot = jobs[i].slot
  <2> DEFINE job == Canceled(current)
  <2>1. /\ job \in Job
        /\ job.stage = jobs[current].stage /\ job.uses = jobs[current].uses
        /\ job.result = jobs[current].result /\ job.kind = jobs[current].kind
        /\ job.failed = jobs[current].failed /\ job.deleteLater = jobs[current].deleteLater
        /\ job.moved = jobs[current].moved
        /\ job.slot = jobs[current].slot
    BY <1>1, CanceledFields
  <2>2. jobs' = [jobs EXCEPT ![current] = job]
    BY DEF Cancel
  <2> HIDE DEF job
  <2> QED
    BY <1>1, <2>1, <2>2, CancelEffect
<1>3. TypeOK'
  <2>1. withdrawn' \subseteq Requests /\ pending' \in 0 .. sent'
    BY <1>1, NumberTypes DEF TypeOK
  <2> QED
    BY <1>1, <1>2, <2>1 DEF TypeOK, Unfinished
<1>4. NumberInv'
  BY <1>1, <1>2, NumberTypes DEF NumberInv, Unfinished, Requests
<1>5. JobInv'
  BY <1>1, <1>2 DEF JobInv, Unfinished
<1>6. CurrentInv'
  BY <1>1, <1>2 DEF CurrentInv, Unfinished
<1>7. ShareInv'
  BY <1>1, <1>2 DEF ShareInv, JobsDoNotShareProjects, Unfinished
<1>8. LockInv'
  BY <1>1, <1>2, NumberTypes DEF LockInv, Replaced, Claim, Relies, Holds
<1> QED
  BY <1>3, <1>4, <1>5, <1>6, <1>7, <1>8

\* Session::quitSession()
LEMMA QuitStep ==
  ASSUME IInv, Quit
  PROVE  IInv'
<1> USE DEF IInv
<1>1. /\ phase = "open"
      /\ UNCHANGED <<sent, answers, withdrawn, current, pending, project, locker, lockless>>
      /\ (current # 0 => current \in Requests)
      /\ phase' = IF current = 0 THEN "ended" ELSE "quitting"
  BY NumberTypes DEF Quit
<1>2. /\ jobs' \in [Requests -> Job]
      /\ \A i \in Requests :
            /\ jobs'[i].stage = jobs[i].stage /\ jobs'[i].uses = jobs[i].uses
            /\ jobs'[i].result = jobs[i].result /\ jobs'[i].kind = jobs[i].kind
            /\ jobs'[i].failed = jobs[i].failed /\ jobs'[i].deleteLater = jobs[i].deleteLater
            /\ jobs'[i].moved = jobs[i].moved
            /\ jobs'[i].slot = IF i = current THEN "quit" ELSE jobs[i].slot
  <2>1. CASE current = 0
    BY <1>1, <2>1 DEF TypeOK, Requests, Quit
  <2>2. CASE current # 0
    <3> DEFINE job == [Canceled(current) EXCEPT !.slot = "quit"]
    <3>1. /\ job \in Job
          /\ job.stage = jobs[current].stage /\ job.uses = jobs[current].uses
          /\ job.result = jobs[current].result /\ job.kind = jobs[current].kind
          /\ job.failed = jobs[current].failed /\ job.deleteLater = jobs[current].deleteLater
          /\ job.moved = jobs[current].moved
          /\ job.slot = "quit"
      BY <1>1, <2>2, SlotFields
    <3>2. jobs' = [jobs EXCEPT ![current] = job] /\ current \in Requests
      BY <1>1, <2>2 DEF Quit
    <3> HIDE DEF job
    <3> QED
      BY <3>1, <3>2, CancelEffect
  <2> QED
    BY <2>1, <2>2
<1>3. TypeOK'
  BY <1>1, <1>2 DEF TypeOK, Unfinished
<1>4. NumberInv'
  BY <1>1, <1>2 DEF NumberInv, Unfinished
<1>5. JobInv'
  <2> SUFFICES ASSUME NEW j \in Requests PROVE (JobInv!(j))'
    BY DEF JobInv
  <2>1. CASE j = current
    BY <1>1, <1>2, <2>1 DEF JobInv, Unfinished, TypeOK, CurrentInv
  <2>2. CASE j # current
    BY <1>1, <1>2, <2>2 DEF JobInv, Unfinished
  <2> QED
    BY <2>1, <2>2
<1>6. CurrentInv'
  <2>1. CASE current = 0
    BY <1>1, <1>2, <2>1, JobTypes DEF CurrentInv, Unfinished
  <2>2. CASE current # 0
    BY <1>1, <1>2, <2>2, NumberTypes DEF CurrentInv, Unfinished
  <2> QED
    BY <2>1, <2>2
<1>7. ShareInv'
  BY <1>1, <1>2 DEF ShareInv, JobsDoNotShareProjects, Unfinished
<1>8. LockInv'
  BY <1>1, <1>2, NumberTypes DEF LockInv, Replaced, Claim, Relies, Holds
<1> QED
  BY <1>3, <1>4, <1>5, <1>6, <1>7, <1>8

----------------------------------------------------------------------------
\* What a step of job j does to it.
Advances(j, stage, failed, result) ==
    /\ jobs' \in [Requests -> Job] /\ OthersStay(j)
    /\ jobs'[j].stage = stage /\ jobs'[j].failed = failed /\ jobs'[j].result = result
    /\ jobs'[j].kind = jobs[j].kind /\ jobs'[j].uses = jobs[j].uses
    /\ jobs'[j].slot = jobs[j].slot /\ jobs'[j].deleteLater = jobs[j].deleteLater

\* What a job is like after a step of its worker thread.
Like(job, j, stage, failed, result) ==
    /\ job \in Job /\ job.stage = stage /\ job.failed = failed /\ job.result = result
    /\ job.kind = jobs[j].kind /\ job.uses = jobs[j].uses
    /\ job.slot = jobs[j].slot /\ job.deleteLater = jobs[j].deleteLater

\* A job that is replaced by such a one advances.
LEMMA LikeAdvances ==
  ASSUME TypeOK, NEW j \in Requests, NEW stage, NEW failed, NEW result,
         NEW job, Like(job, j, stage, failed, result), jobs' = [jobs EXCEPT ![j] = job]
  PROVE  Advances(j, stage, failed, result)
BY JobChange DEF Advances, Like

\* The fields of a job after some of them have been assigned to.
LEMMA AdvanceFields ==
  ASSUME TypeOK, NEW j \in Requests,
         NEW stage \in {"locking", "working", "returned"}, NEW failed \in BOOLEAN
  PROVE  /\ jobs' = [jobs EXCEPT ![j].stage = stage]
               => Advances(j, stage, jobs[j].failed, jobs[j].result)
         /\ \A waits \in BOOLEAN :
               jobs' = [jobs EXCEPT ![j].stage = stage, ![j].waits = waits]
                 => Advances(j, stage, jobs[j].failed, jobs[j].result)
         /\ jobs' = [jobs EXCEPT ![j].stage = stage, ![j].failed = failed]
               => Advances(j, stage, failed, jobs[j].result)
         /\ \A moved \in BOOLEAN :
               jobs' = [jobs EXCEPT ![j].stage = stage, ![j].failed = failed, ![j].moved = moved]
                 => Advances(j, stage, failed, jobs[j].result)
<1>1. jobs \in [Requests -> Job] /\ jobs[j] \in Job
  BY DEF TypeOK
<1> DEFINE one == [jobs[j] EXCEPT !.stage = stage]
           two == [one EXCEPT !.failed = failed]
<1>2. Like(one, j, stage, jobs[j].failed, jobs[j].result)
  BY <1>1 DEF Job, Like
<1>3. Like(two, j, stage, failed, jobs[j].result)
  <2> HIDE DEF one
  <2> QED
    BY <1>2 DEF Job, Like
<1>4. jobs' = [jobs EXCEPT ![j].stage = stage] => Advances(j, stage, jobs[j].failed, jobs[j].result)
  <2>1. [jobs EXCEPT ![j].stage = stage] = [jobs EXCEPT ![j] = one]
    BY <1>1
  <2> HIDE DEF one
  <2> QED
    BY <1>2, <2>1, LikeAdvances
<1>5. ASSUME jobs' = [jobs EXCEPT ![j].stage = stage, ![j].failed = failed]
      PROVE  Advances(j, stage, failed, jobs[j].result)
  <2>1. jobs' = [jobs EXCEPT ![j] = two]
    BY <1>1, <1>5
  <2> HIDE DEF two
  <2> QED
    BY <1>3, <2>1, LikeAdvances
<1>6. ASSUME NEW waits \in BOOLEAN, jobs' = [jobs EXCEPT ![j].stage = stage, ![j].waits = waits]
      PROVE  Advances(j, stage, jobs[j].failed, jobs[j].result)
  <2> DEFINE oneW == [one EXCEPT !.waits = waits]
  <2>1. jobs' = [jobs EXCEPT ![j] = oneW]
    BY <1>1, <1>6
  <2>2. Like(oneW, j, stage, jobs[j].failed, jobs[j].result)
    <3> HIDE DEF one
    <3> QED
      BY <1>2 DEF Job, Like
  <2> HIDE DEF oneW
  <2> QED
    BY <2>1, <2>2, LikeAdvances
<1>7. ASSUME NEW moved \in BOOLEAN,
             jobs' = [jobs EXCEPT ![j].stage = stage, ![j].failed = failed, ![j].moved = moved]
      PROVE  Advances(j, stage, failed, jobs[j].result)
  <2> DEFINE three == [two EXCEPT !.moved = moved]
  <2>1. jobs' = [jobs EXCEPT ![j] = three]
    BY <1>1, <1>7
  <2>2. Like(three, j, stage, failed, jobs[j].result)
    <3> HIDE DEF two
    <3> QED
      BY <1>3 DEF Job, Like
  <2> HIDE DEF three
  <2> QED
    BY <2>1, <2>2, LikeAdvances
<1> QED
  BY <1>4, <1>5, <1>6, <1>7

\* The fields of a setup job that has a result.
LEMMA ResultFields ==
  ASSUME TypeOK, NEW j \in Requests, NEW result \in 0 .. MaxRequests, NEW failed \in BOOLEAN,
         NEW moved \in BOOLEAN
  PROVE  /\ jobs' = [jobs EXCEPT ![j].stage = "returned", ![j].result = result]
               => Advances(j, "returned", jobs[j].failed, result)
         /\ jobs' = [jobs EXCEPT ![j].stage = "returned", ![j].result = result,
                                 ![j].failed = failed, ![j].moved = moved]
               => Advances(j, "returned", failed, result) /\ jobs'[j].moved = moved
<1>1. jobs \in [Requests -> Job] /\ jobs[j] \in Job
  BY DEF TypeOK
<1> DEFINE one == [jobs[j] EXCEPT !.stage = "returned"]
           made == [one EXCEPT !.result = result]
           madeF == [made EXCEPT !.failed = failed]
           madeM == [madeF EXCEPT !.moved = moved]
<1>2. Like(one, j, "returned", jobs[j].failed, jobs[j].result)
  BY <1>1 DEF Job, Like
<1>3. Like(made, j, "returned", jobs[j].failed, result)
  <2> HIDE DEF one
  <2> QED
    BY <1>2 DEF Job, Like
<1>4. Like(madeF, j, "returned", failed, result)
  <2> HIDE DEF made
  <2> QED
    BY <1>3 DEF Job, Like
<1>5. Like(madeM, j, "returned", failed, result) /\ madeM.moved = moved
  <2> HIDE DEF madeF
  <2> QED
    BY <1>4 DEF Job, Like
<1>6. ASSUME jobs' = [jobs EXCEPT ![j].stage = "returned", ![j].result = result]
      PROVE  Advances(j, "returned", jobs[j].failed, result)
  <2>1. jobs' = [jobs EXCEPT ![j] = made]
    BY <1>1, <1>6
  <2> HIDE DEF made
  <2> QED
    BY <1>3, <2>1, LikeAdvances
<1>7. ASSUME jobs' = [jobs EXCEPT ![j].stage = "returned", ![j].result = result,
                                  ![j].failed = failed, ![j].moved = moved]
      PROVE  Advances(j, "returned", failed, result) /\ jobs'[j].moved = moved
  <2>1. jobs' = [jobs EXCEPT ![j] = madeM]
    BY <1>1, <1>7
  <2>2. Like(madeM, j, "returned", failed, result) /\ madeM.moved = moved
    BY <1>5
  <2> HIDE DEF madeM
  <2>3. madeM \in Job
    BY <2>2 DEF Like
  <2>4. jobs'[j] = madeM
    BY <2>1, <2>3, JobChange
  <2>5. Advances(j, "returned", failed, result)
    BY <2>1, <2>2, LikeAdvances
  <2> QED
    BY <2>2, <2>4, <2>5
<1> QED
  BY <1>6, <1>7

\* A step of the worker thread of job j, as far as the locker is not concerned.
LEMMA AdvanceStep ==
  ASSUME IInv, NEW j \in Requests, Unfinished(j), jobs[j].stage # "returned", phase # "ended",
         NEW stage \in {"locking", "working", "returned"}, NEW failed \in BOOLEAN,
         NEW result \in {0, j, jobs[j].uses}, Advances(j, stage, failed, result),
         result # 0 => stage = "returned" /\ jobs[j].kind = "setup",
         stage = "locking" => jobs[j].kind = "setup" /\ jobs[j].uses = 0,
         failed => stage = "returned",
         stage = "returned" /\ jobs[j].kind = "setup" => failed \/ result # 0,
         locker' \in {0, j, jobs[j].uses, locker},
         lockless' \subseteq lockless \cup ({result, jobs[j].uses} \ {0}),
         UNCHANGED <<sent, answers, withdrawn, phase, current, pending, project>>
  PROVE  TypeOK' /\ NumberInv' /\ JobInv' /\ CurrentInv' /\ ShareInv'
<1> USE DEF IInv
<1>1. j <= sent /\ j \in Nat /\ j # 0 /\ locker' \in 0 .. sent /\ lockless' \subseteq 1 .. sent
  <2>1. j <= sent /\ j \in Nat /\ j # 0 /\ jobs[j].uses \in 0 .. sent
    BY NumberTypes, JobTypes DEF Unfinished, NumberInv, Requests
  <2> QED
    BY <2>1, NumberTypes
<1>2. TypeOK'
  <2>1. current # 0 => Unfinished(current)'
    BY NumberTypes DEF TypeOK, Unfinished, Advances, OthersStay
  <2> QED
    BY <1>1, <2>1 DEF TypeOK, Advances
<1>3. NumberInv'
  <2>1. \A n \in Requests : n > sent' =>
           (jobs[n].stage = "none" /\ answers[n] = "none" /\ n \notin withdrawn)'
    <3> SUFFICES ASSUME NEW n \in Requests, n > sent
                 PROVE  jobs'[n].stage = "none" /\ answers[n] = "none" /\ n \notin withdrawn
      OBVIOUS
    <3>1. n # j /\ jobs[n].stage = "none" /\ answers[n] = "none" /\ n \notin withdrawn
      BY <1>1, NumberTypes DEF NumberInv, Unfinished
    <3> QED
      BY <3>1 DEF Advances, OthersStay
  <2>2. \A n \in Requests : (n > sent \/ n = pending \/ Unfinished(n))' =>
           (project # n /\ \A i \in Requests : jobs[i].uses # n)'
    BY <1>1 DEF NumberInv, Unfinished, Advances, OthersStay
  <2>3. \A n \in Requests : n \in lockless' =>
           (n # pending /\ jobs[n].stage \in {"none", "returned", "finished"})'
    <3> SUFFICES ASSUME NEW n \in Requests, n \in lockless'
                 PROVE  n # pending /\ jobs'[n].stage \in {"none", "returned", "finished"}
      OBVIOUS
    <3>1. CASE n = j
      <4>1. pending # j
        BY <1>1 DEF CurrentInv, Unfinished
      <4>2. n \notin lockless /\ result = n
        BY <3>1 DEF NumberInv, Unfinished
      <4> QED
        BY <3>1, <4>1, <4>2 DEF NumberInv, Unfinished, Advances
    <3>2. CASE n # j
      <4>1. /\ jobs'[n].stage = jobs[n].stage
            /\ jobs[n].stage \in {"none", "queued", "locking", "working", "returned", "finished"}
        BY <3>2, JobTypes DEF Advances, OthersStay, Job
      <4>2. n \in lockless \/ n = jobs[j].uses
        BY <3>2
      <4> QED
        BY <4>1, <4>2 DEF NumberInv, Unfinished
    <3> QED
      BY <3>1, <3>2
  <2> QED
    BY <2>1, <2>2, <2>3 DEF NumberInv
<1>4. JobInv'
  <2> SUFFICES ASSUME NEW i \in Requests PROVE (JobInv!(i))'
    BY DEF JobInv
  <2>1. CASE i = j
    <3>1. ~jobs[j].deleteLater
      BY DEF JobInv, Unfinished
    <3> QED
      BY <1>1, <2>1, <3>1 DEF JobInv, Unfinished, Advances
  <2>2. CASE i # j
    BY <2>2 DEF JobInv, Unfinished, Advances, OthersStay
  <2> QED
    BY <2>1, <2>2
<1>5. CurrentInv'
  <2>1. pending # j
    BY <1>1 DEF CurrentInv, Unfinished
  <2> QED
    BY <1>1, <2>1, NumberTypes DEF CurrentInv, Unfinished, Advances, OthersStay
<1>6. ShareInv'
  BY <1>1 DEF ShareInv, JobsDoNotShareProjects, Unfinished, Advances, OthersStay
<1> QED
  BY <1>2, <1>3, <1>4, <1>5, <1>6

\* The step of a job that has not returned leaves the one alone that replaces the project.
LEMMA StillReplaced ==
  ASSUME IInv, NEW j \in Requests, jobs[j].stage # "returned", OthersStay(j),
         UNCHANGED <<current, project>>
  PROVE  project # 0 /\ project \notin lockless /\ locker # project => Replaced' /\ locker = current'
<1> SUFFICES ASSUME project # 0, project \notin lockless, locker # project
             PROVE  Replaced' /\ locker = current'
  OBVIOUS
<1>1. Replaced /\ locker = current /\ current \in Requests /\ current # j
  BY NumberTypes DEF IInv, LockInv, Replaced
<1> QED
  BY <1>1 DEF Replaced, OthersStay

\* InternalJobThreadWrapper::start()
LEMMA StartStep ==
  ASSUME IInv, NEW j \in Requests, StartRequested(j)
  PROVE  IInv'
<1> USE DEF IInv
<1>1. /\ jobs[j].stage = "queued" /\ phase # "ended" /\ Unfinished(j) /\ jobs[j].kind = "setup"
      /\ \A i \in Requests : ~jobs[i].deleteLater
      /\ UNCHANGED <<sent, answers, withdrawn, phase, current, pending, project, locker, lockless>>
      /\ jobs[j].result = 0 /\ jobs[j].failed = FALSE
  BY JobTypes DEF StartRequested, Unfinished, JobInv
<1>2. PICK s \in {"locking", "working"} :
        /\ s = "locking" => jobs[j].uses = 0
        /\ s = "working" => jobs[j].uses # 0
        /\ \/ jobs' = [jobs EXCEPT ![j].stage = s]
           \/ \E waits \in BOOLEAN : jobs' = [jobs EXCEPT ![j].stage = s, ![j].waits = waits]
  BY Zenon DEF StartRequested
<1>3. Advances(j, s, FALSE, 0)
  BY <1>1, <1>2, AdvanceFields
<1>5. TypeOK' /\ NumberInv' /\ JobInv' /\ CurrentInv' /\ ShareInv'
  BY <1>1, <1>2, <1>3, AdvanceStep
<1>6. LockInv'
  <2>1. \A i \in Requests : Claim(i)' # 0 => Claim(i)' = Claim(i)
    BY <1>1, <1>2, <1>3 DEF Advances, OthersStay, Claim, Relies
  <2>2. \A i \in Requests : Holds(i, jobs[i]) \subseteq Holds(i, jobs'[i])
    BY <1>1, <1>2, <1>3 DEF Advances, OthersStay, Holds
  <2>3. \A i, k \in Requests : (jobs[k].stage = "locking" => ~jobs[i].deleteLater)'
    BY <1>1, <1>3 DEF Advances, OthersStay
  <2>4. project # 0 /\ project \notin lockless /\ locker # project => Replaced' /\ locker = current'
    BY <1>1, <1>3, StillReplaced DEF Advances
  <2> QED
    BY <1>1, <2>1, <2>2, <2>3, <2>4 DEF LockInv
<1> QED
  BY <1>5, <1>6

\* InternalSetupProjectJob::start() gets a locker: nobody had one, so that there is no project.
LEMMA LockStep ==
  ASSUME IInv, NEW j \in Requests, Lock(j)
  PROVE  IInv'
<1> USE DEF IInv
<1>1. /\ jobs[j].stage = "locking" /\ phase # "ended" /\ Unfinished(j) /\ jobs[j].kind = "setup"
      /\ jobs[j].uses = 0 /\ jobs[j].result = 0 /\ locker = 0 /\ locker' = j
      /\ jobs[j].failed = FALSE
      /\ UNCHANGED <<sent, answers, withdrawn, phase, current, pending, project, lockless>>
  BY JobTypes DEF Lock, WorkerStep, Unfinished, JobInv
<1>2. Advances(j, "working", FALSE, 0)
  BY <1>1, AdvanceFields DEF Lock
<1>4. TypeOK' /\ NumberInv' /\ JobInv' /\ CurrentInv' /\ ShareInv'
  BY <1>1, <1>2, AdvanceStep
<1>5. LockInv'
  <2>1. project = 0
    BY <1>1, JobTypes DEF JobInv, CurrentInv
  <2>2. \A i \in Requests : i # j => Claim(i)' = 0
    BY <1>1, <1>2 DEF LockInv, Claim, Relies, Advances, OthersStay
  <2>3. Claim(j)' \in {0, j} /\ j \in Holds(j, jobs'[j])
    BY <1>1, <1>2 DEF Advances, Claim, Relies, Holds
  <2>4. \A i, k \in Requests : (jobs[k].stage = "locking" => ~jobs[i].deleteLater)'
    BY <1>1, <1>2 DEF LockInv, Advances, OthersStay
  <2> QED
    BY <1>1, <2>1, <2>2, <2>3, <2>4 DEF LockInv
<1> QED
  BY <1>4, <1>5

\* InternalSetupProjectJob::start() gets no locker.
LEMMA LockFailsStep ==
  ASSUME IInv, NEW j \in Requests, LockFails(j)
  PROVE  IInv'
<1> USE DEF IInv
<1>1. /\ jobs[j].stage = "locking" /\ phase # "ended" /\ Unfinished(j) /\ jobs[j].kind = "setup"
      /\ jobs[j].uses = 0 /\ jobs[j].result = 0 /\ locker' = locker
      /\ UNCHANGED <<sent, answers, withdrawn, phase, current, pending, project, lockless>>
  BY DEF LockFails, WorkerStep, Unfinished, JobInv
<1>2. Advances(j, "returned", TRUE, 0)
  BY <1>1, AdvanceFields DEF LockFails
<1>3. TypeOK' /\ NumberInv' /\ JobInv' /\ CurrentInv' /\ ShareInv'
  BY <1>1, <1>2, AdvanceStep
<1>4. LockInv'
  <2>1. \A i \in Requests : Claim(i)' = Claim(i)
    BY <1>1, <1>2 DEF Advances, OthersStay, Claim, Relies
  <2>2. \A i \in Requests : Holds(i, jobs[i]) \subseteq Holds(i, jobs'[i])
    BY <1>1, <1>2 DEF Advances, OthersStay, Holds
  <2>3. \A i, k \in Requests : (jobs[k].stage = "locking" => ~jobs[i].deleteLater)'
    BY <1>1, <1>2 DEF LockInv, Advances, OthersStay
  <2>4. project # 0 /\ project \notin lockless /\ locker # project => Replaced' /\ locker = current'
    BY <1>1, <1>2, StillReplaced DEF Advances
  <2> QED
    BY <1>1, <2>1, <2>2, <2>3, <2>4 DEF LockInv
<1> QED
  BY <1>3, <1>4

\* The locker is handed over.  If the job has a claim, it has the only one, so that it is the
\* session's project, if there is one, that loses it.  If not, nobody has a claim to the locker
\* of its existing project.
LEMMA HandOverStep ==
  ASSUME IInv, NEW j \in Requests, jobs[j].stage = "working", jobs[j].kind = "setup", phase # "ended",
         NEW result \in Results(j), NEW failed \in BOOLEAN,
         Advances(j, "returned", failed, result), HandOver(j, result),
         Inherited(j, result) \subseteq lockless',
         lockless' \subseteq Inherited(j, result) \cup ({jobs[j].uses} \ {0, result}),
         failed /\ ~jobs'[j].moved => ({jobs[j].uses} \ {0, result}) \subseteq lockless',
         UNCHANGED <<sent, answers, withdrawn, phase, current, pending, project>>
  PROVE  IInv'
<1> USE DEF IInv
<1>1. /\ Unfinished(j) /\ jobs[j].result = 0 /\ j # 0 /\ j \notin lockless
      /\ result # 0 /\ result \in {j, jobs[j].uses} /\ lockless \subseteq lockless'
      /\ 0 \notin lockless /\ jobs[j].uses # j
  BY JobTypes, NumberTypes DEF Results, Inherited, Unfinished, JobInv, NumberInv
<1>2. TypeOK' /\ NumberInv' /\ JobInv' /\ CurrentInv' /\ ShareInv'
  <2>1. locker' \in {0, j, jobs[j].uses, locker}
    BY <1>1 DEF HandOver
  <2>2. lockless' \subseteq lockless \cup ({result, jobs[j].uses} \ {0})
    BY <1>1 DEF Inherited
  <2>3. result \in {0, j, jobs[j].uses}
    BY <1>1
  <2> QED
    BY <1>1, <2>1, <2>2, <2>3, AdvanceStep
<1>3. \A i \in Requests : i # j => Claim(i)' \in {0, Claim(i)}
  BY <1>1 DEF Claim, Relies, Advances, OthersStay
<1>4. Claim(j)' \in {0, result} /\ (result \in lockless' => Claim(j)' = 0)
  BY <1>1 DEF Claim, Relies, Advances
<1>5. result \in Holds(j, jobs'[j]) /\ \A i \in Requests :
           (i # j \/ jobs[j].uses # 0) => Holds(i, jobs[i]) \subseteq Holds(i, jobs'[i]) \cup {0}
  BY <1>1 DEF Advances, OthersStay, Holds
<1>6. \A i, k \in Requests : (jobs[k].stage = "locking" => ~jobs[i].deleteLater)'
  BY DEF LockInv, Advances, OthersStay
<1>7. project # 0 /\ project \notin lockless /\ locker # project =>
         /\ current \in Requests /\ Unfinished(current) /\ current # j /\ locker = current
         /\ jobs[current].stage = "returned" /\ jobs[j].uses # current
  <2>1. project # 0 /\ project \notin lockless /\ locker # project =>
           current # 0 /\ jobs[current].stage = "returned" /\ locker = current
    BY DEF LockInv, Replaced
  <2> QED
    BY <2>1, NumberTypes DEF Unfinished, NumberInv
<1>8. CASE jobs[j].uses \notin lockless
  <2>1. Claim(j) # 0 /\ locker = Claim(j) /\ Claim(j) = IF jobs[j].uses = 0 THEN j ELSE jobs[j].uses
    BY <1>1, <1>8 DEF Claim, Relies, LockInv
  <2>2. locker' = result
    BY <1>1, <2>1 DEF HandOver
  <2>3. \A i \in Requests : i # j => Claim(i)' = 0
    BY <1>3, <2>1, OneClaim
  <2>4. project # 0 /\ project \notin lockless => j = current /\ jobs[j].uses = project
    BY <1>1, <1>7, <2>1 DEF NumberInv, ShareInv
  <2>5. project # 0 /\ project \notin lockless' /\ locker' # project => Replaced' /\ locker' = current
    <3> SUFFICES ASSUME project # 0, project \notin lockless', locker' # project
                 PROVE  Replaced' /\ locker' = current
      OBVIOUS
    <3>1. j = current /\ jobs[j].uses = project /\ result = j
      BY <1>1, <2>2, <2>4
    <3>2. ~failed \/ jobs'[j].moved
      BY <1>1, <3>1
    <3> QED
      BY <1>1, <2>2, <3>1, <3>2 DEF Replaced, Advances
  <2> QED
    BY <1>2, <1>4, <1>5, <1>6, <2>2, <2>3, <2>5 DEF LockInv
<1>9. CASE jobs[j].uses \in lockless
  <2>1. jobs[j].uses # 0 /\ result \in lockless'
    BY <1>1, <1>9 DEF Inherited
  <2>2. \A i \in Requests : Claim(i)' # 0 => locker' = Claim(i)'
    <3> SUFFICES ASSUME NEW i \in Requests, Claim(i)' # 0
                 PROVE  locker' = Claim(i)'
      OBVIOUS
    <3>1. i # j /\ Claim(i)' = Claim(i) /\ locker = Claim(i)
      BY <1>3, <1>4, <2>1 DEF LockInv
    <3>2. locker # jobs[j].uses
      BY <1>1, <1>9, <3>1 DEF Claim
    <3> QED
      BY <2>1, <3>1, <3>2 DEF HandOver
  <2>3. project # 0 /\ project \notin lockless' /\ locker' # project => Replaced' /\ locker' = current
    <3> SUFFICES ASSUME project # 0, project \notin lockless', locker' # project
                 PROVE  Replaced' /\ locker' = current
      OBVIOUS
    <3>1. project \notin lockless /\ project # jobs[j].uses
      BY <1>1, <1>9
    <3>2. locker # project
      BY <2>1, <3>1 DEF HandOver
    <3>3. locker' = locker /\ jobs'[current] = jobs[current]
      BY <1>7, <2>1, <3>1, <3>2 DEF HandOver, Advances, OthersStay
    <3> QED
      BY <3>1, <3>2, <3>3 DEF LockInv, Replaced
  <2>4. locker' # 0 /\ locker' # project => \E i \in Requests : locker' \in Holds(i, jobs'[i])
    <3>1. CASE locker' = result
      BY <1>5, <3>1
    <3>2. CASE locker' = locker
      BY <1>5, <2>1, <3>2 DEF LockInv
    <3> QED
      BY <3>1, <3>2 DEF HandOver
  <2> QED
    BY <1>2, <1>6, <2>2, <2>3, <2>4 DEF LockInv
<1> QED
  BY <1>2, <1>8, <1>9

\* A setup that has succeeded hands the locker over.
LEMMA SetupSucceedsStep ==
  ASSUME IInv, NEW j \in Requests, SetupSucceeds(j)
  PROVE  IInv'
<1>1. /\ jobs[j].stage = "working" /\ phase # "ended" /\ jobs[j].kind = "setup"
      /\ jobs[j].failed = FALSE /\ TypeOK
      /\ UNCHANGED <<sent, answers, withdrawn, phase, current, pending, project>>
  BY JobTypes DEF SetupSucceeds, WorkerStep, JobInv, IInv
<1>2. PICK result \in Results(j) :
        /\ jobs' = [jobs EXCEPT ![j].stage = "returned", ![j].result = result]
        /\ HandOver(j, result) /\ lockless' = Inherited(j, result)
  BY DEF SetupSucceeds
<1>3. result \in 0 .. MaxRequests
  BY <1>1, JobTypes DEF Results, Requests
<1>4. Advances(j, "returned", FALSE, result)
  BY <1>1, <1>2, <1>3, ResultFields
<1> QED
  BY <1>1, <1>2, <1>4, HandOverStep

\* A setup that could not store its project hands the locker over as well.
LEMMA StoreFailsStep ==
  ASSUME IInv, NEW j \in Requests, StoreFails(j)
  PROVE  IInv'
<1>1. /\ jobs[j].stage = "working" /\ phase # "ended" /\ jobs[j].kind = "setup" /\ TypeOK
      /\ UNCHANGED <<sent, answers, withdrawn, phase, current, pending, project>>
  BY DEF StoreFails, WorkerStep, IInv
<1>2. PICK result \in Results(j), moved \in BOOLEAN :
        /\ jobs' = [jobs EXCEPT ![j].stage = "returned", ![j].result = result,
                                ![j].failed = TRUE, ![j].moved = moved]
        /\ HandOver(j, result)
        /\ lockless' = Inherited(j, result) \cup (IF moved THEN {} ELSE {jobs[j].uses} \ {0, result})
  BY DEF StoreFails
<1>3. result \in 0 .. MaxRequests
  BY <1>1, JobTypes DEF Results, Requests
<1>4. Advances(j, "returned", TRUE, result) /\ jobs'[j].moved = moved
  BY <1>1, <1>2, <1>3, ResultFields
<1> QED
  BY <1>1, <1>2, <1>4, HandOverStep

\* The locker stays with the existing project or is deleted.
LEMMA SetupFailsStep ==
  ASSUME IInv, NEW j \in Requests, SetupFails(j)
  PROVE  IInv'
<1> USE DEF IInv
<1>1. /\ jobs[j].stage = "working" /\ phase # "ended" /\ Unfinished(j) /\ jobs[j].kind = "setup"
      /\ jobs[j].result = 0 /\ j # 0
      /\ jobs[j].uses = 0 => locker' = 0
      /\ jobs[j].uses # 0 => locker' = locker
      /\ UNCHANGED <<sent, answers, withdrawn, phase, current, pending, project, lockless>>
  BY JobTypes DEF SetupFails, WorkerStep, Unfinished, JobInv
<1>2. Advances(j, "returned", TRUE, 0)
  <2>1. PICK moved \in BOOLEAN :
          jobs' = [jobs EXCEPT ![j].stage = "returned", ![j].failed = TRUE, ![j].moved = moved]
    BY DEF SetupFails
  <2> QED
    BY <1>1, <2>1, AdvanceFields
<1>3. TypeOK' /\ NumberInv' /\ JobInv' /\ CurrentInv' /\ ShareInv'
  BY <1>1, <1>2, AdvanceStep
<1>4. \A i \in Requests : i # j => Claim(i)' = Claim(i)
  BY <1>1, <1>2 DEF Claim, Relies, Advances, OthersStay
<1>5. \A i, k \in Requests : (jobs[k].stage = "locking" => ~jobs[i].deleteLater)'
  BY <1>1, <1>2 DEF LockInv, Advances, OthersStay
<1>6. CASE jobs[j].uses = 0
  <2>1. Claim(j) = j /\ locker = j /\ locker' = 0 /\ j # 0
    BY <1>1, <1>6, NumberTypes DEF Claim, Relies, LockInv, NumberInv
  <2>2. \A i \in Requests : i # j => Claim(i)' = 0
    BY <1>4, <2>1, OneClaim
  <2>3. Claim(j)' = 0
    BY <1>1, <1>2, <1>6 DEF Advances, Claim, Relies
  <2>4. project = 0 \/ project \in lockless
    <3> SUFFICES ASSUME project # 0, project \notin lockless PROVE FALSE
      OBVIOUS
    <3>1. project # j
      BY <1>1 DEF NumberInv
    <3>2. Replaced /\ current = j
      BY <2>1, <3>1 DEF LockInv
    <3> QED
      BY <1>1, <3>2 DEF Replaced
  <2> QED
    BY <1>1, <1>3, <1>5, <2>1, <2>2, <2>3, <2>4 DEF LockInv
<1>7. CASE jobs[j].uses # 0
  <2>1. Claim(j)' = Claim(j)
    BY <1>1, <1>2, <1>7 DEF Advances, Claim, Relies
  <2>2. \A i \in Requests : Holds(i, jobs[i]) \subseteq Holds(i, jobs'[i])
    BY <1>1, <1>2, <1>7 DEF Advances, OthersStay, Holds
  <2>3. project # 0 /\ project \notin lockless /\ locker # project => Replaced' /\ locker = current'
    BY <1>1, <1>2, StillReplaced DEF Advances
  <2>4. \A i \in Requests : Claim(i)' # 0 => locker' = Claim(i)'
    BY <1>1, <1>4, <1>7, <2>1 DEF LockInv
  <2>5. locker # 0 /\ locker # project => \E i \in Requests : locker \in Holds(i, jobs'[i])
    BY <2>2 DEF LockInv
  <2> QED
    BY <1>1, <1>3, <1>5, <1>7, <2>3, <2>4, <2>5 DEF LockInv
<1> QED
  BY <1>3, <1>6, <1>7

\* A build, clean or install job returns.
LEMMA BuildEndsStep ==
  ASSUME IInv, NEW j \in Requests, BuildEnds(j)
  PROVE  IInv'
<1> USE DEF IInv
<1>1. /\ jobs[j].stage = "working" /\ phase # "ended" /\ Unfinished(j) /\ jobs[j].kind = "build"
      /\ jobs[j].result = 0 /\ jobs[j].uses # 0 /\ locker' = locker
      /\ UNCHANGED <<sent, answers, withdrawn, phase, current, pending, project, lockless>>
  BY DEF BuildEnds, WorkerStep, Unfinished, JobInv
<1>2. PICK failed \in BOOLEAN :
          jobs' = [jobs EXCEPT ![j].stage = "returned", ![j].failed = failed]
  BY DEF BuildEnds
<1>3. Advances(j, "returned", failed, 0)
  BY <1>1, <1>2, AdvanceFields
<1>4. TypeOK' /\ NumberInv' /\ JobInv' /\ CurrentInv' /\ ShareInv'
  BY <1>1, <1>3, AdvanceStep
<1>5. LockInv'
  <2>1. \A i \in Requests : Claim(i)' = Claim(i)
    BY <1>1, <1>3 DEF Advances, OthersStay, Claim, Relies
  <2>2. \A i \in Requests : Holds(i, jobs[i]) \subseteq Holds(i, jobs'[i])
    BY <1>1, <1>3 DEF Advances, OthersStay, Holds
  <2>3. \A i, k \in Requests : (jobs[k].stage = "locking" => ~jobs[i].deleteLater)'
    BY <1>1, <1>3 DEF LockInv, Advances, OthersStay
  <2>4. project # 0 /\ project \notin lockless /\ locker # project => Replaced' /\ locker = current'
    BY <1>1, <1>3, StillReplaced DEF Advances
  <2> QED
    BY <1>1, <2>1, <2>2, <2>3, <2>4 DEF LockInv
<1> QED
  BY <1>4, <1>5

----------------------------------------------------------------------------
\* What the end of job j does to it.
Ends(j, deleteLater) ==
    /\ jobs'[j].stage = "finished" /\ jobs'[j].deleteLater = deleteLater
    /\ jobs'[j].kind = jobs[j].kind /\ jobs'[j].uses = jobs[j].uses
    /\ jobs'[j].result = jobs[j].result /\ jobs'[j].slot = jobs[j].slot

\* The fields of a job that has finished, and of the one that follows it.
LEMMA EndFields ==
  ASSUME TypeOK, NEW j \in Requests
  PROVE  /\ jobs' = [jobs EXCEPT ![j].stage = "finished"]
              => jobs' \in [Requests -> Job] /\ OthersStay(j) /\ Ends(j, jobs[j].deleteLater)
         /\ jobs' = [jobs EXCEPT ![j].stage = "finished", ![j].deleteLater = TRUE]
              => jobs' \in [Requests -> Job] /\ OthersStay(j) /\ Ends(j, TRUE)
         /\ \A n \in Requests \ {j} : \A job \in Job :
              jobs' = [jobs EXCEPT ![j].stage = "finished", ![j].deleteLater = TRUE, ![n] = job]
                => /\ jobs' \in [Requests -> Job] /\ Ends(j, TRUE) /\ jobs'[n] = job
                   /\ \A i \in Requests : i \notin {j, n} => jobs'[i] = jobs[i]
<1>1. jobs \in [Requests -> Job] /\ jobs[j] \in Job
  BY DEF TypeOK
<1> DEFINE one == [jobs[j] EXCEPT !.stage = "finished"]
           two == [one EXCEPT !.deleteLater = TRUE]
<1>2. /\ one \in Job /\ one.stage = "finished" /\ one.deleteLater = jobs[j].deleteLater
      /\ one.result = jobs[j].result /\ one.kind = jobs[j].kind /\ one.uses = jobs[j].uses
      /\ one.slot = jobs[j].slot
  BY <1>1 DEF Job
<1> HIDE DEF one
<1>3. /\ two \in Job /\ two.stage = "finished" /\ two.deleteLater = TRUE
      /\ two.result = jobs[j].result /\ two.kind = jobs[j].kind /\ two.uses = jobs[j].uses
      /\ two.slot = jobs[j].slot
  BY <1>2 DEF Job
<1> HIDE DEF two
<1>4. /\ [jobs EXCEPT ![j].stage = "finished"] = [jobs EXCEPT ![j] = one]
      /\ [jobs EXCEPT ![j].stage = "finished", ![j].deleteLater = TRUE] = [jobs EXCEPT ![j] = two]
      /\ \A n \in Requests \ {j} : \A job \in Job :
            [jobs EXCEPT ![j].stage = "finished", ![j].deleteLater = TRUE, ![n] = job]
              = [jobs EXCEPT ![j] = two, ![n] = job]
  BY <1>1 DEF one, two
<1>5. ASSUME jobs' = [jobs EXCEPT ![j] = one]
      PROVE  jobs' \in [Requests -> Job] /\ OthersStay(j) /\ Ends(j, jobs[j].deleteLater)
  BY <1>2, <1>5, JobChange DEF Ends
<1>6. ASSUME jobs' = [jobs EXCEPT ![j] = two]
      PROVE  jobs' \in [Requests -> Job] /\ OthersStay(j) /\ Ends(j, TRUE)
  BY <1>3, <1>6, JobChange DEF Ends
<1>7. ASSUME NEW n \in Requests \ {j}, NEW job \in Job,
             jobs' = [jobs EXCEPT ![j] = two, ![n] = job]
      PROVE  /\ jobs' \in [Requests -> Job] /\ Ends(j, TRUE) /\ jobs'[n] = job
             /\ \A i \in Requests : i \notin {j, n} => jobs'[i] = jobs[i]
  <2>1. /\ jobs' \in [Requests -> Job] /\ jobs'[j] = two /\ jobs'[n] = job
        /\ \A i \in Requests : i \notin {j, n} => jobs'[i] = jobs[i]
    BY <1>1, <1>3, <1>7
  <2> QED
    BY <1>3, <2>1 DEF Ends
<1> QED
  BY <1>4, <1>5, <1>6, <1>7

\* The slot of a job whose request is replied to.
LEMMA SendReplyStep ==
  ASSUME IInv, NEW j \in Requests, jobs[j].stage = "returned", phase # "ended",
         jobs[j].slot = "session", SendReply(j)
  PROVE  IInv'
<1> USE DEF IInv
<1>1. /\ j = current /\ Unfinished(j) /\ j # 0 /\ pending = 0
      /\ jobs[j].kind \in {"setup", "build"} /\ jobs[j].uses = project
      /\ j <= sent /\ j \in Nat /\ phase = "open"
  BY JobTypes, NumberTypes DEF CurrentInv, Unfinished, SendReply, Job
<1>2. /\ current' = 0 /\ UNCHANGED <<sent, withdrawn, phase, pending, lockless>>
      /\ jobs[j].kind = "setup" => project' = jobs[j].result
      /\ jobs[j].kind # "setup" => project' = project
      /\ locker' = KeepLocker(locker, project', jobs')
      /\ answers' = [answers EXCEPT ![j] = Answer(j)]
  BY DEF SendReply, Reply
<1>3. jobs' \in [Requests -> Job] /\ OthersStay(j) /\ Ends(j, TRUE)
  BY EndFields DEF SendReply
<1>4. /\ answers' \in [Requests -> {"none", "ok", "error"}]
      /\ \A i \in Requests : i # j => answers'[i] = answers[i]
  BY <1>2 DEF TypeOK, Answer
<1>5. jobs[j].result \in {0, j, project} /\ project' \in {0, j, project}
  BY <1>1, <1>2 DEF JobInv
<1>6. TypeOK'
  <2>1. project' \in 0 .. sent /\ locker' \in 0 .. sent
    BY <1>1, <1>2, <1>5, NumberTypes DEF KeepLocker
  <2> QED
    BY <1>1, <1>2, <1>3, <1>4, <2>1 DEF TypeOK
<1>7. NumberInv'
  BY <1>1, <1>2, <1>3, <1>4, <1>5 DEF NumberInv, Unfinished, Ends, OthersStay, Requests
<1>8. JobInv'
  <2> SUFFICES ASSUME NEW i \in Requests PROVE (JobInv!(i))'
    BY DEF JobInv
  <2>1. CASE i = j
    BY <1>3, <2>1 DEF JobInv, Unfinished, Ends
  <2>2. CASE i # j
    BY <1>2, <1>3, <1>4, <2>2 DEF JobInv, Unfinished, OthersStay
  <2> QED
    BY <2>1, <2>2
<1>9. CurrentInv'
  BY <1>1, <1>2, <1>3 DEF CurrentInv, Unfinished, Ends, OthersStay
<1>10. ShareInv'
  <2>1. \A i \in Requests : Unfinished(i)' => Unfinished(i) /\ i # j /\ jobs'[i].uses = jobs[i].uses
    BY <1>3 DEF Unfinished, Ends, OthersStay
  <2>2. JobsDoNotShareProjects'
    BY <2>1 DEF ShareInv, JobsDoNotShareProjects
  <2>3. \A i \in Requests : Unfinished(i)' /\ project' # 0 => jobs'[i].uses # project'
    BY <1>1, <1>5, <2>1 DEF ShareInv, NumberInv
  <2> QED
    BY <2>2, <2>3 DEF ShareInv
<1>11. LockInv'
  <2>1. \A i \in Requests : Claim(i)' # 0 => Claim(i)' = Claim(i)
    BY <1>2, <1>3 DEF Claim, Relies, Ends, OthersStay
  <2>2. \A i \in Requests : Claim(i)' # 0 => locker = Claim(i)'
    BY <2>1 DEF LockInv
  <2>3. \A i, k \in Requests : (jobs[k].stage = "locking" => ~jobs[i].deleteLater)'
    <3> SUFFICES ASSUME NEW k \in Requests PROVE jobs'[k].stage # "locking"
      OBVIOUS
    <3>1. jobs[k].stage = "locking" => k = current
      BY DEF JobInv, CurrentInv, Unfinished
    <3> QED
      BY <1>1, <1>3, <3>1 DEF Ends, OthersStay
  <2>4. project' # 0 /\ project' \notin lockless' => locker = project'
    <3> SUFFICES ASSUME project' # 0, project' \notin lockless PROVE locker = project'
      BY <1>2
    <3>1. CASE jobs[j].kind = "setup"
      BY <1>1, <1>2, <3>1 DEF LockInv, Claim, Relies
    <3>2. CASE jobs[j].kind = "build"
      BY <1>1, <1>2, <3>2 DEF LockInv, JobInv, Claim, Relies
    <3> QED
      BY <1>1, <3>1, <3>2
  <2> QED
    BY <1>2, <1>6, <1>8, <2>2, <2>3, <2>4, KeptLock
<1> QED
  BY <1>6, <1>7, <1>8, <1>9, <1>10, <1>11

\* The slot of a setup job whose request was superseded.
LEMMA SupersedeStep ==
  ASSUME IInv, NEW j \in Requests, jobs[j].stage = "returned", phase # "ended",
         jobs[j].slot = "session", Supersede(j), NEW n \in Requests, n = pending
  PROVE  IInv'
<1> USE DEF IInv
<1> DEFINE p == AfterFinish(j)
<1>1. /\ j = current /\ Unfinished(j) /\ j # 0 /\ n # 0 /\ n # j
      /\ jobs[j].kind = "setup" /\ jobs[j].uses = project
      /\ jobs[n].stage = "none" /\ answers[n] = "none" /\ n \notin withdrawn
      /\ j <= sent /\ j \in Nat /\ phase = "open" /\ n <= sent /\ n \in Nat
  BY JobTypes, NumberTypes DEF CurrentInv, Unfinished, Supersede
<1>2. /\ current' = n /\ pending' = 0 /\ UNCHANGED <<sent, answers, withdrawn, phase, lockless>>
      /\ project' = p /\ locker' = KeepLocker(locker, p, jobs')
  BY DEF Supersede
<1>3. p \in {0, project} /\ p \in 0 .. sent /\ p \in 0 .. MaxRequests
  BY NumberTypes DEF AfterFinish
<1>4. p # 0 => p = project /\ jobs[j].failed /\ ~jobs[j].moved
  BY <1>1, JobTypes DEF AfterFinish
<1>5. PICK job \in Job :
        /\ job = NewJob("setup", p) /\ job.kind = "setup" /\ job.uses = p /\ job.result = 0
        /\ job.slot = "session" /\ job.stage = "queued" /\ ~job.deleteLater /\ ~job.failed
  BY <1>3, NewJobFields
<1>6. /\ jobs' \in [Requests -> Job] /\ Ends(j, TRUE) /\ jobs'[n] = job
      /\ \A i \in Requests : i \notin {j, n} => jobs'[i] = jobs[i]
  <2>1. jobs' = [jobs EXCEPT ![j].stage = "finished", ![j].deleteLater = TRUE, ![n] = job]
    BY <1>5 DEF Supersede
  <2> QED
    BY <1>1, <2>1, EndFields
<1> HIDE DEF p
<1>7. \A i \in Requests : Unfinished(i)' <=> (i = n \/ (i # j /\ Unfinished(i)))
  BY <1>1, <1>5, <1>6 DEF Unfinished, Ends
<1>8. TypeOK'
  <2>1. locker' \in 0 .. sent
    BY <1>2, NumberTypes DEF KeepLocker
  <2> QED
    BY <1>1, <1>2, <1>3, <1>6, <1>7, <2>1, NumberTypes DEF TypeOK
<1>9. NumberInv'
  <2>1. \A i \in Requests : i > sent => i # n /\ i # j
    BY <1>1, NumberTypes DEF Requests
  <2>2. \A i \in Requests : jobs'[i].uses \in {jobs[i].uses, 0, project}
    BY <1>3, <1>5, <1>6 DEF Ends
  <2>3. \A i \in Requests : i > sent => jobs'[i].stage = "none"
    BY <1>6, <2>1 DEF NumberInv
  <2>4. \A i \in Requests : (i > sent \/ i = pending \/ Unfinished(i))' =>
                               (i > sent \/ i = pending \/ Unfinished(i)) /\ i # 0
    BY <1>1, <1>2, <1>7, NumberTypes DEF Requests
  <2>5. \A i \in Requests : (i > sent \/ i = pending \/ Unfinished(i))' =>
              project' # i /\ \A k \in Requests : jobs'[k].uses # i
    BY <1>2, <1>3, <2>2, <2>4 DEF NumberInv
  <2>6. \A i \in Requests : i \in lockless =>
           i # pending' /\ jobs'[i].stage \in {"none", "returned", "finished"}
    BY <1>1, <1>2, <1>6, NumberTypes DEF NumberInv, Ends
  <2> QED
    BY <1>2, <2>3, <2>5, <2>6 DEF NumberInv
<1>10. JobInv'
  <2> SUFFICES ASSUME NEW i \in Requests PROVE (JobInv!(i))'
    BY DEF JobInv
  <2>1. CASE i = j
    BY <1>6, <2>1 DEF JobInv, Unfinished, Ends
  <2>2. CASE i = n
    BY <1>1, <1>2, <1>5, <1>6, <2>2 DEF Unfinished
  <2>3. CASE i \notin {j, n}
    BY <1>2, <1>6, <2>3 DEF JobInv, Unfinished
  <2> QED
    BY <2>1, <2>2, <2>3
<1>11. CurrentInv'
  <2>1. \A i \in Requests : Unfinished(i)' /\ jobs'[i].slot # "none" => i = n
    BY <1>1, <1>6, <1>7 DEF CurrentInv
  <2> QED
    BY <1>1, <1>2, <1>5, <1>6, <1>7, <2>1 DEF CurrentInv
<1>12. ShareInv'
  <2>1. \A i \in Requests : Unfinished(i)' /\ i # n =>
            Unfinished(i) /\ i # current /\ jobs'[i].uses = jobs[i].uses
    BY <1>1, <1>6, <1>7
  <2>2. \A i \in Requests : Unfinished(i)' /\ i # n /\ p # 0 => jobs'[i].uses # p
    BY <1>3, <2>1 DEF ShareInv
  <2>3. JobsDoNotShareProjects'
    BY <1>5, <1>6, <2>1, <2>2 DEF ShareInv, JobsDoNotShareProjects
  <2> QED
    BY <1>2, <2>2, <2>3 DEF ShareInv
<1>13. LockInv'
  <2>1. \A i \in Requests : i # n /\ Claim(i)' # 0 => Claim(i)' = Claim(i)
    BY <1>2, <1>6 DEF Claim, Relies, Ends
  <2>2. p # 0 /\ p \notin lockless => locker = p
    BY <1>1, <1>4, JobTypes DEF LockInv, Replaced
  <2>3. Claim(n)' = 0 \/ (Claim(n)' = p /\ p \notin lockless)
    BY <1>2, <1>5, <1>6 DEF Claim, Relies
  <2>4. \A i \in Requests : Claim(i)' # 0 => locker = Claim(i)'
    BY <2>1, <2>2, <2>3 DEF LockInv
  <2>5. \A i, k \in Requests : (jobs[k].stage = "locking" => ~jobs[i].deleteLater)'
    <3> SUFFICES ASSUME NEW k \in Requests PROVE jobs'[k].stage # "locking"
      OBVIOUS
    <3>1. jobs[k].stage = "locking" => k = current
      BY DEF JobInv, CurrentInv, Unfinished
    <3> QED
      BY <1>1, <1>5, <1>6, <3>1 DEF Ends
  <2> QED
    BY <1>2, <1>8, <1>10, <2>2, <2>4, <2>5, KeptLock
<1> QED
  BY <1>8, <1>9, <1>10, <1>11, <1>12, <1>13

\* A job ends that was released, or with which the session ends.
LEMMA UnheardStep ==
  ASSUME IInv, NEW j \in Requests, jobs[j].stage = "returned", phase # "ended",
         jobs[j].slot # "session", jobs' = [jobs EXCEPT ![j].stage = "finished"],
         project' = AfterFinish(j), phase' = IF jobs[j].slot = "quit" THEN "ended" ELSE phase,
         UNCHANGED <<sent, answers, withdrawn, current, pending, locker, lockless>>
  PROVE  IInv'
<1> USE DEF IInv
<1>1. jobs' \in [Requests -> Job] /\ OthersStay(j) /\ Ends(j, jobs[j].deleteLater)
  BY EndFields
<1>2. /\ Unfinished(j) /\ j # 0 /\ ~jobs[j].deleteLater /\ jobs[j].slot \in {"quit", "none"}
      /\ jobs[j].slot = "quit" => j = current /\ phase' = "ended"
      /\ jobs[j].slot = "none" => j # current /\ phase' = phase
  BY JobTypes DEF CurrentInv, Unfinished, Job, JobInv
<1>3. /\ project' \in {0, project}
      /\ jobs[j].slot = "none" => project' = project
      /\ project' # 0 /\ jobs[j].slot = "quit" => jobs[j].kind = "build" \/ jobs[j].failed
  BY <1>2, JobTypes DEF AfterFinish, ShareInv, CurrentInv, Job
<1>4. \A i \in Requests : Unfinished(i)' <=> (i # j /\ Unfinished(i))
  BY <1>1 DEF Unfinished, Ends, OthersStay
<1>5. TypeOK'
  BY <1>1, <1>2, <1>3, <1>4, NumberTypes DEF TypeOK
<1>6. NumberInv'
  <2>1. \A i \in Requests : jobs'[i].uses = jobs[i].uses /\ i # 0
    BY <1>1, JobTypes DEF Ends, OthersStay
  <2>2. \A i \in Requests : i > sent => jobs'[i].stage = "none"
    BY <1>1 DEF NumberInv, OthersStay
  <2>3. \A i \in Requests : i \in lockless =>
           i # pending /\ jobs'[i].stage \in {"none", "returned", "finished"}
    BY <1>1 DEF NumberInv, Ends, OthersStay
  <2> QED
    BY <1>3, <1>4, <2>1, <2>2, <2>3 DEF NumberInv
<1>7. JobInv'
  <2> SUFFICES ASSUME NEW i \in Requests PROVE (JobInv!(i))'
    BY DEF JobInv
  <2>1. CASE i = j
    BY <1>1, <1>2, <2>1 DEF JobInv, Unfinished, Ends
  <2>2. CASE i # j
    BY <1>1, <1>2, <2>2 DEF JobInv, Unfinished, OthersStay
  <2> QED
    BY <2>1, <2>2
<1>8. CurrentInv'
  <2>1. CASE jobs[j].slot = "quit"
    BY <1>1, <1>2, <1>4, <2>1 DEF CurrentInv, OthersStay
  <2>2. CASE jobs[j].slot = "none"
    BY <1>1, <1>2, <1>3, <1>4, <2>2, NumberTypes DEF CurrentInv, OthersStay, Unfinished
  <2> QED
    BY <1>2, <2>1, <2>2
<1>9. ShareInv'
  BY <1>1, <1>3, <1>4 DEF ShareInv, JobsDoNotShareProjects, OthersStay
<1>10. LockInv'
  <2>1. \A i \in Requests : Claim(i)' # 0 => Claim(i)' = Claim(i)
    BY <1>1 DEF Claim, Relies, Ends, OthersStay
  <2>2. project' # 0 /\ project' \notin lockless /\ locker # project' => Replaced' /\ locker = current
    <3> SUFFICES ASSUME project' # 0, project' \notin lockless, locker # project'
                 PROVE  Replaced' /\ locker = current
      OBVIOUS
    <3>1. project' = project /\ Replaced /\ locker = current /\ current \in Requests
      BY <1>3, NumberTypes DEF LockInv, Replaced
    <3>2. current # j
      BY <3>1, JobTypes DEF Replaced, AfterFinish
    <3> QED
      BY <1>1, <3>1, <3>2 DEF Replaced, OthersStay
  <2>3. \A i \in Requests : Holds(i, jobs'[i]) = Holds(i, jobs[i])
    BY <1>1 DEF Holds, Ends, OthersStay
  <2>4. locker # 0 /\ locker # project' => \E i \in Requests : locker \in Holds(i, jobs'[i])
    <3>1. CASE project' = project
      BY <2>3, <3>1 DEF LockInv
    <3>2. CASE project' # project
      <4>1. jobs[j].uses = project /\ project \in Holds(j, jobs[j])
        BY <1>2, <3>2 DEF AfterFinish, Holds
      <4> QED
        BY <2>3, <4>1 DEF LockInv
    <3> QED
      BY <3>1, <3>2
  <2>5. \A i, k \in Requests : (jobs[k].stage = "locking" => ~jobs[i].deleteLater)'
    BY <1>1 DEF LockInv, Ends, OthersStay
  <2> QED
    BY <2>1, <2>2, <2>4, <2>5 DEF LockInv
<1> QED
  BY <1>5, <1>6, <1>7, <1>8, <1>9, <1>10

\* The event loop deletes a job.
LEMMA DeleteStep ==
  ASSUME IInv, NEW j \in Requests, Delete(j)
  PROVE  IInv'
<1> USE DEF IInv
<1>1. /\ jobs[j].stage = "finished" /\ phase # "ended"
      /\ jobs' = [jobs EXCEPT ![j] = NoJob]
      /\ locker' = KeepLocker(locker, project', jobs')
      /\ UNCHANGED <<sent, answers, withdrawn, phase, current, pending, project, lockless>>
  BY DEF Delete, JobInv
<1>2. NoJob \in Job /\ NoJob.stage = "none" /\ NoJob.result = 0 /\ NoJob.uses = 0
      /\ ~NoJob.deleteLater /\ ~NoJob.failed /\ NoJob.kind = "build"
  BY BoundAssumption DEF NoJob, Job
<1>3. jobs' \in [Requests -> Job] /\ OthersStay(j) /\ jobs'[j] = NoJob
  BY <1>1, <1>2, JobChange
<1>4. \A i \in Requests : Unfinished(i)' <=> Unfinished(i)
  BY <1>1, <1>2, <1>3 DEF Unfinished, OthersStay
<1>5. j # current /\ (\A i \in Requests : i # 0)
  BY <1>1, JobTypes DEF CurrentInv, Unfinished
<1>6. TypeOK'
  <2>1. locker' \in 0 .. sent
    BY <1>1, NumberTypes DEF KeepLocker
  <2> QED
    BY <1>1, <1>3, <1>4, <2>1, NumberTypes DEF TypeOK
<1>7. NumberInv'
  BY <1>1, <1>2, <1>3, <1>4, <1>5, NumberTypes DEF NumberInv, OthersStay
<1>8. JobInv'
  <2> SUFFICES ASSUME NEW i \in Requests PROVE (JobInv!(i))'
    BY DEF JobInv
  <2>1. CASE i = j
    BY <1>1, <1>2, <1>3, <1>4, <2>1 DEF Unfinished
  <2>2. CASE i # j
    BY <1>1, <1>3, <1>4, <2>2 DEF JobInv, OthersStay
  <2> QED
    BY <2>1, <2>2
<1>9. CurrentInv'
  <2>1. pending # j \/ pending = 0
    BY <1>1 DEF CurrentInv
  <2>2. \A i \in Requests : Unfinished(i)' => jobs'[i] = jobs[i]
    BY <1>1, <1>3, <1>4 DEF OthersStay, Unfinished
  <2> QED
    BY <1>1, <1>3, <1>4, <1>5, <2>1, <2>2, NumberTypes DEF CurrentInv, OthersStay
<1>10. ShareInv'
  <2>1. \A i \in Requests : Unfinished(i)' => jobs'[i] = jobs[i]
    BY <1>1, <1>3, <1>4 DEF OthersStay, Unfinished
  <2> QED
    BY <1>1, <1>4, <2>1 DEF ShareInv, JobsDoNotShareProjects
<1>11. LockInv'
  <2>1. \A i \in Requests : Claim(i)' # 0 => Claim(i)' = Claim(i)
    BY <1>1, <1>2, <1>3 DEF Claim, Relies, OthersStay
  <2>2. \A i \in Requests : Claim(i)' # 0 => locker = Claim(i)'
    BY <2>1 DEF LockInv
  <2>3. \A i, k \in Requests : (jobs[k].stage = "locking" => ~jobs[i].deleteLater)'
    BY <1>2, <1>3 DEF LockInv, OthersStay
  <2>4. project # 0 /\ project \notin lockless /\ locker # project => Replaced' /\ locker = current'
    BY <1>1, <1>3, StillReplaced
  <2> QED
    BY <1>1, <1>6, <1>8, <2>2, <2>3, <2>4, KeptLock
<1> QED
  BY <1>6, <1>7, <1>8, <1>9, <1>10, <1>11

----------------------------------------------------------------------------
\* The invariant holds when the session begins.
LEMMA Initially ==
  ASSUME Init
  PROVE  IInv
<1>1. /\ sent = 0 /\ withdrawn = {} /\ phase = "open" /\ current = 0 /\ pending = 0
      /\ project = 0 /\ locker = 0 /\ lockless = {}
      /\ answers \in [Requests -> {"none", "ok", "error"}]
      /\ \A n \in Requests : answers[n] = "none" /\ jobs[n] = NoJob /\ n # 0
      /\ jobs = [n \in Requests |-> NoJob]
  BY BoundAssumption DEF Init, Requests
<1>2. NoJob \in Job /\ NoJob.stage = "none" /\ NoJob.result = 0 /\ NoJob.uses = 0
      /\ ~NoJob.deleteLater /\ ~NoJob.failed /\ NoJob.kind = "build"
  BY BoundAssumption DEF NoJob, Job
<1>3. TypeOK
  BY <1>1, <1>2, BoundAssumption DEF TypeOK
<1>4. NumberInv /\ JobInv /\ CurrentInv
  BY <1>1, <1>2 DEF NumberInv, JobInv, CurrentInv, Unfinished
<1>5. ShareInv /\ LockInv
  BY <1>1, <1>2 DEF ShareInv, JobsDoNotShareProjects, LockInv, Claim, Relies, Unfinished
<1> QED
  BY <1>3, <1>4, <1>5 DEF IInv

\* Any request that is replied to or starts a job.
LEMMA RequestStep ==
  ASSUME IInv, Resolve \/ Build \/ Release
  PROVE  IInv'
<1>1. Receive /\ sent + 1 \in Requests
  BY NumberTypes DEF IInv, Resolve, Build, Release, Receive, Requests
<1>2. PICK n \in Requests : n = sent + 1
  BY <1>1
<1>3. CASE Resolve
  <2>1. CASE current # 0 /\ jobs[current].kind = "setup" /\ jobs[current].canceling
    BY <1>1, <1>2, <1>3, <2>1, LaterStep DEF Resolve
  <2>2. CASE current # 0 /\ ~(jobs[current].kind = "setup" /\ jobs[current].canceling)
    BY <1>1, <1>3, <2>2, RefuseStep DEF Resolve
  <2>3. CASE current = 0
    BY <1>1, <1>2, <1>3, <2>3, BeginStep DEF Resolve
  <2> QED
    BY <2>1, <2>2, <2>3
<1>4. CASE Build
  <2>1. CASE current # 0 \/ project = 0
    BY <1>1, <1>4, <2>1, RefuseStep DEF Build
  <2>2. CASE current = 0 /\ project # 0
    BY <1>1, <1>2, <1>4, <2>2, BeginStep DEF Build
  <2> QED
    BY <2>1, <2>2
<1>5. CASE Release
  <2>1. CASE project = 0
    BY <1>1, <1>5, <2>1, RefuseStep DEF Release
  <2>2. CASE project # 0
    BY <1>1, <1>2, <1>5, <2>2, ReleaseStep DEF Release
  <2> QED
    BY <2>1, <2>2
<1> QED
  BY <1>3, <1>4, <1>5

\* AbstractJob::handleFinished()
LEMMA FinishedStep ==
  ASSUME IInv, NEW j \in Requests, HandleFinished(j)
  PROVE  IInv'
<1>1. jobs[j].stage = "returned" /\ phase # "ended"
  BY DEF HandleFinished
<1>2. CASE jobs[j].slot = "session" /\ Supersede(j)
  <2>1. pending \in Requests
    BY <1>2, NumberTypes DEF IInv, Supersede
  <2> QED
    BY <1>1, <1>2, <2>1, SupersedeStep
<1>3. CASE jobs[j].slot = "session" /\ SendReply(j)
  BY <1>1, <1>3, SendReplyStep
<1>4. CASE jobs[j].slot # "session"
  BY <1>1, <1>4, UnheardStep DEF HandleFinished
<1> QED
  BY <1>2, <1>3, <1>4 DEF HandleFinished

\* Every step keeps the invariant.
LEMMA Step ==
  ASSUME IInv, [Next]_vars
  PROVE  IInv'
<1>1. CASE Resolve \/ Build \/ Release
  BY <1>1, RequestStep
<1>2. CASE Cancel
  BY <1>2, CancelStep
<1>3. CASE Quit
  BY <1>3, QuitStep
<1>4. ASSUME NEW j \in Requests, StartRequested(j)
      PROVE  IInv'
  BY <1>4, StartStep
<1>5. ASSUME NEW j \in Requests, Work(j)
      PROVE  IInv'
  BY <1>5, LockStep, LockFailsStep, SetupSucceedsStep, StoreFailsStep, SetupFailsStep, BuildEndsStep DEF Work
<1>6. ASSUME NEW j \in Requests, HandleFinished(j)
      PROVE  IInv'
  BY <1>6, FinishedStep
<1>7. ASSUME NEW j \in Requests, Delete(j)
      PROVE  IInv'
  BY <1>7, DeleteStep
<1>8. CASE UNCHANGED vars
  BY <1>8 DEF vars, IInv, TypeOK, NumberInv, JobInv, CurrentInv, ShareInv, LockInv, Replaced,
              JobsDoNotShareProjects, Claim, Relies, Holds, Unfinished
<1> QED
  BY <1>1, <1>2, <1>3, <1>4, <1>5, <1>6, <1>7, <1>8 DEF Next

\* The invariant holds in every session, whatever the number of requests.
THEOREM Invariance == Spec => []IInv
<1>1. Init => IInv
  BY Initially
<1>2. IInv /\ [Next]_vars => IInv'
  BY Step
<1> QED
  BY <1>1, <1>2, PTL DEF Spec

\* A session's project has the lock on its build graph, unless a failed store has cost it the lock,
\* and is used by one job at a time, in every session: Session::releaseProject() resets
\* m_currentJob while its job goes on, and InternalSetupProjectJob::start() moves the locker
\* between projects in another thread.
THEOREM Exclusive == Spec => []ProjectsAreExclusive
<1>1. IInv => ProjectsAreExclusive
  <2> SUFFICES ASSUME IInv PROVE ProjectsAreExclusive
    OBVIOUS
  <2>1. ProjectHasTheLock
    BY DEF IInv, LockInv, Replaced, ProjectHasTheLock
  <2> QED
    BY <2>1 DEF IInv, ShareInv, ProjectsAreExclusive
<1> QED
  BY <1>1, Invariance, PTL

\* A setup that wants the lock finds it taken by this process only if the client has released a
\* project while a job was running on it: the deletion of the last job, posted by its slot, has
\* been handled before the worker thread of the next one starts.
THEOREM LockIsFree == Spec => []NoSelfLock
<1>1. IInv => NoSelfLock
  <2> SUFFICES ASSUME IInv, NEW j \in Requests, jobs[j].stage = "locking", locker # 0
               PROVE  \E i \in Requests : jobs[i].slot = "none" /\ locker \in Holds(i, jobs[i])
    BY DEF NoSelfLock
  <2>1. j = current /\ jobs[j].uses = 0 /\ jobs[j].result = 0 /\ Unfinished(j) /\ j # 0
    BY JobTypes DEF IInv, JobInv, CurrentInv, Unfinished
  <2>2. project = 0 /\ phase # "ended"
    BY <2>1 DEF IInv, JobInv, CurrentInv
  <2>3. PICK i \in Requests : locker \in Holds(i, jobs[i])
    BY <2>2 DEF IInv, LockInv
  <2>4. i # j /\ jobs[i].stage # "none"
    BY <2>1, <2>3 DEF Holds
  <2>5. jobs[i].slot = "none"
    <3>1. CASE Unfinished(i)
      BY <2>1, <2>4, <3>1 DEF IInv, CurrentInv
    <3>2. CASE ~Unfinished(i)
      <4>1. jobs[i].stage = "finished"
        BY <2>4, <3>2, JobTypes DEF IInv, Job, Unfinished
      <4> QED
        BY <2>2, <4>1 DEF IInv, JobInv, LockInv
    <3> QED
      BY <3>1, <3>2
  <2> QED
    BY <2>3, <2>5
<1> QED
  BY <1>1, Invariance, PTL

\* No request is replied to twice, or after it was superseded or released: by the main thread's
\* bookkeeping of m_currentJob and m_resolveRequest.
THEOREM OneReply == Spec => RepliesAreFinal
<1> DEFINE Final == \A n \in Requests :
                       answers'[n] # answers[n] => answers[n] = "none" /\ n \notin withdrawn
<1>1. ASSUME IInv, [Next]_vars
      PROVE  [Final]_vars
  <2>1. ASSUME NEW n \in Requests, NEW answer, Reply(n, answer),
               answers[n] = "none" /\ n \notin withdrawn
        PROVE  Final
    BY <1>1, <2>1 DEF IInv, TypeOK, Reply
  <2>2. ASSUME Receive
        PROVE  sent + 1 \in Requests /\ answers[sent + 1] = "none" /\ sent + 1 \notin withdrawn
    BY <1>1, <2>2, NumberTypes DEF IInv, NumberInv, Receive, Requests
  <2>3. CASE Resolve \/ Build \/ Release
    <3>1. Receive
      BY <2>3 DEF Resolve, Build, Release
    <3>2. UNCHANGED answers \/ Reply(sent + 1, "error") \/ Reply(sent + 1, "ok")
      BY <2>3 DEF Resolve, Build, Release
    <3> QED
      BY <2>1, <2>2, <3>1, <3>2
  <2>4. ASSUME NEW j \in Requests, HandleFinished(j)
        PROVE  Final
    <3>1. CASE jobs[j].slot = "session" /\ SendReply(j)
      <4>1. j = current /\ phase # "ended" /\ Unfinished(j) /\ j # 0
        BY <1>1, <2>4, <3>1, JobTypes DEF IInv, CurrentInv, HandleFinished, Unfinished
      <4>2. pending = 0 /\ answers[j] = "none"
        BY <1>1, <3>1, <4>1 DEF IInv, CurrentInv, JobInv, SendReply
      <4>3. j \notin withdrawn
        BY <1>1, <4>1, <4>2 DEF IInv, CurrentInv
      <4> QED
        BY <2>1, <3>1, <4>2, <4>3 DEF SendReply
    <3>2. CASE UNCHANGED answers
      BY <3>2
    <3> QED
      BY <2>4, <3>1, <3>2 DEF HandleFinished, Supersede
  <2>5. CASE UNCHANGED answers
    BY <2>5
  <2> QED
    BY <1>1, <2>3, <2>4, <2>5
       DEF Next, vars, Cancel, Quit, StartRequested, Work, Lock, LockFails, SetupSucceeds,
           StoreFails, SetupFails, BuildEnds, WorkerStep, Delete
<1> QED
  BY <1>1, Invariance, PTL DEF Spec, RepliesAreFinal
=============================================================================
