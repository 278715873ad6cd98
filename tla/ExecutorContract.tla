--------------------------- MODULE ExecutorContract ---------------------------
(***************************************************************************)
(* The executor as the user of its jobs.  Module CommandExecution says what   *)
(* a job does with its commands and shows that it implements JobContract;     *)
(* here the executor is shown to treat every one of its jobs according to     *)
(* the same contract.  What a job was handed is its entry of m_processingJobs. *)
(* The commands of a transformer are one step to the executor, so that none   *)
(* is left to do when the job reports.                                        *)
(***************************************************************************)
EXTENDS Executor

\* What the job has reported and the executor has not dealt with yet.
Report(j) ==
    IF jobRun[j] = "ok" THEN "success" ELSE IF jobRun[j] = "error" THEN "failure" ELSE "none"

Job(j) == INSTANCE JobContract WITH
    NoWork <- NoTransformer,
    work <- processingJobs[j],
    running <- jobRun[j] \in {"running", "canceled"},
    todo <- 0,
    canceled <- jobRun[j] = "canceled",
    report <- Report(j)

\* The executor hands a transformer only to a job that has none and whose last report it has
\* dealt with; it forgets or replaces the transformer of a job neither while the commands run
\* nor while the report is on its way, finishJob() alone takes it back; and its cancels reach
\* only jobs that run commands, so that none answers twice.  Jobs finish, rules throw and users
\* cancel in any order.  (That a canceled job fails is the job's part of the contract, see
\* CommandExecution.)
\* This is \A j \in Jobs : Job(j)!Spec, with one temporal operator for all jobs.
JobsUsedByContract ==
    /\ \A j \in Jobs : Job(j)!Init
    /\ [][\A j \in Jobs : [Job(j)!Next]_(Job(j)!vars)]_vars
===============================================================================
