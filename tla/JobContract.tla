----------------------------- MODULE JobContract -----------------------------
(***************************************************************************)
(* What the executor and one of its jobs promise each other.  The executor   *)
(* hands a transformer only to a job that has none, leaves it there until the *)
(* job has reported, and takes the report before it hands over the next one. *)
(* The job answers every run() with one report, reports success only after   *)
(* it has carried out every command of the transformer, and never when it    *)
(* was canceled.  No executor, process or thread is mentioned here;          *)
(* CommandExecution keeps the promises of the job, and the executor those    *)
(* of the executor.                                                          *)
(***************************************************************************)
EXTENDS Naturals

CONSTANT NoWork     \* what a job has that was not handed a transformer

VARIABLES
    work,       \* what was handed over and whose report has not been taken
    running,    \* a transformer has been handed over and not been answered
    todo,       \* the commands of that transformer that are not carried out
    canceled,   \* the executor has asked the job to stop
    report      \* the answer that has not been taken: "none", "success" or "failure"

vars == <<work, running, todo, canceled, report>>

Init ==
    /\ work = NoWork
    /\ running = FALSE
    /\ todo = 0
    /\ canceled = FALSE
    /\ report = "none"

\* The job has nothing to do, and the executor has dealt with its last report.
Free == ~running /\ report = "none" /\ work = NoWork

\* The executor calls run() with a transformer.
Accept ==
    /\ Free
    /\ work' # NoWork
    /\ running' = TRUE
    /\ todo' \in Nat
    /\ canceled' = FALSE
    /\ UNCHANGED report

\* A transformer without commands is answered at once.
AcceptEmpty ==
    /\ Free
    /\ work' # NoWork
    /\ report' = "success"
    /\ UNCHANGED <<running, todo, canceled>>

\* run() has an error of its own, before the first command is started.
AcceptAndFail ==
    /\ Free
    /\ work' # NoWork
    /\ report' = "failure"
    /\ UNCHANGED <<running, todo, canceled>>

CarryOut ==
    /\ running
    /\ todo > 0
    /\ todo' = todo - 1
    /\ UNCHANGED <<work, running, canceled, report>>

Cancel ==
    /\ running
    /\ canceled' = TRUE
    /\ UNCHANGED <<work, running, todo, report>>

Succeed ==
    /\ running
    /\ todo = 0
    /\ ~canceled
    /\ running' = FALSE
    /\ report' = "success"
    /\ UNCHANGED <<work, todo, canceled>>

\* A failed or canceled transformer; its remaining commands are dropped.
Fail ==
    /\ running
    /\ running' = FALSE
    /\ todo' = 0
    /\ canceled' = FALSE
    /\ report' = "failure"
    /\ UNCHANGED work

\* The executor deals with the report, and has the transformer back.
Collect ==
    /\ ~running
    /\ report # "none"
    /\ report' = "none"
    /\ work' = NoWork
    /\ UNCHANGED <<running, todo, canceled>>

Next ==
    \/ Accept \/ AcceptEmpty \/ AcceptAndFail \/ Collect
    \/ CarryOut \/ Cancel \/ Succeed \/ Fail

Spec == Init /\ [][Next]_vars
===============================================================================
