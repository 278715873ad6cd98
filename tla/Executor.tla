------------------------------- MODULE Executor -------------------------------
(***************************************************************************)
(* The qbs build executor (buildgraph/executor.cpp, with the parts of       *)
(* rulenode.cpp, rulesapplicator.cpp, inputartifactscanner.cpp and          *)
(* executorjob.cpp it calls), over a sequence of builds of one project.     *)
(*                                                                          *)
(* The executor lives in one thread.  pc says where that thread is:         *)
(*   "idle"       no build is running (between two builds)                  *)
(*   "schedule"   in the loop of scheduleJobs(), one action per leaf        *)
(*   "rule"       inside the script of a rule, which lets timer events in   *)
(*   "loop"       back in the event loop, waiting for a job or the timer    *)
(*   "finishing"  a call of finish() has been posted by doBuild()           *)
(*   "done"       finished() has been emitted                               *)
(*   "aborted"    a standard library exception nobody catches was thrown    *)
(*                                                                          *)
(* Time is the counter clock; the timestamp 0 is an invalid FileTime.       *)
(***************************************************************************)
EXTENDS BuildGraph, Integers

CONSTANTS
    Jobs,             \* the ExecutorJobs, as many as maxJobCount
    JobPools,
    PoolsOf,          \* Transformer::jobPools()
    JobLimit,         \* per product and pool; 0 stands for "no limit"
    Priority,         \* per product, from ProductPrioritySetter
    RootRules,        \* rules that produce the type of their product
    Targets,          \* artifacts tagged with the type of their product
    AlwaysUpdated,    \* artifacts with alwaysUpdated set
    AlwaysRun,        \* transformers of rules with alwaysRun set
    Filtered,         \* transformers deselected by file tags or by files to consider
    ArtifactDeps,     \* explicitlyDependsOn of a single output artifact
    ScanResults,      \* what scanning a transformer's inputs can find
    Rescued,          \* artifacts whose data from an earlier graph can be rescued
    RescuedChildren,  \* the scanner-added children in that data
    KnownOutOfDate,   \* rescued artifacts that were marked for re-run
    CommandSensitive, \* transformers whose commands read a property or variable that may change
    PrepareSensitive, \* rules whose prepare script reads a property that may change
    BuildOptions,     \* records with products (to build), keepGoing, executeRulesOnly and
                      \* forceOutputCheck
    MayFail,          \* transformers whose commands may fail
    MayThrow,         \* rules whose scripts may throw
    MayEdit,          \* sources the user may change between two builds
    MaxBuilds, MaxEdits, MaxChanges, MaxCancels

NoTime == 0
RescueTime == 1

ASSUME ExecutorAssumption ==
    /\ IsFiniteSet(Jobs) /\ Jobs # {}
    /\ PoolsOf \in [Transformers -> SUBSET JobPools]
    /\ JobLimit \in [Products -> [JobPools -> Nat]]
    /\ Priority \in [Products -> Nat]
    /\ RootRules \subseteq Rules
    /\ Targets \subseteq Generated /\ AlwaysUpdated \subseteq Generated
    /\ ArtifactDeps \in [Generated -> SUBSET Artifacts]
    /\ ScanResults \in [Transformers -> SUBSET SUBSET Artifacts]
    /\ \A t \in Transformers : ScanResults[t] # {}
    /\ MaxBuilds \in Nat /\ MaxEdits \in Nat /\ MaxChanges \in Nat /\ MaxCancels \in Nat
    /\ MayEdit \subseteq Sources
    /\ Rescued \subseteq Generated
    /\ RescuedChildren \in [Generated -> SUBSET Artifacts]
    /\ \A o \in BuildOptions : /\ o.products \in SUBSET Products
                               /\ o.keepGoing \in BOOLEAN
                               /\ o.executeRulesOnly \in BOOLEAN
                               /\ o.forceOutputCheck \in BOOLEAN

\* Products are built together with the products they depend on (addDependencies() in
\* project.cpp), and only rules of those have edges to them.
ASSUME BuildOptionsAssumption ==
    \A o \in BuildOptions : \A r \in Rules :
        ProductOf[r] \in o.products => \A q \in RuleChildren[r] : ProductOf[q] \in o.products

VARIABLES
    \* The project's build data, kept from one build to the next.
    graph,            \* the nodes that exist
    children,         \* BuildGraphNode::children
    addedByScanner,   \* Artifact::childrenAddedByScanner
    timestamp,        \* FileResourceBase::timestamp()
    oldData,          \* artifacts with oldDataPossiblyPresent
    applied,          \* rules that have been applied to their current inputs
    prepareTracked,   \* rules with prepareScriptNeedsChangeTracking transformers
    outdatedPrepare,  \* rules whose prepare script ran with other property values
    noCommands,       \* transformers whose prepare script has not produced commands
    markedForRerun,   \* transformers with markedForRerun
    tracked,          \* transformers with commandsNeedChangeTracking
    outdatedRecord,   \* transformers whose record of what their commands read is outdated
    \* The executor's own state.
    state, pc, opts, currentRule, duringDoBuild,
    buildState, inputsScanned, leaves, delayedLeaves,
    availableJobs, processingJobs, jobRun, jobCountPerPool,
    pendingTransformers, timerOn, errors, explicitlyCanceled,
    \* The world outside.
    canceled,         \* ProgressObserver::canceled()
    mtime, clock, builds, edits, changes, cancels,
    \* History: what a correct build has to redo, and whether a command failed.
    stale, failed

ruleVars  == <<applied, prepareTracked, outdatedPrepare, noCommands>>
graphVars == <<graph, children, addedByScanner, timestamp, oldData, ruleVars,
               markedForRerun, tracked, outdatedRecord>>
nodeVars  == <<buildState, inputsScanned, leaves>>
jobVars   == <<availableJobs, processingJobs, jobRun, jobCountPerPool>>
endVars   == <<state, errors, timerOn>>
worldVars == <<canceled, mtime, clock, builds, edits, changes, cancels>>
ghostVars == <<stale, failed>>
vars == <<graphVars, nodeVars, jobVars, endVars, worldVars, ghostVars, pc, opts, currentRule,
          duringDoBuild, delayedLeaves, pendingTransformers, explicitlyCanceled>>

NoLeaves == [n \in Nodes |-> 0]
JobsProcessing == {j \in Jobs : processingJobs[j] # NoTransformer}
ProductsToBuild == opts.products
RootNodes(products) == {n \in graph : (n \in RootRules \/ n \in Targets) /\ ProductOf[n] \in products}
Roots == RootNodes(ProductsToBuild)

-------------------------------------------------------------------------------
(***************************************************************************)
(* Ending a build.                                                          *)
(***************************************************************************)

\* Mutant: unbuilt products are not reported if the user wants to keep going.
FinishWithoutCheck(bs, errs, canceledByUser) ==
    /\ errors' = errs
          \cup (IF ~opts.keepGoing /\ \E n \in Roots : bs[n] # "Built" THEN {"unbuilt"} ELSE {})
          \cup (IF canceledByUser THEN {"canceled"} ELSE {})
    /\ state' = "Idle"
    /\ timerOn' = FALSE
    /\ pc' = "done"

\* checkForUnbuiltProducts() and the rest of finish().
Finish(bs, errs, canceledByUser) ==
    /\ errors' = errs
          \cup (IF ~opts.executeRulesOnly /\ \E n \in Roots : bs[n] # "Built"
                THEN {"unbuilt"} ELSE {})
          \cup (IF canceledByUser THEN {"canceled"} ELSE {})
    /\ state' = "Idle"
    /\ timerOn' = FALSE
    /\ pc' = "done"

\* Mutant: jobs that have run their last command are canceled as well.
CanceledAgain(run) == [j \in Jobs |-> IF run[j] # "idle" THEN "canceled" ELSE run[j]]

\* cancelJobs(): a job that has already run its last command is not touched.
Canceled(run) == [j \in Jobs |-> IF run[j] = "running" THEN "canceled" ELSE run[j]]

\* Mutant: an exception ends the build without waiting for the other jobs.
HandleErrorAtOnce(bs, errs, busy, run) ==
    /\ Finish(bs, errs \cup {"thrown"}, explicitlyCanceled)
    /\ jobRun' = run
    /\ delayedLeaves' = NoLeaves
    /\ duringDoBuild' = FALSE

\* handleError(), for an exception thrown while the jobs busy are still processing.
HandleError(bs, errs, busy, run) ==
    /\ IF busy = {}
       THEN Finish(bs, errs \cup {"thrown"}, explicitlyCanceled) /\ jobRun' = run
       ELSE /\ errors' = errs \cup {"thrown"}
            /\ state' = "Canceling"
            /\ jobRun' = IF state = "Canceling" THEN run ELSE Canceled(run)
            /\ pc' = "loop"
            /\ UNCHANGED timerOn
    /\ delayedLeaves' = NoLeaves
    /\ duringDoBuild' = FALSE

-------------------------------------------------------------------------------
(***************************************************************************)
(* build() and doBuild(), up to the first call of scheduleJobs().           *)
(***************************************************************************)

\* prepareAllNodes(), setupRootNodes(), prepareReachableNodes().
PreparedStates(roots) ==
    LET reachable == Closure(roots, children)
    IN  [n \in Nodes |-> IF n \in reachable THEN "Buildable" ELSE "Untouched"]

Build(o) ==
    LET roots == RootNodes(o.products)
        states == PreparedStates(roots)
        visited == Visited(roots, states, children)
    IN  /\ pc = "idle" /\ builds < MaxBuilds
        /\ builds' = builds + 1
        /\ opts' = o
        /\ timestamp' = [a \in Artifacts |->
                            IF a \in Sources /\ ProductOf[a] \in o.products
                            THEN mtime[a] ELSE timestamp[a]]
        /\ inputsScanned' = {a \in inputsScanned : ProductOf[a] \notin o.products}
        /\ buildState' = states
        /\ leaves' = Push(NoLeaves, LeavesAmong(visited, states, children))
        /\ delayedLeaves' = NoLeaves
        /\ state' = "Running" /\ pc' = "schedule" /\ duringDoBuild' = TRUE
        /\ errors' = {} /\ explicitlyCanceled' = FALSE /\ timerOn' = FALSE
        /\ jobCountPerPool' = [p \in JobPools |-> 0]
        /\ pendingTransformers' = [r \in Rules |-> 0]
        /\ canceled' = FALSE
        /\ failed' = FALSE
        /\ availableJobs' = Jobs
        /\ processingJobs' = [j \in Jobs |-> NoTransformer]
        /\ jobRun' = [j \in Jobs |-> "idle"]
        /\ UNCHANGED <<graph, children, addedByScanner, oldData, ruleVars, markedForRerun,
                       tracked, outdatedRecord, currentRule, mtime, clock, edits, changes,
                       cancels, stale>>

-------------------------------------------------------------------------------
(***************************************************************************)
(* scheduleJobs(): take the leaf n from the queue.                          *)
(***************************************************************************)

\* Mutant: the queue is not checked for being empty.
PopLeafUnchecked(n) ==
    /\ pc = "schedule"
    /\ availableJobs # {}
    /\ \A m \in Nodes : leaves[m] > 0 => Priority[ProductOf[m]] <= Priority[ProductOf[n]]

PopLeaf(n) ==
    /\ pc = "schedule"
    /\ availableJobs # {}
    /\ leaves[n] > 0
    /\ \A m \in Nodes : leaves[m] > 0 => Priority[ProductOf[m]] <= Priority[ProductOf[n]]

Popped(n) == [leaves EXCEPT ![n] = @ - 1]

InUse(p) == jobCountPerPool[p] # 0

jobLimitIsExceeded(product, p) ==
    JobLimit[product][p] > 0 /\ jobCountPerPool[p] >= JobLimit[product][p]

\* A job that has finished its commands has forgotten its transformer and its pools.
RunningIn(p) == {j \in JobsProcessing : /\ jobRun[j] \in {"running", "canceled"}
                                        /\ p \in PoolsOf[processingJobs[j]]}

\* m_jobLimitsPerProduct.at() throws for a product that is not being built.
LimitsUnknown(n) ==
    /\ n \in Generated
    /\ ProductOf[n] \notin ProductsToBuild
    /\ \E p \in PoolsOf[TransformerOf[n]] : InUse(p)

\* Mutant: only the limit of the node's own product is looked at.
blockedByOwnLimit(n) ==
    /\ n \in Generated
    /\ \E p \in PoolsOf[TransformerOf[n]] : InUse(p) /\ jobLimitIsExceeded(ProductOf[n], p)

schedulingBlockedByJobLimit(n) ==
    /\ n \in Generated
    /\ \E p \in PoolsOf[TransformerOf[n]] :
          /\ InUse(p)
          /\ \/ jobLimitIsExceeded(ProductOf[n], p)
             \/ \E j \in RunningIn(p) :
                   jobLimitIsExceeded(ProductOfTransformer(processingJobs[j]), p)

\* Building or built: the node was queued more than once.
SkipLeaf(n) ==
    /\ PopLeaf(n)
    /\ buildState[n] # "Buildable"
    /\ leaves' = Popped(n)
    /\ UNCHANGED <<graphVars, buildState, inputsScanned, jobVars, endVars, worldVars, ghostVars,
                   pc, opts, currentRule, duringDoBuild, delayedLeaves, pendingTransformers,
                   explicitlyCanceled>>

DelayLeaf(n) ==
    /\ PopLeaf(n)
    /\ buildState[n] = "Buildable" /\ ~LimitsUnknown(n)
    /\ schedulingBlockedByJobLimit(n)
    /\ leaves' = Popped(n)
    /\ delayedLeaves' = [delayedLeaves EXCEPT ![n] = @ + 1]
    /\ UNCHANGED <<graphVars, buildState, inputsScanned, jobVars, endVars, worldVars, ghostVars,
                   pc, opts, currentRule, duringDoBuild, pendingTransformers,
                   explicitlyCanceled>>

\* std::out_of_range is no ErrorInfo: neither build() nor onJobFinished() catches it.
AbortOnUnknownLimits(n) ==
    /\ PopLeaf(n)
    /\ buildState[n] = "Buildable" /\ LimitsUnknown(n)
    /\ pc' = "aborted"
    /\ UNCHANGED <<graphVars, nodeVars, jobVars, endVars, worldVars, ghostVars, opts,
                   currentRule, duringDoBuild, delayedLeaves, pendingTransformers,
                   explicitlyCanceled>>

\* Mutant: a node that is queued more than once is not skipped.
AcceptAgain(n) ==
    /\ PopLeaf(n)
    /\ buildState[n] \in {"Buildable", "Building"} /\ ~LimitsUnknown(n)
    /\ ~schedulingBlockedByJobLimit(n)

Accept(n) ==
    /\ PopLeaf(n)
    /\ buildState[n] = "Buildable" /\ ~LimitsUnknown(n)
    /\ ~schedulingBlockedByJobLimit(n)

\* Mutant: delayed leaves are forgotten.
WithoutDelayedLeaves == leaves

\* Delayed leaves go back to the queue.
WithDelayedLeaves == [n \in Nodes |-> leaves[n] + delayedLeaves[n]]

\* Mutant: delayed leaves are tried again at once.
RetryDelayedLeaves ==
    /\ pc' = IF delayedLeaves # NoLeaves THEN "schedule" ELSE "loop"
    /\ timerOn' = (timerOn \/ duringDoBuild)
    /\ UNCHANGED <<state, errors>>

WaitForEvents ==
    /\ pc' = "loop"
    /\ timerOn' = (timerOn \/ duringDoBuild)
    /\ UNCHANGED <<state, errors>>

\* The end of the loop.  Nothing left to do is the end of the build.
EndSchedule ==
    LET all == WithDelayedLeaves
    IN  /\ pc = "schedule"
        /\ availableJobs = {} \/ leaves = NoLeaves
        /\ leaves' = all
        /\ delayedLeaves' = NoLeaves
        /\ IF all # NoLeaves \/ JobsProcessing # {}
           THEN WaitForEvents
           ELSE IF duringDoBuild
                THEN pc' = "finishing" /\ timerOn' = TRUE /\ UNCHANGED <<state, errors>>
                ELSE Finish(buildState, errors, explicitlyCanceled)
        /\ duringDoBuild' = FALSE
        /\ UNCHANGED <<graphVars, buildState, inputsScanned, jobVars, worldVars, ghostVars, opts,
                       currentRule, pendingTransformers, explicitlyCanceled>>

\* The finish() that doBuild() has posted to itself.
PostedFinish ==
    /\ pc = "finishing"
    /\ Finish(buildState, errors, explicitlyCanceled)
    /\ UNCHANGED <<graphVars, nodeVars, jobVars, worldVars, ghostVars, opts, currentRule,
                   duringDoBuild, delayedLeaves, pendingTransformers, explicitlyCanceled>>

-------------------------------------------------------------------------------
(***************************************************************************)
(* buildArtifact() for a source file, and checkNodeProduct() for a node of  *)
(* a product that is not being built: the node is just finished.  The time  *)
(* stamp of a source is retrieved unless timestampRetrieved is set, which   *)
(* Build(o) has seen to for the products being built; for another one it is *)
(* set if and only if this process has retrieved the time stamp before.     *)
(***************************************************************************)
FinishLeaf(n) ==
    /\ Accept(n)
    /\ n \in Sources \/ ProductOf[n] \notin ProductsToBuild
    /\ buildState' = MarkBuilt({n}, buildState)
    /\ leaves' = Push(Popped(n), ReadyParents({n}, buildState, children))
    /\ \/ n \in Sources /\ timestamp' = [timestamp EXCEPT ![n] = mtime[n]]
       \/ (n \in Sources => timestamp[n] # NoTime) /\ UNCHANGED timestamp
    /\ UNCHANGED <<graph, children, addedByScanner, oldData, ruleVars, markedForRerun, tracked,
                   outdatedRecord, inputsScanned, jobVars, endVars, worldVars, ghostVars, pc,
                   opts, currentRule, duringDoBuild, delayedLeaves, pendingTransformers,
                   explicitlyCanceled>>

-------------------------------------------------------------------------------
(***************************************************************************)
(* executeRuleNode().  A rule that has to be applied runs scripts, and the  *)
(* script engine lets timer events in while they run.                       *)
(***************************************************************************)

\* Mutant: what the prepare script has read is not tracked.
NeverApplied(r) == r \notin applied

NeedsApplication(r) == r \notin applied \/ r \in prepareTracked \cap outdatedPrepare

\* RuleNode::apply() finds the rule up to date and runs no script.  prepareScriptNeedsRerun()
\* has looked at the tracking data once, and will not look again.
SkipRule(r) ==
    /\ Accept(r)
    /\ r \in Rules /\ ProductOf[r] \in ProductsToBuild
    /\ ~NeedsApplication(r)
    /\ prepareTracked' = prepareTracked \ {r}
    /\ buildState' = MarkBuilt({r}, buildState)
    /\ leaves' = Push(Popped(r), ReadyParents({r}, buildState, children))
    /\ pendingTransformers' = [pendingTransformers EXCEPT ![r] = Cardinality(TransformersOf(r))]
    /\ UNCHANGED <<graph, children, addedByScanner, timestamp, oldData, applied,
                   outdatedPrepare, noCommands, markedForRerun, tracked, outdatedRecord,
                   inputsScanned, jobVars, endVars, worldVars, ghostVars, pc, opts, currentRule,
                   duringDoBuild, delayedLeaves, explicitlyCanceled>>

EnterRule(r) ==
    /\ Accept(r)
    /\ r \in Rules /\ ProductOf[r] \in ProductsToBuild
    /\ NeedsApplication(r)
    /\ prepareTracked' = prepareTracked \ {r}
    /\ leaves' = Popped(r)
    /\ currentRule' = r
    /\ pc' = "rule"
    /\ UNCHANGED <<graph, children, addedByScanner, timestamp, oldData, applied,
                   outdatedPrepare, noCommands, markedForRerun, tracked, outdatedRecord,
                   buildState, inputsScanned, jobVars, endVars, worldVars, ghostVars,
                   opts, duringDoBuild, delayedLeaves, pendingTransformers, explicitlyCanceled>>

\* createOutputArtifact() and doApply(): connect the outputs of the transformers ts of rule r
\* to the rule node and to their inputs, new outputs to the rules that consume them, and the
\* rule node to the inputs that did not become its children when they were created.
ConnectOutputs(r, ts) ==
    LET new == {o \in Generated : TransformerOf[o] \in ts /\ o \notin graph}
        inputs == UNION {Inputs[t] : t \in ts}
        present == graph \cup new
    IN  [n \in Nodes |->
            CASE n \in Generated /\ TransformerOf[n] \in ts ->
                    children[n] \cup {r} \cup Inputs[TransformerOf[n]]
                                \cup (ArtifactDeps[n] \cap present)
              [] n \in Rules /\ r \in children[n] -> children[n] \cup new
              [] n = r -> children[n] \cup {i \in inputs : \/ i \in Sources
                                                           \/ ProductOf[i] # ProductOf[r]}
              [] OTHER -> children[n]]

\* doApply() invalidates the outputs of a transformer that is new or whose commands differ
\* from those of the transformer it replaces.
Invalidated(r, t) ==
    \/ \E o \in Outputs(t) : o \notin graph
    \/ t \in noCommands
    \/ r \in outdatedPrepare
    \/ t \in tracked \cap outdatedRecord

ClearTimestamps(ts) ==
    [a \in Artifacts |-> IF a \in Generated /\ TransformerOf[a] \in ts
                         THEN NoTime ELSE timestamp[a]]

\* Sources that updateLeaves() touches for the first time.
RetrieveTimestamps(visited, times) ==
    [a \in Artifacts |-> IF a \in Sources \cap visited /\ buildState[a] = "Untouched"
                         THEN mtime[a] ELSE times[a]]

\* The scripts have run to their end.
LeaveRule ==
    LET r == currentRule
        ts == TransformersOf(r)
        invalid == {t \in ts : Invalidated(r, t)}
        new == {o \in OutputsOf(r) : o \notin graph}
        ch == ConnectOutputs(r, ts)
        v1 == Visited(new, buildState, ch)
        bs1 == Touch(v1, buildState)
        v2 == Visited({o \in OutputsOf(r) : TransformerOf[o] \in invalid}, bs1, ch)
        bs2 == Touch(v2, bs1)
        lv == Push(Push(leaves, LeavesAmong(v1, bs1, ch)), LeavesAmong(v2, bs2, ch))
    IN  /\ pc = "rule"
        /\ graph' = graph \cup new
        /\ children' = ch
        /\ timestamp' = RetrieveTimestamps(v1 \cup v2, ClearTimestamps(invalid))
        /\ oldData' = oldData \cup new
        /\ applied' = applied \cup {r}
        /\ outdatedPrepare' = outdatedPrepare \ {r}
        /\ noCommands' = noCommands \ ts
        /\ tracked' = tracked \ ts
        /\ outdatedRecord' = outdatedRecord \ invalid
        /\ stale' = stale \cup invalid
        /\ buildState' = MarkBuilt({r}, bs2)
        /\ leaves' = Push(lv, ReadyParents({r}, bs2, ch))
        /\ pendingTransformers' = [pendingTransformers EXCEPT ![r] = Cardinality(ts)]
        /\ currentRule' = NoRule
        /\ pc' = "schedule"
        /\ UNCHANGED <<addedByScanner, prepareTracked, markedForRerun, inputsScanned, jobVars,
                       endVars, worldVars, failed, opts, duringDoBuild, delayedLeaves,
                       explicitlyCanceled>>

\* A script has thrown, or was aborted.  The rule had been applied completely for the
\* transformers done, and the transformers in last, at most one, have outputs but no commands.
RuleThrows(done, last) ==
    LET r == currentRule
        ts == done \cup last
        invalid == {t \in done : Invalidated(r, t)}
        new == {o \in OutputsOf(r) : TransformerOf[o] \in ts /\ o \notin graph}
    IN  /\ pc = "rule"
        /\ r \in MayThrow \/ state = "Canceling"
        /\ done \subseteq TransformersOf(r)
        /\ last \subseteq TransformersOf(r) \ done
        /\ Cardinality(last) <= 1
        /\ graph' = graph \cup new
        /\ children' = ConnectOutputs(r, ts)
        /\ timestamp' = ClearTimestamps(invalid)
        /\ oldData' = oldData \cup new
        /\ noCommands' = (noCommands \ done) \cup last
        /\ tracked' = tracked \ done
        /\ outdatedRecord' = outdatedRecord \ invalid
        /\ stale' = stale \cup invalid \cup {TransformerOf[o] : o \in new}
        /\ currentRule' = NoRule
        /\ HandleError(buildState, errors, JobsProcessing, jobRun)
        /\ UNCHANGED <<addedByScanner, applied, prepareTracked, outdatedPrepare, markedForRerun,
                       nodeVars, availableJobs, processingJobs, jobCountPerPool, worldVars,
                       failed, opts, pendingTransformers, explicitlyCanceled>>

-------------------------------------------------------------------------------
(***************************************************************************)
(* buildArtifact() and potentiallyRunTransformer() for a generated artifact *)
(* of a product that is being built.                                        *)
(***************************************************************************)

VisitArtifact(n) ==
    /\ Accept(n)
    /\ n \in Generated /\ ProductOf[n] \in ProductsToBuild

\* Mutant: a transformer that did not have to run is not counted.
FinishUncounted(t, lv, bs, ch) ==
    /\ buildState' = MarkBuilt(Outputs(t), bs)
    /\ leaves' = Push(lv, ReadyParents(Outputs(t), bs, ch))
    /\ UNCHANGED pendingTransformers

\* finishTransformer(): a transformer is counted down only once per build.
FinishTransformer(t, lv, bs, ch) ==
    /\ buildState' = MarkBuilt(Outputs(t), bs)
    /\ leaves' = Push(lv, ReadyParents(Outputs(t), bs, ch))
    /\ pendingTransformers' = [pendingTransformers EXCEPT ![RuleOf[t]] = @ - 1]

\* rescueOldBuildData() for one output.  Old data that names a child which does not exist
\* anymore is not rescued.
ToRescue(t) == Outputs(t) \cap oldData
CanRescue(o) == o \in Rescued /\ RescuedChildren[o] \subseteq graph
ChildrenToConnect(o) == IF CanRescue(o) THEN RescuedChildren[o] \ children[o] ELSE {}
RescueAdds(o) == SafelyConnectable(o, ChildrenToConnect(o), children)

\* Executor::checkForUnbuiltDependencies()
Unbuilt(o, ch) == {c \in ch[o] : buildState[c] \in {"Untouched", "Buildable"}}
\* Mutant: a dependency that is being built counts as built.
HasUntouchedDependencies(o, ch) == Unbuilt(o, ch) # {}

HasUnbuiltDependencies(o, ch) == ~allChildrenBuilt(o, buildState, ch)

AfterRescue(os) ==
    [children |-> [n \in Nodes |-> IF n \in os THEN children[n] \cup RescueAdds(n)
                                               ELSE children[n]],
     added |-> [a \in Generated |-> IF a \in os THEN addedByScanner[a] \cup RescueAdds(a)
                                                ELSE addedByScanner[a]],
     time |-> [a \in Artifacts |-> IF a \in os /\ CanRescue(a) THEN RescueTime ELSE timestamp[a]],
     marked |-> markedForRerun
                  \cup {TransformerOf[o] : o \in {a \in os \cap KnownOutOfDate : CanRescue(a)}},
     tracked |-> tracked \cup {TransformerOf[o] : o \in {a \in os : CanRescue(a)}},
     oldData |-> oldData \ os]

\* A transformer all of whose outputs have been rescued is only as stale as its children are.
StaleAfterRescue(t, g) ==
    IF ToRescue(t) # {} /\ (\A o \in Outputs(t) : CanRescue(o))
       /\ \A o \in Outputs(t) : \A c \in g.children[o] \cap Artifacts : g.time[c] <= RescueTime
    THEN stale \ {t} ELSE stale

RescueBlocked(o) ==
    ChildrenToConnect(o) # {} /\ HasUnbuiltDependencies(o, AfterRescue({o}).children)

\* What the transformer's outputs look like once old data has been dealt with.
Graph(t) == AfterRescue(ToRescue(t))

\* Data was rescued for output x, which now has to wait; the outputs in before came first.
DelayedByRescue(n, x, before) ==
    LET t == TransformerOf[n]
        g == AfterRescue(before \cup {x})
        visited == Visited(Unbuilt(x, g.children), buildState, g.children)
        bs == Touch(visited, buildState)
    IN  /\ VisitArtifact(n)
        /\ x \in ToRescue(t) /\ RescueBlocked(x)
        /\ before \subseteq {o \in ToRescue(t) : ~RescueBlocked(o)}
        /\ children' = g.children /\ addedByScanner' = g.added
        /\ timestamp' = RetrieveTimestamps(visited, g.time)
        /\ markedForRerun' = g.marked /\ tracked' = g.tracked /\ oldData' = g.oldData
        /\ stale' = StaleAfterRescue(t, g)
        /\ inputsScanned' = inputsScanned \ {x}
        /\ buildState' = bs
        /\ leaves' = Push(Popped(n), LeavesAmong(visited, bs, g.children))
        /\ UNCHANGED <<graph, ruleVars, outdatedRecord, jobVars, endVars, worldVars, failed,
                       pc, opts, currentRule, duringDoBuild, delayedLeaves,
                       pendingTransformers, explicitlyCanceled>>

\* Nothing was rescued that delays the transformer.
Considered(n) ==
    /\ VisitArtifact(n)
    /\ \A o \in ToRescue(TransformerOf[n]) : ~RescueBlocked(o)

-------------------------------------------------------------------------------
(***************************************************************************)
(* isUpToDate(), mustExecuteTransformer() and commandsNeedRerun(), in the   *)
(* graph g that rescuing old data has left.                                 *)
(***************************************************************************)

\* Mutant: only generated files are compared.
NewerGenerated(o, g) == {c \in g.children[o] \cap Generated : g.time[o] < g.time[c]}

Newer(o, g) == {c \in g.children[o] \cap Artifacts : g.time[o] < g.time[c]}

isUpToDate(o, g) == g.time[o] # NoTime /\ Newer(o, g) = {}

\* QBS_CHECK(!childArtifact->alwaysUpdated || childArtifact->timestamp().isValid())
ChildCheckFails(o, g) ==
    /\ g.time[o] # NoTime
    /\ \E c \in g.children[o] \cap Generated : c \in AlwaysUpdated /\ g.time[c] = NoTime

\* The transformer does not run, or runs, for a reason found before change tracking is asked.
RunsAnyway(t, g) ==
    \/ t \in AlwaysRun
    \/ t \in g.marked
    \/ \E o \in Outputs(t) : o \in AlwaysUpdated /\ ~isUpToDate(o, g)

mustExecuteTransformer(t, g) ==
    \/ RunsAnyway(t, g)
    \/ t \in g.tracked \cap outdatedRecord
    \/ \A o \in Outputs(t) : ~isUpToDate(o, g)

\* commandsNeedRerun() clears commandsNeedChangeTracking when it is called.
TrackedAfter(t, g) == IF RunsAnyway(t, g) THEN g.tracked ELSE g.tracked \ {t}

\* A failed QBS_CHECK throws; which child is looked at first is not determined.
CheckThrows(n) ==
    LET t == TransformerOf[n]
        g == Graph(t)
    IN  /\ Considered(n)
        /\ t \notin Filtered /\ t \notin AlwaysRun /\ t \notin g.marked
        /\ \E o \in Outputs(t) : ChildCheckFails(o, g)
        /\ children' = g.children /\ addedByScanner' = g.added /\ timestamp' = g.time
        /\ markedForRerun' = g.marked /\ tracked' = g.tracked /\ oldData' = g.oldData
        /\ stale' = StaleAfterRescue(t, g)
        /\ leaves' = Popped(n)
        /\ HandleError(buildState, errors, JobsProcessing, jobRun)
        /\ UNCHANGED <<graph, ruleVars, outdatedRecord, buildState, inputsScanned,
                       availableJobs, processingJobs, jobCountPerPool, worldVars, failed,
                       opts, currentRule, pendingTransformers, explicitlyCanceled>>

ChecksPass(t, g) ==
    LET passes == {o \in Outputs(t) : ~ChildCheckFails(o, g) \/ Newer(o, g) # {}}
    IN  \/ t \in AlwaysRun \cup g.marked
        \/ \E o \in passes : o \in AlwaysUpdated /\ ~isUpToDate(o, g)
        \/ passes = Outputs(t)

\* Deselected or up to date: the transformer is finished without running.
FinishWithoutRunning(n) ==
    LET t == TransformerOf[n]
        g == Graph(t)
    IN  /\ Considered(n)
        /\ \/ t \in Filtered /\ tracked' = g.tracked
           \/ /\ t \notin Filtered
              /\ ChecksPass(t, g)
              /\ ~mustExecuteTransformer(t, g)
              /\ tracked' = TrackedAfter(t, g)
        /\ FinishTransformer(t, Popped(n), buildState, g.children)
        /\ markedForRerun' = g.marked \ {t}
        /\ children' = g.children /\ addedByScanner' = g.added /\ timestamp' = g.time
        /\ oldData' = g.oldData
        /\ stale' = StaleAfterRescue(t, g)
        /\ UNCHANGED <<graph, ruleVars, outdatedRecord, inputsScanned, jobVars, endVars,
                       worldVars, failed, pc, opts, currentRule, duringDoBuild, delayedLeaves,
                       explicitlyCanceled>>

-------------------------------------------------------------------------------
(***************************************************************************)
(* InputArtifactScanner::scan() on the outputs of a transformer that must   *)
(* run.  deps is what the scanners find in its inputs.                      *)
(***************************************************************************)

MustRun(n) ==
    LET t == TransformerOf[n]
        g == Graph(t)
    IN  /\ Considered(n)
        /\ t \notin Filtered
        /\ ChecksPass(t, g)
        /\ mustExecuteTransformer(t, g)

ToScan(t) == Outputs(t) \ inputsScanned

\* The children of an earlier scan are disconnected and those just found are connected.
ScanKeeps(o, g) == g.children[o] \ g.added[o]
ScanFinds(o, deps, g) == {d \in deps \cap graph : /\ d \notin ScanKeeps(o, g)
                                                  /\ d \notin Outputs(TransformerOf[o])}
ScanAdds(o, deps, g) ==
    SafelyConnectable(o, ScanFinds(o, deps, g),
                      [g.children EXCEPT ![o] = ScanKeeps(o, g)])

AfterScan(os, deps, g) ==
    [g EXCEPT !.children = [n \in Nodes |-> IF n \in os
                                            THEN ScanKeeps(n, g) \cup ScanAdds(n, deps, g)
                                            ELSE g.children[n]],
              !.added = [a \in Generated |-> IF a \in os THEN ScanAdds(a, deps, g)
                                                         ELSE g.added[a]]]

\* newDependencyAdded() is true for every dependency that is no input, even a refused one.
ScanBlocked(o, deps, g) ==
    /\ ScanFinds(o, deps, g) # {}
    /\ HasUnbuiltDependencies(o, AfterScan({o}, deps, g).children)

DelayedByScan(n, x, before, deps) ==
    LET t == TransformerOf[n]
        g == AfterScan(before \cup {x}, deps, Graph(t))
        visited == Visited(Unbuilt(x, g.children), buildState, g.children)
        bs == Touch(visited, buildState)
    IN  /\ MustRun(n)
        /\ x \in ToScan(t) /\ ScanBlocked(x, deps, Graph(t))
        /\ before \subseteq {o \in ToScan(t) : ~ScanBlocked(o, deps, Graph(t))}
        /\ children' = g.children /\ addedByScanner' = g.added
        /\ timestamp' = RetrieveTimestamps(visited, g.time)
        /\ markedForRerun' = g.marked /\ tracked' = TrackedAfter(t, Graph(t))
        /\ oldData' = g.oldData
        /\ stale' = StaleAfterRescue(t, Graph(t))
        /\ inputsScanned' = (inputsScanned \cup before) \ {x}
        /\ buildState' = bs
        /\ leaves' = Push(Popped(n), LeavesAmong(visited, bs, g.children))
        /\ UNCHANGED <<graph, ruleVars, outdatedRecord, jobVars, endVars, worldVars, failed,
                       pc, opts, currentRule, duringDoBuild, delayedLeaves,
                       pendingTransformers, explicitlyCanceled>>

\* No output has to wait for a dependency the scan has found.
Scanned(n, deps) ==
    LET t == TransformerOf[n]
        g == AfterScan(ToScan(t), deps, Graph(t))
    IN  /\ MustRun(n)
        /\ \A o \in ToScan(t) : ~ScanBlocked(o, deps, Graph(t))
        /\ children' = g.children /\ addedByScanner' = g.added /\ timestamp' = g.time
        /\ tracked' = TrackedAfter(t, Graph(t))
        /\ oldData' = g.oldData
        /\ inputsScanned' = inputsScanned \cup Outputs(t)

\* BuildOptions::executeRulesOnly()
FinishInsteadOfRunning(n, deps) ==
    LET t == TransformerOf[n]
        g == AfterScan(ToScan(t), deps, Graph(t))
    IN  /\ opts.executeRulesOnly
        /\ Scanned(n, deps)
        /\ FinishTransformer(t, Popped(n), buildState, g.children)
        /\ markedForRerun' = g.marked \ {t}
        /\ stale' = StaleAfterRescue(t, g)
        /\ UNCHANGED <<graph, ruleVars, outdatedRecord, jobVars, endVars, worldVars, failed,
                       pc, opts, currentRule, duringDoBuild, delayedLeaves, explicitlyCanceled>>

\* Mutant: only the artifact that was visited is marked.
MarkVisited(n) == [buildState EXCEPT ![n] = "Building"]

MarkBuilding(n) ==
    [m \in Nodes |-> IF m \in Outputs(TransformerOf[n]) THEN "Building" ELSE buildState[m]]

\* runTransformer() and ExecutorJob::run(), which records what the commands read.  A
\* transformer without commands is finished at once.
RunTransformer(n, deps, j) ==
    LET t == TransformerOf[n]
        g == AfterScan(ToScan(t), deps, Graph(t))
        idle == t \in noCommands
    IN  /\ ~opts.executeRulesOnly
        /\ j \in availableJobs
        /\ Scanned(n, deps)
        /\ markedForRerun' = g.marked
        /\ outdatedRecord' = IF idle THEN outdatedRecord ELSE outdatedRecord \ {t}
        /\ stale' = IF idle THEN stale ELSE stale \ {t}
        /\ leaves' = Popped(n)
        /\ buildState' = MarkBuilding(n)
        /\ availableJobs' = availableJobs \ {j}
        /\ processingJobs' = [processingJobs EXCEPT ![j] = t]
        /\ jobRun' = [jobRun EXCEPT ![j] = IF idle THEN "ok" ELSE "running"]
        /\ jobCountPerPool' = [p \in JobPools |->
                jobCountPerPool[p] + (IF p \in PoolsOf[t] THEN 1 ELSE 0)]
        /\ UNCHANGED <<graph, ruleVars, endVars, worldVars, failed, pc, opts, currentRule,
                       duringDoBuild, delayedLeaves, pendingTransformers, explicitlyCanceled>>

\* An output directory cannot be created.
RunThrows(n, deps) ==
    LET t == TransformerOf[n]
        g == AfterScan(ToScan(t), deps, Graph(t))
    IN  /\ ~opts.executeRulesOnly
        /\ t \in MayFail
        /\ Scanned(n, deps)
        /\ markedForRerun' = g.marked
        /\ stale' = StaleAfterRescue(t, g)
        /\ leaves' = Popped(n)
        /\ HandleError(buildState, errors, JobsProcessing, jobRun)
        /\ UNCHANGED <<graph, ruleVars, outdatedRecord, buildState, availableJobs,
                       processingJobs, jobCountPerPool, worldVars, failed, opts,
                       currentRule, pendingTransformers, explicitlyCanceled>>

-------------------------------------------------------------------------------
(***************************************************************************)
(* The end of a job.  ExecutorJob::setFinished() forgets the transformer    *)
(* and posts finished(); onJobFinished() and finishJob() handle it later.   *)
(***************************************************************************)

\* The commands of a job have run: external, modelled from ExecutorJob::onCommandFinished().
\* This can also happen while a rule's script lets events in.
CommandsEnd(j, result) ==
    /\ pc \in {"loop", "rule"}
    /\ \/ jobRun[j] = "running" /\ result = "ok"
       \/ jobRun[j] = "running" /\ result = "error" /\ processingJobs[j] \in MayFail
       \/ jobRun[j] = "canceled" /\ result = "error"
    /\ jobRun' = [jobRun EXCEPT ![j] = result]
    /\ stale' = IF result = "error" THEN stale \cup {processingJobs[j]} ELSE stale
    /\ failed' = (failed \/ result = "error")
    /\ UNCHANGED <<graphVars, nodeVars, availableJobs, processingJobs, jobCountPerPool, endVars,
                   worldVars, pc, opts, currentRule, duringDoBuild, delayedLeaves,
                   pendingTransformers, explicitlyCanceled>>

\* Mutant: the pools are not given back.
ReleaseJobOnly(j) ==
    /\ pc = "loop"
    /\ processingJobs[j] # NoTransformer
    /\ processingJobs' = [processingJobs EXCEPT ![j] = NoTransformer]
    /\ availableJobs' = availableJobs \cup {j}
    /\ UNCHANGED jobCountPerPool

\* Mutant: every job counts as available again, those that still run included.
ReleaseAllJobs(j) ==
    LET t == processingJobs[j]
    IN  /\ pc = "loop"
        /\ processingJobs[j] # NoTransformer
        /\ processingJobs' = [processingJobs EXCEPT ![j] = NoTransformer]
        /\ availableJobs' = Jobs
        /\ jobCountPerPool' = [p \in JobPools |->
                jobCountPerPool[p] - (IF p \in PoolsOf[t] THEN 1 ELSE 0)]

\* The part of finishJob() that gives the job back, for every outcome.
ReleaseJob(j) ==
    LET t == processingJobs[j]
    IN  /\ pc = "loop"
        /\ processingJobs[j] # NoTransformer
        /\ processingJobs' = [processingJobs EXCEPT ![j] = NoTransformer]
        /\ availableJobs' = availableJobs \cup {j}
        /\ jobCountPerPool' = [p \in JobPools |->
                jobCountPerPool[p] - (IF p \in PoolsOf[t] THEN 1 ELSE 0)]

\* The outputs in written got a new timestamp: always those with alwaysUpdated, the others if
\* a command has written them.  What was made from them before is stale now.
TakeTimestamps(written) ==
    /\ clock' = clock + 1
    /\ timestamp' = [a \in Artifacts |-> IF a \in written THEN clock + 1 ELSE timestamp[a]]
    /\ UNCHANGED <<mtime, builds, edits, changes, cancels, canceled>>

ParentTransformers(os) ==
    {TransformerOf[a] : a \in {b \in Generated : children[b] \cap os # {}}}

\* What finishJob() does after the job's result has been taken over.  cancelJobs() is called
\* for an error, unless the user wants to keep going, and for a cancel request.
ContinueOrEnd(j, ok, bs, errs) ==
    LET busy == JobsProcessing \ {j}
        run == [jobRun EXCEPT ![j] = "idle"]
        stop == ~ok /\ ~opts.keepGoing
        userCancel == state = "Running" /\ ~stop /\ canceled
    IN  /\ explicitlyCanceled' = (explicitlyCanceled \/ userCancel)
        /\ jobRun' = IF state = "Running" /\ (stop \/ userCancel) THEN Canceled(run) ELSE run
        /\ \/ /\ state = "Running" /\ ~stop /\ ~userCancel
              /\ errors' = errs
              /\ pc' = "schedule"
              /\ UNCHANGED <<state, timerOn>>
           \/ /\ state = "Canceling" \/ stop \/ userCancel
              /\ IF busy = {}
                 THEN Finish(bs, errs, explicitlyCanceled \/ userCancel)
                 ELSE /\ errors' = errs
                      /\ state' = "Canceling"
                      /\ pc' = "loop"
                      /\ UNCHANGED timerOn

JobSucceeded(j, written) ==
    LET t == processingJobs[j]
    IN  /\ jobRun[j] = "ok"
        /\ ReleaseJob(j)
        /\ written \subseteq Outputs(t)
        /\ Outputs(t) \cap AlwaysUpdated \subseteq written
        /\ TakeTimestamps(written)
        /\ stale' = stale \cup ParentTransformers(written)
        /\ markedForRerun' = (markedForRerun
                                  \cup ParentTransformers(Outputs(t) \cap AlwaysUpdated)) \ {t}
        /\ FinishTransformer(t, leaves, buildState, children)
        /\ ContinueOrEnd(j, TRUE, MarkBuilt(Outputs(t), buildState), errors)
        /\ UNCHANGED <<graph, children, addedByScanner, oldData, ruleVars, tracked,
                       outdatedRecord, inputsScanned, failed, opts, currentRule, duringDoBuild,
                       delayedLeaves>>

\* Mutant: what a failed job was to build becomes buildable again.
JobFailedForRetry(j) ==
    /\ jobRun[j] = "error"
    /\ ReleaseJob(j)
    /\ ContinueOrEnd(j, FALSE, buildState,
                     IF opts.keepGoing THEN errors ELSE errors \cup {"job"})
    /\ buildState' = [n \in Nodes |-> IF n \in Outputs(processingJobs[j]) THEN "Buildable"
                                      ELSE buildState[n]]
    /\ UNCHANGED <<graphVars, inputsScanned, leaves, worldVars, ghostVars, opts, currentRule,
                   duringDoBuild, delayedLeaves, pendingTransformers>>

\* With keepGoing the error is only a warning, otherwise the first one is kept.
JobFailed(j) ==
    /\ jobRun[j] = "error"
    /\ ReleaseJob(j)
    /\ ContinueOrEnd(j, FALSE, buildState,
                     IF opts.keepGoing THEN errors ELSE errors \cup {"job"})
    /\ UNCHANGED <<graphVars, nodeVars, worldVars, ghostVars, opts, currentRule, duringDoBuild,
                   delayedLeaves, pendingTransformers>>

\* forceOutputCheck(): the commands succeeded, but the file of the last output in written, which
\* has just got its new timestamp, does not exist.
OutputMissing(j, written) ==
    LET t == processingJobs[j]
    IN  /\ opts.forceOutputCheck
        /\ jobRun[j] = "ok" /\ t \in MayFail
        /\ ReleaseJob(j)
        /\ written \subseteq Outputs(t)
        /\ written \cap AlwaysUpdated # {}
        /\ TakeTimestamps(written)
        /\ stale' = stale \cup ParentTransformers(written) \cup {t}
        /\ markedForRerun' = markedForRerun \cup ParentTransformers(written \cap AlwaysUpdated)
        /\ HandleError(buildState, errors, JobsProcessing \ {j}, [jobRun EXCEPT ![j] = "idle"])
        /\ UNCHANGED <<graph, children, addedByScanner, oldData, ruleVars, tracked,
                       outdatedRecord, nodeVars, failed, opts, currentRule, pendingTransformers,
                       explicitlyCanceled>>

-------------------------------------------------------------------------------
(***************************************************************************)
(* Cancelling.                                                              *)
(***************************************************************************)

\* ProgressObserver::cancel(), called from another thread.
RequestCancel ==
    /\ pc \in {"schedule", "rule", "loop", "finishing"}
    /\ ~canceled /\ cancels < MaxCancels
    /\ canceled' = TRUE
    /\ cancels' = cancels + 1
    /\ UNCHANGED <<graphVars, nodeVars, jobVars, endVars, ghostVars, mtime, clock, builds, edits,
                   changes, pc, opts, currentRule, duringDoBuild, delayedLeaves,
                   pendingTransformers, explicitlyCanceled>>

\* The timer fires in the event loop or while a rule's script is running.
checkForCancellation ==
    /\ pc \in {"rule", "loop", "finishing"}
    /\ timerOn
    /\ state = "Running" /\ canceled
    /\ state' = "Canceling"
    /\ jobRun' = Canceled(jobRun)
    /\ UNCHANGED <<graphVars, nodeVars, availableJobs, processingJobs, jobCountPerPool, errors,
                   timerOn, worldVars, ghostVars, pc, opts, currentRule, duringDoBuild,
                   delayedLeaves, pendingTransformers, explicitlyCanceled>>

-------------------------------------------------------------------------------
(***************************************************************************)
(* Between two builds.                                                      *)
(***************************************************************************)

\* The build job has reported its result.
ReportResult ==
    /\ pc = "done"
    /\ pc' = "idle"
    /\ UNCHANGED <<graphVars, nodeVars, jobVars, endVars, worldVars, ghostVars, opts,
                   currentRule, duringDoBuild, delayedLeaves, pendingTransformers,
                   explicitlyCanceled>>

\* The user changes a source file.
EditSource(s) ==
    /\ pc = "idle" /\ edits < MaxEdits /\ builds < MaxBuilds
    /\ edits' = edits + 1
    /\ clock' = clock + 1
    /\ mtime' = [mtime EXCEPT ![s] = clock + 1]
    /\ stale' = stale \cup {TransformerOf[a] : a \in {b \in Generated : s \in children[b]}}
    /\ UNCHANGED <<graphVars, nodeVars, jobVars, endVars, canceled, builds, changes, cancels,
                   failed, pc, opts, currentRule, duringDoBuild, delayedLeaves,
                   pendingTransformers, explicitlyCanceled>>

\* A property or an environment variable changes.  The project is resolved again, and
\* BuildGraphLoader::markTransformersForChangeTracking() asks for its use to be checked.
ChangeProperties ==
    LET existing == {t \in Transformers : Outputs(t) \subseteq graph}
    IN  /\ pc = "idle" /\ changes < MaxChanges /\ builds < MaxBuilds
        /\ changes' = changes + 1
        /\ tracked' = existing
        /\ prepareTracked' = {RuleOf[t] : t \in existing}
        /\ outdatedRecord' = CommandSensitive \cap existing
        /\ outdatedPrepare' = outdatedPrepare \cup {r \in PrepareSensitive : r \in applied}
        /\ stale' = stale \cup {t \in existing : t \in CommandSensitive
                                                 \/ RuleOf[t] \in PrepareSensitive \cap applied}
        /\ UNCHANGED <<graph, children, addedByScanner, timestamp, oldData, applied, noCommands,
                       markedForRerun, nodeVars, jobVars, endVars, canceled, mtime, clock,
                       builds, edits, cancels, failed, pc, opts, currentRule, duringDoBuild,
                       delayedLeaves, pendingTransformers, explicitlyCanceled>>

\* The user has had enough, or qbs is gone.
Rest ==
    /\ \/ pc = "idle" /\ builds = MaxBuilds
       \/ pc = "aborted"
    /\ UNCHANGED vars

-------------------------------------------------------------------------------
Init ==
    /\ graph = Sources \cup Rules
    /\ children = [n \in Nodes |-> IF n \in Rules THEN RuleChildren[n] ELSE {}]
    /\ addedByScanner = [a \in Generated |-> {}]
    /\ timestamp = [a \in Artifacts |-> NoTime]
    /\ oldData = {} /\ applied = {} /\ prepareTracked = {} /\ outdatedPrepare = {}
    /\ noCommands = {} /\ markedForRerun = {} /\ tracked = {} /\ outdatedRecord = {}
    /\ state = "Idle" /\ pc = "idle" /\ currentRule = NoRule /\ duringDoBuild = FALSE
    /\ opts \in BuildOptions
    /\ buildState = [n \in Nodes |-> "Untouched"]
    /\ inputsScanned = {}
    /\ leaves = NoLeaves /\ delayedLeaves = NoLeaves
    /\ availableJobs = Jobs
    /\ processingJobs = [j \in Jobs |-> NoTransformer]
    /\ jobRun = [j \in Jobs |-> "idle"]
    /\ jobCountPerPool = [p \in JobPools |-> 0]
    /\ pendingTransformers = [r \in Rules |-> 0]
    /\ timerOn = FALSE /\ errors = {} /\ explicitlyCanceled = FALSE
    /\ canceled = FALSE
    /\ mtime = [s \in Sources |-> 1] /\ clock = 1
    /\ builds = 0 /\ edits = 0 /\ changes = 0 /\ cancels = 0
    /\ stale = {} /\ failed = FALSE

ScanStep(n) ==
    \E deps \in ScanResults[TransformerOf[n]] :
        \/ \E x \in Outputs(TransformerOf[n]) :
              \E before \in SUBSET Outputs(TransformerOf[n]) : DelayedByScan(n, x, before, deps)
        \/ FinishInsteadOfRunning(n, deps)
        \/ \E j \in availableJobs : RunTransformer(n, deps, j)
        \/ RunThrows(n, deps)

ArtifactStep(n) ==
    \/ \E x \in Outputs(TransformerOf[n]) :
          \E before \in SUBSET Outputs(TransformerOf[n]) : DelayedByRescue(n, x, before)
    \/ CheckThrows(n)
    \/ FinishWithoutRunning(n)
    \/ ScanStep(n)

ScheduleStep ==
    \/ \E n \in Nodes : SkipLeaf(n) \/ DelayLeaf(n) \/ AbortOnUnknownLimits(n) \/ FinishLeaf(n)
    \/ \E r \in Rules : SkipRule(r) \/ EnterRule(r)
    \/ \E n \in Generated : ArtifactStep(n)
    \/ EndSchedule

RuleStep ==
    \/ LeaveRule
    \/ \E done, last \in SUBSET Transformers : RuleThrows(done, last)

JobFinishedStep(j) ==
    \/ \E written \in SUBSET Outputs(processingJobs[j]) :
          JobSucceeded(j, written) \/ OutputMissing(j, written)
    \/ JobFailed(j)

ExecutorStep ==
    \/ ScheduleStep
    \/ RuleStep
    \/ PostedFinish
    \/ \E j \in Jobs : JobFinishedStep(j)

CommandStep(j) == \E result \in {"ok", "error"} : CommandsEnd(j, result)

UserStep ==
    \/ \E o \in BuildOptions : Build(o)
    \/ RequestCancel
    \/ ReportResult
    \/ \E s \in MayEdit : EditSource(s)
    \/ ChangeProperties

Next ==
    \/ ExecutorStep
    \/ \E j \in Jobs : CommandStep(j)
    \/ checkForCancellation
    \/ UserStep
    \/ Rest

Spec == Init /\ [][Next]_vars

(***************************************************************************)
(* The executor's thread keeps handling its events, and commands end: the   *)
(* executor waits for them without a limit of its own.  Nobody has to       *)
(* cancel, and the cancellation timer need not fire in time.                *)
(*                                                                          *)
(* This is weak fairness of ExecutorStep and of every CommandStep(j), with  *)
(* their enabling conditions written out.                                   *)
(***************************************************************************)
ExecutorReady ==
    \/ pc \in {"schedule", "rule", "finishing"}
    \/ pc = "loop" /\ \E j \in Jobs : jobRun[j] \in {"ok", "error"}

CommandReady(j) == pc \in {"loop", "rule"} /\ jobRun[j] \in {"running", "canceled"}

Fairness ==
    /\ []<>~ExecutorReady \/ []<><<ExecutorStep>>_vars
    /\ \A j \in Jobs : []<>~CommandReady(j) \/ []<><<CommandStep(j)>>_vars

FairSpec == Spec /\ Fairness

-------------------------------------------------------------------------------
(***************************************************************************)
(* Properties.                                                              *)
(***************************************************************************)

GraphTypeOK ==
    /\ graph \subseteq Nodes
    /\ children \in [Nodes -> SUBSET Nodes]
    /\ addedByScanner \in [Generated -> SUBSET Artifacts]
    /\ timestamp \in [Artifacts -> Nat]
    /\ oldData \subseteq Generated
    /\ applied \subseteq Rules /\ prepareTracked \subseteq Rules /\ outdatedPrepare \subseteq Rules
    /\ noCommands \subseteq Transformers /\ markedForRerun \subseteq Transformers
    /\ tracked \subseteq Transformers /\ outdatedRecord \subseteq Transformers
    /\ stale \subseteq Transformers

NodeTypeOK ==
    /\ buildState \in [Nodes -> BuildStates]
    /\ inputsScanned \subseteq Generated
    /\ leaves \in [Nodes -> Nat] /\ delayedLeaves \in [Nodes -> Nat]
    /\ pendingTransformers \in [Rules -> Int]

JobTypeOK ==
    /\ availableJobs \subseteq Jobs
    /\ processingJobs \in [Jobs -> Transformers \cup {NoTransformer}]
    /\ jobRun \in [Jobs -> {"idle", "running", "canceled", "ok", "error"}]
    /\ jobCountPerPool \in [JobPools -> Int]
    /\ \A j \in Jobs : jobRun[j] = "idle" <=> processingJobs[j] = NoTransformer

ControlTypeOK ==
    /\ state \in {"Idle", "Running", "Canceling"}
    /\ pc \in {"idle", "schedule", "rule", "loop", "finishing", "done", "aborted"}
    /\ opts \in BuildOptions
    /\ currentRule \in Rules \cup {NoRule}
    /\ pc = "rule" => currentRule \in Rules
    /\ errors \subseteq {"job", "thrown", "unbuilt", "canceled"}
    /\ duringDoBuild \in BOOLEAN /\ timerOn \in BOOLEAN /\ explicitlyCanceled \in BOOLEAN

WorldTypeOK ==
    /\ canceled \in BOOLEAN /\ failed \in BOOLEAN
    /\ mtime \in [Sources -> Nat] /\ clock \in Nat
    /\ builds \in Nat /\ edits \in Nat /\ changes \in Nat /\ cancels \in Nat

\* Every variable has a value of its type; in particular the queue of leaves is never popped
\* when it is empty, a rule's script only runs for a rule, and a job that is not idle has a
\* transformer.
TypeOK == GraphTypeOK /\ NodeTypeOK /\ JobTypeOK /\ ControlTypeOK /\ WorldTypeOK

ProcessingIn(p) == {j \in JobsProcessing : p \in PoolsOf[processingJobs[j]]}

\* No job is lost or counted twice.  A job is either available or processing a transformer
\* (m_availableJobs, m_processingJobs), and m_jobCountPerPool counts exactly the processing
\* jobs of each pool, whichever of the ways out of finishJob() and handleError() was taken.
JobAccounting ==
    /\ availableJobs = Jobs \ JobsProcessing
    /\ \A p \in JobPools :
          jobCountPerPool[p] = Cardinality(ProcessingIn(p))

\* A build that has ended leaves no job behind: finish() is only ever reached with an empty
\* m_processingJobs, from a finished job, from an exception or from the call that doBuild() has
\* posted, and the executor is idle exactly when it has been reached.
NoJobOutlivesItsBuild ==
    /\ state = "Idle" <=> pc \in {"idle", "done"}
    /\ pc \in {"idle", "done", "finishing"} => JobsProcessing = {}

\* "The effective limit is the minimum of what is set in this transformer's product and in the
\* products of all currently running transformers" (schedulingBlockedByJobLimit).
PoolLimitsRespected ==
    \A p \in JobPools : \A j \in RunningIn(p) :
        LET limit == JobLimit[ProductOfTransformer(processingJobs[j])][p]
        IN  limit > 0 => jobCountPerPool[p] <= limit

\* No two jobs run the same transformer, and what a job works on is in state Building.
OneJobPerTransformer ==
    \A i, j \in JobsProcessing :
        /\ processingJobs[i] = processingJobs[j] => i = j
        /\ \A o \in Outputs(processingJobs[i]) : buildState[o] = "Building"

\* The edge p -> c "represents the dependency 'c must be built before p'" (connect()).  A rule
\* node is the exception: it does not wait for source files, which it meets when it is applied.
DependenciesBuiltFirst ==
    \A n \in graph : buildState[n] \in {"Building", "Built"} =>
        \A c \in children[n] : buildState[c] = "Built" \/ (n \in Rules /\ c \in Sources)

\* No wake-up is lost.  Whenever the executor waits for events, or gives up because there is
\* nothing to do, a node that could be built is queued, or another output of the same
\* transformer is queued or waits for a dependency.
ReadyNodesAreQueued ==
    (pc \in {"loop", "finishing"} /\ state = "Running") =>
        \A n \in graph :
            (buildState[n] = "Buildable" /\ allChildrenBuilt(n, buildState, children)) =>
                \/ leaves[n] > 0
                \/ /\ n \in Generated
                   /\ \E o \in Outputs(TransformerOf[n]) :
                         leaves[o] > 0 \/ ~allChildrenBuilt(o, buildState, children)

\* Whatever is queued has been initialized for the current build, whether it was there at its
\* start or has appeared since: QBS_CHECK(artifact->buildState != BuildGraphNode::Untouched) in
\* visit().
QueuedAreTouched ==
    /\ TypeOK
    /\ \A n \in Nodes : leaves[n] + delayedLeaves[n] > 0 => buildState[n] # "Untouched"

\* m_pendingTransformersPerRule counts the transformers of an executed rule that are not
\* finished; the QBS_CHECK in finishTransformer() relies on it.
PendingTransformersCounted ==
    \A r \in Rules :
        (state # "Idle" /\ buildState[r] = "Built" /\ ProductOf[r] \in ProductsToBuild) =>
            pendingTransformers[r] = Cardinality({t \in TransformersOf(r) :
                                        \E o \in Outputs(t) : buildState[o] # "Built"})

\* "If new dependencies were found during scanning, delay execution of this transformer": it is
\* delayed and never dropped.  Products remain unbuilt only if a job failed, something was
\* thrown or the user has canceled.
UnbuiltForAReason ==
    (pc = "done" /\ "unbuilt" \in errors) => failed \/ canceled \/ "thrown" \in errors

\* A build that reports no error has built everything the products consist of, and no command
\* has failed in it, with or without keepGoing.
SuccessMeansBuilt ==
    (pc = "done" /\ errors = {} /\ ~opts.executeRulesOnly) =>
        /\ \A n \in Closure(Roots, children) : buildState[n] = "Built"
        /\ ~failed

\* A build that reports no error leaves nothing stale: every transformer that contributes to
\* the products has run, with success, since its inputs, its commands or what they read changed,
\* no matter how earlier builds of the same project have ended.
FreshWhenDone ==
    (pc = "done" /\ errors = {} /\ ~opts.executeRulesOnly) =>
        \A o \in Closure(Roots, children) \cap Generated :
            \/ TransformerOf[o] \notin stale
            \/ TransformerOf[o] \in Filtered
            \/ ProductOf[o] \notin ProductsToBuild
            \/ Outputs(TransformerOf[o]) \cap AlwaysUpdated = {}

Advances(n) ==
    \/ buildState'[n] = buildState[n]
    \/ buildState[n] = "Untouched"
    \/ buildState[n] = "Buildable" /\ buildState'[n] # "Untouched"
    \/ buildState[n] = "Building" /\ buildState'[n] = "Built"

AllAdvance == pc # "idle" => \A n \in Nodes : Advances(n)

\* Within a build a node only moves from Untouched to Buildable to Building to Built, and never
\* comes back: a transformer is started at most once, and not after one of its outputs is built
\* (QBS_CHECK in executeRuleNode() and the switch on the build state in buildArtifact()).
StatesOnlyAdvance == [][AllAdvance]_vars

\* Scanning files and rescuing what an earlier scan has found never closes a cycle of
\* dependencies, whatever includes what: the edges come from the contents of files, and nodes on
\* a cycle would wait for each other.
ScansCloseNoCycle == [][pc = "schedule" /\ Acyclic(children) => Acyclic(children')]_vars

\* The outputs of a transformer are built together, in the products that are being built:
\* potentiallyRunTransformer(), runTransformer() and finishTransformer() never treat one of
\* them differently from the others.
SiblingsTogether ==
    \A n, o \in Generated :
        (/\ TransformerOf[n] = TransformerOf[o]
         /\ ProductOf[n] \in ProductsToBuild
         /\ buildState[n] \in {"Building", "Built"}) => buildState[o] = buildState[n]

\* Every build comes to an end, whether it succeeds, fails, throws or is canceled.
EveryBuildEnds == (state # "Idle") ~> (state = "Idle")
===============================================================================
