# A TLA+ model of qbs

qbs builds a project by walking a graph of artifacts and rule nodes, applying rules
(JavaScript) when their inputs are there, and running the commands of the transformers the
rules create, several at a time. The models in this directory follow a build from the client's
request to the exit code of a compiler and back to the file that the build graph is stored in:

    client -> session -> API job -> project setup -> executor -> job -> command -> launcher -> program
                            |
                            +-- lock file, build graph file

What makes this hard is that the graph grows while it is being walked, that every step can fail
or throw, that four threads and two processes send each other events, that any of them may die,
and that what one build leaves behind decides what the next one skips.

All paths below are relative to `src/lib/corelib/` of the repository unless they say otherwise.

## 1. Inventory

| Part | State | Operations | Interacts with | Correct if |
|---|---|---|---|---|
| Build graph (`buildgraph/buildgraph.cpp`, `buildgraphnode.h`, `artifact.h`) | nodes, edges, build states, timestamps, file tags | connect, safeConnect, disconnect, insert and remove artifacts | everything | acyclic; "c must be built before p" for every edge p -> c |
| Executor (`buildgraph/executor.cpp`) | state (idle, running, canceling), queue of leaves, tables of jobs, counts per pool, error | doBuild, scheduleJobs, executeRuleNode, potentiallyRunTransformer, finishJob, handleError, cancelJobs, finish | jobs (signals), timer, progress observer, rules, scanners, change tracking | builds in order, each transformer once, all jobs accounted for, ends, does not skip what is outdated |
| Executor jobs (`buildgraph/executorjob.cpp`) | transformer, index of the current command, error | run, cancel, onCommandFinished, setFinished | command executors, executor | reports once for each run |
| Command execution (`buildgraph/processcommandexecutor.cpp`, `jscommandexecutor.cpp`) | process, timeout timer, cancel reason; a thread for JavaScript | start, cancel, finished | process launcher, jobs | every started command reports once, also when it times out |
| Process launcher (`tools/launcherinterface.cpp`, `launchersocket.cpp`, `src/libexec/qbs_processlauncher`) | connection, queue of requests, processes per token | start, stop, shut down | command execution (several threads) | no request or answer is lost, no process survives qbs |
| Rule nodes, rules applicator (`buildgraph/rulenode.cpp`, `rulesapplicator.cpp`) | inputs of the last application | apply, create outputs, remove outputs | script engine, graph, executor | outputs and commands agree with the inputs |
| Dependency scanning (`buildgraph/inputartifactscanner.cpp`) | scan results, inputsScanned | scan | graph, executor | scanned files become dependencies |
| Change tracking (`buildgraph/transformerchangetracking.cpp`, `transformer.cpp`) | what a script or command has read; marks | commandsNeedRerun, prepareScriptNeedsRerun | loader, executor | what has read a changed value runs again |
| Loader (`buildgraph/buildgraphloader.cpp`) | restored and new project | load, compare, transfer build data | persistence, executor (rescuable data) | nothing outdated survives a change of the project |
| Build data resolver (`buildgraph/projectbuilddata.cpp`, `rulegraph.cpp`) | rule graph | create and connect rule nodes | executor | rules are connected by tags, without cycles |
| Persistence, locking (`tools/persistence.cpp`, `buildgraphlocker.cpp`) | graph file, lock file | store, load, lock, unlock | API jobs | one process at a time; a crash costs at most work |
| API jobs, sessions (`api/internaljobs.cpp`, `api/project.cpp`, `src/app/qbs/session.cpp`) | job, thread, request | build, cancel, finished | frontends, executor | one job per project at a time; every request is answered |
| Command line frontend (`src/app/qbs/commandlinefrontend.cpp`) | jobs per configuration | start, cancel | API jobs, signal handler | ends when all jobs have ended |
| Module loader, project resolver (`language/moduleloader.cpp`, `projectresolver.cpp`) | products, modules, items | sort, resolve, disable products | project files, loader | cycles are refused; disabled products do not break enabled ones |
| Parser, evaluator, generators, plugins, installer, project file updater | | | | not modelled, see section 10 |

Hard behaviour in this code, each with its line in `PROJECT.json` under `hazards`:

* **Interleaving.** A job may end, or the timer fire, while a rule's script is running, because
  the script engine processes events (`language/scriptengine.cpp`). `onJobFinished()` posts
  itself again in that case; `checkForCancellation()` does not wait, so that `scheduleJobs()`
  goes on in state *Canceling*.
* **Ordering.** Edges are added to nodes that are already queued, being visited or being built.
* **Failure.** Exceptions leave `scheduleJobs()` or `finishJob()` halfway; prepare scripts throw
  after some outputs exist; with keep-going the build goes on around a failed command.
* **Across builds.** Marks are cleared when they are read, records are replaced when a command
  starts: a failure afterwards must not make the next build skip the command.
* **Threads.** A process command, its watchdog, the pause of a script and a cancel request may come
  in any order; a JavaScript command runs in a thread of its own; requests to the launcher come from
  the threads of several builds and are written by the main thread.
* **Crashes.** qbs may be killed while it holds the lock, while a command runs, and between any
  two of the steps in which the graph is stored; the launcher may crash, or not start.
* **Limits.** Jobs, pools, and products with different limits for the same pool.

## 2. Modules

| Module | Content | Models |
|---|---|---|
| `BuildGraph` | The static project as constants, and the graph operators the executor is built from: reachability, `safeConnect`, cycles, `updateLeaves`, `finishNode`. | `buildgraph/buildgraph.cpp`, `cycledetector.cpp` |
| `Executor` | The executor over a sequence of builds, with the parts of the rules applicator, scanner, change tracking, rescue and jobs that it calls. Extends `BuildGraph`. | `buildgraph/executor.cpp` and what it calls |
| `JobContract` | Abstract: what the executor and one of its jobs promise each other, from `run()` to the taking of the report. | `buildgraph/executorjob.h` as used |
| `ExecutorContract` | The executor as the user of its jobs, according to `JobContract`. Extends `Executor`. | `executor.cpp` |
| `CommandExecution` | One job: its process executor with watchdog and `QbsProcess`, its JavaScript executor with its thread. Implements `JobContract`. | `executorjob.cpp`, `processcommandexecutor.cpp`, `jscommandexecutor.cpp`, `tools/qbsprocess.cpp` |
| `ProcessLauncher` | The launcher process and the connection to it, shared by several builds. | `tools/launcherinterface.cpp`, `launchersocket.cpp`, `qbsprocess.cpp`, `src/libexec/qbs_processlauncher` |
| `BuildGraphStore` | The build graph file, the lock file, and the processes that use them. | `tools/buildgraphlocker.cpp`, `persistence.cpp`, `api/internaljobs.cpp`, `buildgraph/buildgraphloader.cpp`, `projectbuilddata.cpp` |
| `Session` | A session's requests and the API jobs in their threads. | `src/app/qbs/session.cpp`, `api/jobs.cpp`, `api/internaljobs.cpp` |
| `ProductGraph` | Products over many edits of a project: order, cycles, disabled products, build data carried over. | `language/moduleloader.cpp`, `projectresolver.cpp`, `buildgraph/buildgraphloader.cpp` |
| `MCExecutor`, `MCCommandExecution`, `MCBuildGraphStore` | Small instances that the configurations choose from. | |
| `ExecutorProofs`, `GraphProofs`, `BuildProofs`, `CommandProofs`, `LauncherProofs`, `StoreProofs`, `SessionProofs` | Theorems about `Executor` and `ExecutorContract`, `BuildGraph` with `Executor`, whole builds of `Executor`, `CommandExecution`, `ProcessLauncher`, `BuildGraphStore` and `Session` for all constants. | |
| `Queues` | Lemmas on queues of events and packets, for the proofs. | |

How they fit together. `Session` treats a job as something that is started, ends, and meanwhile keeps
its project and the lock alive; `BuildGraphStore` looks into the jobs of several processes, and treats
a build as one command; `Executor` looks into one build after the other, and treats what a job does as
one step; `CommandExecution` looks into a job, and treats the launcher as something that answers;
`ProcessLauncher` looks into that. `ProductGraph` looks into the setup of a project that is one
step in `BuildGraphStore`. `JobContract` is the one interface stated as a specification of its own:
`CommandExecution` implements it (`ImplementsContract`), and `Executor` keeps to it
(`JobsUsedByContract`).

An action is a whole handler, or a piece of one that ends where other threads, processes or events can
come in. Definitions that begin with `\* Mutant:` are faulty variants of the definition after
them; they are not used by the specifications.

### Executor: state

The variables fall into the project's build data, which survives a build (`graph`, `children`,
`timestamp`, `markedForRerun`, `tracked`, ...), the executor's members (`state`, `leaves`,
`availableJobs`, `processingJobs`, `jobCountPerPool`, ...), and the world (`canceled`, `mtime`,
the counters that bound the run). `pc` says where the executor's thread is. Three abstractions
matter:

* **Queue.** `m_leaves` is a function from nodes to how often each is queued, taken in order of
  product priority; among nodes of equal priority every order is allowed, as with
  `std::priority_queue`. The same node is queued several times in this code, so a set would be wrong.
* **What was read.** Property values and environment variables are not modelled. A transformer
  in `outdatedRecord` has a record that disagrees with the present values, a rule in
  `outdatedPrepare` has a prepare script that ran with others. The marks
  `commandsNeedChangeTracking` (`tracked`) and `prepareScriptNeedsChangeTracking`
  (`prepareTracked`) are modelled as the code sets and clears them.
* **Time.** `clock` counts; 0 is an invalid time. A command gives its outputs a new timestamp, or
  leaves the old one to outputs that are not `alwaysUpdated`.

`stale` and `failed` are history variables: the transformers whose last successful run is older
than the last change of what they depend on, and whether a command has failed in this build.
No action reads them.

### Executor: actions

| Action | Code |
|---|---|
| `Build` | `Executor::build()`, `doBuild()` up to `scheduleJobs()`; a new `Executor` for every build (`InternalBuildJob::build()`) |
| `SkipLeaf`, `DelayLeaf`, `AbortOnUnknownLimits`, `EndSchedule` | one turn, and the end, of the loop in `scheduleJobs()`, with `schedulingBlockedByJobLimit()` |
| `FinishLeaf` | `buildArtifact()` for sources, `checkNodeProduct()` for nodes of other products |
| `SkipRule`, `EnterRule`, `LeaveRule`, `RuleThrows` | `executeRuleNode()`, `RuleNode::apply()`, `RulesApplicator::applyRule()`; the script runs between entering and leaving |
| `DelayedByRescue`, `CheckThrows`, `FinishWithoutRunning`, `DelayedByScan`, `FinishInsteadOfRunning`, `RunTransformer`, `RunThrows` | the ways through `potentiallyRunTransformer()`: rescue, filters, `mustExecuteTransformer()`, scan, `runTransformer()` |
| `CommandsEnd` | `ExecutorJob::onCommandFinished()` and `setFinished()`: the job has forgotten its transformer, its signal is under way |
| `JobSucceeded`, `JobFailed`, `OutputMissing` | `onJobFinished()` and `finishJob()` |
| `PostedFinish` | the `finish()` that `doBuild()` posts to itself |
| `RequestCancel`, `checkForCancellation` | `JobObserver::cancel()` in another thread, and the timer |
| `ReportResult`, `EditSource`, `ChangeProperties` | between two builds: the job has ended; the user edits; a property or variable changes and `markTransformersForChangeTracking()` is called |

The loop in `scheduleJobs()` is cut between turns because nothing else runs in that thread; another
thread can only set the cancel flag, which is read elsewhere. A rule's script is cut in two because
events are let in there.

### CommandExecution

`job` is `ExecutorJob` (the transformer's commands, the index, whether it was canceled), `process` the
`QbsProcess` with its `m_state`, `m_error` and `m_socketError`, `watchdog` the timers, `cancelReason` the
process executor's `m_cancelReason`, `posted` the zero timers of the executor's thread, `js` the JavaScript
executor and its thread object with the calls queued to it. `engineActive` is a rule's script that has
paused to handle events: the slots of `ProcessCommandExecutor` post themselves again then.
`report` is the signal `finished()` while it is on its way to the executor. `carried` and `timedOut` are history.

| Action | Code |
|---|---|
| `Run` | `ExecutorJob::run()`, `runNextCommand()`, `AbstractCommandExecutor::start()`, both `doStart()` |
| `OnJobFinished` | `Executor::onJobFinished()`, external here: the report is taken, and the job may be used again |
| `CancelJob` | `Executor::cancelJobs()`, `ExecutorJob::cancel()`, `cancel()` of the executors, `QbsProcess::cancel()` |
| `ProcessTimeout`, `ScriptTimeout` | the watchdogs |
| `HandlePosted`, `HandleSignal` | zero timers; `handleSocketReady()`, `handleSocketError()`, `handlePacket()` and the slots `onProcessError()`, `onProcessFinished()` |
| `ScriptStart`, `ScriptCancel`, `ScriptEnd`, `ScriptFinished` | the thread object, and `onJavaScriptCommandFinished()` |
| `LauncherConnects`, `LauncherLost`, `ProgramEnds` | external here, detailed in `ProcessLauncher` |
| `EnginePauses`, `EngineReturns` | `ScriptEngine` processing events during a rule's script |

### ProcessLauncher

Builds have an executor thread each with one `QbsProcess`; the main thread owns `LauncherInterface`
and `LauncherSocket`; the launcher has its own event loop. Packets travel in order on `toLauncher`
and `toQbs`, queued signals in `inbox`. A crash loses `toLauncher`, while what was already written to qbs still
arrives. Programs carry a number, so that an answer for one program can be told from that
for the next with the same token; the code itself has only the token.

| Action | Code |
|---|---|
| `StartBuild`, `FinishBuild` | `LauncherInterface::doStart()`, `doStop()` |
| `LauncherConnects`, `LauncherFailsToStart`, `LauncherCrashes`, `NoticeCrash` | `handleNewConnection()`, `handleProcessError()`, `handleProcessFinished()` |
| `ReadSocket`, `HandleRequests` | `LauncherSocket::handleSocketDataAvailable()`, `handleSocketDisconnected()`, `handleRequests()` |
| `StartProgram`, `TimeOut`, `RequestCancel`, `CancelJobs`, `HandleSignal` | `QbsProcess` |
| `HandlePacket`, `StopTimer`, `ProgramEnds` | `LauncherSocketHandler`, `Process` |

### BuildGraphStore

One project file, one source, one output; a time is the number of edits so far. `proc` holds for each
process where it is in its job, its open project and the build data with the dirty flag, and the
project a setup is making. `file` is the graph file, with its magic token; `lock` the lock file,
which is `"stale"` when its owner is dead. `excused` and `unmarked` are history, see section 3.

| Action | Code |
|---|---|
| `StartJob`, `Release`, `Crash` | the client; the destructor of `TopLevelProject`; a kill |
| `TryLock`, `LockFails`, `CancelLocking`, `RemoveStaleLock` | `BuildGraphLocker` |
| `Load` | `InternalSetupProjectJob::execute()`, `BuildGraphLoader::load()`, `loadBuildGraphFromDisk()` |
| `LoadNothing` | the same with `RestoreOnly`, an override and an unreadable file: there is no project, and the process dies (section 6) |
| `StartResolving`, `ReadProject`, `ResolvingFails` | `Loader::loadProject()`, `trackProjectChanges()`, the catch block of `start()` |
| `StartCommand`, `NothingToBuild`, `FinishCommand`, `CommandFails` | a build; `Executor::isUpToDate()`, `finishJob()` |
| `Clean` | `ArtifactCleaner::cleanup()` |
| `NothingToStore`, `RemoveOldFile`, `SetupWriteStream`, `StoreObjects`, `FinalizeWriteStream` | `storeBuildGraph()`, `TopLevelProject::store()`, `PersistentPool` |

### Session

Requests are numbered and so are the jobs and projects made for them. A job goes through the stages
*queued* (a setup starts by a timer), *locking*, *working* (worker thread), *returned* (its signal
is under way), *finished*. A setup that needs a locker may be one that waits for it (`wait-lock-build-graph`). It ends in one of three
ways: `SetupSucceeds`; `SetupFails`, without a new project and with the locker where it was; or `StoreFails`, with an error and with a new
project that has the locker, because `storeBuildGraph()` does not throw. `locker` is the project that owns the `BuildGraphLocker`; it goes with the last reference
to that project, which a job, the session or a running setup may hold. `Resolve`, `Build` (also cleaning
and installing), `Release`, `Cancel` and `Quit` are the requests; `HandleFinished` is
`AbstractJob::handleFinished()` with the slot of the session. `withdrawn` and `lockless` are history; `lockless` are the projects that
stay valid without a locker (section 6).

### ProductGraph

`description` is the project file: which products there are, whether their condition holds, what they
use. `Setup` reads it: the module loader's sorter with its check, `resolveProductDependencies()` with
disabled products and cycles, `trackProjectChanges()` with the products that are carried over, set
up anew and rescued. `Build` sets the product priorities. `Edit` is the user. Each product's
build graph is one node.

## 3. Properties

`TypeOK` is part of `QueuedAreTouched`, `NothingLeftBehind`, `TokensMatch`,
`ProjectsAreExclusive` and `GraphMatchesProject` for the modules these belong to; and it is proved for
all modules but `ProductGraph`. The other properties:

| Module | Property | Says |
|---|---|---|
| `Executor` | `JobAccounting` | a job is available or processing; pool counts are exact |
| | `NoJobOutlivesItsBuild` | `finish()` is only reached without processing jobs, and the executor is idle exactly between builds |
| | `PoolLimitsRespected` | the count of a pool is within the limit of every product with a running transformer in it |
| | `OneJobPerTransformer` | no two jobs run one transformer, and what runs is in state Building |
| | `SiblingsTogether` | the outputs of a transformer are being built and become built together |
| | `StatesOnlyAdvance` | within a build no node goes back |
| | `DependenciesBuiltFirst` | a node that is being built or built has only built children |
| | `ReadyNodesAreQueued` | no wake-up is lost: a node that could be built is queued whenever the executor waits or gives up |
| | `QueuedAreTouched` | what is queued has been initialized for the current build: the `QBS_CHECK`s in `visit()` |
| | `UnbuiltForAReason` | products remain unbuilt only if a job failed, something was thrown or the user has canceled: what is delayed is not dropped |
| | `ScansCloseNoCycle` | no scan and no rescued data closes a cycle in the graph, whatever includes what |
| | `PendingTransformersCounted` | `m_pendingTransformersPerRule` is exact, so that the check in `finishTransformer()` cannot fail |
| | `SuccessMeansBuilt` | a build without error has built everything, and no command has failed in it |
| | `FreshWhenDone` | a build without error leaves nothing stale, however earlier builds have ended |
| | `EveryBuildEnds` | every build ends |
| `ExecutorContract` | `JobsUsedByContract` | the executor hands a transformer only to a job that has none and whose last report it has dealt with, leaves it there until the job has reported, and cancels only jobs that run |
| `CommandExecution` | `ImplementsContract` | refinement: every `run()` is answered by one report, which is there until the executor takes it; success means that every command was carried out, a canceled job fails |
| | `NothingLeftBehind` | no process, script, answer or watchdog of one command is there when the next begins |
| | `EveryJobReports` | every job reports, unless a process has timed out (section 6) |
| `ProcessLauncher` | `LauncherServesBuilds` | the launcher lives as long as there are builds, and no longer |
| | `TokensMatch` | answers, programs and start requests belong to the program that is waited for |
| | `InnocentProgramsLive` | only programs that somebody wanted to stop are stopped, although stop timers race with the end of a program and the start of the next |
| | `EveryProgramAnswered` | every program is answered for, also if the launcher crashes |
| `BuildGraphStore` | `OneUser` | two processes never use one build graph |
| | `GraphsAreWhole` | no half-written graph is ever used |
| | `CleanMeansStored` | a project that is not dirty is in the file |
| | `ProjectIsCurrent` | a successful setup leaves the project of the project file, unless it was edited meanwhile |
| | `FreshAfterBuild` | a successful build leaves the output of the source, whatever was killed, failed or not stored before |
| | `EveryJobEnds` | every job ends, with success, with an error or with the death of its process, unless it waits for a lock that an idle process keeps |
| `Session` | `ProjectsAreExclusive` | the session's project has the lock; two jobs never share a project |
| | `NoSelfLock` | a setup does not find the lock taken by a project of the same session |
| | `RepliesAreFinal` | no request is replied to twice, nor after it was superseded |
| | `EveryRequestAnswered`, `QuitEndsSession` | every request is replied to, withdrawn, or waits for the lock as it was told to; quit ends the session |
| `ProductGraph` | `NeverAborts` | the `QBS_CHECK`s about order, build data and disabled products never fail |
| | `GraphMatchesProject` | edges are exactly those of the dependencies, and build data is carried over only together with that of the dependencies |
| | `NoCycles` | no project with a cycle among enabled products is accepted |
| | `DisabledForAReason` | a product is disabled because of its dependencies exactly if one it reaches is off |
| | `DependenciesHavePriority` | dependencies are built with higher priority |
| | `ResultsAreKept` | what is known of a product's artifacts survives |

Some of these have exceptions, all from the code:

* `FreshWhenDone`: transformers that the user has deselected, products that are not being built, and
  transformers without an `alwaysUpdated` output, which run "if and only if *all* of them are out of
  date" (`executor.cpp:497`).
* `DependenciesBuiltFirst`: the edges from rule nodes to source files, which `RulesApplicator::doApply()`
  adds while the rule is being executed.
* `FreshAfterBuild`: the source was edited while the command was running (the output's time stamp is
  taken afterwards, `executor.cpp:594`); a process that had removed the output was killed, or its project
  released, before that could be stored; a dry run has declared the output up to date.
* `CleanMeansStored`: projects from which products have disappeared, which is finding 3.
* `EveryProgramAnswered`: `Stranded` is finding 2; `Orphaned` is a build that starts when the launcher of
  an overlapping build has crashed: `doStart()` only counts it, and `errorOccurred()` was emitted before.
* `ProjectsAreExclusive`: a project in `lockless`, whose locker went to a setup that could not store and was superseded (section 6).
* `EveryRequestAnswered`: a request with `wait-lock-build-graph` that finds the lock taken (section 6). Once it is
  canceled, or has the lock, it is answered.
* `NoSelfLock`: a project that was released while a job was running on it keeps the lock (section 6).

## 4. Runs

| Run | Configuration | Instance and events | States | Shows |
|---|---|---|---|---|
| `program` | `MCExecutor` | *Program*; 2 builds, 1 edit, 1 cancel, failing compiler, throwing rule, keep-going or output check, 2 jobs, a pool of one | 201000 | the core invariants hold together, jobs are used by their contract, every build ends |
| `partial` | `MCPartialBuild` | *Pair*; 3 builds of both products or one, limits 1 and 2 for one pool, two generated files that may include each other, 2 changes of properties, 1 edit, a failing generator | 210000 | limits across products; circular includes close no cycle; change tracking is complete when what reads the changed value succeeds |
| `rescue` | `MCRescue` | *Parser*; first build with rescued data, a failing command with two outputs of which one is not always updated, a throwing rule, 1 edit, 1 cancel, a filter, rule-only builds | 88000 | rescued dependencies and results; siblings |
| `commands` | `MCCommands` | 3 transformers out of four, of process and script commands, with and without time limit, some dry; 2 pauses | 81000 | the refinement, nothing is left behind, jobs report |
| `launcher` | `MCLauncher` | 2 builds that may overlap, 2 programs, 1 timeout, 1 crash | 243000 | tokens and stop timers are never mistaken, programs are answered for |
| `store` | `MCStore` | 2 processes, 4 jobs of eight kinds, 1 edit, 1 crash, 1 failure to write | 480000 | locking, storing and freshness across crashes |
| `session` | `MCSession` | 5 requests, cancel and quit at any time; setups that fail, cannot store or wait for the lock | 417000 | lock, jobs and replies |
| `products` | `MCProducts` | 3 products with any dependencies, one optional, 2 edits | 37000 | order, cycles, disabled products, carried-over data |
| `lost_rerun`, `lost_requests`, `removed_product`, `dropped_transformer` | `MCLostRerun`, `MCLostRequests`, `MCRemovedProduct`, `MCDroppedTransformer` | one situation each | | a violation, see section 5 |

*Program*: a generator rule makes `h` from `sg`, a compiler rule makes `o1`, `o2` from `s1`, `s2`, a linker
rule makes `app`; `s1` may include `h`. *Parser*: the same with one command for `o1` and `o2`. *Pair*: two
products, where a file of one may be found by a scan in the other. *Listing* (run `dropped_transformer`): a
generator rule makes `h`; one command makes `o1`, a target, and `o2`, which is not part of the product.

**Bounds.** They bound what the user and the surroundings do (builds, edits, cancel requests, crashes,
timeouts, requests), in the guards of those actions; nothing bounds what the code does in reaction.
Two builds are what a failure and its consequence need, three where the first only creates the graph.
Two jobs and two compilations are enough for a job to end while another runs, for an occupied pool and
for a leaf that is delayed. Four transformers give a chain of three rules with a join, which the queue
needs to get a wake-up wrong. Three transformers on one job, with two commands each, are what it takes for
something left by one command to meet a later one with another kind in between. Two programs let a
late answer or stop timer of the first meet the second, and two builds give an overlapping start or shutdown.
Two processes give a contested lock, and four jobs a setup and a build before and after the crash.
Five requests are a setup, a superseded one, its successor, and two more on the result. Three products
give a chain, a diamond's half and every cycle; two edits disable a product and enable it again.

No symmetry is used: several runs check liveness. `CHECK_DEADLOCK FALSE` is set where the surroundings may
have done all they may do and everything is idle; in `Executor`, `Rest` lets a behaviour stutter
then, so that every other deadlock is reported.

In `partial`, what reads a changed property does not fail and its scan finds nothing, because both are known to lose the
change (finding 1 and section 6); for the same reason `program`, where the output check may fail, does not check `FreshWhenDone`.

**Fairness.** Always weak, and never for the user, for crashes or for timers that may be overtaken.

* `Executor`: the executor's thread handles its events, and commands end: the executor has no time limit
  of its own, and a command that hangs does hang the build. The enabling conditions are written out
  (`ExecutorReady`, `CommandReady`), which TLC evaluates faster than `ENABLED`.
* `CommandExecution`, `ProcessLauncher`: event loops run, the launcher starts or fails, programs and scripts
  end by themselves or when they are stopped. Watchdogs need not fire.
* `BuildGraphStore`: a process that has a step to do does it. Nothing makes an idle process release its
  project.
* `Session`: worker threads return, and the main thread's event loop runs. There is no fairness for a worker that waits
  for the lock (`WaitsForLock`): the constructor of `BuildGraphLocker` goes on until it has the lock or the job is canceled.

## 5. Findings

Each is a run that TLC violates; `PROJECT.json` quotes the line that says otherwise.

1. `lost_rerun` (`transformerchangetracking.cpp:373`): a command that is re-run for a changed variable and
   fails is not tried again by the next build.
2. `lost_requests` (`launchersocket.cpp:145`): `handleRequests()` is called after the socket was lost; its
   assertion returns before the requests are cleared. The next launcher's requests queue up behind them, and
   `sendData()` only posts `handleRequests()` when the queue was empty.
3. `removed_product` (`projectbuilddata.cpp:243`): `removeArtifact()` clears the dirty flag, so that
   a project from which a product was removed is not stored.
4. `dropped_transformer` (`executor.cpp:980`): a command has two outputs, and `o2` is not a target and needed by
   nobody, so that in later builds it stays Untouched. After an edit, the scan for `o2`, which comes first, finds
   a new dependency `h` that is not built yet. `potentiallyRunTransformer()` returns, and when `h` is
   built, `finishNode()` skips the parent `o2`, since it is not Buildable, while `o1` has not been connected with `h` and is
   not queued again. The build ends with "products could not be built" and no other error. In run `program`,
   where every transformer has one output, `ReadyNodesAreQueued` excludes this, and for all such projects
   `NothingIsDropped` does.

## 6. Observations without a run of their own

Met while modelling; each is a consequence of the code as it is modelled, or the reason for
an exception in section 3.

* The children of the other outputs of a transformer are not looked at before it runs
  (`executor.cpp:947`), though an `outputArtifacts` script can give each output its own
  `explicitlyDependsOn`.
* `m_jobLimitsPerProduct.at()` (`executor.cpp:401`) throws `std::out_of_range` for a node of a product
  that is not being built; action `AbortOnUnknownLimits`.
* A prepare script that is re-run for a changed property and throws is not tried again. A
  command that is to be re-run for a changed property and is delayed by its scan is skipped when its turn
  comes. An output that the output check reports as missing is up to date in the next build. All three have the cause of
  finding 1: the reason to run is used up before the run has succeeded.
* `ProcessCommandExecutor::onProcessError()` ignores an error after a timeout, since "cancel reasons will be handled by
  on ProcessFinished()" (`processcommandexecutor.cpp:336`). If the process was still waiting for the
  launcher, or the launcher is lost, that call does not come, and the job never reports.
* `QbsProcess` does not reset `m_error`: with keep-going, a process that could not be started makes later ones on
  the same job count as failed.
* A dry run gives the artifacts it pretends to build new time stamps; a later job that stores the graph makes
  that permanent.
* "No product at position i has dependencies to a product at position j > i" (`language/moduleloader.cpp:172`) does not
  hold for the products of a cycle that is reachable from a root; `hasDependencyCycle()` in the project resolver finds these.
* Rescuable data of a product that is disabled in two setups in a row is lost; `ResultsAreKept` is about one.
* `release-project` while a job is running: nobody deletes the job, which keeps the project and its lock
  until the session ends. A superseded `resolve-project` request gets no reply.
* "There must always be at most one valid Project object for the same build directory, so that exclusive ownership of the build graph
  lock is ensured" (`api/jobs.cpp:261`) has an exception. `storeBuildGraph()` (`api/internaljobs.cpp:156`) only sets an error, so that a `resolve-only`
  setup that cannot store has already given the locker of the existing project to the new one (`internaljobs.cpp:269`). Because of the error, and because a project that is
  resolved from scratch leaves the existing one its build data, `SetupProjectJob::finish()` takes the existing project for untouched and
  keeps it valid. Usually the session replaces it at once; but if the job was canceled and superseded meanwhile, the next setup starts with the old
  project, and the lock goes when the superseded job is deleted. From then on the session works without a lock, and so do all projects it makes from that one.
  TLC shows this with three requests and a `cancel-job` if the last disjunct of `ProjectHasTheLock` is replaced by `phase # "open"` (`quit` keeps the old
  project too, but the session ends with it).
* `RestoreOnly` with `overrideBuildGraphData`, which every `restore-only` request of a session means (`src/app/qbs/session.cpp:272`,
  `json-api.qdoc:162`): if the graph file is not readable, `loadBuildGraphFromDisk()` only warns and returns
  (`buildgraphloader.cpp:188`), `execute()` has no project, and `storeBuildGraph()` and the line after it (`internaljobs.cpp:316`, `:319`) use the null pointer.
  The lock file it leaves is stale, and the next process takes it over (`LoadNothing`).
* `wait-lock-build-graph` waits without limit (`buildgraphlocker.cpp:126`), also for a project of the same session that was released while a job was running
  on it. Such a request is only answered if it is canceled.

Two things the passing runs of the executor do not cover: a rule-only build after a change of properties
(the marks are cleared there too, so that the case belongs with finding 1), and rescued data for an artifact that is
queued twice, because another scan has found it while it waits.

## 7. Proofs

### Executor

`ExecutorProofs` holds for every value of the constants that satisfies `GraphAssumption` and
`ExecutorAssumption`: any finite graph, any finite set of jobs, any pools, limits, priorities and
bounds. The assumptions only give the constants their types, and say that an output belongs to
the product of its rule. (`BuildProofs`, below, uses two more.)

| Theorem | Statement |
|---|---|
| `TypeCorrect` | `Spec => []TypeOK` |
| `JobsAccounted` | `Spec => []JobAccounting` |
| `JobsEndWithTheirBuild` | `Spec => []NoJobOutlivesItsBuild` |
| `PoolLimitsHold` | `Spec => []PoolLimitsRespected` |
| `OutputsBuiltTogether` | `Spec => []SiblingsTogether` |
| `TransformersRunOnce` | `Spec => []OneJobPerTransformer` |
| `StatesAdvance` | `Spec => StatesOnlyAdvance` |
| `JobsAreUsedByContract` | `Spec => JobsUsedByContract` |

`TypeOK` is inductive as it stands; its last conjunct on jobs (idle exactly when there is no
transformer) is there because a job that is given back must not be one that is still working.
There is one lemma per action, with one step per group of variables.

Each of the others is inductive relative to `TypeOK`. Their proofs do not go through the 25
actions again: `JobStepCases` shows that, as far as the tables of jobs are concerned, a step
starts a job (`RunTransformer`), gives one back (`ReleaseJob`), sets up a build, or changes
nothing; `StateStepCases` does the same for build states. `JobAccounting` then comes down to
adding to or removing from a finite set, and `PoolLimitsRespected` to the step that starts a job:
the node has passed `schedulingBlockedByJobLimit()`, which compared the count with the limits of
its own product and of the products of all running transformers. `StatesOnlyAdvance` needs
`SiblingsTogether`: `runTransformer()` sets all outputs to Building though only one was visited, and
without the invariant another one could be built already.

`JobsAreUsedByContract` is the other half of `JobsKeepTheContract` below: for every job, what the executor does to
it is a behaviour of `JobContract`, so that the two modules that stand for the two sides of that interface
agree on it, for any project and any transformer. What a job was handed (`work`) is its entry of `m_processingJobs`. A job that is handed another transformer
while it runs, or while its report is on its way, would change `work` in a way the contract does not have, and so would a
job that is forgotten before it has reported: only `Collect` resets `work`, and it needs a report. The proof maps each kind of step of `JobStepCases` to a step of
the contract, and uses `JobAccounting`, by which an available job does not run. That a canceled job fails, and that a success is one, is the job's
part and is proved in `CommandProofs`.

### Build graph

`GraphProofs` is about reachability, for any finite graph.

| Theorem | Statement |
|---|---|
| `ClosureIsReachability` | `Closure(from, ch)` contains `from`, no edge leaves it, and it is part of every set with these two properties |
| `SafeConnectKeepsAcyclic` | the edges that `SafelyConnectable` accepts, added together, keep a graph acyclic |
| `ScansAreSafe` | `Spec => ScansCloseNoCycle`, if every transformer has one output |
| `OnlyTouchedNodesQueued` | `Spec => []QueuedAreTouched` |

`Closure` walks as many steps as there are nodes. That this is enough, and that the recursive function exists, are
inductions; they are done by a least counterexample (`LeastNumber`, from the library's theorem that `<` is
well-founded), since the induction rules themselves cannot be used here. From the first theorem on, only
"least closed set" is used. `SafeConnectKeepsAcyclic` argues that a cycle through new edges, all of which
leave one node `u`, contains a path from the end of one of them back to `u` over old edges, which is what
`safeConnect()` looks for. With several outputs per transformer the model adds edges that leave several nodes,
all checked against the same graph, where the code adds them one after the other; hence
the hypothesis `SingleOutputs` of `ScansAreSafe`, which only `Parser` and `Listing` among the instances do not satisfy.

`OnlyTouchedNodesQueued` needs reachability for one step, the start of a build: `updateLeaves()` walks
along the children of nodes that are not built, `prepareReachableNodes()` along all children, and the first walk does not
leave the second. All other steps queue what they have just initialized or what was Buildable, and no
step of a build makes a node Untouched.

### Whole builds

`BuildProofs` is about what several steps of a build have to do with each other: who gets a turn when, and what it
means that the build is over. It uses two assumptions more, which the modules state with the code that ensures them:
`RuleGraphAssumption` (a transformer has outputs, its inputs come from rules that its own rule waits
for, and rules do not depend on each other in a cycle) and `BuildOptionsAssumption` (with a product, the products that
its rules depend on are built too).

| Theorem | Statement | For |
|---|---|---|
| `RulesComeFirst` | `Spec => []GraphInv`: nothing gets its turn before the rules it depends on, also in a build after one that has thrown | all constants |
| `PendingTransformersAreCounted` | `Spec => []PendingTransformersCounted` | all constants |
| `ReadyNodesStayQueued` | `Spec => []ReadyNodesAreQueued` | one output per transformer |
| `CommandsWaitForDependencies` | `Spec => []CommandsWait`: commands run only when all children of the artifact are built | one output per transformer |
| `GraphStaysAcyclic` | `Spec => [](EdgesInv /\ Acyclic(children))` | one output per transformer, ordered dependencies |
| `NothingIsDropped` | `Spec => []UnbuiltForAReason` | one output per transformer, ordered dependencies |
| `SuccessIsComplete` | `Spec => [](~canceled /\ (opts.keepGoing => ~failed) => SuccessMeansBuilt)` | one output per transformer, ordered dependencies |

*One output per transformer* is `SingleOutputs`; finding 4 shows that `NothingIsDropped` is false without it, and so is
`CommandsWaitForDependencies` (first observation of section 6). *Ordered dependencies* is
`DepsFromChildRules`: a generated artifact that is named in `explicitlyDependsOn` comes from a rule that the artifact's own rule
waits for. Without it, two artifacts could name each other. The instances of `program` and `partial` satisfy both.

The 25 actions are sorted twice: `GraphStepCases` by what they do to graph, build states and queue (a node
is finished, a visited artifact is delayed, finished or started, a rule is applied, a job is finished, something is thrown, a build
begins, or nothing of this happens), and `ReportStepCases` by what they do to jobs, errors and the request to cancel.
Then every invariant has one step per kind.

* `GraphInv` relates the graph that rules have made so far to the build states: edges lead to nodes that exist; an artifact in
  the graph is connected to its rule, and a rule to the rules that make its inputs; a rule that is built was applied,
  and its outputs are there; what is queued, running or built has a rule that is built. The last part holds although
  an exception can leave outputs behind for which no transformer has commands, and although a rule is
  connected to new children while it waits: its edges to other *rules* never change, and these are acyclic. So when
  a rule is applied, the inputs of its transformers exist, which is what `PendingTransformersCounted` needs.
* `ReadyInv` extends `ReadyNodesAreQueued` to every place of the executor's thread: what can be built is queued, put aside,
  or the rule that is being applied. The steps that matter are those that remove the last reason to wait (`FinishWakes`,
  `LeaveWakes`) and the delay of a visited artifact: with one output, it is the visited artifact itself that has an unbuilt
  child afterwards. With two outputs it can be the other one.
* `WaitInv` is needed because the queue may hold a node twice, and holds nodes for which a scan has found children that are
  not built. Only what no scanner has added (`Needs`) is certain to be built for a queued node. The rest comes from the visit:
  the first scan of a build removes what older scans have found and waits for what it finds, and an artifact
  that was scanned without being delayed has been started (`ScannedHaveRun`).
* `EdgesInv` says which edges exist whatever the scanners find: an output has its rule, inputs and explicit dependencies as
  children, a rule the outputs of the rules it waits for and the inputs of its transformers. So when the rule `r` is applied, the children of
  a new output are `r`, children of `r` or sources, and its only parents are rules that had `r` as a child already: the new node is put
  on edges that exist, and a cycle through it would have been there before (`InsertKeepsAcyclic`). For scans and rescued
  data it is `ScansAreSafe`.
* `BuildEndInv` brings these together. While a build is running, its roots and the children of whatever was initialized are
  initialized (`RootsTouched`, `ChildrenTouched`), and what is in state Building has a job or a failed one
  (`BuildingInv`). When the queue is empty and no job is left, take the nodes that were initialized and are not built. In a graph
  without cycles one of them waits for none of the others (`SomeNodeIsFirst`); all its children are built, it is not
  Building, so it could be built, and by `ReadyInv` it is queued: there are none (`NothingLeft`). `FailInv` deals with the other
  ways to end: jobs are canceled only after a failure, an exception or a request, and a failure is reported or
  waits to be reported unless the user wants to keep going.

`SuccessIsComplete` has conditions that `SuccessMeansBuilt` lacks. With keep-going, a failed command is only a warning, and
if its output is neither a target nor needed by one, `checkForUnbuiltProducts()` finds nothing. If the cancellation timer has
stopped the build, `explicitlyCanceled` is not set, and again only root nodes are looked at. In run `program` the target needs whatever
may fail, so that the run can check the property without these conditions.

### BuildGraphStore

`StoreProofs` holds for any number of processes, any jobs and any bounds that satisfy the module's
assumptions.

| Theorem | Statement |
|---|---|
| `TypeCorrect` | `Spec => []TypeOK` |
| `OneUserAtATime` | `Spec => []OneUser` |
| `OnlyWholeGraphs` | `Spec => []GraphsAreWhole` |

`TypeOK` is inductive. An action changes several fields of a process at once; lemmas say that each such
change alone keeps the type, and the proofs take one field after the other.

`OneUser` says nothing about the lock and is not inductive. `LockInv` is: a process that uses the graph
owns the lock; a setup with a locker of its own owns the lock too, has no project yet and is somewhere
between loading and the end of resolving, or dies there and leaves a stale lock; a process that waits for the lock has no project; a process in
a stage after the setup has one. The second part is what a failing setup needs, which deletes the locker if and only if
it has allocated it. `LockSteps` sorts the actions by what they do to the lock, the stage and the project.

`GraphsAreWhole` needs `WholeInv`: the graph in a file with the magic token is whole, and so are that of
an open project, that of a project that is being read, and the one in a file that lacks only the token. A
crash may come anywhere, because every part speaks of the file or of one process. The last part depends on
`LockInv`: while one process is about to write the token, no other one touches the file.

The second half of the module goes on to what the files and graphs contain.

| Theorem | Statement |
|---|---|
| `UnchangedIsStored` | `Spec => []CleanMeansStored` |
| `SetupIsCurrent` | `Spec => []ProjectIsCurrent` |
| `BuildsAreFresh` | `Spec => []FreshAfterBuild` |

A graph can be in three places: the file, the open project, and the project that a setup is making.
`DataInv` says of each of them that it *tracks* the project file (if it was resolved after the last edit,
it is the graph of the project file as it is) and that it is *honest* (if its time stamp says that the output is
up to date, it is), that no time stamp lies in the future, that build data which is not dirty is in the
file, and that what is written stays dirty until the file is complete. `Tracks` speaks of the time
at which resolving **began**, which is what makes an edit during a setup harmless. `DataInv` is inductive
relative to `TypeOK` and `LockInv`: a process that writes the file or the output would break what is known of
another one that uses them. The exceptions in `FreshAfterBuild` are those of section 3, and the history
variables `excused` and `unmarked` stand for them in the invariant too.

### CommandExecution

`CommandProofs` holds for every set of transformers, that is every list of process and script commands with or
without time limits, and for any number of runs and pauses.

| Theorem | Statement |
|---|---|
| `Invariance` | `Spec => []IInv` |
| `NothingLeft` | `Spec => []NothingLeftBehind` |
| `JobsKeepTheContract` | `Spec => ImplementsContract`, the refinement of `JobContract` |

`NothingLeftBehind` is about the moment between two commands and says nothing while one runs; `IInv` has one part for
every place where something of a command can be: the job, the zero timers, the process with the answers on their
way, the socket, the script thread with its queue, the watchdogs, and the commands that were carried
out. Most parts have the form "if there is something here, then the job waits for this kind of command, and there is
nothing there", with the order of signals where it matters: nothing follows the news of a lost connection. `CarriedInv` is what the refinement
needs: a command that is about to be reported as successful was carried out. All handlers that
end a command go through one lemma, `CommandFinished`: they show that nothing of the
command is on its way (`Over`), and get that the next one starts from a tidy state and that the step is a step of the contract.

### ProcessLauncher

`LauncherProofs` holds for any finite set of builds, whether they overlap or not, and for any number of programs,
timeouts and crashes.

| Theorem | Statement |
|---|---|
| `Invariance` | `Spec => []IInv` |
| `LauncherCounted` | `Spec => []LauncherServesBuilds` |
| `TokensKept` | `Spec => []TokensMatch` |
| `OnlyStoppedPrograms` | `Spec => []InnocentProgramsLive` |

qbs and the launcher know a program by the token of its `QbsProcess`, which the next program shares. The
argument follows the *pipe*, the packets the launcher is going to read: those that were written, and those for which a
call of `handleRequests()` is due. In it there is at most one start per build, that of the current program,
and stops of earlier programs are all in front of it (`PipeInv`). So when the launcher reads the start they are gone, and while
a program runs, a stop in the pipe is one of this program (`ProgramInv`). A program that was asked for, runs, was reported or
is about to be handled is in one of these places only, while its `QbsProcess` waits for it (`TokenInv`); `AnswerInv`
says the same of answers. Requests that lost their call (finding 2) are not in the pipe: they break liveness, and none
of these properties. `ConnectionInv` and `BuildInv` tie this to connection and builds; in particular a lost connection is
the last thing that is read from a socket and the last signal a `QbsProcess` gets, so that no answer arrives after it.
What a step does to the program of one build is proved once per kind of move (`AskMove`,
`StopMove`, `StartMove`, `EndMove`, `AnswerMove`), and other builds are untouched because their packets
are neither added nor reordered (`FewerMove`, with `PartOf` of `Queues`).

### Session

`SessionProofs` holds for any number of requests.

| Theorem | Statement |
|---|---|
| `Invariance` | `Spec => []IInv` |
| `Exclusive` | `Spec => []ProjectsAreExclusive` |
| `LockIsFree` | `Spec => []NoSelfLock` |
| `OneReply` | `Spec => RepliesAreFinal` |

A job that has not finished relies on a project: the one it uses, the one it is making or the one it has
made (`Claim`). Every project that a job relies on owns the locker, unless it is in `lockless` (`LockInv`), and as there is one locker, at most one
other project is relied on (`OneClaim`). That is why a setup that takes the locker over takes it from its own
existing project and never from one in use, and why a job that goes on after `release-project` keeps others out.
The rest of `IInv` says who refers to which project (`NumberInv`, `ShareInv`), what the stage of a job implies (`JobInv`),
and that `m_currentJob` is the one job whose end is waited for (`CurrentInv`), which gives `RepliesAreFinal`.

TLC has checked each of these inductive invariants on the instance of its run before it was proved.

### Model-checked only

Liveness (`EveryBuildEnds`, `EveryJobReports`, `EveryProgramAnswered`, `EveryJobEnds`, `EveryRequestAnswered`,
`QuitEndsSession`) is out of the prover's reach, and so is `ProductGraph`, whose traversals are
recursive operators. Of the executor's invariants:

* `DependenciesBuiltFirst` does not hold for every project, not even with one output per transformer. An artifact that is queued
  twice can be delayed on its first turn, for a child that its scan has found, and be up to date on its second, because what made it
  out of date is gone: an older child that the scan has dropped, rescued data that was used, or a changed property
  that was looked at once (section 6). It is then finished before its new child is built. No command runs too early:
  that half is `CommandsWaitForDependencies`.
* `FreshWhenDone` speaks of everything that earlier builds have left, and fails in general (finding 1).

## 8. Abstractions

Executor:

* The transformers a rule can create are constants; whether they exist yet is state. Inputs
  and outputs do not disappear, so `handleRemovedRuleOutputs()` and the deletion of
  artifacts are out.
* What a scanner finds is chosen from `ScanResults` for every scan. Files outside the graph
  (`FileDependency`, `syncFileDependencies()`) are not modelled.
* Rescuable data is given by `Rescued`, `RescuedChildren` and `KnownOutOfDate`; whether the
  commands are the same as before is part of `Rescued`. Leftover data that
  `checkForUnbuiltProducts()` removes is not modelled.
* `forceTimestampCheck`, `changedFiles`, dry runs (see `BuildGraphStore`), installation, progress and logging are out.
* What a scan, or the rescue, adds to several outputs of one transformer is checked against the graph before the
  step for all of them; the code connects one output after the other.
* The commands of a transformer are one step that succeeds or fails; cancelling makes it fail. `CommandExecution` has the detail.
* The user edits sources only between builds.
* Build graph nodes of products to build only are reset by `prepareArtifact()`, as in the code. `timestampRetrieved` is not a variable: a
  source of another product that has a time stamp may keep it or have it retrieved anew.

The others:

* `CommandExecution`: a command is its kind, whether it has a time limit and whether it is only
  pretended. Command lines, response files, environment and the filtering of output are out; an invalid
  working directory and an unwritable response file are one failure.
* `ProcessLauncher`: one `QbsProcess` per build; packets are not split. Errors of the launcher's own
  socket end it, like a crash.
* `BuildGraphStore`: what the executor does to a graph is reduced to one output's time stamp. A file that
  cannot be loaded is one without the magic token; a graph of another project file, which the code treats in the same way, is out, and so are a process that waits for the lock
  of a dead process whose number is in use again, and `updateTimestamps()`.
* `Session`: queries, adding and removing files and the contents of replies are out; cleaning and installing
  behave like building. All requests are for one build directory, and the process lives on: the setup that dies is in `BuildGraphStore`.
* `ProductGraph`: all rules of a product are one node; whether a product has changed in
  other ways than in its dependencies is chosen from `Edited`.

## 9. Plan

Done: the executor and its graph, command execution and its contract, the process launcher, the graph store,
the session, the products of a project, and the theorems of section 7. Left:

1. `RuleApplication`: inputs that come and go, outputs that are removed, multiplex rules, the rule graph.
2. The command line frontend's jobs, one per configuration, and its escalating cancel requests, on top of
   `Session`'s jobs; merging of job limits as a pure function.
3. Proofs: a version of `DependenciesBuiltFirst` for finished nodes that allows for what section 7 describes, and
   `ProductGraph` with its traversals as recursive functions.

## 10. Not modelled

The parser is derived from third-party code. The evaluator and most of the module loader interpret QML and JavaScript and
have no concurrency of their own; what decides the order and the life of products is in `ProductGraph`.
Generators, the C++ scanner, the project file updater and the installer transform texts or copy files.
They are listed in `PROJECT.json` with the reason.

## 11. Running

    tlc -workers 2 -config MCExecutor.cfg MCExecutor
    tlc -workers 2 -config MCCommands.cfg MCCommandExecution
    tlc -workers 2 -config MCLauncher.cfg ProcessLauncher
    tlc -workers 2 -config MCStore.cfg MCBuildGraphStore
    tlc -workers 2 -config MCSession.cfg Session
    tlc -workers 2 -config MCProducts.cfg ProductGraph
    tlapm ExecutorProofs.tla
    tlapm GraphProofs.tla
    tlapm BuildProofs.tla
    tlapm Queues.tla
    tlapm CommandProofs.tla
    tlapm LauncherProofs.tla
    tlapm StoreProofs.tla
    tlapm SessionProofs.tla

`MCPartialBuild`, `MCRescue`, `MCLostRerun` and `MCDroppedTransformer` are configurations of `MCExecutor`,
`MCLostRequests` of `ProcessLauncher`, `MCRemovedProduct` of `MCBuildGraphStore`.
