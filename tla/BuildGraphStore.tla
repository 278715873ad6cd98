---------------------------- MODULE BuildGraphStore ----------------------------
(***************************************************************************)
(* The build graph on disk, and the qbs processes that share it.             *)
(*                                                                           *)
(* A process locks the build graph of a build directory, loads it, brings it *)
(* up to date with the project files, stores it, builds or cleans, and       *)
(* stores it again.  It may be killed anywhere on the way, and the user may  *)
(* edit the project file and the source file at any time.                    *)
(*                                                                           *)
(* Time is the number of edits so far: a file's time stamp is the moment of  *)
(* its last edit and stands for its contents as well.  One project file, one *)
(* source file and one output stand for all; what the executor decides for   *)
(* a whole graph is the subject of module Executor.                          *)
(***************************************************************************)
EXTENDS Naturals

CONSTANTS
    Processes,      \* the qbs processes
    Jobs,           \* what their users ask for, a subset of Job
    MaxTime,        \* bound on the edits, plus one
    MaxJobs,        \* bound on the jobs of all processes
    MaxCrashes,     \* bound on the crashes of all processes
    MaxFaults       \* bound on the failures to write the build graph file

Job == [kind : {"setup"}, dry : BOOLEAN, override : BOOLEAN, wait : BOOLEAN,
        restore : {"RestoreOnly", "ResolveOnly", "RestoreAndTrackChanges"}]
       \cup [kind : {"build", "clean"}, dry : BOOLEAN]

ASSUME JobsAssumption == Jobs \subseteq Job
ASSUME BoundsAssumption == {MaxTime, MaxJobs, MaxCrashes, MaxFaults} \subseteq Nat /\ MaxTime > 0
ASSUME ProcessesAssumption == {"free", "stale"} \cap Processes = {}

Time == 1 .. MaxTime

\* What a build graph says: the project file it was resolved from, when resolving it began,
\* the time stamp of the output (0 is an invalid one), and whether a dry run has set that.
Graph == [project : 0 .. MaxTime, resolved : 0 .. MaxTime, stamp : 0 .. MaxTime, dry : BOOLEAN]
Torn == [project |-> 0, resolved |-> 0, stamp |-> 0, dry |-> FALSE]

\* ProjectBuildData, with m_isDirty.  unmarked: a history of removeArtifact() having cleared it.
Data == [graph : Graph, dirty : BOOLEAN, unmarked : BOOLEAN]
NoData == [graph |-> Torn, dirty |-> FALSE, unmarked |-> FALSE]

File == [exists : BOOLEAN, magic : BOOLEAN, graph : Graph]
NoFile == [exists |-> FALSE, magic |-> FALSE, graph |-> Torn]

VARIABLES
    now,            \* the time
    projectFile,    \* the project file's time stamp
    source,         \* the source file's time stamp
    output,         \* the source the output was made from; 0: there is none, or a broken one
    file,           \* the build graph file
    lock,           \* the lock file: "free", its owner, or "stale" if the owner is dead
    proc,           \* the processes
    excused,        \* history: the output may differ from what the time stamps say of it
    jobs, crashes, faults

vars == <<now, projectFile, source, output, file, lock, proc, excused, jobs, crashes, faults>>
outputs == <<output, excused>>
world == <<now, projectFile, source>>
counters == <<jobs, crashes, faults>>

\* pc: where the process is in its job.  allocated: the setup job holds a locker of its own
\* (deleteLocker).  open: a TopLevelProject exists, and owns the locker.  data: its build data.
\* new: the build data of the project that the setup job is making.  seen: the time stamp of
\* the project file or of the source file that the job has looked at.
Process ==
    [pc : {"idle", "locking", "loading", "resolving", "reading", "building", "running",
           "cleaning", "storing", "opening", "writing", "finalizing", "finished"},
     job : Job, allocated : BOOLEAN, open : BOOLEAN, data : Data, new : Data,
     seen : 0 .. MaxTime, failed : BOOLEAN]

NoJob == [kind |-> "build", dry |-> FALSE]
Fresh == [pc |-> "idle", job |-> NoJob, allocated |-> FALSE, open |-> FALSE,
          data |-> NoData, new |-> NoData, seen |-> 0, failed |-> FALSE]

TypeOK ==
    /\ {now, projectFile, source} \subseteq Time
    /\ output \in 0 .. MaxTime
    /\ file \in File
    /\ lock \in Processes \cup {"free", "stale"}
    /\ proc \in [Processes -> Process]
    /\ excused \in BOOLEAN
    /\ jobs \in 0 .. MaxJobs /\ crashes \in 0 .. MaxCrashes /\ faults \in 0 .. MaxFaults

Init ==
    /\ now = 1 /\ projectFile = 1 /\ source = 1 /\ output = 0
    /\ file = NoFile
    /\ lock = "free"
    /\ proc = [p \in Processes |-> Fresh]
    /\ excused = FALSE
    /\ jobs = 0 /\ crashes = 0 /\ faults = 0

----------------------------------------------------------------------------
(* The user.                                                               *)

EditProject ==
    /\ now < MaxTime
    /\ now' = now + 1 /\ projectFile' = now + 1
    /\ UNCHANGED <<source, outputs, file, lock, proc, counters>>

EditSource ==
    /\ now < MaxTime
    /\ now' = now + 1 /\ source' = now + 1
    /\ UNCHANGED <<projectFile, outputs, file, lock, proc, counters>>

\* A job of the API: the set up of a project, which may be open already (m_existingProject, no
\* new locker then), or a build or the cleaning of an open project.
StartJob(p, j) ==
    /\ proc[p].pc = "idle" /\ jobs < MaxJobs
    /\ j.kind = "setup" \/ proc[p].open
    /\ jobs' = jobs + 1
    /\ proc' = [proc EXCEPT
           ![p].pc = CASE j.kind = "build" -> "building"
                       [] j.kind = "clean" -> "cleaning"
                       [] OTHER -> IF proc[p].open THEN "loading" ELSE "locking",
           ![p].job = j]
    /\ UNCHANGED <<world, outputs, file, lock, crashes, faults>>

\* A process goes without having stored that the output is missing: a history of what nobody can
\* know afterwards, other than by checking the outputs.
Forget ==
    excused' = (excused \/ (file.magic /\ output = 0 /\ file.graph.stamp # 0))

\* The client drops its project: the destructor of TopLevelProject deletes the locker.
Release(p) ==
    /\ proc[p].pc = "idle" /\ proc[p].open
    /\ proc' = [proc EXCEPT ![p] = Fresh]
    /\ lock' = "free"
    /\ Forget
    /\ UNCHANGED <<world, output, file, counters>>

\* The process is gone, and leaves its lock file behind.  A command that it runs dies with it.
Die(p) ==
    /\ proc' = [proc EXCEPT ![p] = Fresh]
    /\ lock' = IF lock = p THEN "stale" ELSE lock
    /\ Forget
    /\ UNCHANGED <<world, output, file>>

\* The process is killed.
Crash(p) ==
    /\ proc[p] # Fresh /\ crashes < MaxCrashes
    /\ crashes' = crashes + 1
    /\ Die(p)
    /\ UNCHANGED <<jobs, faults>>

----------------------------------------------------------------------------
(* InternalSetupProjectJob::start() and BuildGraphLocker.                  *)

\* Mutant: the lock of a dead process is respected forever.
TryLockFree(p) ==
    /\ proc[p].pc = "locking"
    /\ lock = "free"
    /\ lock' = p
    /\ proc' = [proc EXCEPT ![p].pc = "loading", ![p].allocated = TRUE]
    /\ UNCHANGED <<world, outputs, file, counters>>

\* QLockFile::tryLock(): creates the lock file, or takes over that of a dead process.
TryLock(p) ==
    /\ proc[p].pc = "locking"
    /\ lock \in {"free", "stale"}
    /\ lock' = p
    /\ proc' = [proc EXCEPT ![p].pc = "loading", ![p].allocated = TRUE]
    /\ UNCHANGED <<world, outputs, file, counters>>

\* Mutant: the locker is deleted whoever allocated it.
AbortSetupUnlocked(p) ==
    /\ proc' = [proc EXCEPT ![p].pc = "finished", ![p].allocated = FALSE, ![p].new = NoData,
                            ![p].failed = TRUE]
    /\ lock' = IF lock = p THEN "free" ELSE lock

\* The catch block of start(): the locker is deleted if and only if it was allocated here.
AbortSetup(p) ==
    /\ proc' = [proc EXCEPT ![p].pc = "finished", ![p].allocated = FALSE, ![p].new = NoData,
                            ![p].failed = TRUE]
    /\ lock' = IF proc[p].allocated THEN "free" ELSE lock

\* tryLock() fails for a process that does not wait: it gives up, naming the owner if it can.
LockFails(p) ==
    /\ proc[p].pc = "locking" /\ ~proc[p].job.wait
    /\ lock # "free"
    /\ AbortSetup(p)
    /\ UNCHANGED <<world, outputs, file, counters>>

\* One that waits tries until it is canceled.
CancelLocking(p) ==
    /\ proc[p].pc = "locking" /\ proc[p].job.wait
    /\ AbortSetup(p)
    /\ UNCHANGED <<world, outputs, file, counters>>

\* The owner's process id belongs to some other program now.
RemoveStaleLock(p) ==
    /\ proc[p].pc = "locking" /\ ~proc[p].job.wait
    /\ lock = "stale"
    /\ lock' = "free"
    /\ UNCHANGED <<world, outputs, file, proc, counters>>

\* The new project replaces the existing one and takes the locker over.  What remains of the
\* setup job, the attempt to store the build graph, cannot undo that.
Adopt(p, data, seen) ==
    [proc[p] EXCEPT !.pc = "storing", !.open = TRUE, !.allocated = FALSE, !.data = data,
                    !.new = NoData, !.seen = seen]

\* BuildGraphLoader::load() has found data: with RestoreOnly it is used as it is, otherwise
\* the project file's time stamp tells whether the project has to be resolved again.
TrackProjectChanges(p, data) ==
    LET changed == /\ proc[p].job.restore = "RestoreAndTrackChanges"
                   /\ data.graph.resolved < projectFile
    IN  proc' = [proc EXCEPT ![p] =
            IF ~changed
            THEN Adopt(p, data, projectFile)
            ELSE [@ EXCEPT !.pc = "resolving", !.new = [data EXCEPT !.dirty = TRUE],
                           !.data.dirty = proc[p].open, !.seen = projectFile]]

\* The project is resolved from scratch; its build data is dirty from the start.
StartFromScratch(p) ==
    proc' = [proc EXCEPT ![p].pc = "resolving", ![p].new = [NoData EXCEPT !.dirty = TRUE],
                         ![p].seen = projectFile]

\* A file that is not a whole build graph is passed over with overrideBuildGraphData, in favour of
\* resolving anew.
PassedOver(p) == file.exists /\ ~file.magic /\ proc[p].job.override

\* BuildGraphLoader::loadBuildGraphFromDisk() and PersistentPool::load().
LoadFromDisk(p) ==
    \/ /\ file.magic
       /\ TrackProjectChanges(p, [NoData EXCEPT !.graph = file.graph])
       /\ UNCHANGED lock
    \/ /\ ~file.exists /\ proc[p].job.restore = "RestoreOnly"
       /\ AbortSetup(p)
    \/ /\ ~file.exists /\ proc[p].job.restore # "RestoreOnly"
       /\ StartFromScratch(p)
       /\ UNCHANGED lock
    \/ /\ file.exists /\ ~file.magic /\ ~proc[p].job.override
       /\ AbortSetup(p)
    \/ /\ PassedOver(p) /\ proc[p].job.restore # "RestoreOnly"
       /\ StartFromScratch(p)
       /\ UNCHANGED lock

\* InternalSetupProjectJob::execute() up to the point where the project is resolved.
Load(p) ==
    /\ proc[p].pc = "loading"
    /\ \/ /\ proc[p].job.restore = "ResolveOnly"
          /\ StartFromScratch(p)
          /\ UNCHANGED lock
       \/ /\ proc[p].job.restore # "ResolveOnly" /\ proc[p].open
          /\ TrackProjectChanges(p, proc[p].data)
          /\ UNCHANGED lock
       \/ /\ proc[p].job.restore # "ResolveOnly" /\ ~proc[p].open
          /\ LoadFromDisk(p)
    /\ UNCHANGED <<world, outputs, file, counters>>

\* RestoreOnly resolves nothing: execute() is left without a project, and goes on to store it.
\* The null pointer ends the process.
LoadNothing(p) ==
    /\ proc[p].pc = "loading" /\ ~proc[p].open
    /\ PassedOver(p) /\ proc[p].job.restore = "RestoreOnly"
    /\ Die(p)
    /\ UNCHANGED counters

\* Loader::loadProject() notes the time at which it starts.  It may read the project file at
\* once ...
StartResolving(p) ==
    /\ proc[p].pc = "resolving"
    /\ proc' = [proc EXCEPT ![p].pc = "reading", ![p].new.graph.resolved = now,
                            ![p].new.graph.project = projectFile]
    /\ UNCHANGED <<world, outputs, file, lock, counters>>

\* onProductRemoved() for products that the project file does not have any more: removeArtifact()
\* marks the build data as unchanged.  It stays that way unless new or changed products are
\* resolved as well.
RemoveProducts(p, data) ==
    LET tracking == proc[p].job.restore = "RestoreAndTrackChanges" /\ (proc[p].open \/ file.magic)
    IN  {data} \cup IF tracking THEN {[data EXCEPT !.dirty = FALSE, !.unmarked = TRUE]} ELSE {}

\* Mutant: the end of resolving is what later edits are compared with.
ReadProjectEndTime(p) ==
    /\ proc[p].pc = "reading"
    /\ \E stamp \in {proc[p].new.graph.stamp, 0}, read \in {proc[p].new.graph.project, projectFile} :
           LET graph == [proc[p].new.graph EXCEPT !.project = read, !.stamp = stamp,
                                                  !.dry = proc[p].new.graph.dry /\ stamp # 0, !.resolved = now]
           IN  \E data \in RemoveProducts(p, [proc[p].new EXCEPT !.graph = graph]) :
                   proc' = [proc EXCEPT ![p] = Adopt(p, data, proc[p].seen)]
    /\ UNCHANGED <<world, outputs, file, lock, counters>>

\* ... or only at the end.  The output's time stamp is kept, moved over or rescued, unless the
\* product has changed too much.
ReadProject(p) ==
    /\ proc[p].pc = "reading"
    /\ \E stamp \in {proc[p].new.graph.stamp, 0}, read \in {proc[p].new.graph.project, projectFile} :
           LET graph == [proc[p].new.graph EXCEPT !.project = read, !.stamp = stamp,
                                                  !.dry = proc[p].new.graph.dry /\ stamp # 0]
           IN  \E data \in RemoveProducts(p, [proc[p].new EXCEPT !.graph = graph]) :
                   proc' = [proc EXCEPT ![p] = Adopt(p, data, proc[p].seen)]
    /\ UNCHANGED <<world, outputs, file, lock, counters>>

\* The project file has an error.  The existing project stays as it is.
ResolvingFails(p) ==
    /\ proc[p].pc = "reading"
    /\ AbortSetup(p)
    /\ UNCHANGED <<world, outputs, file, counters>>

----------------------------------------------------------------------------
(* InternalBuildJob and InternalCleanJob.                                  *)

\* Executor::isUpToDate(), after the source file's time stamp has been retrieved.
UpToDate(g) == g.stamp # 0 /\ ~(g.stamp < source)

\* The command starts to read the source file and to write its output, in earnest or not.
StartCommand(p) ==
    /\ proc[p].pc = "building"
    /\ ~UpToDate(proc[p].data.graph)
    /\ proc' = [proc EXCEPT ![p].pc = "running", ![p].seen = source]
    /\ output' = IF proc[p].job.dry THEN output ELSE 0
    /\ excused' = (excused /\ proc[p].job.dry)
    /\ UNCHANGED <<world, file, lock, counters>>

NothingToBuild(p) ==
    /\ proc[p].pc = "building"
    /\ UpToDate(proc[p].data.graph)
    /\ proc' = [proc EXCEPT ![p].pc = "storing", ![p].seen = source]
    /\ UNCHANGED <<world, outputs, file, lock, counters>>

\* Mutant: the build data is not marked as changed.
FinishCommandClean(p) ==
    /\ proc[p].pc = "running"
    /\ proc' = [proc EXCEPT ![p].pc = "storing", ![p].data.graph.stamp = now,
                            ![p].data.graph.dry = proc[p].job.dry]
    /\ output' = IF proc[p].job.dry THEN output ELSE proc[p].seen
    /\ excused' = (excused \/ (~proc[p].job.dry /\ proc[p].seen # source))
    /\ UNCHANGED <<world, file, lock, counters>>

\* Executor::finishJob() with success, and the end of the build.
FinishCommand(p) ==
    /\ proc[p].pc = "running"
    /\ proc' = [proc EXCEPT ![p].pc = "storing", ![p].data.dirty = TRUE,
                            ![p].data.graph.stamp = now,
                            ![p].data.graph.dry = proc[p].job.dry]
    /\ output' = IF proc[p].job.dry THEN output ELSE proc[p].seen
    /\ excused' = (excused \/ (~proc[p].job.dry /\ proc[p].seen # source))
    /\ UNCHANGED <<world, file, lock, counters>>

\* Mutant: the time stamp is set whether the command was successful or not.
CommandFailsStamped(p) ==
    /\ proc[p].pc = "running" /\ ~proc[p].job.dry
    /\ proc' = [proc EXCEPT ![p].pc = "storing", ![p].failed = TRUE,
                            ![p].data.graph.stamp = now, ![p].data.dirty = TRUE]
    /\ UNCHANGED <<world, outputs, file, lock, counters>>

CommandFails(p) ==
    /\ proc[p].pc = "running" /\ ~proc[p].job.dry
    /\ proc' = [proc EXCEPT ![p].pc = "storing", ![p].failed = TRUE]
    /\ UNCHANGED <<world, outputs, file, lock, counters>>

\* ArtifactCleaner::cleanup(): the time stamp is invalidated before the file is removed, which
\* may fail.
Clean(p) ==
    LET invalidate == ~proc[p].job.dry /\ proc[p].data.graph.stamp # 0
    IN  /\ proc[p].pc = "cleaning"
        /\ \E failed \in BOOLEAN :
               /\ failed => output # 0 /\ ~proc[p].job.dry
               /\ proc' = [proc EXCEPT ![p].pc = "storing", ![p].failed = failed,
                                       ![p].data.graph.stamp = IF invalidate THEN 0 ELSE proc[p].data.graph.stamp,
                                       ![p].data.graph.dry = proc[p].data.graph.dry /\ ~invalidate,
                                       ![p].data.dirty = proc[p].data.dirty \/ invalidate]
               /\ output' = IF failed \/ proc[p].job.dry THEN output ELSE 0
        /\ UNCHANGED <<world, excused, file, lock, counters>>

----------------------------------------------------------------------------
(* InternalJob::storeBuildGraph(), TopLevelProject::store() and the writing *)
(* half of PersistentPool.                                                 *)

Write(p, pc) == proc' = [proc EXCEPT ![p].pc = pc]

\* The job's error; the build data stays dirty.
StoringFails(p) ==
    /\ faults < MaxFaults /\ faults' = faults + 1
    /\ proc' = [proc EXCEPT ![p].pc = "finished", ![p].failed = TRUE]
    /\ UNCHANGED <<world, outputs, lock, jobs, crashes>>

\* A dry run does not store; neither is anything stored that has not changed.
NothingToStore(p) ==
    /\ proc[p].pc = "storing"
    /\ proc[p].job.dry \/ ~proc[p].data.dirty
    /\ Write(p, "finished")
    /\ UNCHANGED <<world, outputs, file, lock, counters>>

\* PersistentPool::setupWriteStream() removes the old file, ...
RemoveOldFile(p) ==
    /\ proc[p].pc = "storing"
    /\ ~proc[p].job.dry /\ proc[p].data.dirty
    /\ \/ /\ Write(p, "opening")
          /\ file' = NoFile
          /\ UNCHANGED <<world, outputs, lock, counters>>
       \/ file.exists /\ StoringFails(p) /\ UNCHANGED file

\* Mutant: the magic token is written first.
SetupWriteStreamMagic(p) ==
    /\ proc[p].pc = "opening"
    /\ \/ /\ Write(p, "writing")
          /\ file' = [exists |-> TRUE, magic |-> TRUE, graph |-> Torn]
          /\ UNCHANGED <<world, outputs, lock, counters>>
       \/ StoringFails(p) /\ UNCHANGED file

\* ... and opens a new one that starts with zeros in place of the magic token.
SetupWriteStream(p) ==
    /\ proc[p].pc = "opening"
    /\ \/ /\ Write(p, "writing")
          /\ file' = [exists |-> TRUE, magic |-> FALSE, graph |-> Torn]
          /\ UNCHANGED <<world, outputs, lock, counters>>
       \/ StoringFails(p) /\ UNCHANGED file

\* TopLevelProject::store(): the contents.
StoreObjects(p) ==
    /\ proc[p].pc = "writing"
    /\ Write(p, "finalizing")
    /\ file' = [file EXCEPT !.graph = proc[p].data.graph]
    /\ UNCHANGED <<world, outputs, lock, counters>>

\* PersistentPool::finalizeWriteStream() writes the magic token; then the data is clean.  The
\* stream may have failed, which leaves the file as it is, or flushing may, which removes it.
FinalizeWriteStream(p) ==
    /\ proc[p].pc = "finalizing"
    /\ \/ /\ file' = [file EXCEPT !.magic = TRUE]
          /\ proc' = [proc EXCEPT ![p].pc = "finished", ![p].data.dirty = FALSE,
                                  ![p].data.unmarked = FALSE]
          /\ UNCHANGED <<world, outputs, lock, counters>>
       \/ StoringFails(p) /\ file' \in {file, NoFile}

\* The job's finished() signal; the job object goes.
FinishJob(p) ==
    /\ proc[p].pc = "finished"
    /\ proc' = [proc EXCEPT ![p].pc = "idle", ![p].job = NoJob, ![p].seen = 0,
                            ![p].failed = FALSE]
    /\ UNCHANGED <<world, outputs, file, lock, counters>>

----------------------------------------------------------------------------

\* What a process does without being asked.
Step(p) ==
    \/ TryLock(p) \/ LockFails(p) \/ RemoveStaleLock(p)
    \/ Load(p) \/ LoadNothing(p) \/ StartResolving(p) \/ ReadProject(p) \/ ResolvingFails(p)
    \/ StartCommand(p) \/ NothingToBuild(p) \/ FinishCommand(p) \/ CommandFails(p)
    \/ Clean(p)
    \/ NothingToStore(p) \/ RemoveOldFile(p) \/ SetupWriteStream(p) \/ StoreObjects(p)
    \/ FinalizeWriteStream(p) \/ FinishJob(p)

Next ==
    \/ EditProject \/ EditSource
    \/ \E p \in Processes : \/ \E j \in Jobs : StartJob(p, j)
                            \/ Step(p) \/ CancelLocking(p) \/ Release(p) \/ Crash(p)

Spec == Init /\ [][Next]_vars

Fairness == \A p \in Processes : WF_vars(Step(p))
FairSpec == Spec /\ Fairness

----------------------------------------------------------------------------
(* Properties.                                                             *)

\* A process that works with the build graph.
Using(p) == proc[p].open \/ proc[p].pc \notin {"idle", "locking", "finished"}

\* Two processes never work with the same build graph, whatever locks dead processes have
\* left behind and however often a project is set up again, successfully or not.
OneUser == \A p, q \in Processes : Using(p) /\ Using(q) => p = q

\* Nobody ever works with half a build graph: a process that was killed while it wrote the
\* file leaves one that is not mistaken for a complete one.
GraphsAreWhole ==
    \A p \in Processes : proc[p].open => proc[p].data.graph.resolved # 0 /\ proc[p].data.graph.project # 0

Stored(p) == file.magic /\ file.graph = proc[p].data.graph

\* Whenever no job uses a project and it is not dirty, the file holds its build graph, so that
\* not storing it again loses nothing.  The projects are left out from which products have
\* disappeared: see UnchangedMeansStored.
CleanMeansStored ==
    \A p \in Processes :
        proc[p].open /\ proc[p].pc = "idle" /\ ~proc[p].data.dirty /\ ~proc[p].data.unmarked =>
            Stored(p)

\* What TopLevelProject::store() says when it does not store anything, "build graph is unchanged
\* in project", is true.
UnchangedMeansStored ==
    \A p \in Processes : proc[p].open /\ proc[p].pc = "idle" /\ ~proc[p].data.dirty => Stored(p)

\* After a successful setup the project is that of the project file, unless the file was edited
\* while the job was running; and the next setup notices that.
ProjectIsCurrent ==
    \A p \in Processes :
        /\ proc[p].pc = "finished" /\ proc[p].job.kind = "setup" /\ ~proc[p].failed
        /\ proc[p].job.restore = "RestoreAndTrackChanges"
        /\ proc[p].seen = projectFile
        => proc[p].data.graph.project = projectFile

\* After a successful build the output is that of the source file, after any number of jobs that
\* have failed, were killed, or could not store the build graph.  It may be different if the
\* source file was edited while the command was running, since the output is newer then (the
\* time stamp is taken when the command has finished); if a process that had removed the output
\* ended before it could store that; and if a dry run has declared the output up to date.
FreshAfterBuild ==
    \A p \in Processes :
        /\ proc[p].pc = "finished" /\ proc[p].job.kind = "build" /\ ~proc[p].failed
        /\ ~proc[p].job.dry /\ ~proc[p].data.graph.dry
        /\ proc[p].seen = source /\ ~excused
        => output = source

\* Every job ends, with success or not or with the death of its process, unless it waits for the
\* lock that an idle process keeps with its open project: neither a crash, the one that
\* RestoreOnly makes of an unreadable graph included, nor a failure leaves a lock that nobody can
\* get or a job that never comes to its end.
EveryJobEnds ==
    \A p \in Processes :
        proc[p].pc # "idle" ~>
            \/ proc[p].pc = "idle"
            \/ proc[p].pc = "locking" /\ \E q \in Processes \ {p} : proc[q].pc = "idle" /\ proc[q].open
=============================================================================
