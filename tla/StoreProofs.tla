------------------------------ MODULE StoreProofs ------------------------------
(***************************************************************************)
(* Theorems about BuildGraphStore, for any set of processes, any jobs and any *)
(* bounds: types, the lock, the wholeness of build graphs, and their data.    *)
(*                                                                           *)
(* The records of the processes are deep, and an action changes several of   *)
(* their fields at once.  The lemmas about updates say that each such change, *)
(* taken alone, keeps the type; the type of an action's result then follows   *)
(* one field after the other.                                                *)
(***************************************************************************)
EXTENDS BuildGraphStore, TLAPS

\* The stages of a process, and the values of proc.
Stages == {"idle", "locking", "loading", "resolving", "reading", "building", "running",
           "cleaning", "storing", "opening", "writing", "finalizing", "finished"}
Procs == [Processes -> Process]

\* Changing one field of a build graph.
LEMMA GraphUpdates ==
    ASSUME NEW g \in Graph
    PROVE  /\ g.stamp \in 0 .. MaxTime /\ g.project \in 0 .. MaxTime /\ g.resolved \in 0 .. MaxTime
           /\ g.dry \in BOOLEAN
           /\ \A x \in 0 .. MaxTime : /\ [g EXCEPT !.stamp = x] \in Graph
                                      /\ [g EXCEPT !.project = x] \in Graph
                                      /\ [g EXCEPT !.resolved = x] \in Graph
           /\ \A x \in BOOLEAN : [g EXCEPT !.dry = x] \in Graph
  BY DEF Graph

\* Changing one field of some build data.
LEMMA DataUpdates ==
    ASSUME NEW d \in Data
    PROVE  /\ d.graph \in Graph /\ d.dirty \in BOOLEAN /\ d.unmarked \in BOOLEAN
           /\ \A x \in Graph : [d EXCEPT !.graph = x] \in Data
           /\ \A x \in BOOLEAN : [d EXCEPT !.dirty = x] \in Data /\ [d EXCEPT !.unmarked = x] \in Data
           /\ \A x \in 0 .. MaxTime : /\ [d EXCEPT !.graph.stamp = x] \in Data
                                      /\ [d EXCEPT !.graph.project = x] \in Data
                                      /\ [d EXCEPT !.graph.resolved = x] \in Data
           /\ \A x \in BOOLEAN : [d EXCEPT !.graph.dry = x] \in Data
  <1>1. /\ d.graph \in Graph /\ d.dirty \in BOOLEAN /\ d.unmarked \in BOOLEAN
        /\ \A x \in Graph : [d EXCEPT !.graph = x] \in Data
        /\ \A x \in BOOLEAN : [d EXCEPT !.dirty = x] \in Data /\ [d EXCEPT !.unmarked = x] \in Data
    BY DEF Data
  <1> QED
    BY <1>1, GraphUpdates

\* Changing one field of a process.
LEMMA ProcessUpdates ==
    ASSUME NEW r \in Process
    PROVE  /\ r.data \in Data /\ r.new \in Data /\ r.job \in Job /\ r.pc \in Stages
           /\ r.seen \in 0 .. MaxTime /\ r.open \in BOOLEAN
           /\ \A x \in Stages : [r EXCEPT !.pc = x] \in Process
           /\ \A x \in Job : [r EXCEPT !.job = x] \in Process
           /\ \A x \in Data : [r EXCEPT !.data = x] \in Process /\ [r EXCEPT !.new = x] \in Process
           /\ \A x \in 0 .. MaxTime : [r EXCEPT !.seen = x] \in Process
           /\ \A x \in BOOLEAN : /\ [r EXCEPT !.failed = x] \in Process
                                 /\ [r EXCEPT !.open = x] \in Process
                                 /\ [r EXCEPT !.allocated = x] \in Process
                                 /\ [r EXCEPT !.data.dirty = x] \in Process
                                 /\ [r EXCEPT !.data.unmarked = x] \in Process
                                 /\ [r EXCEPT !.data.graph.dry = x] \in Process
           /\ \A x \in 0 .. MaxTime : /\ [r EXCEPT !.data.graph.stamp = x] \in Process
                                      /\ [r EXCEPT !.new.graph.resolved = x] \in Process
                                      /\ [r EXCEPT !.new.graph.project = x] \in Process
  <1>1. /\ r.data \in Data /\ r.new \in Data /\ r.job \in Job /\ r.pc \in Stages
        /\ r.seen \in 0 .. MaxTime /\ r.open \in BOOLEAN
        /\ \A x \in Stages : [r EXCEPT !.pc = x] \in Process
        /\ \A x \in Job : [r EXCEPT !.job = x] \in Process
        /\ \A x \in 0 .. MaxTime : [r EXCEPT !.seen = x] \in Process
        /\ \A x \in BOOLEAN : /\ [r EXCEPT !.failed = x] \in Process
                              /\ [r EXCEPT !.open = x] \in Process
                              /\ [r EXCEPT !.allocated = x] \in Process
    BY DEF Process, Stages
  <1>2. \A x \in Data : [r EXCEPT !.data = x] \in Process /\ [r EXCEPT !.new = x] \in Process
    BY DEF Process
  <1>3. \A x \in BOOLEAN : /\ [r EXCEPT !.data.dirty = x] \in Process
                           /\ [r EXCEPT !.data.unmarked = x] \in Process
                           /\ [r EXCEPT !.data.graph.dry = x] \in Process
    BY <1>1, <1>2, DataUpdates
  <1>4. \A x \in 0 .. MaxTime : /\ [r EXCEPT !.data.graph.stamp = x] \in Process
                                /\ [r EXCEPT !.new.graph.resolved = x] \in Process
                                /\ [r EXCEPT !.new.graph.project = x] \in Process
    BY <1>1, <1>2, DataUpdates
  <1> QED
    BY <1>1, <1>2, <1>3, <1>4

\* Changing one field of one process.
LEMMA Updates ==
    ASSUME NEW f \in Procs, NEW p \in Processes
    PROVE  /\ f[p] \in Process
           /\ \A x \in Process : [f EXCEPT ![p] = x] \in Procs
           /\ \A x \in Stages : [f EXCEPT ![p].pc = x] \in Procs
           /\ \A x \in Job : [f EXCEPT ![p].job = x] \in Procs
           /\ \A x \in Data : [f EXCEPT ![p].new = x] \in Procs
           /\ \A x \in 0 .. MaxTime : /\ [f EXCEPT ![p].seen = x] \in Procs
                                      /\ [f EXCEPT ![p].data.graph.stamp = x] \in Procs
                                      /\ [f EXCEPT ![p].new.graph.resolved = x] \in Procs
                                      /\ [f EXCEPT ![p].new.graph.project = x] \in Procs
           /\ \A x \in BOOLEAN : /\ [f EXCEPT ![p].failed = x] \in Procs
                                 /\ [f EXCEPT ![p].allocated = x] \in Procs
                                 /\ [f EXCEPT ![p].data.dirty = x] \in Procs
                                 /\ [f EXCEPT ![p].data.unmarked = x] \in Procs
                                 /\ [f EXCEPT ![p].data.graph.dry = x] \in Procs
  <1>1. /\ f[p] \in Process
        /\ \A x \in Process : [f EXCEPT ![p] = x] \in Procs
    BY DEF Procs
  <1> QED
    BY <1>1, ProcessUpdates

\* The constants that the actions assign.
LEMMA ConstantTypes ==
    /\ Torn \in Graph /\ NoData \in Data /\ NoFile \in File /\ NoJob \in Job /\ Fresh \in Process
    /\ \A g \in Graph : [exists |-> TRUE, magic |-> FALSE, graph |-> g] \in File
  <1>1. Torn \in Graph
    BY BoundsAssumption DEF Torn, Graph
  <1>2. NoData \in Data /\ NoFile \in File
    BY <1>1 DEF NoData, Data, NoFile, File
  <1>3. NoJob \in Job
    BY DEF NoJob, Job
  <1>4. Fresh \in Process
    BY <1>2, <1>3, BoundsAssumption DEF Fresh, Process
  <1> QED
    BY <1>1, <1>2, <1>3, <1>4 DEF File

\* Time stamps and their invalid value.
LEMMA TimeType == Time \subseteq 0 .. MaxTime /\ 0 \in 0 .. MaxTime
  BY BoundsAssumption DEF Time

----------------------------------------------------------------------------
(* Types.                                                                  *)

\* The ways in which a setup goes on or ends.
LEMMA SetupTypes ==
    ASSUME TypeOK, NEW p \in Processes, NEW data \in Data
    PROVE  /\ TrackProjectChanges(p, data) => proc' \in Procs
           /\ StartFromScratch(p) => proc' \in Procs
           /\ AbortSetup(p) => proc' \in Procs /\ lock' \in Processes \cup {"free", "stale"}
           /\ \A seen \in 0 .. MaxTime : Adopt(p, data, seen) \in Process
  <1>1. proc \in Procs /\ projectFile \in 0 .. MaxTime /\ proc[p] \in Process
    BY TimeType DEF TypeOK, Procs
  <1>2. ASSUME NEW seen \in 0 .. MaxTime PROVE Adopt(p, data, seen) \in Process
    <2> DEFINE r1 == [proc[p] EXCEPT !.pc = "storing"]
               r2 == [r1 EXCEPT !.open = TRUE]
               r3 == [r2 EXCEPT !.allocated = FALSE]
               r4 == [r3 EXCEPT !.data = data]
               r5 == [r4 EXCEPT !.new = NoData]
               r6 == [r5 EXCEPT !.seen = seen]
    <2>1. r1 \in Process
      BY <1>1, ProcessUpdates DEF Stages
    <2>2. r2 \in Process
      BY <2>1, ProcessUpdates
    <2>3. r3 \in Process
      BY <2>2, ProcessUpdates
    <2>4. r4 \in Process
      BY <2>3, ProcessUpdates
    <2>5. r5 \in Process
      BY <2>4, ProcessUpdates, ConstantTypes
    <2>6. r6 \in Process
      BY <2>5, ProcessUpdates
    <2> QED
      BY <2>6 DEF Adopt
  <1>3. ASSUME TrackProjectChanges(p, data) PROVE proc' \in Procs
    <2> DEFINE r1 == [proc[p] EXCEPT !.pc = "resolving"]
               r2 == [r1 EXCEPT !.new = [data EXCEPT !.dirty = TRUE]]
               r3 == [r2 EXCEPT !.data.dirty = proc[p].open]
               r4 == [r3 EXCEPT !.seen = projectFile]
    <2>1. r1 \in Process
      BY <1>1, ProcessUpdates DEF Stages
    <2>2. r2 \in Process
      BY <2>1, ProcessUpdates, DataUpdates
    <2>3. r3 \in Process
      BY <1>1, <2>2, ProcessUpdates
    <2>4. r4 \in Process
      BY <1>1, <2>3, ProcessUpdates
    <2>5. proc' = [proc EXCEPT ![p] = Adopt(p, data, projectFile)] \/ proc' = [proc EXCEPT ![p] = r4]
      BY <1>3, <1>1 DEF TrackProjectChanges, Procs
    <2> HIDE DEF r4
    <2> QED
      BY <1>1, <1>2, <2>4, <2>5, Updates
  <1>4. ASSUME StartFromScratch(p) PROVE proc' \in Procs
    <2> DEFINE f1 == [proc EXCEPT ![p].pc = "resolving"]
               f2 == [f1 EXCEPT ![p].new = [NoData EXCEPT !.dirty = TRUE]]
    <2>1. f1 \in Procs
      BY <1>1, Updates DEF Stages
    <2>2. [NoData EXCEPT !.dirty = TRUE] \in Data
      BY ConstantTypes, DataUpdates
    <2>3. f2 \in Procs
      BY <2>1, <2>2, Updates
    <2>4. proc' = [f2 EXCEPT ![p].seen = projectFile]
      BY <1>4 DEF StartFromScratch
    <2> HIDE DEF f2
    <2> QED
      BY <1>1, <2>3, <2>4, Updates
  <1>5. ASSUME AbortSetup(p) PROVE proc' \in Procs /\ lock' \in Processes \cup {"free", "stale"}
    <2> DEFINE f1 == [proc EXCEPT ![p].pc = "finished"]
               f2 == [f1 EXCEPT ![p].allocated = FALSE]
               f3 == [f2 EXCEPT ![p].new = NoData]
    <2>1. f1 \in Procs
      BY <1>1, Updates DEF Stages
    <2>2. f2 \in Procs
      BY <2>1, Updates
    <2>3. f3 \in Procs
      BY <2>2, Updates, ConstantTypes
    <2>4. proc' = [f3 EXCEPT ![p].failed = TRUE]
      BY <1>5 DEF AbortSetup
    <2>5. lock' \in Processes \cup {"free", "stale"}
      BY <1>5 DEF AbortSetup, TypeOK
    <2> HIDE DEF f3
    <2> QED
      BY <2>3, <2>4, <2>5, Updates
  <1> QED
    BY <1>2, <1>3, <1>4, <1>5

\* InternalSetupProjectJob::execute().
LEMMA LoadTypes ==
    ASSUME TypeOK, NEW p \in Processes, Load(p)
    PROVE  proc' \in Procs /\ lock' \in Processes \cup {"free", "stale"}
  <1>1. proc[p].data \in Data /\ [NoData EXCEPT !.graph = file.graph] \in Data /\ NoData \in Data
    BY ConstantTypes, DataUpdates, ProcessUpdates DEF TypeOK, File
  <1> QED
    BY <1>1, SetupTypes DEF Load, LoadFromDisk, TypeOK

\* The end of resolving.
LEMMA ReadTypes ==
    ASSUME TypeOK, NEW p \in Processes, ReadProject(p)
    PROVE  proc' \in Procs
  <1>1. /\ proc \in Procs /\ proc[p] \in Process /\ proc[p].new \in Data
        /\ proc[p].new.graph \in Graph /\ proc[p].seen \in 0 .. MaxTime /\ projectFile \in 0 .. MaxTime
    BY TimeType, ProcessUpdates, DataUpdates DEF TypeOK, Procs
  <1>2. PICK stamp \in {proc[p].new.graph.stamp, 0},
             read \in {proc[p].new.graph.project, projectFile} :
             \E data \in RemoveProducts(p, [proc[p].new EXCEPT !.graph =
                             [proc[p].new.graph EXCEPT !.project = read, !.stamp = stamp,
                                                       !.dry = proc[p].new.graph.dry /\ stamp # 0]]) :
                 proc' = [proc EXCEPT ![p] = Adopt(p, data, proc[p].seen)]
    BY DEF ReadProject
  <1> DEFINE g1 == [proc[p].new.graph EXCEPT !.project = read]
             g2 == [g1 EXCEPT !.stamp = stamp]
             dry == proc[p].new.graph.dry /\ stamp # 0
             g3 == [g2 EXCEPT !.dry = dry]
             new == [proc[p].new EXCEPT !.graph = g3]
  <1>3. g1 \in Graph
    BY <1>1, GraphUpdates
  <1>4. g2 \in Graph
    BY <1>1, <1>3, GraphUpdates, TimeType
  <1>5. g3 \in Graph
    <2>1. dry \in BOOLEAN
      OBVIOUS
    <2> HIDE DEF dry, g2
    <2> QED
      BY <1>4, <2>1, GraphUpdates
  <1>6. new \in Data
    BY <1>1, <1>5, DataUpdates
  <1>7. PICK data \in RemoveProducts(p, new) :
             proc' = [proc EXCEPT ![p] = Adopt(p, data, proc[p].seen)]
    BY <1>2
  <1> HIDE DEF new
  <1>8. data \in Data
    <2> DEFINE d1 == [new EXCEPT !.dirty = FALSE]
    <2>1. d1 \in Data
      BY <1>6, DataUpdates
    <2>2. [d1 EXCEPT !.unmarked = TRUE] \in Data
      BY <2>1, DataUpdates
    <2>3. data = new \/ data = [d1 EXCEPT !.unmarked = TRUE]
      BY <1>7 DEF RemoveProducts
    <2> HIDE DEF d1
    <2> QED
      BY <1>6, <2>2, <2>3
  <1> QED
    BY <1>1, <1>7, <1>8, SetupTypes, Updates

\* The begin of resolving.
LEMMA ResolveTypes ==
    ASSUME TypeOK, NEW p \in Processes, StartResolving(p)
    PROVE  proc' \in Procs
  <1> DEFINE f1 == [proc EXCEPT ![p].pc = "reading"]
             f2 == [f1 EXCEPT ![p].new.graph.resolved = now]
  <1>1. proc \in Procs /\ now \in 0 .. MaxTime /\ projectFile \in 0 .. MaxTime
    BY TimeType DEF TypeOK, Procs
  <1>2. f1 \in Procs
    BY <1>1, Updates DEF Stages
  <1> HIDE DEF f1
  <1>3. f2 \in Procs
    BY <1>1, <1>2, Updates
  <1>4. proc' = [f2 EXCEPT ![p].new.graph.project = projectFile]
    BY DEF StartResolving, f1
  <1> HIDE DEF f2
  <1> QED
    BY <1>1, <1>3, <1>4, Updates

\* The steps of a build.
LEMMA CommandTypes ==
    ASSUME TypeOK, NEW p \in Processes
    PROVE  /\ StartCommand(p) => proc' \in Procs
           /\ NothingToBuild(p) => proc' \in Procs
           /\ CommandFails(p) => proc' \in Procs
           /\ FinishCommand(p) => proc' \in Procs
  <1>1. proc \in Procs /\ now \in 0 .. MaxTime /\ source \in 0 .. MaxTime
    BY TimeType DEF TypeOK, Procs
  <1>2. ASSUME NEW pc \in Stages PROVE [proc EXCEPT ![p].pc = pc] \in Procs
    BY <1>1, Updates
  <1>3. ASSUME NEW pc \in Stages PROVE [proc EXCEPT ![p].pc = pc, ![p].seen = source] \in Procs
    BY <1>1, <1>2, Updates
  <1>4. StartCommand(p) => proc' \in Procs
    BY <1>3 DEF StartCommand, Stages
  <1>5. NothingToBuild(p) => proc' \in Procs
    BY <1>3 DEF NothingToBuild, Stages
  <1>6. ASSUME CommandFails(p) PROVE proc' \in Procs
    <2> DEFINE f1 == [proc EXCEPT ![p].pc = "storing"]
    <2>1. f1 \in Procs
      BY <1>2 DEF Stages
    <2>2. proc' = [f1 EXCEPT ![p].failed = TRUE]
      BY <1>6 DEF CommandFails
    <2> HIDE DEF f1
    <2> QED
      BY <2>1, <2>2, Updates
  <1>7. ASSUME FinishCommand(p) PROVE proc' \in Procs
    <2> DEFINE f1 == [proc EXCEPT ![p].pc = "storing"]
               f2 == [f1 EXCEPT ![p].data.dirty = TRUE]
               f3 == [f2 EXCEPT ![p].data.graph.stamp = now]
    <2>1. f1 \in Procs
      BY <1>2 DEF Stages
    <2> HIDE DEF f1
    <2>2. f2 \in Procs
      BY <2>1, Updates
    <2> HIDE DEF f2
    <2>3. f3 \in Procs
      BY <1>1, <2>2, Updates
    <2>4. proc' = [f3 EXCEPT ![p].data.graph.dry = proc[p].job.dry]
      BY <1>7 DEF FinishCommand, f1, f2
    <2>5. proc[p].job.dry \in BOOLEAN
      BY <1>1, Updates, ProcessUpdates DEF Job
    <2> HIDE DEF f3
    <2> QED
      BY <2>3, <2>4, <2>5, Updates
  <1> QED
    BY <1>4, <1>5, <1>6, <1>7

\* ArtifactCleaner::cleanup().
LEMMA CleanTypes ==
    ASSUME TypeOK, NEW p \in Processes, Clean(p)
    PROVE  proc' \in Procs
  <1> DEFINE inv == ~proc[p].job.dry /\ proc[p].data.graph.stamp # 0
             stamp == IF inv THEN 0 ELSE proc[p].data.graph.stamp
             dry == proc[p].data.graph.dry /\ ~inv
             dirty == proc[p].data.dirty \/ inv
  <1>1. proc \in Procs
    BY DEF TypeOK, Procs
  <1>2. PICK failed \in BOOLEAN :
            proc' = [proc EXCEPT ![p].pc = "storing", ![p].failed = failed,
                                 ![p].data.graph.stamp = stamp,
                                 ![p].data.graph.dry = dry,
                                 ![p].data.dirty = dirty]
    BY DEF Clean
  <1>8. stamp \in 0 .. MaxTime /\ dry \in BOOLEAN /\ dirty \in BOOLEAN
    BY <1>1, Updates, ProcessUpdates, DataUpdates, GraphUpdates, TimeType
  <1> HIDE DEF stamp, dry, dirty
  <1> DEFINE f1 == [proc EXCEPT ![p].pc = "storing"]
             f2 == [f1 EXCEPT ![p].failed = failed]
             f3 == [f2 EXCEPT ![p].data.graph.stamp = stamp]
             f4 == [f3 EXCEPT ![p].data.graph.dry = dry]
  <1>3. f1 \in Procs
    BY <1>1, Updates DEF Stages
  <1> HIDE DEF f1
  <1>4. f2 \in Procs
    BY <1>3, Updates
  <1> HIDE DEF f2
  <1>5. f3 \in Procs
    BY <1>4, <1>8, Updates
  <1> HIDE DEF f3
  <1>6. f4 \in Procs
    BY <1>5, <1>8, Updates
  <1>7. proc' = [f4 EXCEPT ![p].data.dirty = dirty]
    BY <1>2 DEF f1, f2, f3
  <1> HIDE DEF f4
  <1> QED
    BY <1>6, <1>7, <1>8, Updates

\* The begin of a job.
LEMMA StartTypes ==
    ASSUME TypeOK, NEW p \in Processes, NEW j \in Jobs, StartJob(p, j)
    PROVE  proc' \in Procs
  <1> DEFINE pc == CASE j.kind = "build" -> "building"
                     [] j.kind = "clean" -> "cleaning"
                     [] OTHER -> IF proc[p].open THEN "loading" ELSE "locking"
             f1 == [proc EXCEPT ![p].pc = pc]
  <1>1. proc \in Procs
    BY DEF TypeOK, Procs
  <1>2. pc \in Stages
    BY DEF Stages
  <1>3. proc' = [f1 EXCEPT ![p].job = j]
    BY DEF StartJob
  <1> HIDE DEF pc
  <1>4. f1 \in Procs
    BY <1>1, <1>2, Updates
  <1> HIDE DEF f1
  <1> QED
    BY <1>3, <1>4, Updates, JobsAssumption

\* The end of TopLevelProject::store().
LEMMA StoreTypes ==
    ASSUME TypeOK, NEW p \in Processes, StoreObjects(p) \/ FinalizeWriteStream(p)
    PROVE  proc' \in Procs /\ file' \in File /\ faults' \in 0 .. MaxFaults
  <1>1. proc \in Procs /\ proc[p].data.graph \in Graph
    BY ProcessUpdates, DataUpdates DEF TypeOK, Procs
  <1>2. \A x \in Graph : [file EXCEPT !.graph = x] \in File
    BY DEF TypeOK, File
  <1>3. [file EXCEPT !.magic = TRUE] \in File
    BY DEF TypeOK, File
  <1>4. \A x \in Stages : [proc EXCEPT ![p].pc = x] \in Procs
    BY <1>1, Updates
  <1>5. CASE StoreObjects(p)
    BY <1>1, <1>2, <1>4, <1>5 DEF StoreObjects, Write, Stages, counters, TypeOK
  <1>6. CASE FinalizeWriteStream(p)
    <2> DEFINE f1 == [proc EXCEPT ![p].pc = "finished"]
               f2 == [f1 EXCEPT ![p].data.dirty = FALSE]
    <2>1. f1 \in Procs
      BY <1>4 DEF Stages
    <2> HIDE DEF f1
    <2>2. f2 \in Procs
      BY <2>1, Updates
    <2> HIDE DEF f2
    <2>3. [f2 EXCEPT ![p].data.unmarked = FALSE] \in Procs /\ [f1 EXCEPT ![p].failed = TRUE] \in Procs
      BY <2>1, <2>2, Updates
    <2>4. proc' = [f2 EXCEPT ![p].data.unmarked = FALSE] \/ proc' = [f1 EXCEPT ![p].failed = TRUE]
      BY <1>6 DEF FinalizeWriteStream, StoringFails, f1, f2
    <2>5. file' \in File
      BY <1>3, <1>6, ConstantTypes DEF FinalizeWriteStream, TypeOK
    <2>6. faults' = faults \/ (faults < MaxFaults /\ faults' = faults + 1)
      BY <1>6 DEF FinalizeWriteStream, StoringFails, counters
    <2>7. faults' \in 0 .. MaxFaults
      BY <2>6, BoundsAssumption DEF TypeOK
    <2> QED
      BY <2>3, <2>4, <2>5, <2>7
  <1> QED
    BY <1>5, <1>6

\* Whatever InternalSetupProjectJob, InternalBuildJob, InternalCleanJob and PersistentPool do,
\* in whatever order the processes do it: the stages, the build data, the build graph file and the
\* lock have their types, and no bound is passed.
THEOREM TypeCorrect == Spec => []TypeOK
  <1>1. Init => TypeOK
    <2> SUFFICES ASSUME Init PROVE TypeOK
      OBVIOUS
    <2>1. /\ 1 \in Time /\ 0 \in 0 .. MaxTime /\ 0 \in 0 .. MaxJobs /\ 0 \in 0 .. MaxCrashes
          /\ 0 \in 0 .. MaxFaults
      BY BoundsAssumption DEF Time
    <2>2. proc \in [Processes -> Process]
      BY ConstantTypes DEF Init
    <2> QED
      BY <2>1, <2>2, ConstantTypes DEF Init, TypeOK
  <1>2. TypeOK /\ [Next]_vars => TypeOK'
    <2> SUFFICES ASSUME TypeOK, [Next]_vars PROVE TypeOK'
      OBVIOUS
    <2> USE ConstantTypes, TimeType, BoundsAssumption
    <2>1. CASE UNCHANGED vars
      BY <2>1 DEF TypeOK, vars, world, outputs, counters
    <2>2. CASE EditProject
      BY <2>2 DEF EditProject, TypeOK, Time, world, outputs, counters
    <2>3. CASE EditSource
      BY <2>3 DEF EditSource, TypeOK, Time, world, outputs, counters
    <2>4. ASSUME NEW p \in Processes, NEW j \in Jobs, StartJob(p, j) PROVE TypeOK'
      <3>1. jobs' \in 0 .. MaxJobs
        BY <2>4 DEF StartJob, TypeOK
      <3> QED
        BY <2>4, <3>1, StartTypes DEF StartJob, TypeOK, Procs, world, outputs
    <2>5. ASSUME NEW p \in Processes, Release(p) PROVE TypeOK'
      BY <2>5 DEF Release, Forget, TypeOK, world, counters
    <2>6. ASSUME NEW p \in Processes, Crash(p) \/ LoadNothing(p) PROVE TypeOK'
      <3>1. Die(p) /\ crashes' \in 0 .. MaxCrashes /\ UNCHANGED <<jobs, faults>>
        BY <2>6 DEF Crash, LoadNothing, TypeOK, counters
      <3> QED
        BY <3>1 DEF Die, Forget, TypeOK, world
    <2>7. ASSUME NEW p \in Processes, TryLock(p) PROVE TypeOK'
      BY <2>7 DEF TryLock, TypeOK, Process, world, outputs, counters
    <2>8. ASSUME NEW p \in Processes, LockFails(p) \/ CancelLocking(p) \/ ResolvingFails(p)
          PROVE TypeOK'
      BY <2>8, SetupTypes DEF LockFails, CancelLocking, ResolvingFails, TypeOK, Procs, world,
                              outputs, counters
    <2>9. ASSUME NEW p \in Processes, RemoveStaleLock(p) PROVE TypeOK'
      BY <2>9 DEF RemoveStaleLock, TypeOK, world, outputs, counters
    <2>10. ASSUME NEW p \in Processes, Load(p) PROVE TypeOK'
      <3>1. UNCHANGED <<world, outputs, file, counters>>
        BY <2>10 DEF Load
      <3> QED
        BY <2>10, <3>1, LoadTypes DEF TypeOK, Procs, world, outputs, counters
    <2>11. ASSUME NEW p \in Processes, StartResolving(p) PROVE TypeOK'
      <3>1. UNCHANGED <<world, outputs, file, lock, counters>>
        BY <2>11 DEF StartResolving
      <3> QED
        BY <2>11, <3>1, ResolveTypes DEF TypeOK, Procs, world, outputs, counters
    <2>12. ASSUME NEW p \in Processes, ReadProject(p) PROVE TypeOK'
      <3>1. UNCHANGED <<world, outputs, file, lock, counters>>
        BY <2>12 DEF ReadProject
      <3> QED
        BY <2>12, <3>1, ReadTypes DEF TypeOK, Procs, world, outputs, counters
    <2>13. ASSUME NEW p \in Processes,
                  StartCommand(p) \/ NothingToBuild(p) \/ CommandFails(p) \/ FinishCommand(p)
           PROVE TypeOK'
      <3>1. proc' \in Procs
        BY <2>13, CommandTypes
      <3>2. proc[p].seen \in 0 .. MaxTime /\ proc[p].job.dry \in BOOLEAN
        BY ProcessUpdates DEF TypeOK, Job
      <3>3. output' \in 0 .. MaxTime /\ excused' \in BOOLEAN
        BY <2>13, <3>2 DEF StartCommand, NothingToBuild, CommandFails, FinishCommand, TypeOK, outputs
      <3>4. UNCHANGED <<world, file, lock, counters>>
        BY <2>13 DEF StartCommand, NothingToBuild, CommandFails, FinishCommand
      <3> QED
        BY <3>1, <3>3, <3>4 DEF TypeOK, Procs, world, counters
    <2>15. ASSUME NEW p \in Processes, Clean(p) PROVE TypeOK'
      <3>1. output' \in 0 .. MaxTime /\ UNCHANGED <<world, excused, file, lock, counters>>
        BY <2>15 DEF Clean, TypeOK
      <3> QED
        BY <2>15, <3>1, CleanTypes DEF TypeOK, Procs, world, counters
    <2>16. ASSUME NEW p \in Processes, NothingToStore(p) \/ FinishJob(p) PROVE TypeOK'
      BY <2>16 DEF NothingToStore, FinishJob, Write, TypeOK, Process, world, outputs, counters
    <2>17. ASSUME NEW p \in Processes, RemoveOldFile(p) \/ SetupWriteStream(p) PROVE TypeOK'
      BY <2>17 DEF RemoveOldFile, SetupWriteStream, StoringFails, Write, TypeOK, Process, world,
                   outputs, counters
    <2>18. ASSUME NEW p \in Processes, StoreObjects(p) \/ FinalizeWriteStream(p) PROVE TypeOK'
      <3>1. UNCHANGED <<world, outputs, lock, jobs, crashes>>
        BY <2>18 DEF StoreObjects, FinalizeWriteStream, StoringFails, counters
      <3> QED
        BY <2>18, <3>1, StoreTypes DEF TypeOK, Procs, world, outputs
    <2> QED
      BY <2>1, <2>2, <2>3, <2>4, <2>5, <2>6, <2>7, <2>8, <2>9, <2>10, <2>11, <2>12, <2>13,
         <2>15, <2>16, <2>17, <2>18 DEF Next, Step
  <1> QED
    BY <1>1, <1>2, PTL DEF Spec

----------------------------------------------------------------------------
(* The lock.                                                               *)

\* A process that uses the build graph owns the lock; a setup that has allocated the locker has
\* no project yet, and one that is waiting for the lock has neither.
LockInv ==
    \A p \in Processes :
        /\ Using(p) => lock = p
        /\ proc[p].allocated => /\ lock = p /\ ~proc[p].open
                                /\ proc[p].pc \in {"loading", "resolving", "reading"}
        /\ proc[p].pc = "locking" => ~proc[p].open
        /\ proc[p].pc \in {"building", "running", "cleaning", "storing", "opening", "writing",
                           "finalizing"} => proc[p].open

\* What a step of process p may do to its stage, its project and its locker.
Move(p, pc, open, allocated) ==
    /\ proc'[p].pc = pc /\ proc'[p].open = open /\ proc'[p].allocated = allocated
    /\ \A q \in Processes \ {p} : proc'[q] = proc[q]

\* The ends of the loading step, as far as the lock is concerned.
LEMMA SetupMoves ==
    ASSUME TypeOK, NEW p \in Processes, NEW data
    PROVE  /\ TrackProjectChanges(p, data) =>
                  \/ Move(p, "storing", TRUE, FALSE)
                  \/ Move(p, "resolving", proc[p].open, proc[p].allocated)
           /\ StartFromScratch(p) => Move(p, "resolving", proc[p].open, proc[p].allocated)
           /\ AbortSetup(p) => Move(p, "finished", proc[p].open, FALSE)
  <1> USE DEF TypeOK, Process, Move
  <1>1. TrackProjectChanges(p, data) =>
            \/ Move(p, "storing", TRUE, FALSE)
            \/ Move(p, "resolving", proc[p].open, proc[p].allocated)
    <2> SUFFICES ASSUME TrackProjectChanges(p, data)
                 PROVE  \/ Move(p, "storing", TRUE, FALSE)
                        \/ Move(p, "resolving", proc[p].open, proc[p].allocated)
      OBVIOUS
    <2> DEFINE r == [proc[p] EXCEPT !.pc = "resolving", !.new = [data EXCEPT !.dirty = TRUE],
                                    !.data.dirty = proc[p].open, !.seen = projectFile]
    <2>1. \/ proc' = [proc EXCEPT ![p] = Adopt(p, data, projectFile)]
          \/ proc' = [proc EXCEPT ![p] = r]
      BY DEF TrackProjectChanges
    <2>2. /\ Adopt(p, data, projectFile).pc = "storing" /\ Adopt(p, data, projectFile).open
          /\ Adopt(p, data, projectFile).allocated = FALSE
      BY DEF Adopt
    <2>3. r.pc = "resolving" /\ r.open = proc[p].open /\ r.allocated = proc[p].allocated
      OBVIOUS
    <2> HIDE DEF r
    <2> QED
      BY <2>1, <2>2, <2>3
  <1>2. StartFromScratch(p) => Move(p, "resolving", proc[p].open, proc[p].allocated)
    BY DEF StartFromScratch
  <1>3. AbortSetup(p) => Move(p, "finished", proc[p].open, FALSE)
    BY DEF AbortSetup
  <1> QED
    BY <1>1, <1>2, <1>3

\* The steps of one process, as far as the lock is concerned.
LEMMA LockSteps ==
    ASSUME TypeOK, NEW p \in Processes, Step(p) \/ CancelLocking(p)
    PROVE  \/ /\ proc[p].pc = "locking" /\ lock \in {"free", "stale"} /\ lock' = p
              /\ Move(p, "loading", proc[p].open, TRUE)
           \/ /\ AbortSetup(p) /\ Move(p, "finished", proc[p].open, FALSE)
           \/ lock = "stale" /\ lock' = "free" /\ proc' = proc
           \/ /\ proc[p].pc \in {"loading", "reading"} /\ UNCHANGED lock
              /\ Move(p, "storing", TRUE, FALSE)
           \/ /\ UNCHANGED lock
              /\ \E pc \in {"resolving", "reading", "finished"} :
                     /\ Move(p, pc, proc[p].open, proc[p].allocated)
                     /\ pc # "finished" => proc[p].pc \in {"loading", "resolving"}
                     /\ pc = "finished" => proc[p].pc \in {"storing", "opening", "finalizing"}
           \/ /\ UNCHANGED lock
              /\ proc[p].pc \in {"building", "running", "cleaning", "storing", "opening", "writing"}
              /\ \E pc \in {"running", "storing", "opening", "writing", "finalizing"} :
                     Move(p, pc, proc[p].open, proc[p].allocated)
           \/ /\ UNCHANGED lock /\ proc[p].pc = "finished"
              /\ Move(p, "idle", proc[p].open, proc[p].allocated)
           \/ Die(p)
  <1> USE DEF TypeOK
  <1>1. CASE TryLock(p)
    BY <1>1 DEF TryLock, Move, Process
  <1>2. CASE LockFails(p) \/ CancelLocking(p) \/ ResolvingFails(p)
    BY <1>2, SetupMoves DEF LockFails, CancelLocking, ResolvingFails
  <1>3. CASE RemoveStaleLock(p)
    BY <1>3 DEF RemoveStaleLock
  <1>4. CASE Load(p)
    <2>1. \/ AbortSetup(p)
          \/ /\ proc[p].pc = "loading" /\ UNCHANGED lock
             /\ StartFromScratch(p) \/ \E data : TrackProjectChanges(p, data)
      BY <1>4 DEF Load, LoadFromDisk
    <2> QED
      BY <2>1, SetupMoves
  <1>5. CASE StartResolving(p)
    BY <1>5 DEF StartResolving, Move, Process
  <1>6. CASE ReadProject(p)
    <2>1. \E data : proc' = [proc EXCEPT ![p] = Adopt(p, data, proc[p].seen)]
      BY <1>6 DEF ReadProject
    <2>2. PICK data : proc' = [proc EXCEPT ![p] = Adopt(p, data, proc[p].seen)]
      BY <2>1
    <2>3. /\ Adopt(p, data, proc[p].seen).pc = "storing" /\ Adopt(p, data, proc[p].seen).open
          /\ Adopt(p, data, proc[p].seen).allocated = FALSE
      BY DEF Adopt, Process
    <2>4. Move(p, "storing", TRUE, FALSE)
      BY <2>2, <2>3 DEF Move, Process
    <2> QED
      BY <1>6, <2>4 DEF ReadProject
  <1>7. CASE StartCommand(p)
    BY <1>7 DEF StartCommand, Move, Process
  <1>8. CASE NothingToBuild(p)
    BY <1>8 DEF NothingToBuild, Move, Process
  <1>9. CASE FinishCommand(p)
    BY <1>9 DEF FinishCommand, Move, Process
  <1>10. CASE CommandFails(p)
    BY <1>10 DEF CommandFails, Move, Process
  <1>11. CASE Clean(p)
    <2> DEFINE inv == ~proc[p].job.dry /\ proc[p].data.graph.stamp # 0
               stamp == IF inv THEN 0 ELSE proc[p].data.graph.stamp
               dry == proc[p].data.graph.dry /\ ~inv
               dirty == proc[p].data.dirty \/ inv
    <2>1. PICK failed \in BOOLEAN :
              proc' = [proc EXCEPT ![p].pc = "storing", ![p].failed = failed,
                                   ![p].data.graph.stamp = stamp, ![p].data.graph.dry = dry,
                                   ![p].data.dirty = dirty]
      BY <1>11 DEF Clean
    <2> HIDE DEF stamp, dry, dirty
    <2>2. Move(p, "storing", proc[p].open, proc[p].allocated)
      BY <2>1 DEF Move, Process
    <2> QED
      BY <1>11, <2>2 DEF Clean
  <1>12. CASE NothingToStore(p)
    BY <1>12 DEF NothingToStore, Write, Move, Process
  <1>13. CASE RemoveOldFile(p)
    BY <1>13 DEF RemoveOldFile, StoringFails, Write, Move, Process
  <1>14. CASE SetupWriteStream(p)
    BY <1>14 DEF SetupWriteStream, StoringFails, Write, Move, Process
  <1>15. CASE StoreObjects(p)
    BY <1>15 DEF StoreObjects, Write, Move, Process
  <1>16. CASE FinalizeWriteStream(p)
    BY <1>16 DEF FinalizeWriteStream, StoringFails, Move, Process
  <1>17. CASE FinishJob(p)
    BY <1>17 DEF FinishJob, Move, Process
  <1> QED
    BY <1>1, <1>2, <1>3, <1>4, <1>5, <1>6, <1>7, <1>8, <1>9, <1>10, <1>11, <1>12, <1>13, <1>14,
       <1>15, <1>16, <1>17 DEF Step, LoadNothing

\* LockInv is inductive.
LEMMA LockInvInductive == TypeOK /\ LockInv /\ [Next]_vars => LockInv'
  <1> SUFFICES ASSUME TypeOK, LockInv, [Next]_vars PROVE LockInv'
    OBVIOUS
  <1> USE DEF LockInv, Using
  <1>1. CASE UNCHANGED vars \/ EditProject \/ EditSource
    <2>1. UNCHANGED <<proc, lock>>
      BY <1>1 DEF vars, EditProject, EditSource
    <2> QED
      BY <2>1
  <1>2. ASSUME NEW p \in Processes, NEW j \in Jobs, StartJob(p, j) PROVE LockInv'
    <2> DEFINE pc == CASE j.kind = "build" -> "building"
                       [] j.kind = "clean" -> "cleaning"
                       [] OTHER -> IF proc[p].open THEN "loading" ELSE "locking"
    <2>1. proc' = [proc EXCEPT ![p].pc = pc, ![p].job = j]
      BY <1>2 DEF StartJob
    <2>2. pc \in {"building", "cleaning", "loading", "locking"}
      OBVIOUS
    <2>3. pc # "locking" => proc[p].open
      BY <1>2 DEF StartJob
    <2>4. pc = "locking" => ~proc[p].open
      OBVIOUS
    <2> HIDE DEF pc
    <2>5. Move(p, pc, proc[p].open, proc[p].allocated)
      BY <2>1 DEF Move, TypeOK, Process
    <2>6. proc[p].pc = "idle" /\ lock' = lock
      BY <1>2 DEF StartJob
    <2> QED
      BY <2>2, <2>3, <2>4, <2>5, <2>6 DEF Move
  <1>3. ASSUME NEW p \in Processes, Release(p) \/ Die(p) PROVE LockInv'
    <2>1. proc' = [proc EXCEPT ![p] = Fresh]
      BY <1>3 DEF Release, Die
    <2>2. Move(p, "idle", FALSE, FALSE)
      BY <2>1 DEF Move, Fresh, TypeOK
    <2>3. \/ lock = p
          \/ lock' = lock /\ lock # p
      BY <1>3 DEF Release, Die
    <2> QED
      BY <2>2, <2>3 DEF Move
  <1>4. ASSUME NEW p \in Processes, Step(p) \/ CancelLocking(p) PROVE LockInv'
    <2>1. CASE /\ proc[p].pc = "locking" /\ lock \in {"free", "stale"} /\ lock' = p
               /\ Move(p, "loading", proc[p].open, TRUE)
      BY <2>1, ProcessesAssumption DEF Move
    <2>2. CASE AbortSetup(p) /\ Move(p, "finished", proc[p].open, FALSE)
      <3>1. IF proc[p].allocated THEN lock' = "free" ELSE lock' = lock
        BY <2>2 DEF AbortSetup
      <3> QED
        BY <2>2, <3>1 DEF Move
    <2>3. CASE lock = "stale" /\ lock' = "free" /\ proc' = proc
      BY <2>3, ProcessesAssumption
    <2>4. CASE /\ proc[p].pc \in {"loading", "reading"} /\ UNCHANGED lock
               /\ Move(p, "storing", TRUE, FALSE)
      BY <2>4 DEF Move
    <2>5. CASE /\ UNCHANGED lock
               /\ \E pc \in {"resolving", "reading", "finished"} :
                      /\ Move(p, pc, proc[p].open, proc[p].allocated)
                      /\ pc # "finished" => proc[p].pc \in {"loading", "resolving"}
                      /\ pc = "finished" => proc[p].pc \in {"storing", "opening", "finalizing"}
      BY <2>5 DEF Move
    <2>6. CASE /\ UNCHANGED lock
               /\ proc[p].pc \in {"building", "running", "cleaning", "storing", "opening", "writing"}
               /\ \E pc \in {"running", "storing", "opening", "writing", "finalizing"} :
                      Move(p, pc, proc[p].open, proc[p].allocated)
      BY <2>6 DEF Move
    <2>7. CASE /\ UNCHANGED lock /\ proc[p].pc = "finished"
               /\ Move(p, "idle", proc[p].open, proc[p].allocated)
      BY <2>7 DEF Move
    <2> QED
      BY <1>3, <1>4, <2>1, <2>2, <2>3, <2>4, <2>5, <2>6, <2>7, LockSteps
  <1> QED
    BY <1>1, <1>2, <1>3, <1>4 DEF Next, Crash

\* LockInv holds in every reachable state.
LEMMA LockInvariant == Spec => []LockInv
  <1>1. Init => LockInv
    <2> SUFFICES ASSUME Init PROVE LockInv
      OBVIOUS
    <2>1. \A p \in Processes : proc[p] = Fresh
      BY DEF Init
    <2>2. Fresh.pc = "idle" /\ Fresh.open = FALSE /\ Fresh.allocated = FALSE
      BY DEF Fresh
    <2> QED
      BY <2>1, <2>2 DEF LockInv, Using
  <1> QED
    BY <1>1, LockInvInductive, TypeCorrect, PTL DEF Spec

\* Two processes never work with the same build graph: BuildGraphLocker and the way in which
\* InternalSetupProjectJob::start() hands the locker over or deletes it exclude all but one.
THEOREM OneUserAtATime == Spec => []OneUser
  <1>1. LockInv => OneUser
    BY DEF LockInv, OneUser
  <1> QED
    BY <1>1, LockInvariant, PTL

----------------------------------------------------------------------------
(* Whole build graphs.                                                     *)

\* A build graph that was resolved from some project file.
Whole(g) == g.resolved # 0 /\ g.project # 0

\* Whole are the graph of a file with the magic token, that of an open project, the one that a
\* setup job has begun to resolve, and the one in a file that lacks nothing but the token.
WholeInv ==
    /\ file.magic => Whole(file.graph)
    /\ \A p \in Processes : /\ proc[p].open => Whole(proc[p].data.graph)
                            /\ proc[p].pc = "reading" => Whole(proc[p].new.graph)
                            /\ proc[p].pc = "finalizing" => Whole(file.graph)

\* A step of process p that leaves its project's graph as whole as it was.
Keep(p) ==
    /\ proc'[p].open = proc[p].open
    /\ proc'[p].data.graph.resolved = proc[p].data.graph.resolved
    /\ proc'[p].data.graph.project = proc[p].data.graph.project
    /\ \A q \in Processes \ {p} : proc'[q] = proc[q]

\* One that puts data in place of the project's build data.
Replace(p, data) ==
    /\ proc'[p].pc = "storing" /\ proc'[p].data = data
    /\ \A q \in Processes \ {p} : proc'[q] = proc[q]

\* The ends of the loading step, as far as the graphs are concerned.
LEMMA SetupKeeps ==
    ASSUME TypeOK, NEW p \in Processes, NEW data
    PROVE  /\ TrackProjectChanges(p, data) =>
                  \/ Replace(p, data)
                  \/ Keep(p) /\ proc'[p].pc = "resolving"
           /\ StartFromScratch(p) => Keep(p) /\ proc'[p].pc = "resolving"
           /\ AbortSetup(p) => Keep(p) /\ proc'[p].pc = "finished"
  <1> USE DEF TypeOK, Process, Data, Keep
  <1>1. TrackProjectChanges(p, data) =>
            Replace(p, data) \/ (Keep(p) /\ proc'[p].pc = "resolving")
    <2> SUFFICES ASSUME TrackProjectChanges(p, data)
                 PROVE  Replace(p, data) \/ (Keep(p) /\ proc'[p].pc = "resolving")
      OBVIOUS
    <2> DEFINE r == [proc[p] EXCEPT !.pc = "resolving", !.new = [data EXCEPT !.dirty = TRUE],
                                    !.data.dirty = proc[p].open, !.seen = projectFile]
    <2>1. \/ proc' = [proc EXCEPT ![p] = Adopt(p, data, projectFile)]
          \/ proc' = [proc EXCEPT ![p] = r]
      BY DEF TrackProjectChanges
    <2>2. Adopt(p, data, projectFile).pc = "storing" /\ Adopt(p, data, projectFile).data = data
      BY DEF Adopt
    <2>3. r.pc = "resolving" /\ r.open = proc[p].open /\ r.data.graph = proc[p].data.graph
      OBVIOUS
    <2> HIDE DEF r
    <2> QED
      BY <2>1, <2>2, <2>3 DEF Replace
  <1>2. StartFromScratch(p) => Keep(p) /\ proc'[p].pc = "resolving"
    BY DEF StartFromScratch
  <1>3. AbortSetup(p) => Keep(p) /\ proc'[p].pc = "finished"
    BY DEF AbortSetup
  <1> QED
    BY <1>1, <1>2, <1>3

\* The steps of one process, as far as the graphs are concerned.
LEMMA WholeSteps ==
    ASSUME TypeOK, LockInv, WholeInv, NEW p \in Processes, Step(p) \/ CancelLocking(p)
    PROVE  \/ UNCHANGED <<proc, file>>
           \/ Keep(p) /\ proc'[p].pc \notin {"reading", "finalizing"} /\ UNCHANGED file
           \/ /\ Keep(p) /\ proc'[p].pc = "reading" /\ Whole(proc'[p].new.graph)
              /\ UNCHANGED file
           \/ \E data : Replace(p, data) /\ Whole(data.graph) /\ UNCHANGED file
           \/ /\ Keep(p) /\ proc'[p].pc \notin {"reading", "finalizing"} /\ Using(p)
              /\ file'.magic = FALSE \/ Whole(file'.graph)
           \/ /\ Keep(p) /\ proc'[p].pc = "finalizing" /\ Using(p) /\ Whole(file'.graph)
           \/ Die(p)
  <1> USE DEF TypeOK
  <1>1. CASE TryLock(p)
    BY <1>1 DEF TryLock, Keep, Process, Data
  <1>2. CASE LockFails(p) \/ CancelLocking(p) \/ ResolvingFails(p)
    BY <1>2, SetupKeeps DEF LockFails, CancelLocking, ResolvingFails
  <1>3. CASE RemoveStaleLock(p)
    BY <1>3 DEF RemoveStaleLock
  <1>4. CASE Load(p)
    <2>1. UNCHANGED file
      BY <1>4 DEF Load
    <2>2. \/ AbortSetup(p) \/ StartFromScratch(p)
          \/ proc[p].open /\ TrackProjectChanges(p, proc[p].data)
          \/ file.magic /\ TrackProjectChanges(p, [NoData EXCEPT !.graph = file.graph])
      BY <1>4 DEF Load, LoadFromDisk
    <2>3. proc[p].open => Whole(proc[p].data.graph)
      BY DEF WholeInv
    <2>4. [NoData EXCEPT !.graph = file.graph].graph = file.graph
      BY DEF NoData
    <2>5. file.magic => Whole([NoData EXCEPT !.graph = file.graph].graph)
      BY <2>4 DEF WholeInv
    <2> QED
      BY <2>1, <2>2, <2>3, <2>5, SetupKeeps
  <1>5. CASE StartResolving(p)
    <2>1. /\ Keep(p) /\ proc'[p].pc = "reading"
          /\ proc'[p].new.graph.resolved = now /\ proc'[p].new.graph.project = projectFile
      BY <1>5 DEF StartResolving, Keep, Process, Data, Graph
    <2>2. now # 0 /\ projectFile # 0
      BY BoundsAssumption DEF Time
    <2> QED
      BY <1>5, <2>1, <2>2 DEF StartResolving, Whole
  <1>6. CASE ReadProject(p)
    <2>1. PICK stamp \in {proc[p].new.graph.stamp, 0},
               read \in {proc[p].new.graph.project, projectFile} :
              \E data \in RemoveProducts(p, [proc[p].new EXCEPT !.graph =
                              [proc[p].new.graph EXCEPT !.project = read, !.stamp = stamp,
                                   !.dry = proc[p].new.graph.dry /\ stamp # 0]]) :
                  proc' = [proc EXCEPT ![p] = Adopt(p, data, proc[p].seen)]
      BY <1>6 DEF ReadProject
    <2> DEFINE graph == [proc[p].new.graph EXCEPT !.project = read, !.stamp = stamp,
                             !.dry = proc[p].new.graph.dry /\ stamp # 0]
               new == [proc[p].new EXCEPT !.graph = graph]
    <2>2. Whole(graph)
      <3>1. graph.project = read /\ graph.resolved = proc[p].new.graph.resolved
        BY DEF Process, Data, Graph
      <3>2. Whole(proc[p].new.graph)
        BY <1>6 DEF ReadProject, WholeInv
      <3>3. read # 0
        BY <2>1, <3>2, BoundsAssumption DEF Whole, Time
      <3> QED
        BY <3>1, <3>2, <3>3 DEF Whole
    <2>3. new.graph = graph /\ [new EXCEPT !.dirty = FALSE, !.unmarked = TRUE].graph = graph
      BY DEF Process, Data
    <2> HIDE DEF graph
    <2>4. PICK data \in RemoveProducts(p, new) :
              proc' = [proc EXCEPT ![p] = Adopt(p, data, proc[p].seen)]
      BY <2>1 DEF graph
    <2>5. Whole(data.graph)
      BY <2>2, <2>3, <2>4 DEF RemoveProducts
    <2>6. Adopt(p, data, proc[p].seen).pc = "storing" /\ Adopt(p, data, proc[p].seen).data = data
      BY DEF Adopt, Process
    <2>7. Replace(p, data)
      BY <2>4, <2>6 DEF Replace
    <2> QED
      BY <1>6, <2>5, <2>7 DEF ReadProject
  <1>7. CASE StartCommand(p) \/ NothingToBuild(p) \/ CommandFails(p)
    BY <1>7 DEF StartCommand, NothingToBuild, CommandFails, Keep, Process, Data
  <1>8. CASE FinishCommand(p)
    BY <1>8 DEF FinishCommand, Keep, Process, Data, Graph
  <1>9. CASE Clean(p)
    <2> DEFINE inv == ~proc[p].job.dry /\ proc[p].data.graph.stamp # 0
               stamp == IF inv THEN 0 ELSE proc[p].data.graph.stamp
               dry == proc[p].data.graph.dry /\ ~inv
               dirty == proc[p].data.dirty \/ inv
    <2>1. PICK failed \in BOOLEAN :
              proc' = [proc EXCEPT ![p].pc = "storing", ![p].failed = failed,
                                   ![p].data.graph.stamp = stamp, ![p].data.graph.dry = dry,
                                   ![p].data.dirty = dirty]
      BY <1>9 DEF Clean
    <2> HIDE DEF stamp, dry, dirty
    <2>2. Keep(p) /\ proc'[p].pc = "storing"
      BY <2>1 DEF Keep, Process, Data, Graph
    <2> QED
      BY <1>9, <2>2 DEF Clean
  <1>10. CASE NothingToStore(p) \/ FinishJob(p)
    BY <1>10 DEF NothingToStore, FinishJob, Write, Keep, Process, Data
  <1>11. CASE RemoveOldFile(p) \/ SetupWriteStream(p)
    <2>1. Keep(p) /\ proc'[p].pc \in {"opening", "writing", "finished"} /\ Using(p)
      BY <1>11 DEF RemoveOldFile, SetupWriteStream, StoringFails, Write, Keep, Process, Data, Using
    <2>2. file'.magic = FALSE \/ UNCHANGED file
      BY <1>11 DEF RemoveOldFile, SetupWriteStream, NoFile
    <2> QED
      BY <2>1, <2>2
  <1>12. CASE StoreObjects(p)
    <2>1. Keep(p) /\ proc'[p].pc = "finalizing" /\ Using(p)
      BY <1>12 DEF StoreObjects, Write, Keep, Process, Data, Using
    <2>2. file'.graph = proc[p].data.graph
      BY <1>12 DEF StoreObjects, File
    <2>3. proc[p].open
      BY <1>12 DEF StoreObjects, LockInv
    <2> QED
      BY <2>1, <2>2, <2>3 DEF WholeInv
  <1>13. CASE FinalizeWriteStream(p)
    <2>1. Keep(p) /\ proc'[p].pc = "finished" /\ Using(p)
      BY <1>13 DEF FinalizeWriteStream, StoringFails, Keep, Process, Data, Using
    <2>2. \/ file' = [file EXCEPT !.magic = TRUE]
          \/ file' = file
          \/ file' = NoFile
      BY <1>13 DEF FinalizeWriteStream
    <2>3. Whole(file.graph)
      BY <1>13 DEF FinalizeWriteStream, WholeInv
    <2>4. file'.magic = FALSE \/ Whole(file'.graph)
      BY <2>2, <2>3 DEF File, NoFile
    <2> QED
      BY <2>1, <2>4
  <1> QED
    BY <1>1, <1>2, <1>3, <1>4, <1>5, <1>6, <1>7, <1>8, <1>9, <1>10, <1>11, <1>12, <1>13
       DEF Step, LoadNothing

\* WholeInv is inductive, as only one process writes at a time.
LEMMA WholeInvInductive == TypeOK /\ LockInv /\ WholeInv /\ [Next]_vars => WholeInv'
  <1> SUFFICES ASSUME TypeOK, LockInv, WholeInv, [Next]_vars PROVE WholeInv'
    OBVIOUS
  <1> USE DEF WholeInv
  <1>1. CASE UNCHANGED vars \/ EditProject \/ EditSource
    <2>1. UNCHANGED <<proc, file>>
      BY <1>1 DEF vars, EditProject, EditSource
    <2> QED
      BY <2>1 DEF Whole
  <1>2. ASSUME NEW p \in Processes, NEW j \in Jobs, StartJob(p, j) PROVE WholeInv'
    <2> DEFINE pc == CASE j.kind = "build" -> "building"
                       [] j.kind = "clean" -> "cleaning"
                       [] OTHER -> IF proc[p].open THEN "loading" ELSE "locking"
    <2>1. proc' = [proc EXCEPT ![p].pc = pc, ![p].job = j]
      BY <1>2 DEF StartJob
    <2>2. pc \in {"building", "cleaning", "loading", "locking"}
      OBVIOUS
    <2> HIDE DEF pc
    <2>3. Keep(p) /\ proc'[p].pc = pc
      BY <2>1 DEF Keep, TypeOK, Process, Data
    <2>4. Keep(p) /\ proc'[p].pc \notin {"reading", "finalizing"}
      BY <2>2, <2>3
    <2>5. UNCHANGED file
      BY <1>2 DEF StartJob
    <2> QED
      BY <2>4, <2>5 DEF Keep, Whole
  <1>3. ASSUME NEW p \in Processes, Release(p) \/ Die(p) PROVE WholeInv'
    <2>1. proc' = [proc EXCEPT ![p] = Fresh] /\ UNCHANGED file
      BY <1>3 DEF Release, Die
    <2>2. Fresh.pc = "idle" /\ Fresh.open = FALSE
      BY DEF Fresh
    <2>3. /\ proc'[p] = Fresh
          /\ \A q \in Processes \ {p} : proc'[q] = proc[q]
      BY <2>1 DEF TypeOK
    <2> QED
      BY <2>1, <2>2, <2>3 DEF Whole
  <1>4. ASSUME NEW p \in Processes, Step(p) \/ CancelLocking(p) PROVE WholeInv'
    <2>1. CASE UNCHANGED <<proc, file>>
      BY <2>1 DEF Whole
    <2>2. CASE Keep(p) /\ proc'[p].pc \notin {"reading", "finalizing"} /\ UNCHANGED file
      BY <2>2 DEF Keep, Whole
    <2>3. CASE Keep(p) /\ proc'[p].pc = "reading" /\ Whole(proc'[p].new.graph) /\ UNCHANGED file
      BY <2>3 DEF Keep, Whole
    <2>4. CASE \E data : Replace(p, data) /\ Whole(data.graph) /\ UNCHANGED file
      BY <2>4 DEF Replace, Whole
    <2>5. Using(p) => \A q \in Processes \ {p} : proc[q].pc # "finalizing"
      BY DEF LockInv, Using
    <2>6. CASE /\ Keep(p) /\ proc'[p].pc \notin {"reading", "finalizing"} /\ Using(p)
               /\ file'.magic = FALSE \/ Whole(file'.graph)
      BY <2>5, <2>6 DEF Keep, Whole
    <2>7. CASE Keep(p) /\ proc'[p].pc = "finalizing" /\ Using(p) /\ Whole(file'.graph)
      BY <2>5, <2>7 DEF Keep, Whole
    <2> QED
      BY <1>3, <1>4, <2>1, <2>2, <2>3, <2>4, <2>6, <2>7, WholeSteps
  <1> QED
    BY <1>1, <1>2, <1>3, <1>4 DEF Next, Crash

\* A process that was killed while PersistentPool wrote the build graph file leaves one that is
\* not mistaken for a complete one: no project is ever opened with half a build graph.
THEOREM OnlyWholeGraphs == Spec => []GraphsAreWhole
  <1>1. Init => WholeInv
    <2> SUFFICES ASSUME Init PROVE WholeInv
      OBVIOUS
    <2>1. \A p \in Processes : proc[p] = Fresh
      BY DEF Init
    <2>2. Fresh.pc = "idle" /\ Fresh.open = FALSE /\ NoFile.magic = FALSE
      BY DEF Fresh, NoFile
    <2> QED
      BY <2>1, <2>2 DEF WholeInv, Init
  <1>2. WholeInv => GraphsAreWhole
    BY DEF WholeInv, GraphsAreWhole, Whole
  <1> QED
    BY <1>1, <1>2, WholeInvInductive, LockInvariant, TypeCorrect, PTL DEF Spec

-------------------------------------------------------------------------------
(***************************************************************************)
(* Theorems about the data of BuildGraphStore, for any set of processes, any  *)
(* jobs and any bounds: what is not stored is on disk already, what is set up  *)
(* is current, and what is built is fresh.                                    *)
(*                                                                           *)
(* DataInv relates the three places in which a build graph can be (the file,   *)
(* the open project, the one that is being resolved) to the project file, the  *)
(* source file and the output.  It needs the lock (LockInv): a process that    *)
(* writes the file or the output would otherwise break what is known of        *)
(* another one.  Below, the lemmas on effects say what each action does to     *)
(* the process that takes it, and one lemma for each kind of step shows that   *)
(* DataInv is kept.                                                           *)
(***************************************************************************)

\* The stages in which a job has done its work and is about to store the build graph, or has.
Ending == {"storing", "opening", "writing", "finalizing", "finished"}

\* A graph that was resolved after the last edit of the project file is that of the project file.
Tracks(g) == projectFile <= g.resolved => g.project = projectFile

\* If the time stamp in a graph says that the output is up to date, it is.
Honest(g) == UpToDate(g) /\ ~g.dry /\ ~excused => output = source

\* No time stamp lies in the future: neither those in a graph, nor any other.
NotLater(g) == g.resolved <= now /\ g.stamp <= now
TimesInv ==
    /\ projectFile <= now /\ source <= now
    /\ NotLater(file.graph)
    /\ \A p \in Processes : /\ NotLater(proc[p].data.graph) /\ NotLater(proc[p].new.graph)
                            /\ proc[p].seen <= now

\* A job is in the stages of its kind.  A job that has ended without having a project has failed.
StagesInv(p) ==
    /\ proc[p].pc \in {"locking", "loading", "resolving", "reading"} => proc[p].job.kind = "setup"
    /\ proc[p].pc \in {"building", "running"} => proc[p].job.kind = "build"
    /\ proc[p].pc = "cleaning" => proc[p].job.kind = "clean"
    /\ proc[p].pc = "finished" /\ ~proc[p].failed => proc[p].open

\* Build data that is not dirty is in the file; what is written is dirty until the file is
\* complete; and what is resolved is dirty.
StoredInv(p) ==
    /\ proc[p].open /\ ~proc[p].data.dirty /\ ~proc[p].data.unmarked => Stored(p)
    /\ proc[p].pc \in {"opening", "writing", "finalizing"} => proc[p].data.dirty
    /\ proc[p].pc = "finalizing" => file.graph = proc[p].data.graph
    /\ proc[p].pc \in {"resolving", "reading"} => proc[p].new.dirty

\* Every graph tracks the project file, and resolving began after the setup job has looked at the
\* project file's time stamp.
CurrentInv(p) ==
    /\ proc[p].open => Tracks(proc[p].data.graph)
    /\ proc[p].pc = "reading" => /\ Tracks(proc[p].new.graph)
                                 /\ proc[p].seen <= proc[p].new.graph.resolved
    /\ /\ proc[p].pc \in Ending /\ proc[p].job.kind = "setup" /\ ~proc[p].failed
       /\ proc[p].job.restore = "RestoreAndTrackChanges"
       /\ proc[p].seen = projectFile
       => proc[p].data.graph.project = projectFile

\* Every graph is honest about the output.  A command only runs if its output is out of date, and
\* a build that was successful leaves an output that is up to date, as far as time stamps tell.
FreshInv(p) ==
    /\ proc[p].open => Honest(proc[p].data.graph)
    /\ proc[p].pc \in {"resolving", "reading"} => Honest(proc[p].new.graph)
    /\ proc[p].pc = "running" => ~UpToDate(proc[p].data.graph)
    /\ /\ proc[p].pc \in Ending /\ proc[p].job.kind = "build" /\ ~proc[p].failed
       /\ ~proc[p].job.dry /\ proc[p].seen = source
       => UpToDate(proc[p].data.graph)

\* The file tracks the project file.  It is honest about an output that exists, and if no project
\* is open also about one that does not.
FileInv ==
    file.magic => /\ Tracks(file.graph)
                  /\ output # 0 \/ (\A p \in Processes : ~proc[p].open) => Honest(file.graph)

\* The inductive invariant.
DataInv ==
    /\ TimesInv /\ FileInv
    /\ \A p \in Processes : StagesInv(p) /\ StoredInv(p) /\ CurrentInv(p) /\ FreshInv(p)

----------------------------------------------------------------------------
(* What the actions do to the process that takes them.                     *)

\* The other processes are as they were.
Others(p) == \A q \in Processes \ {p} : proc'[q] = proc[q]

\* The process goes on to another stage; its job, its project and its build data are the same.
Proceeds(p, pc) ==
    /\ Others(p)
    /\ proc'[p].pc = pc /\ proc'[p].job = proc[p].job /\ proc'[p].open = proc[p].open
    /\ proc'[p].data = proc[p].data /\ proc'[p].new = proc[p].new
    /\ proc'[p].seen = proc[p].seen /\ proc'[p].failed = proc[p].failed

\* The setup ends with an error.
Aborts(p) ==
    /\ Others(p)
    /\ proc'[p].pc = "finished" /\ proc'[p].job = proc[p].job /\ proc'[p].open = proc[p].open
    /\ proc'[p].data = proc[p].data /\ proc'[p].new = NoData
    /\ proc'[p].seen = proc[p].seen /\ proc'[p].failed = TRUE

\* The setup goes on to resolve, starting from the graph g.
Resolves(p, g) ==
    /\ Others(p)
    /\ proc'[p].pc = "resolving" /\ proc'[p].job = proc[p].job /\ proc'[p].open = proc[p].open
    /\ proc'[p].data.graph = proc[p].data.graph /\ proc'[p].data.unmarked = proc[p].data.unmarked
    /\ proc'[p].data.dirty = proc[p].data.dirty \/ proc'[p].data.dirty = proc[p].open
    /\ proc'[p].new.graph = g /\ proc'[p].new.dirty = TRUE
    /\ proc'[p].seen = projectFile /\ proc'[p].failed = proc[p].failed

\* The setup makes data its project's build data.
Adopts(p, data, seen) ==
    /\ Others(p)
    /\ proc'[p].pc = "storing" /\ proc'[p].job = proc[p].job /\ proc'[p].open = TRUE
    /\ proc'[p].data = data /\ proc'[p].new = NoData
    /\ proc'[p].seen = seen /\ proc'[p].failed = proc[p].failed

\* The ends of the loading step: the project is up to date, it is resolved again, it is resolved
\* from scratch, or there is an error.
LEMMA SetupEffects ==
    ASSUME TypeOK, NEW p \in Processes, NEW data \in Data
    PROVE  /\ TrackProjectChanges(p, data) =>
                  \/ /\ Adopts(p, data, projectFile)
                     /\ \/ proc[p].job.restore # "RestoreAndTrackChanges"
                        \/ projectFile <= data.graph.resolved
                  \/ Resolves(p, data.graph)
           /\ StartFromScratch(p) => Resolves(p, Torn)
           /\ AbortSetup(p) => Aborts(p)
           /\ \A seen : proc' = [proc EXCEPT ![p] = Adopt(p, data, seen)] => Adopts(p, data, seen)
  <1> USE DEF TypeOK, Process, Others
  <1>1. ASSUME NEW seen, proc' = [proc EXCEPT ![p] = Adopt(p, data, seen)]
        PROVE  Adopts(p, data, seen)
    <2> DEFINE a == Adopt(p, data, seen)
    <2>1. /\ a.pc = "storing" /\ a.job = proc[p].job /\ a.open = TRUE /\ a.data = data
          /\ a.new = NoData /\ a.seen = seen /\ a.failed = proc[p].failed
      BY DEF Adopt
    <2> HIDE DEF a
    <2>2. proc'[p] = a /\ Others(p)
      BY <1>1 DEF a
    <2> QED
      BY <2>1, <2>2 DEF Adopts
  <1>2. ASSUME TrackProjectChanges(p, data)
        PROVE  \/ /\ Adopts(p, data, projectFile)
                  /\ \/ proc[p].job.restore # "RestoreAndTrackChanges"
                     \/ projectFile <= data.graph.resolved
               \/ Resolves(p, data.graph)
    <2> DEFINE r == [proc[p] EXCEPT !.pc = "resolving", !.new = [data EXCEPT !.dirty = TRUE],
                                    !.data.dirty = proc[p].open, !.seen = projectFile]
               changed == /\ proc[p].job.restore = "RestoreAndTrackChanges"
                          /\ data.graph.resolved < projectFile
    <2>1. IF ~changed THEN proc' = [proc EXCEPT ![p] = Adopt(p, data, projectFile)]
                      ELSE proc' = [proc EXCEPT ![p] = r]
      BY <1>2 DEF TrackProjectChanges
    <2>2. /\ r.pc = "resolving" /\ r.job = proc[p].job /\ r.open = proc[p].open
          /\ r.data.graph = proc[p].data.graph /\ r.data.unmarked = proc[p].data.unmarked
          /\ r.data.dirty = proc[p].open /\ r.new.graph = data.graph /\ r.new.dirty = TRUE
          /\ r.seen = projectFile /\ r.failed = proc[p].failed
      BY DEF Data
    <2> HIDE DEF r
    <2>3. ~changed => \/ proc[p].job.restore # "RestoreAndTrackChanges"
                      \/ projectFile <= data.graph.resolved
      BY DataUpdates, GraphUpdates DEF Time
    <2>4. ASSUME proc' = [proc EXCEPT ![p] = r] PROVE Resolves(p, data.graph)
      <3>1. proc'[p] = r /\ Others(p)
        BY <2>4
      <3> QED
        BY <2>2, <3>1 DEF Resolves
    <2> HIDE DEF changed
    <2> QED
      BY <1>1, <2>1, <2>3, <2>4
  <1>3. StartFromScratch(p) => Resolves(p, Torn)
    BY DEF StartFromScratch, Resolves, NoData
  <1>4. AbortSetup(p) => Aborts(p)
    BY DEF AbortSetup, Aborts
  <1> QED
    BY <1>1, <1>2, <1>3, <1>4

\* The loading step finds the graph of the open project or that of the file, or none.
LEMMA LoadEffects ==
    ASSUME TypeOK, NEW p \in Processes, Load(p)
    PROVE  /\ proc[p].pc = "loading" /\ UNCHANGED <<world, outputs, file>>
           /\ \/ Aborts(p)
              \/ Resolves(p, Torn)
              \/ /\ proc[p].open
                 /\ \/ /\ Adopts(p, proc[p].data, projectFile)
                       /\ \/ proc[p].job.restore # "RestoreAndTrackChanges"
                          \/ projectFile <= proc[p].data.graph.resolved
                    \/ Resolves(p, proc[p].data.graph)
              \/ /\ file.magic /\ ~proc[p].open
                 /\ \/ \E data : /\ data.graph = file.graph /\ ~data.unmarked
                                 /\ Adopts(p, data, projectFile)
                                 /\ \/ proc[p].job.restore # "RestoreAndTrackChanges"
                                    \/ projectFile <= data.graph.resolved
                    \/ Resolves(p, file.graph)
  <1> DEFINE d == [NoData EXCEPT !.graph = file.graph]
  <1>1. d \in Data /\ d.graph = file.graph /\ ~d.unmarked /\ proc[p].data \in Data
    <2>1. proc[p].data \in Data /\ file.graph \in Graph
      BY ProcessUpdates DEF TypeOK, File
    <2>2. d \in Data
      BY <2>1, ConstantTypes, DataUpdates
    <2>3. d.graph = file.graph /\ ~d.unmarked
      BY DEF NoData
    <2> QED
      BY <2>1, <2>2, <2>3
  <1>2. \/ AbortSetup(p) \/ StartFromScratch(p)
        \/ proc[p].open /\ TrackProjectChanges(p, proc[p].data)
        \/ file.magic /\ ~proc[p].open /\ TrackProjectChanges(p, d)
    BY DEF Load, LoadFromDisk
  <1> HIDE DEF d
  <1>3. proc[p].pc = "loading" /\ UNCHANGED <<world, outputs, file>>
    BY DEF Load
  <1> QED
    BY <1>1, <1>2, <1>3, SetupEffects

\* The end of resolving keeps the time, and what it keeps of the output's time stamp.
LEMMA ReadEffects ==
    ASSUME TypeOK, NEW p \in Processes, ReadProject(p)
    PROVE  /\ proc[p].pc = "reading" /\ UNCHANGED <<world, outputs, file>>
           /\ \E data :
                /\ Adopts(p, data, proc[p].seen)
                /\ data.graph.project \in {proc[p].new.graph.project, projectFile}
                /\ data.graph.resolved = proc[p].new.graph.resolved
                /\ data.graph.stamp \in {proc[p].new.graph.stamp, 0}
                /\ data.graph.stamp # 0 => data.graph.dry = proc[p].new.graph.dry
                /\ data.dirty = proc[p].new.dirty \/ data.unmarked
  <1>1. /\ proc[p] \in Process /\ proc[p].new \in Data
        /\ proc[p].new.graph \in Graph /\ projectFile \in 0 .. MaxTime /\ 0 \in 0 .. MaxTime
    BY TimeType, ProcessUpdates, DataUpdates DEF TypeOK
  <1>2. PICK stamp \in {proc[p].new.graph.stamp, 0},
             read \in {proc[p].new.graph.project, projectFile} :
             \E data \in RemoveProducts(p, [proc[p].new EXCEPT !.graph =
                             [proc[p].new.graph EXCEPT !.project = read, !.stamp = stamp,
                                                       !.dry = proc[p].new.graph.dry /\ stamp # 0]]) :
                 proc' = [proc EXCEPT ![p] = Adopt(p, data, proc[p].seen)]
    BY DEF ReadProject
  <1> DEFINE dry == proc[p].new.graph.dry /\ stamp # 0
             g == [proc[p].new.graph EXCEPT !.project = read, !.stamp = stamp, !.dry = dry]
             new == [proc[p].new EXCEPT !.graph = g]
  <1>3. dry \in BOOLEAN /\ (stamp # 0 => dry = proc[p].new.graph.dry)
    BY <1>1, GraphUpdates
  <1>4. stamp \in 0 .. MaxTime /\ read \in 0 .. MaxTime
    BY <1>1, GraphUpdates
  <1> HIDE DEF dry
  <1>5. /\ g \in Graph /\ g.project = read /\ g.stamp = stamp /\ g.dry = dry
        /\ g.resolved = proc[p].new.graph.resolved
    BY <1>1, <1>3, <1>4 DEF Graph
  <1>6. PICK data \in RemoveProducts(p, new) :
             proc' = [proc EXCEPT ![p] = Adopt(p, data, proc[p].seen)]
    BY <1>2 DEF dry
  <1> HIDE DEF g
  <1>7. new \in Data /\ new.graph = g /\ new.dirty = proc[p].new.dirty
    BY <1>1, <1>5 DEF Data
  <1> HIDE DEF new
  <1>8. data = new \/ data = [new EXCEPT !.dirty = FALSE, !.unmarked = TRUE]
    BY <1>6 DEF RemoveProducts
  <1>9. data \in Data /\ data.graph = g /\ (data.dirty = proc[p].new.dirty \/ data.unmarked)
    BY <1>7, <1>8 DEF Data
  <1>10. Adopts(p, data, proc[p].seen)
    BY <1>6, <1>9, SetupEffects
  <1>11. proc[p].pc = "reading" /\ UNCHANGED <<world, outputs, file>>
    BY DEF ReadProject
  <1> QED
    BY <1>3, <1>5, <1>9, <1>10, <1>11

\* The begin of resolving sets the time and the project file of the new graph.
LEMMA ResolveEffects ==
    ASSUME TypeOK, NEW p \in Processes, StartResolving(p)
    PROVE  /\ proc[p].pc = "resolving" /\ UNCHANGED <<world, outputs, file>>
           /\ Others(p)
           /\ proc'[p].pc = "reading" /\ proc'[p].job = proc[p].job /\ proc'[p].open = proc[p].open
           /\ proc'[p].data = proc[p].data /\ proc'[p].seen = proc[p].seen
           /\ proc'[p].failed = proc[p].failed
           /\ proc'[p].new.dirty = proc[p].new.dirty
           /\ proc'[p].new.graph.resolved = now /\ proc'[p].new.graph.project = projectFile
           /\ proc'[p].new.graph.stamp = proc[p].new.graph.stamp
           /\ proc'[p].new.graph.dry = proc[p].new.graph.dry
  BY DEF StartResolving, TypeOK, Process, Data, Graph, Others

\* The steps of a build: only a successful command changes the build data.
LEMMA BuildEffects ==
    ASSUME TypeOK, NEW p \in Processes
    PROVE  /\ StartCommand(p) \/ NothingToBuild(p) =>
                  /\ Others(p) /\ proc'[p].job = proc[p].job /\ proc'[p].open = proc[p].open
                  /\ proc'[p].data = proc[p].data /\ proc'[p].new = proc[p].new
                  /\ proc'[p].seen = source /\ proc'[p].failed = proc[p].failed
                  /\ proc'[p].pc = IF StartCommand(p) THEN "running" ELSE "storing"
           /\ CommandFails(p) =>
                  /\ Others(p) /\ proc'[p].job = proc[p].job /\ proc'[p].open = proc[p].open
                  /\ proc'[p].data = proc[p].data /\ proc'[p].new = proc[p].new
                  /\ proc'[p].seen = proc[p].seen /\ proc'[p].failed = TRUE
                  /\ proc'[p].pc = "storing"
           /\ FinishCommand(p) =>
                  /\ Others(p) /\ proc'[p].job = proc[p].job /\ proc'[p].open = proc[p].open
                  /\ proc'[p].data.dirty = TRUE /\ proc'[p].data.unmarked = proc[p].data.unmarked
                  /\ proc'[p].data.graph.stamp = now /\ proc'[p].data.graph.dry = proc[p].job.dry
                  /\ proc'[p].data.graph.resolved = proc[p].data.graph.resolved
                  /\ proc'[p].data.graph.project = proc[p].data.graph.project
                  /\ proc'[p].new = proc[p].new
                  /\ proc'[p].seen = proc[p].seen /\ proc'[p].failed = proc[p].failed
                  /\ proc'[p].pc = "storing"
  <1> USE DEF TypeOK, Process, Others
  <1>1. StartCommand(p) =>
                  /\ Others(p) /\ proc'[p].job = proc[p].job /\ proc'[p].open = proc[p].open
                  /\ proc'[p].data = proc[p].data /\ proc'[p].new = proc[p].new
                  /\ proc'[p].seen = source /\ proc'[p].failed = proc[p].failed
                  /\ proc'[p].pc = "running"
    BY DEF StartCommand
  <1>2. NothingToBuild(p) =>
                  /\ Others(p) /\ proc'[p].job = proc[p].job /\ proc'[p].open = proc[p].open
                  /\ proc'[p].data = proc[p].data /\ proc'[p].new = proc[p].new
                  /\ proc'[p].seen = source /\ proc'[p].failed = proc[p].failed
                  /\ proc'[p].pc = "storing"
    BY DEF NothingToBuild
  <1>3. NothingToBuild(p) => ~StartCommand(p)
    BY DEF NothingToBuild, StartCommand
  <1>4. CommandFails(p) =>
                  /\ Others(p) /\ proc'[p].job = proc[p].job /\ proc'[p].open = proc[p].open
                  /\ proc'[p].data = proc[p].data /\ proc'[p].new = proc[p].new
                  /\ proc'[p].seen = proc[p].seen /\ proc'[p].failed = TRUE
                  /\ proc'[p].pc = "storing"
    BY DEF CommandFails
  <1>5. FinishCommand(p) =>
                  /\ Others(p) /\ proc'[p].job = proc[p].job /\ proc'[p].open = proc[p].open
                  /\ proc'[p].data.dirty = TRUE /\ proc'[p].data.unmarked = proc[p].data.unmarked
                  /\ proc'[p].data.graph.stamp = now /\ proc'[p].data.graph.dry = proc[p].job.dry
                  /\ proc'[p].data.graph.resolved = proc[p].data.graph.resolved
                  /\ proc'[p].data.graph.project = proc[p].data.graph.project
                  /\ proc'[p].new = proc[p].new
                  /\ proc'[p].seen = proc[p].seen /\ proc'[p].failed = proc[p].failed
                  /\ proc'[p].pc = "storing"
    BY DEF FinishCommand, Data, Graph
  <1> QED
    BY <1>1, <1>2, <1>3, <1>4, <1>5

\* Cleaning invalidates the time stamp, and marks the build data as dirty if that is news.
LEMMA CleanEffects ==
    ASSUME TypeOK, NEW p \in Processes, Clean(p)
    PROVE  /\ Others(p) /\ proc[p].pc = "cleaning" /\ proc'[p].pc = "storing"
           /\ proc'[p].job = proc[p].job /\ proc'[p].open = proc[p].open /\ proc'[p].new = proc[p].new
           /\ proc'[p].seen = proc[p].seen
           /\ \/ proc'[p].data = proc[p].data
              \/ /\ ~proc[p].job.dry /\ proc'[p].data.dirty = TRUE /\ proc'[p].data.graph.stamp = 0
                 /\ proc'[p].data.graph.resolved = proc[p].data.graph.resolved
                 /\ proc'[p].data.graph.project = proc[p].data.graph.project
           /\ ~proc[p].job.dry => proc'[p].data.graph.stamp = 0
           /\ output' = output \/ (output' = 0 /\ ~proc[p].job.dry)
           /\ UNCHANGED <<world, excused, file>>
  <1> DEFINE inv == ~proc[p].job.dry /\ proc[p].data.graph.stamp # 0
             stamp == IF inv THEN 0 ELSE proc[p].data.graph.stamp
             dry == proc[p].data.graph.dry /\ ~inv
             dirty == proc[p].data.dirty \/ inv
  <1>1. PICK failed \in BOOLEAN :
            /\ proc' = [proc EXCEPT ![p].pc = "storing", ![p].failed = failed,
                                    ![p].data.graph.stamp = stamp, ![p].data.graph.dry = dry,
                                    ![p].data.dirty = dirty]
            /\ output' = IF failed \/ proc[p].job.dry THEN output ELSE 0
    BY DEF Clean
  <1>2. /\ proc[p] \in Process /\ proc[p].data \in Data /\ proc[p].data.graph \in Graph
        /\ proc[p].data.graph.dry \in BOOLEAN /\ proc[p].data.dirty \in BOOLEAN
    BY ProcessUpdates, DataUpdates, GraphUpdates DEF TypeOK
  <1>3. /\ inv => stamp = 0 /\ dirty = TRUE
        /\ ~inv => stamp = proc[p].data.graph.stamp /\ dry = proc[p].data.graph.dry
                   /\ dirty = proc[p].data.dirty
        /\ ~proc[p].job.dry => stamp = 0
    BY <1>2
  <1> HIDE DEF stamp, dry, dirty
  <1>4. /\ Others(p) /\ proc'[p].pc = "storing"
        /\ proc'[p].job = proc[p].job /\ proc'[p].open = proc[p].open /\ proc'[p].new = proc[p].new
        /\ proc'[p].seen = proc[p].seen
        /\ proc'[p].data.dirty = dirty /\ proc'[p].data.graph.stamp = stamp
        /\ proc'[p].data.graph.resolved = proc[p].data.graph.resolved
        /\ proc'[p].data.graph.project = proc[p].data.graph.project
    BY <1>1 DEF TypeOK, Process, Data, Graph, Others
  <1>5. proc'[p].data = [proc[p].data EXCEPT !.graph.stamp = stamp, !.graph.dry = dry, !.dirty = dirty]
    BY <1>1 DEF TypeOK, Process
  <1>6. ~inv => proc'[p].data = proc[p].data
    <2> SUFFICES ASSUME ~inv PROVE proc'[p].data = proc[p].data
      OBVIOUS
    <2> DEFINE d == proc[p].data
    <2>1. d \in Data /\ d.graph \in Graph
      BY <1>2
    <2> HIDE DEF d
    <2>2. [d.graph EXCEPT !.stamp = d.graph.stamp] = d.graph /\ [d.graph EXCEPT !.dry = d.graph.dry] = d.graph
      BY <2>1 DEF Graph
    <2>3. [d EXCEPT !.graph = d.graph] = d /\ [d EXCEPT !.dirty = d.dirty] = d
      BY <2>1 DEF Data
    <2>4. [d EXCEPT !.graph.stamp = d.graph.stamp] = d
      BY <2>2, <2>3
    <2>5. [d EXCEPT !.graph.dry = d.graph.dry] = d
      BY <2>2, <2>3
    <2>6. [d EXCEPT !.graph.stamp = d.graph.stamp, !.graph.dry = d.graph.dry, !.dirty = d.dirty] = d
      BY <2>3, <2>4, <2>5
    <2> QED
      BY <1>3, <1>5, <2>6 DEF d
  <1>7. proc[p].pc = "cleaning" /\ UNCHANGED <<world, excused, file>>
    BY DEF Clean
  <1>8. output' = output \/ (output' = 0 /\ ~proc[p].job.dry)
    BY <1>1
  <1> QED
    BY <1>3, <1>4, <1>6, <1>7, <1>8

\* The build graph could not be stored.
Fails(p) ==
    /\ Others(p)
    /\ proc'[p].pc = "finished" /\ proc'[p].job = proc[p].job /\ proc'[p].open = proc[p].open
    /\ proc'[p].data = proc[p].data /\ proc'[p].new = proc[p].new
    /\ proc'[p].seen = proc[p].seen /\ proc'[p].failed = TRUE

\* The steps of InternalJob::storeBuildGraph(), and those at the begin and the end of a job.
LEMMA StoreEffects ==
    ASSUME TypeOK, NEW p \in Processes
    PROVE  /\ \A pc : Write(p, pc) => Proceeds(p, pc)
           /\ StoringFails(p) => Fails(p)
           /\ TryLock(p) => Proceeds(p, "loading")
           /\ FinalizeWriteStream(p) =>
                  \/ Fails(p) /\ file' \in {file, NoFile}
                  \/ /\ Others(p) /\ file' = [file EXCEPT !.magic = TRUE]
                     /\ proc'[p].pc = "finished" /\ proc'[p].job = proc[p].job
                     /\ proc'[p].open = proc[p].open
                     /\ proc'[p].data.graph = proc[p].data.graph /\ proc'[p].new = proc[p].new
                     /\ proc'[p].seen = proc[p].seen /\ proc'[p].failed = proc[p].failed
           /\ FinishJob(p) =>
                  /\ Others(p)
                  /\ proc'[p].pc = "idle" /\ proc'[p].open = proc[p].open
                  /\ proc'[p].data = proc[p].data /\ proc'[p].new = proc[p].new /\ proc'[p].seen = 0
  <1> USE DEF TypeOK, Process, Others
  <1>1. \A pc : Write(p, pc) => Proceeds(p, pc)
    BY DEF Write, Proceeds
  <1>2. StoringFails(p) => Fails(p)
    BY DEF StoringFails, Fails
  <1>3. TryLock(p) => Proceeds(p, "loading")
    BY DEF TryLock, Proceeds
  <1>4. ASSUME FinalizeWriteStream(p)
        PROVE  \/ Fails(p) /\ file' \in {file, NoFile}
               \/ /\ Others(p) /\ file' = [file EXCEPT !.magic = TRUE]
                     /\ proc'[p].pc = "finished" /\ proc'[p].job = proc[p].job
                     /\ proc'[p].open = proc[p].open
                     /\ proc'[p].data.graph = proc[p].data.graph /\ proc'[p].new = proc[p].new
                     /\ proc'[p].seen = proc[p].seen /\ proc'[p].failed = proc[p].failed
    <2>1. \/ StoringFails(p) /\ file' \in {file, NoFile}
          \/ /\ file' = [file EXCEPT !.magic = TRUE]
             /\ proc' = [proc EXCEPT ![p].pc = "finished", ![p].data.dirty = FALSE,
                                     ![p].data.unmarked = FALSE]
      BY <1>4 DEF FinalizeWriteStream
    <2>2. CASE /\ file' = [file EXCEPT !.magic = TRUE]
               /\ proc' = [proc EXCEPT ![p].pc = "finished", ![p].data.dirty = FALSE,
                                       ![p].data.unmarked = FALSE]
      BY <2>2 DEF Data
    <2> QED
      BY <1>2, <2>1, <2>2
  <1>5. FinishJob(p) =>
                  /\ Others(p)
                  /\ proc'[p].pc = "idle" /\ proc'[p].open = proc[p].open
                  /\ proc'[p].data = proc[p].data /\ proc'[p].new = proc[p].new /\ proc'[p].seen = 0
    BY DEF FinishJob
  <1> QED
    BY <1>1, <1>2, <1>3, <1>4, <1>5

----------------------------------------------------------------------------
(* DataInv is inductive.                                                   *)

\* The numbers that the invariants compare.
LEMMA Numbers ==
    ASSUME TypeOK, NEW p \in Processes
    PROVE  /\ now \in Nat /\ source \in Nat /\ projectFile \in Nat /\ output \in Nat
           /\ now # 0 /\ source # 0 /\ projectFile # 0
           /\ proc[p].seen \in Nat
           /\ proc[p].data.graph.stamp \in Nat /\ proc[p].data.graph.resolved \in Nat
           /\ proc[p].new.graph.stamp \in Nat /\ proc[p].new.graph.resolved \in Nat
           /\ file.graph.stamp \in Nat /\ file.graph.resolved \in Nat
  <1>1. proc[p] \in Process /\ file.graph \in Graph
    BY DEF TypeOK, File
  <1>2. /\ proc[p].seen \in 0 .. MaxTime /\ proc[p].data.graph \in Graph /\ proc[p].new.graph \in Graph
    BY <1>1, ProcessUpdates, DataUpdates
  <1> QED
    BY <1>1, <1>2, GraphUpdates, BoundsAssumption DEF TypeOK, Time

\* What the invariants say of one process.
ProcessInv(p) == StagesInv(p) /\ StoredInv(p) /\ CurrentInv(p) /\ FreshInv(p)

\* The graphs of a process are not later than now.
Timely(p) ==
    NotLater(proc[p].data.graph) /\ NotLater(proc[p].new.graph) /\ proc[p].seen <= now

\* A process is only concerned with the steps of others while it does not use the build graph, and
\* then nothing is asked of it.
LEMMA OthersKeep ==
    ASSUME TypeOK, LockInv, DataInv, NEW p \in Processes, NEW q \in Processes \ {p},
           proc'[q] = proc[q], UNCHANGED world, UNCHANGED <<file, outputs>> \/ Using(p)
    PROVE  ProcessInv(q)' /\ Timely(q)'
  <1>1. ProcessInv(q) /\ Timely(q)
    BY DEF DataInv, TimesInv, ProcessInv, Timely
  <1>2. Timely(q)' /\ StagesInv(q)'
    BY <1>1 DEF Timely, NotLater, ProcessInv, StagesInv, world
  <1>3. CASE UNCHANGED <<file, outputs>>
    BY <1>1, <1>2, <1>3 DEF ProcessInv, StagesInv, StoredInv, CurrentInv, FreshInv, Stored, Tracks, Honest,
       UpToDate, world, outputs
  <1>4. CASE Using(p)
    <2>1. ~Using(q)
      BY <1>4 DEF LockInv
    <2>2. ~proc[q].open /\ proc[q].pc \in {"idle", "locking", "finished"}
          /\ (proc[q].pc = "finished" => proc[q].failed)
      BY <1>1, <2>1 DEF Using, ProcessInv, StagesInv
    <2> QED
      BY <1>2, <2>2 DEF ProcessInv, StoredInv, CurrentInv, FreshInv, Ending
  <1> QED
    BY <1>3, <1>4

\* It remains to look at the process that takes the step, and at the file.
LEMMA OneStep ==
    ASSUME TypeOK, LockInv, DataInv, NEW p \in Processes, Others(p), UNCHANGED world,
           UNCHANGED <<file, outputs>> \/ Using(p),
           ProcessInv(p)', Timely(p)', FileInv', NotLater(file.graph)'
    PROVE  DataInv'
  <1>1. \A q \in Processes : ProcessInv(q)' /\ Timely(q)'
    BY OthersKeep DEF Others
  <1>2. TimesInv'
    BY <1>1 DEF DataInv, TimesInv, Timely, world
  <1> QED
    BY <1>1, <1>2 DEF DataInv, ProcessInv

\* The file is as good as before if neither it nor the output has changed, and no project was
\* closed.
LEMMA FileKept ==
    ASSUME DataInv, NEW p \in Processes, Others(p), UNCHANGED <<world, file, outputs>>,
           proc[p].open => proc'[p].open
    PROVE  FileInv' /\ NotLater(file.graph)'
  <1>1. (\A q \in Processes : ~proc'[q].open) => (\A q \in Processes : ~proc[q].open)
    BY DEF Others
  <1>2. FileInv /\ NotLater(file.graph)
    BY DEF DataInv, TimesInv
  <1>3. (Honest(file.graph) => Honest(file.graph)') /\ (Tracks(file.graph) => Tracks(file.graph)')
    BY DEF Honest, Tracks, UpToDate, world, outputs
  <1> QED
    BY <1>1, <1>2, <1>3 DEF FileInv, NotLater, world, outputs

\* The setup is waiting, ends with an error or goes on to resolve.
LEMMA SetupStep ==
    ASSUME TypeOK, LockInv, DataInv, NEW p \in Processes, UNCHANGED <<world, outputs, file>>,
           proc[p].pc \in {"locking", "loading", "reading"},
           \/ Aborts(p) \/ (proc[p].pc = "locking" /\ Proceeds(p, "loading"))
           \/ \E g : Resolves(p, g) /\ Honest(g) /\ NotLater(g)
    PROVE  DataInv'
  <1>1. ProcessInv(p) /\ Timely(p)
    BY DEF DataInv, TimesInv, ProcessInv, Timely
  <1> USE DEF world, outputs
  <1>2. CASE Aborts(p)
    <2>1. Timely(p)'
      BY <1>1, <1>2, Numbers DEF Timely, NotLater, Aborts, NoData, Torn
    <2>2. ProcessInv(p)'
      BY <1>1, <1>2 DEF Aborts, ProcessInv, StagesInv, StoredInv, CurrentInv, FreshInv, Stored, Tracks, Honest,
         UpToDate, Ending
    <2>3. Others(p) /\ proc'[p].open = proc[p].open
      BY <1>2 DEF Aborts
    <2> QED
      BY <2>1, <2>2, <2>3, FileKept, OneStep
  <1>3. CASE proc[p].pc = "locking" /\ Proceeds(p, "loading")
    <2>1. Timely(p)'
      BY <1>1, <1>3 DEF Timely, NotLater, Proceeds
    <2>2. ProcessInv(p)'
      BY <1>1, <1>3 DEF Proceeds, ProcessInv, StagesInv, StoredInv, CurrentInv, FreshInv, Stored, Tracks, Honest,
         UpToDate, Ending
    <2>3. Others(p) /\ proc'[p].open = proc[p].open
      BY <1>3 DEF Proceeds
    <2> QED
      BY <2>1, <2>2, <2>3, FileKept, OneStep
  <1>4. ASSUME NEW g, Resolves(p, g), Honest(g), NotLater(g) PROVE DataInv'
    <2>1. Timely(p)'
      BY <1>1, <1>4, Numbers DEF Timely, NotLater, Resolves, DataInv, TimesInv
    <2>2. StagesInv(p)' /\ CurrentInv(p)' /\ FreshInv(p)'
      <3>1. proc[p].job.kind = "setup"
        BY <1>1 DEF ProcessInv, StagesInv
      <3> QED
        BY <1>1, <1>4, <3>1 DEF Resolves, ProcessInv, StagesInv, CurrentInv, FreshInv, Tracks, Honest,
           UpToDate, Ending
    <2>4. StoredInv(p)'
      BY <1>1, <1>4 DEF Resolves, ProcessInv, StoredInv, Stored
    <2>3. Others(p) /\ proc'[p].open = proc[p].open
      BY <1>4 DEF Resolves
    <2> QED
      BY <2>1, <2>2, <2>3, <2>4, FileKept, OneStep DEF ProcessInv
  <1> QED
    BY <1>2, <1>3, <1>4

\* The setup makes some build data that of its project.
LEMMA AdoptStep ==
    ASSUME TypeOK, LockInv, DataInv, NEW p \in Processes, UNCHANGED <<world, outputs, file>>,
           proc[p].pc \in {"loading", "reading"},
           NEW data, NEW seen, Adopts(p, data, seen), NotLater(data.graph), seen <= now,
           Tracks(data.graph), Honest(data.graph),
           ~data.dirty /\ ~data.unmarked => file.magic /\ file.graph = data.graph,
           proc[p].job.restore = "RestoreAndTrackChanges" /\ seen = projectFile
               => projectFile <= data.graph.resolved
    PROVE  DataInv'
  <1>1. ProcessInv(p)
    BY DEF DataInv, ProcessInv
  <1>2. proc[p].job.kind = "setup"
    BY <1>1 DEF ProcessInv, StagesInv
  <1> USE DEF world, outputs
  <1>3. Timely(p)'
    BY Numbers DEF Timely, NotLater, Adopts, NoData, Torn
  <1>4. StagesInv(p)' /\ StoredInv(p)'
    BY <1>2 DEF Adopts, StagesInv, StoredInv, Stored
  <1>5. CurrentInv(p)' /\ FreshInv(p)'
    BY <1>2 DEF Adopts, CurrentInv, FreshInv, Tracks, Honest, UpToDate, Ending
  <1>6. Others(p) /\ proc'[p].open
    BY DEF Adopts
  <1> QED
    BY <1>3, <1>4, <1>5, <1>6, FileKept, OneStep DEF ProcessInv

\* InternalSetupProjectJob::execute() up to the point where the project is resolved.
LEMMA LoadStep ==
    ASSUME TypeOK, LockInv, DataInv, NEW p \in Processes, Load(p)
    PROVE  DataInv'
  <1>1. ProcessInv(p) /\ Timely(p) /\ FileInv /\ NotLater(file.graph) /\ projectFile <= now
    BY DEF DataInv, TimesInv, ProcessInv, Timely
  <1>2. proc[p].pc = "loading" /\ UNCHANGED <<world, outputs, file>>
    BY LoadEffects
  <1>3. Honest(Torn) /\ NotLater(Torn)
    BY Numbers DEF Honest, UpToDate, NotLater, Torn
  <1>4. CASE Aborts(p) \/ Resolves(p, Torn)
    BY <1>2, <1>3, <1>4, SetupStep
  <1>5. CASE /\ proc[p].open
             /\ \/ /\ Adopts(p, proc[p].data, projectFile)
                   /\ \/ proc[p].job.restore # "RestoreAndTrackChanges"
                      \/ projectFile <= proc[p].data.graph.resolved
                \/ Resolves(p, proc[p].data.graph)
    <2>1. /\ Honest(proc[p].data.graph) /\ Tracks(proc[p].data.graph) /\ NotLater(proc[p].data.graph)
          /\ ~proc[p].data.dirty /\ ~proc[p].data.unmarked =>
                 file.magic /\ file.graph = proc[p].data.graph
      BY <1>1, <1>5 DEF ProcessInv, FreshInv, CurrentInv, StoredInv, Stored, Timely
    <2> QED
      BY <1>1, <1>2, <1>5, <2>1, SetupStep, AdoptStep
  <1>6. CASE /\ file.magic /\ ~proc[p].open
             /\ \/ \E data : /\ data.graph = file.graph /\ ~data.unmarked
                             /\ Adopts(p, data, projectFile)
                             /\ \/ proc[p].job.restore # "RestoreAndTrackChanges"
                                \/ projectFile <= data.graph.resolved
                \/ Resolves(p, file.graph)
    <2>1. \A q \in Processes : ~proc[q].open
      BY <1>2, <1>6 DEF LockInv, Using
    <2>2. Honest(file.graph) /\ Tracks(file.graph)
      BY <1>1, <1>6, <2>1 DEF FileInv
    <2>3. ASSUME NEW data, data.graph = file.graph, ~data.unmarked, Adopts(p, data, projectFile),
                 \/ proc[p].job.restore # "RestoreAndTrackChanges"
                 \/ projectFile <= data.graph.resolved
          PROVE  DataInv'
      <3>1. Honest(data.graph) /\ Tracks(data.graph) /\ NotLater(data.graph)
        BY <1>1, <2>2, <2>3
      <3> QED
        BY <1>1, <1>2, <1>6, <2>3, <3>1, AdoptStep
    <2> QED
      BY <1>1, <1>2, <1>6, <2>2, <2>3, SetupStep
  <1> QED
    BY <1>4, <1>5, <1>6, LoadEffects

\* Loader::loadProject() starts.
LEMMA ResolveStep ==
    ASSUME TypeOK, LockInv, DataInv, NEW p \in Processes, StartResolving(p)
    PROVE  DataInv'
  <1>1. ProcessInv(p) /\ Timely(p) /\ projectFile <= now
    BY DEF DataInv, TimesInv, ProcessInv, Timely
  <1>2. /\ proc[p].pc = "resolving" /\ UNCHANGED <<world, outputs, file>>
        /\ Others(p)
        /\ proc'[p].pc = "reading" /\ proc'[p].job = proc[p].job /\ proc'[p].open = proc[p].open
        /\ proc'[p].data = proc[p].data /\ proc'[p].seen = proc[p].seen
        /\ proc'[p].failed = proc[p].failed
        /\ proc'[p].new.dirty = proc[p].new.dirty
        /\ proc'[p].new.graph.resolved = now /\ proc'[p].new.graph.project = projectFile
        /\ proc'[p].new.graph.stamp = proc[p].new.graph.stamp
        /\ proc'[p].new.graph.dry = proc[p].new.graph.dry
    BY ResolveEffects
  <1> USE DEF world, outputs
  <1>3. Timely(p)'
    BY <1>1, <1>2, Numbers DEF Timely, NotLater
  <1>4. StagesInv(p)' /\ StoredInv(p)'
    BY <1>1, <1>2 DEF ProcessInv, StagesInv, StoredInv, Stored
  <1>5. CurrentInv(p)'
    BY <1>1, <1>2, Numbers DEF ProcessInv, CurrentInv, Timely, Tracks, Ending
  <1>6. FreshInv(p)'
    BY <1>1, <1>2 DEF ProcessInv, FreshInv, Honest, UpToDate, Ending
  <1> QED
    BY <1>2, <1>3, <1>4, <1>5, <1>6, FileKept, OneStep DEF ProcessInv

\* The project has been resolved.
LEMMA ReadStep ==
    ASSUME TypeOK, LockInv, DataInv, NEW p \in Processes, ReadProject(p)
    PROVE  DataInv'
  <1>1. ProcessInv(p) /\ Timely(p) /\ projectFile <= now
    BY DEF DataInv, TimesInv, ProcessInv, Timely
  <1>2. PICK data :
            /\ Adopts(p, data, proc[p].seen)
            /\ data.graph.project \in {proc[p].new.graph.project, projectFile}
            /\ data.graph.resolved = proc[p].new.graph.resolved
            /\ data.graph.stamp \in {proc[p].new.graph.stamp, 0}
            /\ data.graph.stamp # 0 => data.graph.dry = proc[p].new.graph.dry
            /\ data.dirty = proc[p].new.dirty \/ data.unmarked
    BY ReadEffects
  <1>3. proc[p].pc = "reading" /\ UNCHANGED <<world, outputs, file>>
    BY ReadEffects
  <1>4. /\ proc[p].new.dirty /\ Tracks(proc[p].new.graph) /\ Honest(proc[p].new.graph)
        /\ proc[p].seen <= proc[p].new.graph.resolved /\ NotLater(proc[p].new.graph)
    BY <1>1, <1>3 DEF ProcessInv, StoredInv, CurrentInv, FreshInv, Timely
  <1>5. NotLater(data.graph) /\ Tracks(data.graph)
    BY <1>2, <1>4, Numbers DEF NotLater, Tracks
  <1>6. Honest(data.graph)
    BY <1>2, <1>4 DEF Honest, UpToDate
  <1>7. proc[p].seen = projectFile => projectFile <= data.graph.resolved
    BY <1>2, <1>4
  <1> QED
    BY <1>1, <1>2, <1>3, <1>4, <1>5, <1>6, <1>7, AdoptStep DEF Timely

\* The output, once the process whose project is open has touched it.
LEMMA FileUnderWork ==
    ASSUME DataInv, NEW p \in Processes, Others(p), UNCHANGED <<world, file>>, proc'[p].open,
           output' = 0 \/ output' = source \/ excused' \/ UNCHANGED <<output, excused>>
    PROVE  FileInv' /\ NotLater(file.graph)'
  <1>1. FileInv /\ NotLater(file.graph)
    BY DEF DataInv, TimesInv
  <1>2. Tracks(file.graph) => Tracks(file.graph)'
    BY DEF Tracks, world
  <1>3. output' # 0 /\ (output # 0 => Honest(file.graph)) => Honest(file.graph)'
    BY DEF Honest, UpToDate, world
  <1> QED
    BY <1>1, <1>2, <1>3 DEF FileInv, NotLater, world

\* Executor::isUpToDate() says that nothing is to be done, or that the command is to be run.
LEMMA BuildStartStep ==
    ASSUME TypeOK, LockInv, DataInv, NEW p \in Processes, StartCommand(p) \/ NothingToBuild(p)
    PROVE  DataInv'
  <1>1. ProcessInv(p) /\ Timely(p) /\ source <= now
    BY DEF DataInv, TimesInv, ProcessInv, Timely
  <1>2. /\ Others(p) /\ proc'[p].job = proc[p].job /\ proc'[p].open = proc[p].open
        /\ proc'[p].data = proc[p].data /\ proc'[p].new = proc[p].new
        /\ proc'[p].seen = source /\ proc'[p].failed = proc[p].failed
        /\ proc'[p].pc = IF StartCommand(p) THEN "running" ELSE "storing"
    BY BuildEffects
  <1>3. proc[p].pc = "building" /\ UNCHANGED <<world, file>>
    BY DEF StartCommand, NothingToBuild
  <1>4. proc[p].open /\ Using(p) /\ proc[p].job.kind = "build"
    BY <1>1, <1>3 DEF LockInv, Using, ProcessInv, StagesInv
  <1> USE DEF world
  <1>5. Timely(p)'
    BY <1>1, <1>2, <1>3 DEF Timely, NotLater
  <1>6. CASE StartCommand(p)
    <2>1. /\ ~UpToDate(proc[p].data.graph) /\ output' = (IF proc[p].job.dry THEN output ELSE 0)
          /\ excused' = (excused /\ proc[p].job.dry) /\ proc'[p].pc = "running"
      BY <1>2, <1>6 DEF StartCommand
    <2>2. StagesInv(p)' /\ StoredInv(p)' /\ CurrentInv(p)' /\ FreshInv(p)'
      BY <1>1, <1>2, <1>3, <1>4, <2>1 DEF ProcessInv, StagesInv, StoredInv, CurrentInv, FreshInv, Stored,
         Tracks, Honest, UpToDate, Ending
    <2>3. output' = 0 \/ UNCHANGED <<output, excused>>
      BY <2>1 DEF TypeOK
    <2>4. FileInv' /\ NotLater(file.graph)'
      BY <1>2, <1>3, <1>4, <2>3, FileUnderWork
    <2> QED
      BY <1>2, <1>3, <1>4, <1>5, <2>2, <2>4, OneStep DEF ProcessInv
  <1>7. CASE ~StartCommand(p) /\ NothingToBuild(p)
    <2>1. UpToDate(proc[p].data.graph) /\ UNCHANGED outputs /\ proc'[p].pc = "storing"
      BY <1>2, <1>7 DEF NothingToBuild
    <2>2. StagesInv(p)' /\ StoredInv(p)' /\ CurrentInv(p)' /\ FreshInv(p)'
      BY <1>1, <1>2, <1>3, <1>4, <2>1 DEF ProcessInv, StagesInv, StoredInv, CurrentInv, FreshInv, Stored,
         Tracks, Honest, UpToDate, Ending, outputs
    <2> QED
      BY <1>2, <1>3, <1>4, <1>5, <2>1, <2>2, FileKept, OneStep DEF ProcessInv
  <1> QED
    BY <1>6, <1>7

\* The command ends.
LEMMA CommandEndStep ==
    ASSUME TypeOK, LockInv, DataInv, NEW p \in Processes, FinishCommand(p) \/ CommandFails(p)
    PROVE  DataInv'
  <1>1. ProcessInv(p) /\ Timely(p) /\ source <= now
    BY DEF DataInv, TimesInv, ProcessInv, Timely
  <1>3. proc[p].pc = "running" /\ UNCHANGED <<world, file>>
    BY DEF FinishCommand, CommandFails
  <1>4. /\ proc[p].open /\ Using(p) /\ proc[p].job.kind = "build"
        /\ ~UpToDate(proc[p].data.graph)
    BY <1>1, <1>3 DEF LockInv, Using, ProcessInv, StagesInv, FreshInv
  <1> USE DEF world
  <1>5. CASE CommandFails(p)
    <2>1. /\ Others(p) /\ proc'[p].job = proc[p].job /\ proc'[p].open = proc[p].open
          /\ proc'[p].data = proc[p].data /\ proc'[p].new = proc[p].new
          /\ proc'[p].seen = proc[p].seen /\ proc'[p].failed = TRUE
          /\ proc'[p].pc = "storing"
      BY <1>5, BuildEffects
    <2>2. UNCHANGED outputs
      BY <1>5 DEF CommandFails
    <2>3. Timely(p)'
      BY <1>1, <1>3, <2>1 DEF Timely, NotLater
    <2>4. StagesInv(p)' /\ StoredInv(p)' /\ CurrentInv(p)' /\ FreshInv(p)'
      BY <1>1, <1>3, <1>4, <2>1, <2>2 DEF ProcessInv, StagesInv, StoredInv, CurrentInv, FreshInv, Stored,
         Tracks, Honest, UpToDate, Ending, outputs
    <2> QED
      BY <1>3, <1>4, <2>1, <2>2, <2>3, <2>4, FileKept, OneStep DEF ProcessInv
  <1>6. CASE FinishCommand(p)
    <2>1. /\ Others(p) /\ proc'[p].job = proc[p].job /\ proc'[p].open = proc[p].open
          /\ proc'[p].data.dirty = TRUE /\ proc'[p].data.unmarked = proc[p].data.unmarked
          /\ proc'[p].data.graph.stamp = now /\ proc'[p].data.graph.dry = proc[p].job.dry
          /\ proc'[p].data.graph.resolved = proc[p].data.graph.resolved
          /\ proc'[p].data.graph.project = proc[p].data.graph.project
          /\ proc'[p].new = proc[p].new
          /\ proc'[p].seen = proc[p].seen /\ proc'[p].failed = proc[p].failed
          /\ proc'[p].pc = "storing"
      BY <1>6, BuildEffects
    <2>2. /\ output' = (IF proc[p].job.dry THEN output ELSE proc[p].seen)
          /\ excused' = (excused \/ (~proc[p].job.dry /\ proc[p].seen # source))
      BY <1>6 DEF FinishCommand
    <2>3. Timely(p)'
      BY <1>1, <1>3, <2>1, Numbers DEF Timely, NotLater
    <2>4. StagesInv(p)' /\ StoredInv(p)' /\ CurrentInv(p)'
      BY <1>1, <1>3, <1>4, <2>1 DEF ProcessInv, StagesInv, StoredInv, CurrentInv, Tracks, Ending
    <2>5. proc[p].job.dry \/ output' = source \/ excused'
      BY <2>2
    <2>6. FreshInv(p)'
      BY <1>1, <1>3, <2>1, <2>5, Numbers DEF FreshInv, Honest, UpToDate, Ending
    <2>7. output' = source \/ excused' \/ UNCHANGED <<output, excused>>
      BY <2>2 DEF TypeOK
    <2>8. FileInv' /\ NotLater(file.graph)'
      BY <1>3, <1>4, <2>1, <2>7, FileUnderWork
    <2> QED
      BY <1>3, <1>4, <2>1, <2>3, <2>4, <2>6, <2>8, OneStep DEF ProcessInv
  <1> QED
    BY <1>5, <1>6

\* ArtifactCleaner::cleanup().
LEMMA CleanStep ==
    ASSUME TypeOK, LockInv, DataInv, NEW p \in Processes, Clean(p)
    PROVE  DataInv'
  <1>1. ProcessInv(p) /\ Timely(p)
    BY DEF DataInv, TimesInv, ProcessInv, Timely
  <1>2. /\ Others(p) /\ proc[p].pc = "cleaning" /\ proc'[p].pc = "storing"
        /\ proc'[p].job = proc[p].job /\ proc'[p].open = proc[p].open /\ proc'[p].new = proc[p].new
        /\ proc'[p].seen = proc[p].seen
        /\ \/ proc'[p].data = proc[p].data
           \/ /\ ~proc[p].job.dry /\ proc'[p].data.dirty = TRUE /\ proc'[p].data.graph.stamp = 0
              /\ proc'[p].data.graph.resolved = proc[p].data.graph.resolved
              /\ proc'[p].data.graph.project = proc[p].data.graph.project
        /\ ~proc[p].job.dry => proc'[p].data.graph.stamp = 0
        /\ output' = output \/ (output' = 0 /\ ~proc[p].job.dry)
        /\ UNCHANGED <<world, excused, file>>
    BY CleanEffects
  <1>3. proc[p].open /\ Using(p) /\ proc[p].job.kind = "clean"
    BY <1>1, <1>2 DEF LockInv, Using, ProcessInv, StagesInv
  <1> USE DEF world
  <1>4. Timely(p)'
    BY <1>1, <1>2, Numbers DEF Timely, NotLater
  <1>5. StagesInv(p)' /\ StoredInv(p)'
    BY <1>1, <1>2, <1>3 DEF ProcessInv, StagesInv, StoredInv, Stored
  <1>6. CurrentInv(p)'
    BY <1>1, <1>2, <1>3 DEF ProcessInv, CurrentInv, Tracks, Ending
  <1>7. FreshInv(p)'
    <2>1. Honest(proc[p].data.graph)'
      BY <1>1, <1>2, <1>3 DEF ProcessInv, FreshInv, Honest, UpToDate
    <2> QED
      BY <1>2, <1>3, <2>1 DEF FreshInv
  <1>8. FileInv' /\ NotLater(file.graph)'
    BY <1>2, <1>3, FileUnderWork
  <1> QED
    BY <1>2, <1>3, <1>4, <1>5, <1>6, <1>7, <1>8, OneStep DEF ProcessInv

\* InternalJob::storeBuildGraph(): the file is complete only with the data of the open project.
LEMMA StoreStep ==
    ASSUME TypeOK, LockInv, DataInv, NEW p \in Processes,
           \/ NothingToStore(p) \/ RemoveOldFile(p) \/ SetupWriteStream(p) \/ StoreObjects(p)
           \/ FinalizeWriteStream(p)
    PROVE  DataInv'
  <1>1. ProcessInv(p) /\ Timely(p)
    BY DEF DataInv, TimesInv, ProcessInv, Timely
  <1>2. /\ proc[p].pc \in {"storing", "opening", "writing", "finalizing"}
        /\ UNCHANGED <<world, outputs>>
    BY DEF NothingToStore, RemoveOldFile, SetupWriteStream, StoreObjects, FinalizeWriteStream, StoringFails
  <1>3. proc[p].open /\ Using(p)
    BY <1>2 DEF LockInv, Using
  <1>4. /\ Honest(proc[p].data.graph) /\ Tracks(proc[p].data.graph) /\ NotLater(proc[p].data.graph)
        /\ proc[p].pc # "storing" => proc[p].data.dirty
        /\ proc[p].pc = "finalizing" => file.graph = proc[p].data.graph
    BY <1>1, <1>2, <1>3 DEF ProcessInv, FreshInv, CurrentInv, StoredInv, Timely
  <1>5. /\ file.magic => Tracks(file.graph)
        /\ file.magic /\ output # 0 => Honest(file.graph)
        /\ NotLater(file.graph)
    BY DEF DataInv, TimesInv, FileInv
  <1>6. \/ /\ UNCHANGED file
           /\ Fails(p) \/ (proc[p].pc = "storing" /\ Proceeds(p, "finished"))
        \/ /\ file'.magic = FALSE /\ file'.graph = Torn
           /\ proc[p].pc # "storing" \/ proc[p].data.dirty
           /\ Fails(p) \/ Proceeds(p, "opening") \/ Proceeds(p, "writing")
        \/ /\ file'.magic = file.magic /\ file'.graph = proc[p].data.graph
           /\ proc[p].pc = "writing" /\ Proceeds(p, "finalizing")
        \/ /\ file'.magic = TRUE /\ file'.graph = file.graph /\ proc[p].pc = "finalizing"
           /\ Others(p)
           /\ proc'[p].pc = "finished" /\ proc'[p].job = proc[p].job
           /\ proc'[p].open = proc[p].open
           /\ proc'[p].data.graph = proc[p].data.graph /\ proc'[p].new = proc[p].new
           /\ proc'[p].seen = proc[p].seen /\ proc'[p].failed = proc[p].failed
    <2> USE StoreEffects
    <2>1. CASE NothingToStore(p)
      BY <2>1 DEF NothingToStore
    <2>2. CASE RemoveOldFile(p)
      BY <2>2 DEF RemoveOldFile, NoFile
    <2>3. CASE SetupWriteStream(p)
      BY <2>3 DEF SetupWriteStream
    <2>4. CASE StoreObjects(p)
      BY <2>4 DEF StoreObjects, TypeOK, File
    <2>5. CASE FinalizeWriteStream(p)
      <3>1. proc[p].pc = "finalizing"
        BY <2>5 DEF FinalizeWriteStream
      <3>2. [file EXCEPT !.magic = TRUE].magic = TRUE /\ [file EXCEPT !.magic = TRUE].graph = file.graph
        BY DEF TypeOK, File
      <3>3. NoFile.magic = FALSE /\ NoFile.graph = Torn
        BY DEF NoFile
      <3> QED
        BY <2>5, <3>1, <3>2, <3>3
    <2> QED
      BY <2>1, <2>2, <2>3, <2>4, <2>5
  <1>7. /\ Others(p) /\ proc'[p].open = proc[p].open /\ proc'[p].job = proc[p].job
        /\ proc'[p].data.graph = proc[p].data.graph /\ proc'[p].new = proc[p].new
        /\ proc'[p].seen = proc[p].seen
        /\ proc'[p].failed = proc[p].failed \/ (proc'[p].failed = TRUE /\ proc'[p].pc = "finished")
        /\ proc'[p].pc \in {"opening", "writing", "finalizing", "finished"}
    BY <1>6 DEF Fails, Proceeds
  <1> USE DEF world, outputs
  <1>8. Timely(p)'
    BY <1>1, <1>2, <1>7 DEF Timely, NotLater
  <1>9. StagesInv(p)'
    BY <1>3, <1>7 DEF StagesInv
  <1>10. CurrentInv(p)'
    BY <1>1, <1>2, <1>7 DEF ProcessInv, CurrentInv, Tracks, Ending
  <1>11. FreshInv(p)'
    BY <1>1, <1>2, <1>7 DEF ProcessInv, FreshInv, Honest, UpToDate, Ending
  <1>12. StoredInv(p)'
    BY <1>1, <1>2, <1>4, <1>6 DEF Fails, Proceeds, ProcessInv, StoredInv, Stored
  <1>13. FileInv' /\ NotLater(file.graph)'
    <2>1. NotLater(file.graph)'
      BY <1>2, <1>4, <1>5, <1>6, Numbers DEF NotLater, Torn
    <2>2. /\ Honest(proc[p].data.graph) /\ file'.graph = proc[p].data.graph => Honest(file.graph)'
          /\ Tracks(proc[p].data.graph) /\ file'.graph = proc[p].data.graph => Tracks(file.graph)'
          /\ Honest(file.graph) /\ file'.graph = file.graph => Honest(file.graph)'
          /\ Tracks(file.graph) /\ file'.graph = file.graph => Tracks(file.graph)'
      BY <1>2 DEF Honest, Tracks, UpToDate
    <2>3. ~(\A q \in Processes : ~proc'[q].open) /\ output' = output
      BY <1>2, <1>3, <1>7
    <2> QED
      BY <1>4, <1>5, <1>6, <2>1, <2>2, <2>3 DEF FileInv
  <1> QED
    BY <1>2, <1>3, <1>7, <1>8, <1>9, <1>10, <1>11, <1>12, <1>13, OneStep DEF ProcessInv

\* A job starts or has ended.
LEMMA JobStep ==
    ASSUME TypeOK, LockInv, DataInv, NEW p \in Processes,
           FinishJob(p) \/ \E j \in Jobs : StartJob(p, j)
    PROVE  DataInv'
  <1>1. ProcessInv(p) /\ Timely(p)
    BY DEF DataInv, TimesInv, ProcessInv, Timely
  <1>2. UNCHANGED <<world, outputs, file>>
    BY DEF FinishJob, StartJob
  <1>3. /\ Others(p) /\ proc'[p].open = proc[p].open
        /\ proc'[p].data = proc[p].data /\ proc'[p].new = proc[p].new
        /\ proc'[p].seen = proc[p].seen \/ proc'[p].seen = 0
        /\ \/ proc'[p].pc = "idle"
           \/ proc'[p].pc \in {"loading", "locking"} /\ proc'[p].job.kind = "setup"
           \/ proc'[p].pc = "building" /\ proc'[p].job.kind = "build"
           \/ proc'[p].pc = "cleaning" /\ proc'[p].job.kind = "clean"
    <2>1. CASE FinishJob(p)
      BY <2>1, StoreEffects
    <2>2. ASSUME NEW j \in Jobs, StartJob(p, j)
          PROVE  /\ Others(p) /\ proc'[p].open = proc[p].open
                 /\ proc'[p].data = proc[p].data /\ proc'[p].new = proc[p].new
                 /\ proc'[p].seen = proc[p].seen
                 /\ \/ proc'[p].pc \in {"loading", "locking"} /\ proc'[p].job.kind = "setup"
                    \/ proc'[p].pc = "building" /\ proc'[p].job.kind = "build"
                    \/ proc'[p].pc = "cleaning" /\ proc'[p].job.kind = "clean"
      <3> DEFINE pc == CASE j.kind = "build" -> "building"
                         [] j.kind = "clean" -> "cleaning"
                         [] OTHER -> IF proc[p].open THEN "loading" ELSE "locking"
      <3>1. proc' = [proc EXCEPT ![p].pc = pc, ![p].job = j]
        BY <2>2 DEF StartJob
      <3>2. j.kind \in {"setup", "build", "clean"}
        BY JobsAssumption DEF Job
      <3>3. \/ pc \in {"loading", "locking"} /\ j.kind = "setup"
            \/ pc = "building" /\ j.kind = "build"
            \/ pc = "cleaning" /\ j.kind = "clean"
        BY <3>2
      <3> HIDE DEF pc
      <3>4. /\ Others(p) /\ proc'[p].open = proc[p].open
            /\ proc'[p].data = proc[p].data /\ proc'[p].new = proc[p].new
            /\ proc'[p].seen = proc[p].seen /\ proc'[p].pc = pc /\ proc'[p].job = j
        BY <3>1 DEF TypeOK, Process, Others
      <3> QED
        BY <3>3, <3>4
    <2> QED
      BY <2>1, <2>2
  <1> USE DEF world, outputs
  <1>4. Timely(p)'
    BY <1>1, <1>2, <1>3, Numbers DEF Timely, NotLater
  <1>5. StagesInv(p)' /\ StoredInv(p)'
    BY <1>1, <1>2, <1>3 DEF ProcessInv, StagesInv, StoredInv, Stored
  <1>6. CurrentInv(p)' /\ FreshInv(p)'
    BY <1>1, <1>2, <1>3 DEF ProcessInv, CurrentInv, FreshInv, Tracks, Honest, UpToDate, Ending
  <1> QED
    BY <1>2, <1>3, <1>4, <1>5, <1>6, FileKept, OneStep DEF ProcessInv

\* The destructor of TopLevelProject, or the death of the process: what it has not stored is lost.
LEMMA GoneStep ==
    ASSUME TypeOK, LockInv, DataInv, NEW p \in Processes, Release(p) \/ Die(p)
    PROVE  DataInv'
  <1>1. /\ proc' = [proc EXCEPT ![p] = Fresh] /\ UNCHANGED <<world, output, file>>
        /\ excused' = (excused \/ (file.magic /\ output = 0 /\ file.graph.stamp # 0))
    BY DEF Release, Die, Forget
  <1>2. proc'[p] = Fresh /\ \A q \in Processes \ {p} : proc'[q] = proc[q]
    BY <1>1 DEF TypeOK
  <1>3. /\ Fresh.pc = "idle" /\ Fresh.open = FALSE /\ Fresh.seen = 0
        /\ Fresh.data.graph = Torn /\ Fresh.new.graph = Torn
        /\ Torn.resolved = 0 /\ Torn.stamp = 0
    BY DEF Fresh, NoData, Torn
  <1> USE DEF world
  <1>4. \A g : (Honest(g) => (UpToDate(g) /\ ~g.dry /\ ~excused' => output = source))
    BY <1>1 DEF Honest
  <1>5. ProcessInv(p)' /\ Timely(p)'
    BY <1>1, <1>2, <1>3, Numbers DEF ProcessInv, StagesInv, StoredInv, CurrentInv, FreshInv, Timely, NotLater,
       Ending
  <1>6. ASSUME NEW q \in Processes \ {p} PROVE ProcessInv(q)' /\ Timely(q)'
    <2>1. ProcessInv(q) /\ Timely(q) /\ proc'[q] = proc[q]
      BY <1>2 DEF DataInv, TimesInv, ProcessInv, Timely
    <2>2. StagesInv(q)' /\ StoredInv(q)' /\ CurrentInv(q)' /\ Timely(q)'
      BY <1>1, <2>1 DEF ProcessInv, StagesInv, StoredInv, CurrentInv, Stored, Tracks, Timely, NotLater
    <2>3. FreshInv(q)'
      BY <1>1, <2>1 DEF ProcessInv, FreshInv, Honest, UpToDate
    <2> QED
      BY <2>2, <2>3 DEF ProcessInv
  <1>7. FileInv' /\ NotLater(file.graph)'
    <2>1. FileInv /\ NotLater(file.graph)
      BY DEF DataInv, TimesInv
    <2>2. Tracks(file.graph) => Tracks(file.graph)'
      BY <1>1 DEF Tracks
    <2>3. file.magic /\ (output # 0 => Honest(file.graph)) => Honest(file.graph)'
      BY <1>1 DEF Honest, UpToDate
    <2> QED
      BY <1>1, <2>1, <2>2, <2>3 DEF FileInv, NotLater
  <1>8. TimesInv'
    BY <1>1, <1>5, <1>6, <1>7 DEF DataInv, TimesInv, Timely
  <1> QED
    BY <1>5, <1>6, <1>7, <1>8 DEF DataInv, ProcessInv

\* Whatever was resolved or built before an edit is older than the file that was edited.
LEMMA EditStep ==
    ASSUME TypeOK, DataInv, EditProject \/ EditSource
    PROVE  DataInv'
  <1>1. /\ now' = now + 1 /\ UNCHANGED <<output, excused, file, proc>>
        /\ \/ projectFile' = now + 1 /\ UNCHANGED source
           \/ source' = now + 1 /\ UNCHANGED projectFile
    BY DEF EditProject, EditSource, outputs
  <1>2. /\ now \in Nat /\ projectFile \in Nat /\ source \in Nat
        /\ file.graph.stamp \in Nat /\ file.graph.resolved \in Nat
    <2>1. file.graph \in Graph
      BY DEF TypeOK, File
    <2> QED
      BY <2>1, GraphUpdates DEF TypeOK, Time
  <1>3. ASSUME NEW g, NotLater(g), g.resolved \in Nat, g.stamp \in Nat
        PROVE  /\ Tracks(g) => (projectFile' <= g.resolved => g.project = projectFile')
               /\ Honest(g) => (g.stamp # 0 /\ ~(g.stamp < source') /\ ~g.dry /\ ~excused => output = source')
               /\ g.resolved <= now' /\ g.stamp <= now'
    BY <1>1, <1>2, <1>3 DEF Tracks, Honest, UpToDate, NotLater
  <1>4. ASSUME NEW q \in Processes PROVE ProcessInv(q)' /\ Timely(q)'
    <2>1. ProcessInv(q) /\ Timely(q)
      BY DEF DataInv, TimesInv, ProcessInv, Timely
    <2>2. StagesInv(q)' /\ StoredInv(q)'
      BY <1>1, <2>1 DEF ProcessInv, StagesInv, StoredInv, Stored
    <2>3. Timely(q)'
      BY <1>1, <2>1, Numbers DEF Timely, NotLater
    <2>4. CurrentInv(q)'
      BY <1>1, <2>1, Numbers DEF ProcessInv, CurrentInv, Tracks, Timely, NotLater
    <2>5. FreshInv(q)'
      BY <1>1, <2>1, Numbers DEF ProcessInv, FreshInv, Honest, UpToDate, Timely, NotLater
    <2> QED
      BY <2>2, <2>3, <2>4, <2>5 DEF ProcessInv
  <1>5. FileInv' /\ NotLater(file.graph)'
    <2>1. FileInv /\ NotLater(file.graph)
      BY DEF DataInv, TimesInv
    <2>2. /\ Tracks(file.graph) => Tracks(file.graph)'
          /\ Honest(file.graph) => Honest(file.graph)'
      BY <1>1, <1>2, <1>3, <2>1 DEF Tracks, Honest, UpToDate
    <2> QED
      BY <1>1, <1>2, <2>1, <2>2 DEF FileInv, NotLater
  <1>6. TimesInv'
    BY <1>1, <1>2, <1>4, <1>5 DEF DataInv, TimesInv, Timely
  <1> QED
    BY <1>4, <1>5, <1>6 DEF DataInv, ProcessInv

\* Every step keeps DataInv.
LEMMA DataInvInductive == TypeOK /\ LockInv /\ DataInv /\ [Next]_vars => DataInv'
  <1> SUFFICES ASSUME TypeOK, LockInv, DataInv, [Next]_vars PROVE DataInv'
    OBVIOUS
  <1>1. CASE UNCHANGED vars
    BY <1>1 DEF vars, world, outputs, DataInv, TimesInv, FileInv, StagesInv, StoredInv, CurrentInv,
       FreshInv, Stored, Tracks, Honest, UpToDate, NotLater
  <1>2. CASE EditProject \/ EditSource
    BY <1>2, EditStep
  <1>3. ASSUME NEW p \in Processes, Step(p) \/ CancelLocking(p) PROVE DataInv'
    <2>1. CASE LockFails(p) \/ CancelLocking(p) \/ ResolvingFails(p)
      <3>1. /\ proc[p].pc \in {"locking", "reading"} /\ UNCHANGED <<world, outputs, file>>
            /\ AbortSetup(p)
        BY <2>1 DEF LockFails, CancelLocking, ResolvingFails
      <3>2. Aborts(p)
        BY <3>1, ConstantTypes, SetupEffects
      <3> QED
        BY <3>1, <3>2, SetupStep
    <2>2. CASE TryLock(p)
      <3>1. proc[p].pc = "locking" /\ UNCHANGED <<world, outputs, file>>
        BY <2>2 DEF TryLock
      <3>2. Proceeds(p, "loading")
        BY <2>2, StoreEffects
      <3> QED
        BY <3>1, <3>2, SetupStep
    <2>3. CASE RemoveStaleLock(p)
      BY <2>3 DEF RemoveStaleLock, world, outputs, DataInv, TimesInv, FileInv, StagesInv, StoredInv,
         CurrentInv, FreshInv, Stored, Tracks, Honest, UpToDate, NotLater
    <2> QED
      BY <1>3, <2>1, <2>2, <2>3, LoadStep, ResolveStep, ReadStep, BuildStartStep, CommandEndStep,
         CleanStep, StoreStep, JobStep, GoneStep DEF Step, LoadNothing
  <1> QED
    BY <1>1, <1>2, <1>3, JobStep, GoneStep DEF Next, Crash

\* DataInv holds in every reachable state.
LEMMA DataInvariant == Spec => []DataInv
  <1>1. Init => DataInv
    <2> SUFFICES ASSUME Init PROVE DataInv
      OBVIOUS
    <2>1. \A p \in Processes : proc[p] = Fresh
      BY DEF Init
    <2>2. /\ Fresh.pc = "idle" /\ Fresh.open = FALSE /\ Fresh.seen = 0
          /\ Fresh.data.graph = Torn /\ Fresh.new.graph = Torn
          /\ Torn.resolved = 0 /\ Torn.stamp = 0 /\ NoFile.magic = FALSE /\ NoFile.graph = Torn
      BY DEF Fresh, NoData, Torn, NoFile
    <2> QED
      BY <2>1, <2>2 DEF Init, DataInv, TimesInv, NotLater, FileInv, StagesInv, StoredInv, CurrentInv, FreshInv,
         Ending
  <1> QED
    BY <1>1, DataInvInductive, LockInvariant, TypeCorrect, PTL DEF Spec

\* Whenever no job uses a project and its build data is not marked as dirty, the build graph file
\* holds it: TopLevelProject::store() loses nothing by not storing it again, after any number of
\* failed setups, failed stores and crashes of other processes.
THEOREM UnchangedIsStored == Spec => []CleanMeansStored
  <1>1. DataInv => CleanMeansStored
    BY DEF DataInv, StoredInv, CleanMeansStored
  <1> QED
    BY <1>1, DataInvariant, PTL

\* A setup that tracks changes and ends successfully gives the project of the project file, unless
\* that was edited since: BuildGraphLoader compares it with the time at which Loader::loadProject()
\* began, so that an edit during an earlier resolving is not missed.
THEOREM SetupIsCurrent == Spec => []ProjectIsCurrent
  <1>1. DataInv => ProjectIsCurrent
    BY DEF DataInv, CurrentInv, ProjectIsCurrent, Ending
  <1> QED
    BY <1>1, DataInvariant, PTL

\* A successful build leaves the output of the source file, after any number of jobs that failed,
\* were killed or could not store the build graph, but for the three cases in which the time stamps
\* that Executor::isUpToDate() compares cannot tell.
THEOREM BuildsAreFresh == Spec => []FreshAfterBuild
  <1>1. ASSUME DataInv PROVE FreshAfterBuild
    <2> SUFFICES ASSUME NEW p \in Processes,
                        proc[p].pc = "finished", proc[p].job.kind = "build", ~proc[p].failed,
                        ~proc[p].job.dry, ~proc[p].data.graph.dry, proc[p].seen = source, ~excused
                 PROVE  output = source
      BY DEF FreshAfterBuild
    <2>1. StagesInv(p) /\ FreshInv(p)
      BY <1>1 DEF DataInv
    <2>2. proc[p].open
      BY <2>1 DEF StagesInv
    <2> QED
      BY <2>1, <2>2 DEF FreshInv, Ending, Honest
  <1> QED
    BY <1>1, DataInvariant, PTL
=============================================================================
