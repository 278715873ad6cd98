---------------------------- MODULE ExecutorProofs ----------------------------
(***************************************************************************)
(* What holds of the Executor for every project, every set of jobs, pools   *)
(* and limits, and every bound on builds, edits, changes and cancels.       *)
(*                                                                          *)
(* TypeOK is inductive, and one lemma per action shows it.  The invariants  *)
(* on jobs rest on it and on JobStepCases, which sorts all steps into those *)
(* that start a job, give one back, begin a build, or leave the tables of   *)
(* jobs alone.  Those on build states rest on StateStepCases, which does    *)
(* the same for the states of the outputs.                                  *)
(***************************************************************************)
EXTENDS ExecutorContract, TLAPS, FiniteSetTheorems

-------------------------------------------------------------------------------
(***************************************************************************)
(* Types.                                                                   *)
(***************************************************************************)

\* Queueing nodes (m_leaves.push()) leaves a queue.
LEMMA PushType ==
    ASSUME NEW lv \in [Nodes -> Nat], NEW ns
    PROVE  Push(lv, ns) \in [Nodes -> Nat]
  BY DEF Push

\* finishNode() and updateLeaves() give nodes one of the four build states.
LEMMA StatesType ==
    ASSUME NEW bs \in [Nodes -> BuildStates], NEW ns
    PROVE  /\ MarkBuilt(ns, bs) \in [Nodes -> BuildStates]
           /\ Touch(ns, bs) \in [Nodes -> BuildStates]
  BY DEF MarkBuilt, Touch, BuildStates

\* A node is only taken from the queue if it is queued, so that no count falls below zero
\* (m_leaves.top() and pop() in scheduleJobs()).
LEMMA PoppedType ==
    ASSUME TypeOK, NEW n \in Nodes, PopLeaf(n)
    PROVE  Popped(n) \in [Nodes -> Nat]
  BY DEF TypeOK, NodeTypeOK, PopLeaf, Popped

\* A rule has finitely many transformers, so that executeRuleNode() can count them.
LEMMA TransformerCount ==
    ASSUME NEW r PROVE Cardinality(TransformersOf(r)) \in Nat
  <1>1. TransformersOf(r) \subseteq Transformers /\ IsFiniteSet(Transformers)
    BY GraphAssumption DEF TransformersOf
  <1> QED BY <1>1, FS_Subset, FS_CardinalityType

GraphRecords ==
    [children : [Nodes -> SUBSET Nodes], added : [Generated -> SUBSET Artifacts],
     time : [Artifacts -> Nat], marked : SUBSET Transformers, tracked : SUBSET Transformers,
     oldData : SUBSET Generated]

\* rescueOldBuildData() leaves a graph: no edge to a node that cannot exist.
LEMMA RescueType ==
    ASSUME GraphTypeOK, NEW os \in SUBSET Generated
    PROVE  AfterRescue(os) \in GraphRecords
  <1> DEFINE g == AfterRescue(os)
  <1>1. g.children \in [Nodes -> SUBSET Nodes]
    BY ExecutorAssumption DEF GraphTypeOK, AfterRescue, RescueAdds, SafelyConnectable,
       ChildrenToConnect, Nodes
  <1>2. g.added \in [Generated -> SUBSET Artifacts]
    BY ExecutorAssumption DEF GraphTypeOK, AfterRescue, RescueAdds, SafelyConnectable,
       ChildrenToConnect
  <1>3. g.time \in [Artifacts -> Nat]
    BY DEF GraphTypeOK, AfterRescue, RescueTime
  <1>4. g.marked \subseteq Transformers /\ g.tracked \subseteq Transformers
    BY GraphAssumption DEF GraphTypeOK, AfterRescue
  <1>5. g.oldData \subseteq Generated
    BY DEF GraphTypeOK, AfterRescue
  <1> QED BY <1>1, <1>2, <1>3, <1>4, <1>5 DEF GraphRecords, AfterRescue

\* InputArtifactScanner::scan() leaves a graph, whatever the scanners have found.
LEMMA ScanType ==
    ASSUME GraphTypeOK, NEW g \in GraphRecords, NEW os \in SUBSET Generated,
           NEW deps \in SUBSET Artifacts
    PROVE  AfterScan(os, deps, g) \in GraphRecords
  <1>1. \A o \in Generated : ScanAdds(o, deps, g) \subseteq Artifacts
    BY DEF ScanAdds, SafelyConnectable, ScanFinds
  <1>2. \A n \in os : ScanKeeps(n, g) \subseteq Nodes
    BY DEF ScanKeeps, GraphRecords, Nodes, Artifacts
  <1> DEFINE ch == [n \in Nodes |-> IF n \in os THEN ScanKeeps(n, g) \cup ScanAdds(n, deps, g)
                                    ELSE g.children[n]]
             ad == [a \in Generated |-> IF a \in os THEN ScanAdds(a, deps, g) ELSE g.added[a]]
  <1>3. ch \in [Nodes -> SUBSET Nodes]
    BY <1>1, <1>2 DEF GraphRecords, Nodes
  <1>4. ad \in [Generated -> SUBSET Artifacts]
    BY <1>1 DEF GraphRecords
  <1>5. AfterScan(os, deps, g) = [g EXCEPT !.children = ch, !.added = ad]
    BY DEF AfterScan
  <1> HIDE DEF ch, ad
  <1> QED BY <1>3, <1>4, <1>5 DEF GraphRecords

\* Rules and artifacts of both types are nodes.
LEMMA NodeKinds ==
    /\ Rules \subseteq Nodes /\ Generated \subseteq Nodes /\ Sources \subseteq Nodes
    /\ Sources \subseteq Artifacts /\ Generated \subseteq Artifacts /\ Artifacts \subseteq Nodes
  BY DEF Nodes, Artifacts

\* The outputs of a transformer are generated artifacts.
LEMMA OutputsType ==
    ASSUME NEW t PROVE Outputs(t) \subseteq Generated
  BY DEF Outputs

\* SkipLeaf keeps every variable in its type.
LEMMA SkipLeafType ==
    ASSUME TypeOK, NEW n \in Nodes, SkipLeaf(n)
    PROVE  TypeOK'
  <1>1. GraphTypeOK'
    BY DEF TypeOK, GraphTypeOK, SkipLeaf, graphVars, ruleVars, ghostVars
  <1>2. NodeTypeOK'
    BY PoppedType DEF TypeOK, NodeTypeOK, SkipLeaf, nodeVars
  <1>3. JobTypeOK'
    BY DEF TypeOK, JobTypeOK, SkipLeaf, jobVars
  <1>4. ControlTypeOK'
    BY DEF TypeOK, ControlTypeOK, SkipLeaf, endVars
  <1>5. WorldTypeOK'
    BY DEF TypeOK, WorldTypeOK, SkipLeaf, worldVars, ghostVars
  <1> QED BY <1>1, <1>2, <1>3, <1>4, <1>5 DEF TypeOK

\* DelayLeaf keeps every variable in its type.
LEMMA DelayLeafType ==
    ASSUME TypeOK, NEW n \in Nodes, DelayLeaf(n)
    PROVE  TypeOK'
  <1>1. GraphTypeOK'
    BY DEF TypeOK, GraphTypeOK, DelayLeaf, graphVars, ruleVars, ghostVars
  <1>2. NodeTypeOK'
    BY PoppedType DEF TypeOK, NodeTypeOK, DelayLeaf, nodeVars
  <1>3. JobTypeOK'
    BY DEF TypeOK, JobTypeOK, DelayLeaf, jobVars
  <1>4. ControlTypeOK'
    BY DEF TypeOK, ControlTypeOK, DelayLeaf, endVars
  <1>5. WorldTypeOK'
    BY DEF TypeOK, WorldTypeOK, DelayLeaf, worldVars, ghostVars
  <1> QED BY <1>1, <1>2, <1>3, <1>4, <1>5 DEF TypeOK

\* AbortOnUnknownLimits keeps every variable in its type.
LEMMA AbortOnUnknownLimitsType ==
    ASSUME TypeOK, NEW n \in Nodes, AbortOnUnknownLimits(n)
    PROVE  TypeOK'
  <1>1. GraphTypeOK'
    BY DEF TypeOK, GraphTypeOK, AbortOnUnknownLimits, graphVars, ruleVars, ghostVars
  <1>2. NodeTypeOK'
    BY DEF TypeOK, NodeTypeOK, AbortOnUnknownLimits, nodeVars
  <1>3. JobTypeOK'
    BY DEF TypeOK, JobTypeOK, AbortOnUnknownLimits, jobVars
  <1>4. ControlTypeOK'
    BY DEF TypeOK, ControlTypeOK, AbortOnUnknownLimits, endVars
  <1>5. WorldTypeOK'
    BY DEF TypeOK, WorldTypeOK, AbortOnUnknownLimits, worldVars, ghostVars
  <1> QED BY <1>1, <1>2, <1>3, <1>4, <1>5 DEF TypeOK

\* EndSchedule keeps every variable in its type.
LEMMA EndScheduleType ==
    ASSUME TypeOK, EndSchedule
    PROVE  TypeOK'
  <1>1. GraphTypeOK'
    BY DEF TypeOK, GraphTypeOK, EndSchedule, graphVars, ruleVars, ghostVars
  <1>2. NodeTypeOK'
    BY DEF TypeOK, NodeTypeOK, EndSchedule, nodeVars, WithDelayedLeaves, NoLeaves
  <1>3. JobTypeOK'
    BY DEF TypeOK, JobTypeOK, EndSchedule, jobVars
  <1>4. ControlTypeOK'
    BY DEF TypeOK, ControlTypeOK, EndSchedule, endVars, WaitForEvents, Finish
  <1>5. WorldTypeOK'
    BY DEF TypeOK, WorldTypeOK, EndSchedule, worldVars, ghostVars
  <1> QED BY <1>1, <1>2, <1>3, <1>4, <1>5 DEF TypeOK

\* PostedFinish keeps every variable in its type.
LEMMA PostedFinishType ==
    ASSUME TypeOK, PostedFinish
    PROVE  TypeOK'
  <1>1. GraphTypeOK'
    BY DEF TypeOK, GraphTypeOK, PostedFinish, graphVars, ruleVars, ghostVars
  <1>2. NodeTypeOK'
    BY DEF TypeOK, NodeTypeOK, PostedFinish, nodeVars
  <1>3. JobTypeOK'
    BY DEF TypeOK, JobTypeOK, PostedFinish, jobVars
  <1>4. ControlTypeOK'
    BY DEF TypeOK, ControlTypeOK, PostedFinish, endVars, Finish
  <1>5. WorldTypeOK'
    BY DEF TypeOK, WorldTypeOK, PostedFinish, worldVars, ghostVars
  <1> QED BY <1>1, <1>2, <1>3, <1>4, <1>5 DEF TypeOK

\* FinishLeaf keeps every variable in its type.
LEMMA FinishLeafType ==
    ASSUME TypeOK, NEW n \in Nodes, FinishLeaf(n)
    PROVE  TypeOK'
  <1>1. GraphTypeOK'
    BY GraphAssumption DEF TypeOK, GraphTypeOK, FinishLeaf, graphVars, ruleVars, ghostVars,
       Artifacts, WorldTypeOK
  <1>2. NodeTypeOK'
    BY PoppedType, PushType, StatesType DEF TypeOK, NodeTypeOK, FinishLeaf, nodeVars, Accept
  <1>3. JobTypeOK'
    BY DEF TypeOK, JobTypeOK, FinishLeaf, jobVars
  <1>4. ControlTypeOK'
    BY DEF TypeOK, ControlTypeOK, FinishLeaf, endVars
  <1>5. WorldTypeOK'
    BY DEF TypeOK, WorldTypeOK, FinishLeaf, worldVars, ghostVars
  <1> QED BY <1>1, <1>2, <1>3, <1>4, <1>5 DEF TypeOK

\* SkipRule keeps every variable in its type.
LEMMA SkipRuleType ==
    ASSUME TypeOK, NEW r \in Rules, SkipRule(r)
    PROVE  TypeOK'
  <1>1. GraphTypeOK'
    BY DEF TypeOK, GraphTypeOK, SkipRule, graphVars, ruleVars, ghostVars
  <1>2. NodeTypeOK'
    BY NodeKinds, PoppedType, PushType, StatesType, TransformerCount DEF TypeOK, NodeTypeOK,
       SkipRule, nodeVars, Accept
  <1>3. JobTypeOK'
    BY DEF TypeOK, JobTypeOK, SkipRule, jobVars
  <1>4. ControlTypeOK'
    BY DEF TypeOK, ControlTypeOK, SkipRule, endVars
  <1>5. WorldTypeOK'
    BY DEF TypeOK, WorldTypeOK, SkipRule, worldVars, ghostVars
  <1> QED BY <1>1, <1>2, <1>3, <1>4, <1>5 DEF TypeOK

\* EnterRule keeps every variable in its type.
LEMMA EnterRuleType ==
    ASSUME TypeOK, NEW r \in Rules, EnterRule(r)
    PROVE  TypeOK'
  <1>1. GraphTypeOK'
    BY DEF TypeOK, GraphTypeOK, EnterRule, graphVars, ruleVars, ghostVars
  <1>2. NodeTypeOK'
    BY NodeKinds, PoppedType DEF TypeOK, NodeTypeOK, EnterRule, nodeVars, Accept
  <1>3. JobTypeOK'
    BY DEF TypeOK, JobTypeOK, EnterRule, jobVars
  <1>4. ControlTypeOK'
    BY DEF TypeOK, ControlTypeOK, EnterRule, endVars
  <1>5. WorldTypeOK'
    BY DEF TypeOK, WorldTypeOK, EnterRule, worldVars, ghostVars
  <1> QED BY <1>1, <1>2, <1>3, <1>4, <1>5 DEF TypeOK

\* RulesApplicator::createOutputArtifact() connects nodes to nodes.
LEMMA ConnectOutputsType ==
    ASSUME GraphTypeOK, NEW r \in Rules, NEW ts \in SUBSET Transformers
    PROVE  ConnectOutputs(r, ts) \in [Nodes -> SUBSET Nodes]
  BY GraphAssumption, ExecutorAssumption, NodeKinds DEF GraphTypeOK, ConnectOutputs

\* clearTimestamp() and retrieveSourceFileTimestamp() leave timestamps.
LEMMA TimestampsType ==
    ASSUME GraphTypeOK, WorldTypeOK
    PROVE  /\ \A ts : ClearTimestamps(ts) \in [Artifacts -> Nat]
           /\ \A visited : \A times \in [Artifacts -> Nat] :
                 RetrieveTimestamps(visited, times) \in [Artifacts -> Nat]
  BY DEF GraphTypeOK, WorldTypeOK, ClearTimestamps, RetrieveTimestamps, NoTime

\* LeaveRule keeps every variable in its type.
LEMMA LeaveRuleType ==
    ASSUME TypeOK, LeaveRule
    PROVE  TypeOK'
  <1>0. currentRule \in Rules /\ TransformersOf(currentRule) \subseteq Transformers
        /\ OutputsOf(currentRule) \subseteq Generated
    BY DEF TypeOK, ControlTypeOK, LeaveRule, TransformersOf, OutputsOf
  <1>1. GraphTypeOK'
    BY <1>0, NodeKinds, ConnectOutputsType, TimestampsType DEF TypeOK, GraphTypeOK, LeaveRule,
       graphVars, ruleVars, ghostVars
  <1>2. NodeTypeOK'
    BY <1>0, PushType, StatesType, TransformerCount DEF TypeOK, NodeTypeOK, LeaveRule, nodeVars
  <1>3. JobTypeOK'
    BY DEF TypeOK, JobTypeOK, LeaveRule, jobVars
  <1>4. ControlTypeOK'
    BY DEF TypeOK, ControlTypeOK, LeaveRule, endVars
  <1>5. WorldTypeOK'
    BY DEF TypeOK, WorldTypeOK, LeaveRule, worldVars, ghostVars
  <1> QED BY <1>1, <1>2, <1>3, <1>4, <1>5 DEF TypeOK

\* RuleThrows keeps every variable in its type.
LEMMA RuleThrowsType ==
    ASSUME TypeOK, NEW done \in SUBSET Transformers, NEW last \in SUBSET Transformers,
           RuleThrows(done, last)
    PROVE  TypeOK'
  <1>0. currentRule \in Rules /\ OutputsOf(currentRule) \subseteq Generated
    BY DEF TypeOK, ControlTypeOK, RuleThrows, OutputsOf
  <1>1. GraphTypeOK'
    BY <1>0, NodeKinds, GraphAssumption, ConnectOutputsType, TimestampsType DEF TypeOK,
       GraphTypeOK, RuleThrows, graphVars, ruleVars, ghostVars
  <1>2. NodeTypeOK'
    BY DEF TypeOK, NodeTypeOK, RuleThrows, nodeVars, HandleError, NoLeaves
  <1>3. JobTypeOK'
    BY DEF TypeOK, JobTypeOK, RuleThrows, jobVars, HandleError, Canceled
  <1>4. ControlTypeOK'
    BY DEF TypeOK, ControlTypeOK, RuleThrows, endVars, HandleError, Finish
  <1>5. WorldTypeOK'
    BY DEF TypeOK, WorldTypeOK, RuleThrows, worldVars, ghostVars
  <1> QED BY <1>1, <1>2, <1>3, <1>4, <1>5 DEF TypeOK

\* DelayedByRescue keeps every variable in its type.
LEMMA DelayedByRescueType ==
    ASSUME TypeOK, NEW n \in Generated, NEW x \in Generated, NEW before \in SUBSET Generated,
           DelayedByRescue(n, x, before)
    PROVE  TypeOK'
  <1>0. AfterRescue(before \cup {x}) \in GraphRecords
    BY RescueType DEF TypeOK
  <1>1. GraphTypeOK'
    BY <1>0, TimestampsType DEF TypeOK, GraphTypeOK, DelayedByRescue, graphVars, ruleVars,
       ghostVars, StaleAfterRescue, GraphRecords
  <1>2. NodeTypeOK'
    BY NodeKinds, PoppedType, PushType, StatesType DEF TypeOK, NodeTypeOK, DelayedByRescue,
       nodeVars, VisitArtifact, Accept
  <1>3. JobTypeOK'
    BY DEF TypeOK, JobTypeOK, DelayedByRescue, jobVars
  <1>4. ControlTypeOK'
    BY DEF TypeOK, ControlTypeOK, DelayedByRescue, endVars
  <1>5. WorldTypeOK'
    BY DEF TypeOK, WorldTypeOK, DelayedByRescue, worldVars, ghostVars
  <1> QED BY <1>1, <1>2, <1>3, <1>4, <1>5 DEF TypeOK

\* CheckThrows keeps every variable in its type.
LEMMA CheckThrowsType ==
    ASSUME TypeOK, NEW n \in Generated, CheckThrows(n)
    PROVE  TypeOK'
  <1>0. Graph(TransformerOf[n]) \in GraphRecords
    BY RescueType, OutputsType DEF TypeOK, Graph, ToRescue
  <1>1. GraphTypeOK'
    BY <1>0 DEF TypeOK, GraphTypeOK, CheckThrows, graphVars, ruleVars, ghostVars,
       StaleAfterRescue, GraphRecords
  <1>2. NodeTypeOK'
    BY NodeKinds, PoppedType DEF TypeOK, NodeTypeOK, CheckThrows, nodeVars, Considered,
       VisitArtifact, Accept, HandleError, NoLeaves
  <1>3. JobTypeOK'
    BY DEF TypeOK, JobTypeOK, CheckThrows, jobVars, HandleError, Canceled
  <1>4. ControlTypeOK'
    BY DEF TypeOK, ControlTypeOK, CheckThrows, endVars, HandleError, Finish
  <1>5. WorldTypeOK'
    BY DEF TypeOK, WorldTypeOK, CheckThrows, worldVars, ghostVars
  <1> QED BY <1>1, <1>2, <1>3, <1>4, <1>5 DEF TypeOK

\* FinishWithoutRunning keeps every variable in its type.
LEMMA FinishWithoutRunningType ==
    ASSUME TypeOK, NEW n \in Generated, FinishWithoutRunning(n)
    PROVE  TypeOK'
  <1>0. Graph(TransformerOf[n]) \in GraphRecords
    BY RescueType, OutputsType DEF TypeOK, Graph, ToRescue
  <1>1. GraphTypeOK'
    BY <1>0 DEF TypeOK, GraphTypeOK, FinishWithoutRunning, graphVars, ruleVars, ghostVars,
       StaleAfterRescue, GraphRecords, TrackedAfter
  <1>2. NodeTypeOK'
    BY NodeKinds, PoppedType, PushType, StatesType, GraphAssumption DEF TypeOK, NodeTypeOK,
       FinishWithoutRunning, nodeVars, Considered, VisitArtifact, Accept, FinishTransformer
  <1>3. JobTypeOK'
    BY DEF TypeOK, JobTypeOK, FinishWithoutRunning, jobVars
  <1>4. ControlTypeOK'
    BY DEF TypeOK, ControlTypeOK, FinishWithoutRunning, endVars
  <1>5. WorldTypeOK'
    BY DEF TypeOK, WorldTypeOK, FinishWithoutRunning, worldVars, ghostVars
  <1> QED BY <1>1, <1>2, <1>3, <1>4, <1>5 DEF TypeOK

\* DelayedByScan keeps every variable in its type.
LEMMA DelayedByScanType ==
    ASSUME TypeOK, NEW n \in Generated, NEW x \in Generated, NEW before \in SUBSET Generated,
           NEW deps \in SUBSET Artifacts, DelayedByScan(n, x, before, deps)
    PROVE  TypeOK'
  <1>a. Graph(TransformerOf[n]) \in GraphRecords
    BY RescueType, OutputsType DEF TypeOK, Graph, ToRescue
  <1>0. AfterScan(before \cup {x}, deps, Graph(TransformerOf[n])) \in GraphRecords
    BY <1>a, ScanType DEF TypeOK
  <1>1. GraphTypeOK'
    BY <1>a, <1>0, TimestampsType DEF TypeOK, GraphTypeOK, DelayedByScan, graphVars, ruleVars,
       ghostVars, StaleAfterRescue, GraphRecords, TrackedAfter
  <1>2. NodeTypeOK'
    BY NodeKinds, PoppedType, PushType, StatesType DEF TypeOK, NodeTypeOK, DelayedByScan,
       nodeVars, MustRun, Considered, VisitArtifact, Accept
  <1>3. JobTypeOK'
    BY DEF TypeOK, JobTypeOK, DelayedByScan, jobVars
  <1>4. ControlTypeOK'
    BY DEF TypeOK, ControlTypeOK, DelayedByScan, endVars
  <1>5. WorldTypeOK'
    BY DEF TypeOK, WorldTypeOK, DelayedByScan, worldVars, ghostVars
  <1> QED BY <1>1, <1>2, <1>3, <1>4, <1>5 DEF TypeOK

\* FinishInsteadOfRunning keeps every variable in its type.
LEMMA FinishInsteadOfRunningType ==
    ASSUME TypeOK, NEW n \in Generated, NEW deps \in SUBSET Artifacts, FinishInsteadOfRunning(n,
           deps)
    PROVE  TypeOK'
  <1>a. Graph(TransformerOf[n]) \in GraphRecords
    BY RescueType, OutputsType DEF TypeOK, Graph, ToRescue
  <1>0. AfterScan(ToScan(TransformerOf[n]), deps, Graph(TransformerOf[n])) \in GraphRecords
    BY <1>a, ScanType, OutputsType DEF TypeOK, ToScan
  <1>1. GraphTypeOK'
    BY <1>a, <1>0 DEF TypeOK, GraphTypeOK, FinishInsteadOfRunning, graphVars, ruleVars,
       ghostVars, Scanned, StaleAfterRescue, GraphRecords, TrackedAfter
  <1>2. NodeTypeOK'
    BY NodeKinds, PoppedType, PushType, StatesType, GraphAssumption, OutputsType DEF TypeOK,
       NodeTypeOK, FinishInsteadOfRunning, nodeVars, Scanned, MustRun, Considered,
       VisitArtifact, Accept, FinishTransformer
  <1>3. JobTypeOK'
    BY DEF TypeOK, JobTypeOK, FinishInsteadOfRunning, jobVars
  <1>4. ControlTypeOK'
    BY DEF TypeOK, ControlTypeOK, FinishInsteadOfRunning, endVars
  <1>5. WorldTypeOK'
    BY DEF TypeOK, WorldTypeOK, FinishInsteadOfRunning, worldVars, ghostVars
  <1> QED BY <1>1, <1>2, <1>3, <1>4, <1>5 DEF TypeOK

\* RunTransformer keeps every variable in its type.
LEMMA RunTransformerType ==
    ASSUME TypeOK, NEW n \in Generated, NEW deps \in SUBSET Artifacts, NEW j \in Jobs,
           RunTransformer(n, deps, j)
    PROVE  TypeOK'
  <1>a. Graph(TransformerOf[n]) \in GraphRecords
    BY RescueType, OutputsType DEF TypeOK, Graph, ToRescue
  <1>0. AfterScan(ToScan(TransformerOf[n]), deps, Graph(TransformerOf[n])) \in GraphRecords
    BY <1>a, ScanType, OutputsType DEF TypeOK, ToScan
  <1>1. GraphTypeOK'
    BY <1>a, <1>0 DEF TypeOK, GraphTypeOK, RunTransformer, graphVars, ruleVars, ghostVars,
       Scanned, StaleAfterRescue, GraphRecords, TrackedAfter
  <1>2. NodeTypeOK'
    BY NodeKinds, PoppedType, OutputsType DEF TypeOK, NodeTypeOK, RunTransformer, MarkBuilding,
       nodeVars,
       Scanned, MustRun, Considered, VisitArtifact, Accept, BuildStates
  <1>3. JobTypeOK'
    BY GraphAssumption DEF TypeOK, JobTypeOK, RunTransformer, jobVars
  <1>4. ControlTypeOK'
    BY DEF TypeOK, ControlTypeOK, RunTransformer, endVars
  <1>5. WorldTypeOK'
    BY DEF TypeOK, WorldTypeOK, RunTransformer, worldVars, ghostVars
  <1> QED BY <1>1, <1>2, <1>3, <1>4, <1>5 DEF TypeOK

\* RunThrows keeps every variable in its type.
LEMMA RunThrowsType ==
    ASSUME TypeOK, NEW n \in Generated, NEW deps \in SUBSET Artifacts, RunThrows(n, deps)
    PROVE  TypeOK'
  <1>a. Graph(TransformerOf[n]) \in GraphRecords
    BY RescueType, OutputsType DEF TypeOK, Graph, ToRescue
  <1>0. AfterScan(ToScan(TransformerOf[n]), deps, Graph(TransformerOf[n])) \in GraphRecords
    BY <1>a, ScanType, OutputsType DEF TypeOK, ToScan
  <1>1. GraphTypeOK'
    BY <1>a, <1>0 DEF TypeOK, GraphTypeOK, RunThrows, graphVars, ruleVars, ghostVars, Scanned,
       StaleAfterRescue, GraphRecords, TrackedAfter
  <1>2. NodeTypeOK'
    BY NodeKinds, PoppedType, OutputsType DEF TypeOK, NodeTypeOK, RunThrows, nodeVars, Scanned,
       MustRun, Considered, VisitArtifact, Accept, HandleError, NoLeaves
  <1>3. JobTypeOK'
    BY DEF TypeOK, JobTypeOK, RunThrows, jobVars, HandleError, Canceled
  <1>4. ControlTypeOK'
    BY DEF TypeOK, ControlTypeOK, RunThrows, endVars, HandleError, Finish
  <1>5. WorldTypeOK'
    BY DEF TypeOK, WorldTypeOK, RunThrows, worldVars, ghostVars
  <1> QED BY <1>1, <1>2, <1>3, <1>4, <1>5 DEF TypeOK

\* CommandsEnd keeps every variable in its type.
LEMMA CommandsEndType ==
    ASSUME TypeOK, NEW j \in Jobs, NEW result \in {"ok", "error"}, CommandsEnd(j, result)
    PROVE  TypeOK'
  <1>1. GraphTypeOK'
    BY GraphAssumption DEF TypeOK, GraphTypeOK, CommandsEnd, graphVars, ruleVars, ghostVars,
       JobTypeOK
  <1>2. NodeTypeOK'
    BY DEF TypeOK, NodeTypeOK, CommandsEnd, nodeVars
  <1>3. JobTypeOK'
    BY DEF TypeOK, JobTypeOK, CommandsEnd, jobVars
  <1>4. ControlTypeOK'
    BY DEF TypeOK, ControlTypeOK, CommandsEnd, endVars
  <1>5. WorldTypeOK'
    BY DEF TypeOK, WorldTypeOK, CommandsEnd, worldVars, ghostVars
  <1> QED BY <1>1, <1>2, <1>3, <1>4, <1>5 DEF TypeOK

\* JobSucceeded keeps every variable in its type.
LEMMA JobSucceededType ==
    ASSUME TypeOK, NEW j \in Jobs, NEW written \in SUBSET Generated, JobSucceeded(j, written)
    PROVE  TypeOK'
  <1>0. processingJobs[j] \in Transformers
    BY DEF TypeOK, JobTypeOK, JobSucceeded, ReleaseJob
  <1>1. GraphTypeOK'
    BY GraphAssumption DEF TypeOK, GraphTypeOK, JobSucceeded, graphVars, ruleVars, ghostVars,
       WorldTypeOK, TakeTimestamps, ParentTransformers
  <1>2. NodeTypeOK'
    BY <1>0, PushType, StatesType, GraphAssumption DEF TypeOK, NodeTypeOK, JobSucceeded,
       nodeVars, FinishTransformer
  <1>3. JobTypeOK'
    BY DEF TypeOK, JobTypeOK, JobSucceeded, jobVars, ReleaseJob, ContinueOrEnd, Canceled
  <1>4. ControlTypeOK'
    BY DEF TypeOK, ControlTypeOK, JobSucceeded, endVars, ContinueOrEnd, Finish
  <1>5. WorldTypeOK'
    BY DEF TypeOK, WorldTypeOK, JobSucceeded, worldVars, ghostVars, TakeTimestamps
  <1> QED BY <1>1, <1>2, <1>3, <1>4, <1>5 DEF TypeOK

\* JobFailed keeps every variable in its type.
LEMMA JobFailedType ==
    ASSUME TypeOK, NEW j \in Jobs, JobFailed(j)
    PROVE  TypeOK'
  <1>1. GraphTypeOK'
    BY DEF TypeOK, GraphTypeOK, JobFailed, graphVars, ruleVars, ghostVars
  <1>2. NodeTypeOK'
    BY DEF TypeOK, NodeTypeOK, JobFailed, nodeVars
  <1>3. JobTypeOK'
    BY DEF TypeOK, JobTypeOK, JobFailed, jobVars, ReleaseJob, ContinueOrEnd, Canceled
  <1>4. ControlTypeOK'
    BY DEF TypeOK, ControlTypeOK, JobFailed, endVars, ContinueOrEnd, Finish
  <1>5. WorldTypeOK'
    BY DEF TypeOK, WorldTypeOK, JobFailed, worldVars, ghostVars
  <1> QED BY <1>1, <1>2, <1>3, <1>4, <1>5 DEF TypeOK

\* OutputMissing keeps every variable in its type.
LEMMA OutputMissingType ==
    ASSUME TypeOK, NEW j \in Jobs, NEW written \in SUBSET Generated, OutputMissing(j, written)
    PROVE  TypeOK'
  <1>0. processingJobs[j] \in Transformers
    BY DEF TypeOK, JobTypeOK, OutputMissing, ReleaseJob
  <1>1. GraphTypeOK'
    BY <1>0, GraphAssumption DEF TypeOK, GraphTypeOK, OutputMissing, graphVars, ruleVars,
       ghostVars, WorldTypeOK, TakeTimestamps, ParentTransformers
  <1>2. NodeTypeOK'
    BY DEF TypeOK, NodeTypeOK, OutputMissing, nodeVars, HandleError, NoLeaves
  <1>3. JobTypeOK'
    BY DEF TypeOK, JobTypeOK, OutputMissing, jobVars, ReleaseJob, HandleError, Canceled
  <1>4. ControlTypeOK'
    BY DEF TypeOK, ControlTypeOK, OutputMissing, endVars, HandleError, Finish
  <1>5. WorldTypeOK'
    BY DEF TypeOK, WorldTypeOK, OutputMissing, worldVars, ghostVars, TakeTimestamps
  <1> QED BY <1>1, <1>2, <1>3, <1>4, <1>5 DEF TypeOK

\* RequestCancel keeps every variable in its type.
LEMMA RequestCancelType ==
    ASSUME TypeOK, RequestCancel
    PROVE  TypeOK'
  <1>1. GraphTypeOK'
    BY DEF TypeOK, GraphTypeOK, RequestCancel, graphVars, ruleVars, ghostVars
  <1>2. NodeTypeOK'
    BY DEF TypeOK, NodeTypeOK, RequestCancel, nodeVars
  <1>3. JobTypeOK'
    BY DEF TypeOK, JobTypeOK, RequestCancel, jobVars
  <1>4. ControlTypeOK'
    BY DEF TypeOK, ControlTypeOK, RequestCancel, endVars
  <1>5. WorldTypeOK'
    BY DEF TypeOK, WorldTypeOK, RequestCancel, worldVars, ghostVars
  <1> QED BY <1>1, <1>2, <1>3, <1>4, <1>5 DEF TypeOK

\* checkForCancellation keeps every variable in its type.
LEMMA checkForCancellationType ==
    ASSUME TypeOK, checkForCancellation
    PROVE  TypeOK'
  <1>1. GraphTypeOK'
    BY DEF TypeOK, GraphTypeOK, checkForCancellation, graphVars, ruleVars, ghostVars
  <1>2. NodeTypeOK'
    BY DEF TypeOK, NodeTypeOK, checkForCancellation, nodeVars
  <1>3. JobTypeOK'
    BY DEF TypeOK, JobTypeOK, checkForCancellation, jobVars, Canceled
  <1>4. ControlTypeOK'
    BY DEF TypeOK, ControlTypeOK, checkForCancellation, endVars
  <1>5. WorldTypeOK'
    BY DEF TypeOK, WorldTypeOK, checkForCancellation, worldVars, ghostVars
  <1> QED BY <1>1, <1>2, <1>3, <1>4, <1>5 DEF TypeOK

\* ReportResult keeps every variable in its type.
LEMMA ReportResultType ==
    ASSUME TypeOK, ReportResult
    PROVE  TypeOK'
  <1>1. GraphTypeOK'
    BY DEF TypeOK, GraphTypeOK, ReportResult, graphVars, ruleVars, ghostVars
  <1>2. NodeTypeOK'
    BY DEF TypeOK, NodeTypeOK, ReportResult, nodeVars
  <1>3. JobTypeOK'
    BY DEF TypeOK, JobTypeOK, ReportResult, jobVars
  <1>4. ControlTypeOK'
    BY DEF TypeOK, ControlTypeOK, ReportResult, endVars
  <1>5. WorldTypeOK'
    BY DEF TypeOK, WorldTypeOK, ReportResult, worldVars, ghostVars
  <1> QED BY <1>1, <1>2, <1>3, <1>4, <1>5 DEF TypeOK

\* EditSource keeps every variable in its type.
LEMMA EditSourceType ==
    ASSUME TypeOK, NEW s \in Sources, EditSource(s)
    PROVE  TypeOK'
  <1>1. GraphTypeOK'
    BY GraphAssumption DEF TypeOK, GraphTypeOK, EditSource, graphVars, ruleVars, ghostVars
  <1>2. NodeTypeOK'
    BY DEF TypeOK, NodeTypeOK, EditSource, nodeVars
  <1>3. JobTypeOK'
    BY DEF TypeOK, JobTypeOK, EditSource, jobVars
  <1>4. ControlTypeOK'
    BY DEF TypeOK, ControlTypeOK, EditSource, endVars
  <1>5. WorldTypeOK'
    BY DEF TypeOK, WorldTypeOK, EditSource, worldVars, ghostVars
  <1> QED BY <1>1, <1>2, <1>3, <1>4, <1>5 DEF TypeOK

\* ChangeProperties keeps every variable in its type.
LEMMA ChangePropertiesType ==
    ASSUME TypeOK, ChangeProperties
    PROVE  TypeOK'
  <1>1. GraphTypeOK'
    BY GraphAssumption DEF TypeOK, GraphTypeOK, ChangeProperties, graphVars, ruleVars, ghostVars
  <1>2. NodeTypeOK'
    BY DEF TypeOK, NodeTypeOK, ChangeProperties, nodeVars
  <1>3. JobTypeOK'
    BY DEF TypeOK, JobTypeOK, ChangeProperties, jobVars
  <1>4. ControlTypeOK'
    BY DEF TypeOK, ControlTypeOK, ChangeProperties, endVars
  <1>5. WorldTypeOK'
    BY DEF TypeOK, WorldTypeOK, ChangeProperties, worldVars, ghostVars
  <1> QED BY <1>1, <1>2, <1>3, <1>4, <1>5 DEF TypeOK

\* Build keeps every variable in its type.
LEMMA BuildType ==
    ASSUME TypeOK, NEW o \in BuildOptions, Build(o)
    PROVE  TypeOK'
  <1>1. GraphTypeOK'
    BY DEF TypeOK, GraphTypeOK, Build, graphVars, ruleVars, ghostVars, WorldTypeOK
  <1>2. NodeTypeOK'
    BY PushType DEF TypeOK, NodeTypeOK, Build, nodeVars, NoLeaves, PreparedStates, BuildStates
  <1>3. JobTypeOK'
    BY DEF TypeOK, JobTypeOK, Build, jobVars
  <1>4. ControlTypeOK'
    BY DEF TypeOK, ControlTypeOK, Build, endVars
  <1>5. WorldTypeOK'
    <2>1. /\ builds' = builds + 1
          /\ canceled' = FALSE /\ failed' = FALSE
          /\ UNCHANGED <<mtime, clock, edits, changes, cancels>>
      BY DEF Build
    <2>2. (canceled \in BOOLEAN /\ failed \in BOOLEAN)'
      BY <2>1
    <2>3. builds' \in Nat
      BY <2>1 DEF TypeOK, WorldTypeOK
    <2> QED BY <2>1, <2>2, <2>3 DEF TypeOK, WorldTypeOK
  <1> QED BY <1>1, <1>2, <1>3, <1>4, <1>5 DEF TypeOK

\* TypeOK holds of every project: in particular scheduleJobs() never takes a leaf from an empty
\* queue, and a job is idle exactly when it has no transformer.
THEOREM TypeCorrect == Spec => []TypeOK
  <1>1. Init => TypeOK
    <2> SUFFICES ASSUME Init PROVE TypeOK OBVIOUS
    <2>1. GraphTypeOK
      BY GraphAssumption, NodeKinds DEF Init, GraphTypeOK, NoTime, Nodes
    <2>2. NodeTypeOK
      BY DEF Init, NodeTypeOK, NoLeaves, BuildStates
    <2>3. JobTypeOK
      BY DEF Init, JobTypeOK
    <2>4. ControlTypeOK
      BY DEF Init, ControlTypeOK
    <2>5. WorldTypeOK
      <3>1. canceled \in BOOLEAN /\ failed \in BOOLEAN
        BY DEF Init
      <3>2. /\ mtime \in [Sources -> Nat] /\ clock \in Nat
            /\ builds \in Nat /\ edits \in Nat /\ changes \in Nat /\ cancels \in Nat
        BY DEF Init
      <3> QED BY <3>1, <3>2 DEF WorldTypeOK
    <2> QED BY <2>1, <2>2, <2>3, <2>4, <2>5 DEF TypeOK
  <1>2. TypeOK /\ [Next]_vars => TypeOK'
    <2> SUFFICES ASSUME TypeOK, [Next]_vars PROVE TypeOK' OBVIOUS
    <2>1. CASE ScheduleStep
      <3>1. CASE \E n \in Nodes : SkipLeaf(n) \/ DelayLeaf(n) \/ AbortOnUnknownLimits(n)
                                  \/ FinishLeaf(n)
        BY <3>1, SkipLeafType, DelayLeafType, AbortOnUnknownLimitsType, FinishLeafType
      <3>2. CASE \E r \in Rules : SkipRule(r) \/ EnterRule(r)
        BY <3>2, SkipRuleType, EnterRuleType
      <3>3. ASSUME NEW n \in Generated, ArtifactStep(n) PROVE TypeOK'
        <4>1. Outputs(TransformerOf[n]) \subseteq Generated
              /\ ScanResults[TransformerOf[n]] \subseteq SUBSET Artifacts
          BY OutputsType, GraphAssumption, ExecutorAssumption
        <4>2. CASE ScanStep(n)
          BY <4>1, <4>2, DelayedByScanType, FinishInsteadOfRunningType, RunTransformerType,
             RunThrowsType DEF ScanStep, TypeOK, JobTypeOK
        <4> QED BY <3>3, <4>1, <4>2, DelayedByRescueType, CheckThrowsType,
                   FinishWithoutRunningType DEF ArtifactStep
      <3> QED BY <2>1, <3>1, <3>2, <3>3, EndScheduleType DEF ScheduleStep
    <2>2. CASE RuleStep
      BY <2>2, LeaveRuleType, RuleThrowsType DEF RuleStep
    <2>3. CASE PostedFinish
      BY <2>3, PostedFinishType
    <2>4. ASSUME NEW j \in Jobs, JobFinishedStep(j) PROVE TypeOK'
      <3>1. Outputs(processingJobs[j]) \subseteq Generated BY OutputsType
      <3> QED BY <2>4, <3>1, JobSucceededType, OutputMissingType, JobFailedType
              DEF JobFinishedStep
    <2>5. ASSUME NEW j \in Jobs, CommandStep(j) PROVE TypeOK'
      BY <2>5, CommandsEndType DEF CommandStep
    <2>6. CASE UserStep
      BY <2>6, BuildType, RequestCancelType, ReportResultType, EditSourceType,
         ChangePropertiesType, ExecutorAssumption DEF UserStep
    <2>7. CASE UNCHANGED vars
      BY <2>7 DEF TypeOK, GraphTypeOK, NodeTypeOK, JobTypeOK, ControlTypeOK, WorldTypeOK, vars,
         graphVars, ruleVars, nodeVars, jobVars, endVars, worldVars, ghostVars
    <2> QED BY <2>1, <2>2, <2>3, <2>4, <2>5, <2>6, <2>7, checkForCancellationType
            DEF Next, ExecutorStep, Rest
  <1> QED BY <1>1, <1>2, PTL DEF Spec

-------------------------------------------------------------------------------
(***************************************************************************)
(* Jobs.                                                                    *)
(***************************************************************************)

jobTables == <<availableJobs, processingJobs, jobCountPerPool>>

Working == {"running", "canceled"}

\* No job starts working in this step.
StartsNothing == \A j \in Jobs : jobRun'[j] \in Working => jobRun[j] \in Working

\* handleError() cancels jobs and starts none.
LEMMA HandleErrorStarts ==
    ASSUME NEW bs, NEW errs, NEW busy, HandleError(bs, errs, busy, jobRun)
    PROVE  StartsNothing
  BY DEF HandleError, Canceled, StartsNothing, Working

\* What a step can do to the tables of jobs: start one in runTransformer(), give one back in
\* finishJob(), set them up in doBuild(), or leave them alone.
LEMMA JobStepCases ==
    ASSUME TypeOK, [Next]_vars
    PROVE  \/ \E n \in Generated, deps \in SUBSET Artifacts, j \in availableJobs :
                 RunTransformer(n, deps, j)
           \/ \E j \in Jobs : ReleaseJob(j) /\ StartsNothing
           \/ \E o \in BuildOptions : Build(o)
           \/ UNCHANGED jobTables /\ StartsNothing
  <1>1. CASE ScheduleStep
    <2>1. CASE \E n \in Nodes : SkipLeaf(n) \/ DelayLeaf(n) \/ AbortOnUnknownLimits(n)
                                \/ FinishLeaf(n)
      BY <2>1 DEF SkipLeaf, DelayLeaf, AbortOnUnknownLimits, FinishLeaf, jobVars, jobTables,
         StartsNothing
    <2>2. CASE \E r \in Rules : SkipRule(r) \/ EnterRule(r)
      BY <2>2 DEF SkipRule, EnterRule, jobVars, jobTables, StartsNothing
    <2>3. ASSUME NEW n \in Generated, ArtifactStep(n)
          PROVE  \/ \E deps \in SUBSET Artifacts, j \in availableJobs : RunTransformer(n, deps, j)
                 \/ UNCHANGED jobTables /\ StartsNothing
      <3>1. CASE ScanStep(n)
        <4>1. PICK deps \in ScanResults[TransformerOf[n]] :
                \/ \E x \in Outputs(TransformerOf[n]) :
                      \E before \in SUBSET Outputs(TransformerOf[n]) :
                          DelayedByScan(n, x, before, deps)
                \/ FinishInsteadOfRunning(n, deps)
                \/ \E j \in availableJobs : RunTransformer(n, deps, j)
                \/ RunThrows(n, deps)
          BY <3>1 DEF ScanStep
        <4>2. deps \in SUBSET Artifacts
          BY GraphAssumption, ExecutorAssumption
        <4>3. CASE \E x \in Outputs(TransformerOf[n]) :
                      \E before \in SUBSET Outputs(TransformerOf[n]) :
                          DelayedByScan(n, x, before, deps)
          BY <4>3 DEF DelayedByScan, jobVars, jobTables, StartsNothing
        <4>4. CASE FinishInsteadOfRunning(n, deps)
          BY <4>4 DEF FinishInsteadOfRunning, jobVars, jobTables, StartsNothing
        <4>5. CASE RunThrows(n, deps)
          BY <4>5, HandleErrorStarts DEF RunThrows, jobTables
        <4> QED BY <4>1, <4>2, <4>3, <4>4, <4>5
      <3>2. CASE \E x \in Outputs(TransformerOf[n]) :
                   \E before \in SUBSET Outputs(TransformerOf[n]) : DelayedByRescue(n, x, before)
        BY <3>2 DEF DelayedByRescue, jobVars, jobTables, StartsNothing
      <3>3. CASE CheckThrows(n)
        BY <3>3, HandleErrorStarts DEF CheckThrows, jobTables
      <3>4. CASE FinishWithoutRunning(n)
        BY <3>4 DEF FinishWithoutRunning, jobVars, jobTables, StartsNothing
      <3> QED BY <2>3, <3>1, <3>2, <3>3, <3>4 DEF ArtifactStep
    <2>4. CASE EndSchedule
      BY <2>4 DEF EndSchedule, jobVars, jobTables, StartsNothing
    <2> QED BY <1>1, <2>1, <2>2, <2>3, <2>4 DEF ScheduleStep
  <1>2. CASE RuleStep
    BY <1>2, HandleErrorStarts DEF RuleStep, LeaveRule, RuleThrows, jobVars, jobTables,
       StartsNothing
  <1>3. CASE PostedFinish
    BY <1>3 DEF PostedFinish, jobVars, jobTables, StartsNothing
  <1>4. ASSUME NEW j \in Jobs, JobFinishedStep(j) PROVE ReleaseJob(j) /\ StartsNothing
    <2>1. ASSUME NEW ok, NEW bs, NEW errs, ContinueOrEnd(j, ok, bs, errs) PROVE StartsNothing
      BY <2>1 DEF ContinueOrEnd, Canceled, StartsNothing, Working, TypeOK, JobTypeOK
    <2>2. ASSUME NEW bs, NEW errs, NEW busy,
                 HandleError(bs, errs, busy, [jobRun EXCEPT ![j] = "idle"])
          PROVE  StartsNothing
      BY <2>2 DEF HandleError, Canceled, StartsNothing, Working, TypeOK, JobTypeOK
    <2> QED BY <1>4, <2>1, <2>2 DEF JobFinishedStep, JobSucceeded, OutputMissing, JobFailed
  <1>5. ASSUME NEW j \in Jobs, CommandStep(j) PROVE UNCHANGED jobTables /\ StartsNothing
    BY <1>5 DEF CommandStep, CommandsEnd, jobTables, StartsNothing, Working,
       TypeOK, JobTypeOK
  <1>6. CASE checkForCancellation
    BY <1>6 DEF checkForCancellation, Canceled, jobTables, StartsNothing, Working
  <1>7. CASE UserStep
    BY <1>7 DEF UserStep, RequestCancel, ReportResult, EditSource, ChangeProperties, jobVars,
       jobTables, StartsNothing
  <1>8. CASE UNCHANGED vars
    BY <1>8 DEF vars, jobVars, jobTables, StartsNothing
  <1> QED BY <1>1, <1>2, <1>3, <1>4, <1>5, <1>6, <1>7, <1>8 DEF Next, ExecutorStep, Rest

\* The jobs of a pool can be counted.
LEMMA ProcessingInFinite ==
    ASSUME NEW p PROVE IsFiniteSet(ProcessingIn(p))
  <1>1. ProcessingIn(p) \subseteq Jobs /\ IsFiniteSet(Jobs)
    BY ExecutorAssumption DEF ProcessingIn, JobsProcessing
  <1> QED BY <1>1, FS_Subset

\* Every step keeps the tables of jobs in agreement: runTransformer() and finishJob() change
\* m_availableJobs, m_processingJobs and m_jobCountPerPool by the same job.
LEMMA JobAccountingStep ==
    ASSUME TypeOK, JobAccounting, [Next]_vars
    PROVE  JobAccounting'
  <1>1. ASSUME NEW n \in Generated, NEW deps \in SUBSET Artifacts, NEW j \in availableJobs,
               RunTransformer(n, deps, j)
        PROVE  JobAccounting'
    <2> DEFINE t == TransformerOf[n]
    <2>1. /\ t \in Transformers /\ t # NoTransformer /\ j \in Jobs
          /\ processingJobs[j] = NoTransformer /\ j \notin JobsProcessing
      BY GraphAssumption DEF TypeOK, JobTypeOK, JobAccounting, JobsProcessing
    <2>2. /\ availableJobs' = availableJobs \ {j}
          /\ processingJobs' = [processingJobs EXCEPT ![j] = t]
          /\ jobCountPerPool' = [p \in JobPools |->
                jobCountPerPool[p] + (IF p \in PoolsOf[t] THEN 1 ELSE 0)]
      BY <1>1 DEF RunTransformer
    <2> HIDE DEF t
    <2>3. JobsProcessing' = JobsProcessing \cup {j}
      BY <2>1, <2>2 DEF JobsProcessing, TypeOK, JobTypeOK
    <2>4. availableJobs' = Jobs \ JobsProcessing'
      BY <2>2, <2>3 DEF JobAccounting
    <2>5. ASSUME NEW p \in JobPools
          PROVE  jobCountPerPool'[p] = Cardinality(ProcessingIn(p)')
      <3>1. ProcessingIn(p)' = IF p \in PoolsOf[t] THEN ProcessingIn(p) \cup {j}
                                                  ELSE ProcessingIn(p)
        BY <2>1, <2>2, <2>3 DEF ProcessingIn, TypeOK, JobTypeOK, JobsProcessing
      <3>2. j \notin ProcessingIn(p)
        BY <2>1 DEF ProcessingIn
      <3>3. /\ Cardinality(ProcessingIn(p) \cup {j}) = Cardinality(ProcessingIn(p)) + 1
            /\ Cardinality(ProcessingIn(p)) \in Nat
        BY <3>2, ProcessingInFinite, FS_AddElement, FS_CardinalityType
      <3>4. /\ jobCountPerPool[p] = Cardinality(ProcessingIn(p))
            /\ jobCountPerPool'[p] = jobCountPerPool[p] + (IF p \in PoolsOf[t] THEN 1 ELSE 0)
        BY <2>2 DEF JobAccounting
      <3> QED BY <3>1, <3>3, <3>4
    <2> QED BY <2>4, <2>5 DEF JobAccounting
  <1>2. ASSUME NEW j \in Jobs, ReleaseJob(j) PROVE JobAccounting'
    <2> DEFINE t == processingJobs[j]
    <2>1. /\ t # NoTransformer /\ j \in JobsProcessing
          /\ availableJobs' = availableJobs \cup {j}
          /\ processingJobs' = [processingJobs EXCEPT ![j] = NoTransformer]
          /\ jobCountPerPool' = [p \in JobPools |->
                jobCountPerPool[p] - (IF p \in PoolsOf[t] THEN 1 ELSE 0)]
      BY <1>2 DEF ReleaseJob, JobsProcessing
    <2>2. JobsProcessing' = JobsProcessing \ {j}
      BY <2>1 DEF JobsProcessing, TypeOK, JobTypeOK
    <2>3. availableJobs' = Jobs \ JobsProcessing'
      BY <2>1, <2>2 DEF JobAccounting
    <2>4. ASSUME NEW p \in JobPools
          PROVE  jobCountPerPool'[p] = Cardinality(ProcessingIn(p)')
      <3>1. ProcessingIn(p)' = ProcessingIn(p) \ {j}
        BY <2>1, <2>2 DEF ProcessingIn, TypeOK, JobTypeOK, JobsProcessing
      <3>2. j \in ProcessingIn(p) <=> p \in PoolsOf[t]
        BY <2>1 DEF ProcessingIn
      <3>3. /\ Cardinality(ProcessingIn(p) \ {j}) = IF j \in ProcessingIn(p)
                                                    THEN Cardinality(ProcessingIn(p)) - 1
                                                    ELSE Cardinality(ProcessingIn(p))
            /\ Cardinality(ProcessingIn(p)) \in Nat
        BY ProcessingInFinite, FS_RemoveElement, FS_CardinalityType
      <3>4. /\ jobCountPerPool[p] = Cardinality(ProcessingIn(p))
            /\ jobCountPerPool'[p] = jobCountPerPool[p] - (IF p \in PoolsOf[t] THEN 1 ELSE 0)
        BY <2>1 DEF JobAccounting
      <3> HIDE DEF t
      <3> QED BY <3>1, <3>2, <3>3, <3>4
    <2> QED BY <2>3, <2>4 DEF JobAccounting
  <1>3. ASSUME NEW o \in BuildOptions, Build(o) PROVE JobAccounting'
    <2>1. /\ availableJobs' = Jobs
          /\ processingJobs' = [j \in Jobs |-> NoTransformer]
          /\ jobCountPerPool' = [p \in JobPools |-> 0]
      BY <1>3 DEF Build
    <2>2. JobsProcessing' = {}
      BY <2>1 DEF JobsProcessing
    <2>3. \A p \in JobPools : ProcessingIn(p)' = {}
      BY <2>2 DEF ProcessingIn
    <2> QED BY <2>1, <2>2, <2>3, FS_EmptySet DEF JobAccounting
  <1>4. CASE UNCHANGED jobTables
    BY <1>4 DEF jobTables, JobAccounting, ProcessingIn, JobsProcessing
  <1> QED BY <1>1, <1>2, <1>3, <1>4, JobStepCases

\* No job is lost or counted twice, for any number of jobs and pools and whichever way
\* finishJob() is left.
THEOREM JobsAccounted == Spec => []JobAccounting
  <1>1. Init => JobAccounting
    <2> SUFFICES ASSUME Init PROVE JobAccounting OBVIOUS
    <2>1. JobsProcessing = {}
      BY DEF Init, JobsProcessing
    <2>2. \A p \in JobPools : ProcessingIn(p) = {}
      BY <2>1 DEF ProcessingIn
    <2> QED BY <2>1, <2>2, FS_EmptySet DEF Init, JobAccounting
  <1> QED BY <1>1, JobAccountingStep, TypeCorrect, PTL DEF Spec

\* HandleError() and finish() leave the executor in a consistent phase, whoever calls them, if
\* busy is what is left in m_processingJobs.
LEMMA HandleErrorPhase ==
    ASSUME NEW bs, NEW errs, NEW busy, NEW run, busy = JobsProcessing',
           HandleError(bs, errs, busy, run)
    PROVE  NoJobOutlivesItsBuild'
  BY DEF HandleError, Finish, NoJobOutlivesItsBuild

\* finishJob() takes exactly its own job out of m_processingJobs.
LEMMA ReleasedJob ==
    ASSUME TypeOK, NEW j \in Jobs, ReleaseJob(j)
    PROVE  JobsProcessing' = JobsProcessing \ {j}
  BY DEF ReleaseJob, JobsProcessing, TypeOK, JobTypeOK

\* finishJob() only calls finish() when it has given back the last job.
LEMMA ContinueOrEndPhase ==
    ASSUME TypeOK, NEW j \in Jobs, ReleaseJob(j), NoJobOutlivesItsBuild,
           NEW ok, NEW bs, NEW errs, ContinueOrEnd(j, ok, bs, errs)
    PROVE  NoJobOutlivesItsBuild'
  BY ReleasedJob DEF ContinueOrEnd, Finish, NoJobOutlivesItsBuild, ReleaseJob

\* No step ends a build while a job is processing.
LEMMA PhaseStep ==
    ASSUME TypeOK, NoJobOutlivesItsBuild, [Next]_vars
    PROVE  NoJobOutlivesItsBuild'
  <1>1. CASE ScheduleStep
    <2>1. CASE \E n \in Nodes : SkipLeaf(n) \/ DelayLeaf(n) \/ AbortOnUnknownLimits(n)
                                \/ FinishLeaf(n)
      BY <2>1 DEF SkipLeaf, DelayLeaf, AbortOnUnknownLimits, FinishLeaf, Accept, PopLeaf, endVars,
         jobVars, NoJobOutlivesItsBuild, JobsProcessing
    <2>2. CASE \E r \in Rules : SkipRule(r) \/ EnterRule(r)
      BY <2>2 DEF SkipRule, EnterRule, Accept, PopLeaf, endVars, jobVars,
         NoJobOutlivesItsBuild, JobsProcessing
    <2>3. ASSUME NEW n \in Generated, ArtifactStep(n) PROVE NoJobOutlivesItsBuild'
      <3> USE DEF Considered, VisitArtifact, Accept, PopLeaf
      <3>1. CASE \E x, before : DelayedByRescue(n, x, before)
        BY <3>1 DEF DelayedByRescue, endVars, jobVars, NoJobOutlivesItsBuild, JobsProcessing
      <3>2. CASE CheckThrows(n)
        BY <3>2, HandleErrorPhase DEF CheckThrows, JobsProcessing
      <3>3. CASE FinishWithoutRunning(n)
        BY <3>3 DEF FinishWithoutRunning, endVars, jobVars, NoJobOutlivesItsBuild, JobsProcessing
      <3> USE DEF MustRun, Scanned
      <3>4. CASE \E x, before, deps : DelayedByScan(n, x, before, deps)
        BY <3>4 DEF DelayedByScan, endVars, jobVars, NoJobOutlivesItsBuild, JobsProcessing
      <3>5. CASE \E deps : FinishInsteadOfRunning(n, deps)
        BY <3>5 DEF FinishInsteadOfRunning, endVars, jobVars, NoJobOutlivesItsBuild,
           JobsProcessing
      <3>6. CASE \E deps : \E j \in availableJobs : RunTransformer(n, deps, j)
        BY <3>6 DEF RunTransformer, endVars, NoJobOutlivesItsBuild
      <3>7. CASE \E deps : RunThrows(n, deps)
        BY <3>7, HandleErrorPhase DEF RunThrows, JobsProcessing
      <3> QED BY <2>3, <3>1, <3>2, <3>3, <3>4, <3>5, <3>6, <3>7 DEF ArtifactStep, ScanStep
    <2>4. CASE EndSchedule
      BY <2>4 DEF EndSchedule, WaitForEvents, Finish, jobVars, NoJobOutlivesItsBuild,
         JobsProcessing
    <2> QED BY <1>1, <2>1, <2>2, <2>3, <2>4 DEF ScheduleStep
  <1>2. CASE LeaveRule
    BY <1>2 DEF LeaveRule, endVars, jobVars, NoJobOutlivesItsBuild, JobsProcessing
  <1>3. CASE \E done, last \in SUBSET Transformers : RuleThrows(done, last)
    BY <1>3, HandleErrorPhase DEF RuleThrows, JobsProcessing
  <1>4. CASE PostedFinish
    BY <1>4 DEF PostedFinish, Finish, jobVars, NoJobOutlivesItsBuild, JobsProcessing
  <1>5. ASSUME NEW j \in Jobs, JobFinishedStep(j) PROVE NoJobOutlivesItsBuild'
    <2>1. ASSUME NEW written, JobSucceeded(j, written) PROVE NoJobOutlivesItsBuild'
      BY <2>1, ContinueOrEndPhase DEF JobSucceeded
    <2>2. ASSUME NEW written, OutputMissing(j, written) PROVE NoJobOutlivesItsBuild'
      BY <2>2, HandleErrorPhase, ReleasedJob DEF OutputMissing
    <2>3. CASE JobFailed(j)
      BY <2>3, ContinueOrEndPhase DEF JobFailed
    <2> QED BY <1>5, <2>1, <2>2, <2>3 DEF JobFinishedStep
  <1>6. ASSUME NEW j \in Jobs, CommandStep(j) PROVE NoJobOutlivesItsBuild'
    BY <1>6 DEF CommandStep, CommandsEnd, endVars, NoJobOutlivesItsBuild, JobsProcessing
  <1>7. CASE checkForCancellation
    BY <1>7 DEF checkForCancellation, NoJobOutlivesItsBuild, JobsProcessing
  <1>8. CASE \E o \in BuildOptions : Build(o)
    BY <1>8 DEF Build, NoJobOutlivesItsBuild
  <1>9. CASE RequestCancel \/ (\E s \in MayEdit : EditSource(s)) \/ ChangeProperties
    BY <1>9 DEF RequestCancel, EditSource, ChangeProperties, endVars, jobVars,
       NoJobOutlivesItsBuild, JobsProcessing
  <1>10. CASE ReportResult
    BY <1>10 DEF ReportResult, endVars, jobVars, NoJobOutlivesItsBuild, JobsProcessing
  <1>11. CASE UNCHANGED vars
    BY <1>11 DEF vars, endVars, jobVars, NoJobOutlivesItsBuild, JobsProcessing
  <1> QED BY <1>1, <1>2, <1>3, <1>4, <1>5, <1>6, <1>7, <1>8, <1>9, <1>10, <1>11
          DEF Next, ExecutorStep, RuleStep, UserStep, Rest

\* A build that has ended has no job left, and the executor is idle exactly between builds.
THEOREM JobsEndWithTheirBuild == Spec => []NoJobOutlivesItsBuild
  <1>1. Init => NoJobOutlivesItsBuild
    BY DEF Init, NoJobOutlivesItsBuild, JobsProcessing
  <1> QED BY <1>1, PhaseStep, TypeCorrect, PTL DEF Spec

\* No step exceeds the limit of a pool.  The step that matters is runTransformer(): the node has
\* passed schedulingBlockedByJobLimit(), which has compared the count with the limit of its own
\* product and with those of the products of all running transformers.
LEMMA PoolLimitsStep ==
    ASSUME TypeOK, PoolLimitsRespected, [Next]_vars
    PROVE  PoolLimitsRespected'
  <1> DEFINE Limit(i, p) == JobLimit[ProductOfTransformer(processingJobs[i])][p]
  <1>0. ASSUME NEW t \in Transformers, NEW p \in JobPools
        PROVE  JobLimit[ProductOfTransformer(t)][p] \in Nat
    BY GraphAssumption, ExecutorAssumption, NodeKinds DEF ProductOfTransformer
  <1>1. ASSUME NEW n \in Generated, NEW deps \in SUBSET Artifacts, NEW j \in availableJobs,
               RunTransformer(n, deps, j)
        PROVE  PoolLimitsRespected'
    <2> DEFINE t == TransformerOf[n]
    <2>1. /\ t \in Transformers /\ j \in Jobs
          /\ ProductOf[n] = ProductOfTransformer(t)
      BY GraphAssumption DEF ProductOfTransformer, TypeOK, JobTypeOK
    <2>2. /\ processingJobs' = [processingJobs EXCEPT ![j] = t]
          /\ jobCountPerPool' = [p \in JobPools |->
                jobCountPerPool[p] + (IF p \in PoolsOf[t] THEN 1 ELSE 0)]
          /\ \A i \in Jobs : i # j => jobRun'[i] = jobRun[i]
      BY <1>1 DEF RunTransformer, TypeOK, JobTypeOK
    <2>3. ~schedulingBlockedByJobLimit(n)
      BY <1>1 DEF RunTransformer, Scanned, MustRun, Considered, VisitArtifact, Accept
    <2>4. SUFFICES ASSUME NEW p \in JobPools, NEW i \in RunningIn(p)',
                          JobLimit[ProductOfTransformer(processingJobs'[i])][p] > 0
                   PROVE  jobCountPerPool'[p]
                             <= JobLimit[ProductOfTransformer(processingJobs'[i])][p]
      BY DEF PoolLimitsRespected
    <2>5. /\ i \in Jobs
          /\ i # j => i \in RunningIn(p)
          /\ processingJobs'[i] = IF i = j THEN t ELSE processingJobs[i]
          /\ processingJobs'[i] \in Transformers
      BY <2>1, <2>2 DEF RunningIn, JobsProcessing, TypeOK, JobTypeOK
    <2>6. JobLimit[ProductOfTransformer(processingJobs'[i])][p] \in Nat
      BY <2>5, <1>0
    <2>7. jobCountPerPool[p] \in Int
      BY DEF TypeOK, JobTypeOK
    <2>8. CASE p \notin PoolsOf[t]
      <3>1. jobCountPerPool'[p] = jobCountPerPool[p] /\ i # j
        BY <2>2, <2>5, <2>7, <2>8 DEF RunningIn, JobsProcessing
      <3> QED BY <2>4, <2>5, <3>1 DEF PoolLimitsRespected
    <2>9. CASE p \in PoolsOf[t] /\ jobCountPerPool[p] = 0
      BY <2>2, <2>4, <2>6, <2>9
    <2>10. CASE p \in PoolsOf[t] /\ jobCountPerPool[p] # 0
      <3>1. ~jobLimitIsExceeded(ProductOfTransformer(processingJobs'[i]), p)
        BY <2>1, <2>3, <2>5, <2>10 DEF schedulingBlockedByJobLimit, InUse
      <3>2. jobCountPerPool[p] < JobLimit[ProductOfTransformer(processingJobs'[i])][p]
        BY <2>4, <2>6, <2>7, <3>1 DEF jobLimitIsExceeded
      <3>3. jobCountPerPool'[p] = jobCountPerPool[p] + 1
        BY <2>2, <2>10
      <3> QED BY <2>6, <2>7, <3>2, <3>3
    <2> QED BY <2>8, <2>9, <2>10
  <1>2. ASSUME NEW j \in Jobs, ReleaseJob(j), StartsNothing PROVE PoolLimitsRespected'
    <2>1. /\ processingJobs' = [processingJobs EXCEPT ![j] = NoTransformer]
          /\ \A p \in JobPools : /\ jobCountPerPool'[p] \in Int
                                 /\ jobCountPerPool'[p] <= jobCountPerPool[p]
      BY <1>2 DEF ReleaseJob, TypeOK, JobTypeOK
    <2>2. \A p \in JobPools : \A i \in RunningIn(p)' :
             /\ i \in RunningIn(p)
             /\ processingJobs'[i] = processingJobs[i] /\ processingJobs[i] \in Transformers
      BY <1>2, <2>1 DEF RunningIn, JobsProcessing, StartsNothing, Working, TypeOK, JobTypeOK
    <2> QED BY <1>0, <2>1, <2>2 DEF PoolLimitsRespected, TypeOK, JobTypeOK
  <1>3. ASSUME NEW o \in BuildOptions, Build(o) PROVE PoolLimitsRespected'
    <2>1. processingJobs' = [j \in Jobs |-> NoTransformer]
      BY <1>3 DEF Build
    <2>2. \A p \in JobPools : RunningIn(p)' = {}
      BY <2>1 DEF RunningIn, JobsProcessing
    <2> QED BY <2>2 DEF PoolLimitsRespected
  <1>4. CASE UNCHANGED jobTables /\ StartsNothing
    <2>1. \A p \in JobPools : RunningIn(p)' \subseteq RunningIn(p)
      BY <1>4 DEF RunningIn, JobsProcessing, StartsNothing, Working, jobTables
    <2> QED BY <1>4, <2>1 DEF PoolLimitsRespected, jobTables
  <1> QED BY <1>1, <1>2, <1>3, <1>4, JobStepCases

\* Job limits hold for every assignment of pools to transformers and of limits to products,
\* also when the running transformers belong to products with different limits.
THEOREM PoolLimitsHold == Spec => []PoolLimitsRespected
  <1>1. Init => PoolLimitsRespected
    BY DEF Init, PoolLimitsRespected, RunningIn, JobsProcessing
  <1> QED BY <1>1, PoolLimitsStep, TypeCorrect, PTL DEF Spec

-------------------------------------------------------------------------------
(***************************************************************************)
(* Build states.                                                            *)
(***************************************************************************)

\* A step that neither runs nor finishes a transformer of a product that is being built.
KeepsOutput(n) ==
    \/ buildState'[n] = buildState[n]
    \/ buildState[n] = "Untouched" /\ buildState'[n] = "Buildable"
    \/ /\ buildState[n] = "Buildable" /\ buildState'[n] = "Built"
       /\ ProductOf[n] \notin ProductsToBuild

KeepsOutputs ==
    /\ \A n \in Generated : KeepsOutput(n)
    /\ \A n \in Nodes : Advances(n)
    /\ UNCHANGED opts

\* The transformer of a buildable node is finished without a job.
FinishesTransformerOf(n) ==
    /\ buildState[n] = "Buildable"
    /\ buildState' = MarkBuilt(Outputs(TransformerOf[n]), buildState)
    /\ UNCHANGED <<opts, processingJobs>>

\* updateLeaves() only makes untouched nodes buildable.
LEMMA TouchKeeps ==
    ASSUME TypeOK, NEW visited, buildState' = Touch(visited, buildState), UNCHANGED opts
    PROVE  KeepsOutputs
  BY NodeKinds DEF Touch, KeepsOutputs, KeepsOutput, Advances, TypeOK, NodeTypeOK

\* A step that leaves the build states alone.
LEMMA SameStatesKeep ==
    ASSUME UNCHANGED <<buildState, opts>>
    PROVE  KeepsOutputs
  BY DEF KeepsOutputs, KeepsOutput, Advances

\* What a step can do to build states: run a transformer, finish one with or without a job,
\* prepare the nodes in doBuild(), or none of this.
LEMMA StateStepCases ==
    ASSUME TypeOK, [Next]_vars
    PROVE  \/ \E n \in Generated, deps \in SUBSET Artifacts, j \in availableJobs :
                 RunTransformer(n, deps, j)
           \/ \E n \in Generated : FinishesTransformerOf(n)
           \/ \E j \in Jobs : \E written : JobSucceeded(j, written)
           \/ \E o \in BuildOptions : Build(o)
           \/ KeepsOutputs /\ (UNCHANGED processingJobs \/ \E j \in Jobs : ReleaseJob(j))
  <1>1. CASE ScheduleStep
    <2>1. CASE \E n \in Nodes : SkipLeaf(n) \/ DelayLeaf(n) \/ AbortOnUnknownLimits(n)
      BY <2>1, SameStatesKeep DEF SkipLeaf, DelayLeaf, AbortOnUnknownLimits, nodeVars, jobVars
    <2>2. ASSUME NEW n \in Nodes, FinishLeaf(n) PROVE KeepsOutputs /\ UNCHANGED processingJobs
      <3>1. /\ buildState[n] = "Buildable" /\ buildState' = MarkBuilt({n}, buildState)
            /\ n \in Sources \/ ProductOf[n] \notin ProductsToBuild
            /\ UNCHANGED <<opts, processingJobs>>
        BY <2>2 DEF FinishLeaf, Accept, jobVars
      <3> QED BY <3>1, NodeKinds, GraphAssumption DEF MarkBuilt, KeepsOutputs, KeepsOutput,
                 Advances, TypeOK, NodeTypeOK
    <2>3. ASSUME NEW r \in Rules, SkipRule(r) PROVE KeepsOutputs /\ UNCHANGED processingJobs
      <3>1. /\ buildState' = MarkBuilt({r}, buildState) /\ buildState[r] = "Buildable"
            /\ UNCHANGED <<opts, processingJobs>>
        BY <2>3 DEF SkipRule, Accept, jobVars
      <3> QED BY <3>1, NodeKinds, GraphAssumption DEF MarkBuilt, KeepsOutputs, KeepsOutput,
                 Advances, TypeOK, NodeTypeOK
    <2>4. CASE \E r \in Rules : EnterRule(r)
      BY <2>4, SameStatesKeep DEF EnterRule, jobVars
    <2>5. ASSUME NEW n \in Generated, ArtifactStep(n)
          PROVE  \/ \E deps \in SUBSET Artifacts, j \in availableJobs : RunTransformer(n, deps, j)
                 \/ FinishesTransformerOf(n)
                 \/ KeepsOutputs /\ UNCHANGED processingJobs
      <3>1. CASE \E x, before : DelayedByRescue(n, x, before)
        BY <3>1, TouchKeeps DEF DelayedByRescue, jobVars
      <3>2. CASE CheckThrows(n)
        BY <3>2, SameStatesKeep DEF CheckThrows
      <3>3. CASE FinishWithoutRunning(n)
        BY <3>3 DEF FinishWithoutRunning, FinishTransformer, FinishesTransformerOf, Considered,
           VisitArtifact, Accept, jobVars
      <3>4. CASE \E x, before, deps : DelayedByScan(n, x, before, deps)
        BY <3>4, TouchKeeps DEF DelayedByScan, jobVars
      <3>5. CASE \E deps : FinishInsteadOfRunning(n, deps)
        BY <3>5 DEF FinishInsteadOfRunning, FinishTransformer, FinishesTransformerOf, Scanned,
           MustRun, Considered, VisitArtifact, Accept, jobVars
      <3>6. CASE \E deps : RunThrows(n, deps)
        BY <3>6, SameStatesKeep DEF RunThrows
      <3>7. CASE \E deps \in ScanResults[TransformerOf[n]] :
                   \E j \in availableJobs : RunTransformer(n, deps, j)
        <4>1. ScanResults[TransformerOf[n]] \subseteq SUBSET Artifacts
          BY GraphAssumption, ExecutorAssumption
        <4> QED BY <3>7, <4>1
      <3> QED BY <2>5, <3>1, <3>2, <3>3, <3>4, <3>5, <3>6, <3>7 DEF ArtifactStep, ScanStep
    <2>6. CASE EndSchedule
      BY <2>6, SameStatesKeep DEF EndSchedule, jobVars
    <2> QED BY <1>1, <2>1, <2>2, <2>3, <2>4, <2>5, <2>6 DEF ScheduleStep
  <1>2. CASE LeaveRule
    <2>1. PICK v1, v2 :
             buildState' = MarkBuilt({currentRule}, Touch(v2, Touch(v1, buildState)))
      BY <1>2 DEF LeaveRule
    <2>2. currentRule \in Rules /\ UNCHANGED <<opts, processingJobs>>
      BY <1>2 DEF LeaveRule, TypeOK, ControlTypeOK, jobVars
    <2>3. KeepsOutputs
      BY <2>1, <2>2, NodeKinds, GraphAssumption DEF MarkBuilt, Touch, KeepsOutputs, KeepsOutput,
         Advances, TypeOK, NodeTypeOK, BuildStates
    <2> QED BY <2>2, <2>3
  <1>3. CASE \E done, last \in SUBSET Transformers : RuleThrows(done, last)
    BY <1>3, SameStatesKeep DEF RuleThrows, nodeVars
  <1>4. CASE PostedFinish
    BY <1>4, SameStatesKeep DEF PostedFinish, nodeVars, jobVars
  <1>5. ASSUME NEW j \in Jobs, JobFailed(j) \/ \E written : OutputMissing(j, written)
        PROVE  KeepsOutputs /\ ReleaseJob(j)
    BY <1>5, SameStatesKeep DEF JobFailed, OutputMissing, nodeVars
  <1>6. CASE \E j \in Jobs : CommandStep(j)
    BY <1>6, SameStatesKeep DEF CommandStep, CommandsEnd, nodeVars
  <1>7. CASE checkForCancellation
    BY <1>7, SameStatesKeep DEF checkForCancellation, nodeVars
  <1>8. CASE RequestCancel \/ ReportResult \/ (\E s \in MayEdit : EditSource(s))
             \/ ChangeProperties
    BY <1>8, SameStatesKeep DEF RequestCancel, ReportResult, EditSource, ChangeProperties,
       nodeVars, jobVars
  <1>9. CASE UNCHANGED vars
    BY <1>9, SameStatesKeep DEF vars, nodeVars, jobVars
  <1> QED BY <1>1, <1>2, <1>3, <1>4, <1>5, <1>6, <1>7, <1>8, <1>9
          DEF Next, ExecutorStep, RuleStep, JobFinishedStep, UserStep, Rest

\* What runTransformer() does to the outputs of the buildable artifact that was visited.
LEMMA RunTransformerStates ==
    ASSUME TypeOK, NEW n \in Generated, NEW deps, NEW j \in availableJobs,
           RunTransformer(n, deps, j)
    PROVE  /\ buildState[n] = "Buildable" /\ ProductOf[n] \in ProductsToBuild
           /\ TransformerOf[n] \in Transformers
           /\ processingJobs' = [processingJobs EXCEPT ![j] = TransformerOf[n]]
           /\ UNCHANGED opts
           /\ buildState' = [m \in Nodes |-> IF m \in Outputs(TransformerOf[n]) THEN "Building"
                                             ELSE buildState[m]]
  BY GraphAssumption DEF RunTransformer, MarkBuilding, Scanned, MustRun, Considered,
     VisitArtifact, Accept

\* finishJob() of a successful job makes all outputs of its transformer built.
LEMMA JobSucceededStates ==
    ASSUME TypeOK, NEW j \in Jobs, NEW written, JobSucceeded(j, written)
    PROVE  /\ processingJobs[j] \in Transformers
           /\ processingJobs' = [processingJobs EXCEPT ![j] = NoTransformer]
           /\ UNCHANGED opts
           /\ buildState' = MarkBuilt(Outputs(processingJobs[j]), buildState)
  BY DEF JobSucceeded, ReleaseJob, FinishTransformer, TypeOK, JobTypeOK

\* No step tells the outputs of a transformer apart.
LEMMA SiblingsStep ==
    ASSUME TypeOK, SiblingsTogether, [Next]_vars
    PROVE  SiblingsTogether'
  <1>1. ASSUME NEW t, NEW s,
               \A m \in Nodes : buildState'[m] = IF m \in Outputs(t) THEN s ELSE buildState[m],
               UNCHANGED opts
        PROVE  SiblingsTogether'
    BY <1>1, NodeKinds DEF SiblingsTogether, Outputs, ProductsToBuild
  <1>2. CASE \E n \in Generated, deps \in SUBSET Artifacts, j \in availableJobs :
                RunTransformer(n, deps, j)
    BY <1>1, <1>2, RunTransformerStates
  <1>3. CASE \E n \in Generated : FinishesTransformerOf(n)
    BY <1>1, <1>3 DEF FinishesTransformerOf, MarkBuilt
  <1>4. CASE \E j \in Jobs : \E written : JobSucceeded(j, written)
    BY <1>1, <1>4, JobSucceededStates DEF MarkBuilt
  <1>5. ASSUME NEW o \in BuildOptions, Build(o) PROVE SiblingsTogether'
    <2>1. \A n \in Nodes : buildState'[n] \in {"Buildable", "Untouched"}
      BY <1>5 DEF Build, PreparedStates
    <2> QED BY <2>1, NodeKinds DEF SiblingsTogether
  <1>6. CASE KeepsOutputs
    BY <1>6 DEF KeepsOutputs, KeepsOutput, SiblingsTogether, ProductsToBuild
  <1> QED BY <1>2, <1>3, <1>4, <1>5, <1>6, StateStepCases

\* No step starts a second job for a transformer: the node that is visited is buildable, and the
\* outputs of a transformer that is being processed are in state Building.
LEMMA OneJobStep ==
    ASSUME TypeOK, OneJobPerTransformer, [Next]_vars
    PROVE  OneJobPerTransformer'
  <1>1. ASSUME NEW n \in Generated, NEW deps \in SUBSET Artifacts, NEW j \in availableJobs,
               RunTransformer(n, deps, j)
        PROVE  OneJobPerTransformer'
    <2> DEFINE t == TransformerOf[n]
    <2>1. /\ j \in Jobs /\ buildState[n] = "Buildable" /\ t \in Transformers
          /\ processingJobs' = [processingJobs EXCEPT ![j] = t]
          /\ buildState' = [m \in Nodes |-> IF m \in Outputs(t) THEN "Building"
                                            ELSE buildState[m]]
      BY <1>1, RunTransformerStates DEF TypeOK, JobTypeOK
    <2>2. \A i \in JobsProcessing : processingJobs[i] # t
      BY <2>1 DEF OneJobPerTransformer, Outputs
    <2>3. \A i \in JobsProcessing' : \/ i = j /\ processingJobs'[i] = t
                                     \/ /\ i # j /\ i \in JobsProcessing
                                        /\ processingJobs'[i] = processingJobs[i]
      BY <2>1 DEF JobsProcessing, TypeOK, JobTypeOK
    <2>4. \A i \in JobsProcessing' : \A o \in Outputs(processingJobs'[i]) :
             buildState'[o] = "Building"
      BY <2>1, <2>3, NodeKinds DEF OneJobPerTransformer, Outputs
    <2> HIDE DEF t
    <2> QED BY <2>2, <2>3, <2>4 DEF OneJobPerTransformer
  <1>2. ASSUME NEW n \in Generated, FinishesTransformerOf(n) PROVE OneJobPerTransformer'
    <2>1. \A i \in JobsProcessing : processingJobs[i] # TransformerOf[n]
      BY <1>2 DEF FinishesTransformerOf, OneJobPerTransformer, Outputs
    <2> QED BY <1>2, <2>1, NodeKinds DEF FinishesTransformerOf, OneJobPerTransformer, Outputs,
               MarkBuilt, JobsProcessing
  <1>3. ASSUME NEW j \in Jobs, NEW written, JobSucceeded(j, written) PROVE OneJobPerTransformer'
    <2>1. /\ processingJobs[j] \in Transformers
          /\ processingJobs' = [processingJobs EXCEPT ![j] = NoTransformer]
          /\ buildState' = MarkBuilt(Outputs(processingJobs[j]), buildState)
      BY <1>3, JobSucceededStates
    <2>2. \A i \in JobsProcessing' : /\ i \in JobsProcessing /\ i # j
                                     /\ processingJobs'[i] = processingJobs[i]
      BY <2>1 DEF JobsProcessing, TypeOK, JobTypeOK
    <2>3. j \in JobsProcessing
      BY <2>1, GraphAssumption DEF JobsProcessing
    <2> QED BY <2>1, <2>2, <2>3, NodeKinds DEF OneJobPerTransformer, Outputs, MarkBuilt
  <1>4. ASSUME NEW o \in BuildOptions, Build(o) PROVE OneJobPerTransformer'
    <2>1. JobsProcessing' = {}
      BY <1>4 DEF Build, JobsProcessing
    <2> QED BY <2>1 DEF OneJobPerTransformer
  <1>5. CASE KeepsOutputs /\ (UNCHANGED processingJobs \/ \E j \in Jobs : ReleaseJob(j))
    <2>1. \A i \in JobsProcessing' : i \in JobsProcessing /\ processingJobs'[i] = processingJobs[i]
      BY <1>5 DEF JobsProcessing, ReleaseJob, TypeOK, JobTypeOK
    <2>2. \A o \in Generated : buildState[o] = "Building" => buildState'[o] = "Building"
      BY <1>5 DEF KeepsOutputs, KeepsOutput
    <2> QED BY <2>1, <2>2 DEF OneJobPerTransformer, Outputs
  <1> QED BY <1>1, <1>2, <1>3, <1>4, <1>5, StateStepCases

\* The outputs of a transformer are being built, and become built, together.
THEOREM OutputsBuiltTogether == Spec => []SiblingsTogether
  <1>1. Init => SiblingsTogether
    BY NodeKinds DEF Init, SiblingsTogether
  <1> QED BY <1>1, SiblingsStep, TypeCorrect, PTL DEF Spec

\* No two jobs ever run the same transformer, however often its outputs are queued.
THEOREM TransformersRunOnce == Spec => []OneJobPerTransformer
  <1>1. Init => OneJobPerTransformer
    BY DEF Init, OneJobPerTransformer, JobsProcessing
  <1> QED BY <1>1, OneJobStep, TypeCorrect, PTL DEF Spec

\* Build states only advance within a build.  runTransformer() is the step that needs more than
\* types: it marks all outputs, not only the one that was visited, and SiblingsTogether says that
\* none of them is built already.
THEOREM StatesAdvance == Spec => StatesOnlyAdvance
  <1>1. ASSUME TypeOK, SiblingsTogether, [Next]_vars, pc # "idle", NEW m \in Nodes
        PROVE  Advances(m)
    <2>1. CASE \E n \in Generated, deps \in SUBSET Artifacts, j \in availableJobs :
                  RunTransformer(n, deps, j)
      <3>1. PICK n \in Generated, deps \in SUBSET Artifacts, j \in availableJobs :
                  RunTransformer(n, deps, j)
        BY <2>1
      <3>2. /\ buildState[n] = "Buildable" /\ ProductOf[n] \in ProductsToBuild
            /\ buildState' = [k \in Nodes |-> IF k \in Outputs(TransformerOf[n]) THEN "Building"
                                              ELSE buildState[k]]
        BY <1>1, <3>1, RunTransformerStates
      <3>3. ASSUME m \in Outputs(TransformerOf[n]) PROVE buildState[m] \notin {"Building", "Built"}
        <4>1. /\ m \in Generated /\ TransformerOf[m] = TransformerOf[n]
              /\ ProductOf[m] = ProductOf[n]
          BY <3>3, GraphAssumption DEF Outputs
        <4> QED BY <1>1, <3>2, <4>1 DEF SiblingsTogether
      <3> QED BY <1>1, <3>2, <3>3 DEF Advances, TypeOK, NodeTypeOK, BuildStates
    <2>2. CASE \E t : buildState' = MarkBuilt(Outputs(t), buildState)
      BY <1>1, <2>2 DEF MarkBuilt, Advances, TypeOK, NodeTypeOK, BuildStates
    <2>3. CASE KeepsOutputs
      BY <2>3 DEF KeepsOutputs
    <2>4. ~ \E o \in BuildOptions : Build(o)
      BY <1>1 DEF Build
    <2>5. ASSUME NEW j \in Jobs, NEW written, JobSucceeded(j, written)
          PROVE  \E t : buildState' = MarkBuilt(Outputs(t), buildState)
      BY <1>1, <2>5, JobSucceededStates
    <2> QED BY <1>1, <2>1, <2>2, <2>3, <2>4, <2>5, StateStepCases DEF FinishesTransformerOf
  <1>2. TypeOK /\ SiblingsTogether /\ [Next]_vars => [AllAdvance]_vars
    BY <1>1 DEF AllAdvance
  <1> QED BY <1>2, TypeCorrect, OutputsBuiltTogether, PTL DEF Spec, StatesOnlyAdvance
-------------------------------------------------------------------------------
(***************************************************************************)
(* The executor treats every job according to JobContract.  CommandProofs   *)
(* proves that a job implements that contract; the two theorems together    *)
(* are the assume/guarantee argument that joins the two components.         *)
(***************************************************************************)

\* What has been handed to a job stays with it.
KeepsWork(j) == processingJobs'[j] = processingJobs[j]

\* The life of one job in the eyes of the executor: run(), with commands or without; cancel();
\* the end of the commands; and finishJob(), which alone takes the transformer back.
JobMoves(j) ==
    \/ jobRun'[j] = jobRun[j] /\ KeepsWork(j)
    \/ /\ jobRun[j] = "idle" /\ jobRun'[j] \in {"running", "ok"}
       /\ processingJobs[j] = NoTransformer /\ processingJobs'[j] # NoTransformer
    \/ jobRun[j] = "running" /\ jobRun'[j] \in {"canceled", "ok", "error"} /\ KeepsWork(j)
    \/ jobRun[j] = "canceled" /\ jobRun'[j] = "error" /\ KeepsWork(j)
    \/ /\ jobRun[j] \in {"ok", "error"} /\ jobRun'[j] = "idle"
       /\ processingJobs'[j] = NoTransformer

AllJobsMove == \A j \in Jobs : JobMoves(j)

\* A step that leaves the jobs alone.
LEMMA SameJobsMove ==
    ASSUME UNCHANGED <<jobRun, processingJobs>>
    PROVE  AllJobsMove
  BY DEF AllJobsMove, JobMoves, KeepsWork

\* handleError() cancels the jobs that still run their commands, and only those.
LEMMA HandleErrorMoves ==
    ASSUME TypeOK, NEW bs, NEW errs, NEW busy, HandleError(bs, errs, busy, jobRun),
           UNCHANGED processingJobs
    PROVE  AllJobsMove
  BY DEF HandleError, Canceled, AllJobsMove, JobMoves, KeepsWork, TypeOK, JobTypeOK

\* finishJob() takes the report of a job that has finished, and may cancel others.
LEMMA FinishJobMoves ==
    ASSUME TypeOK, NEW j \in Jobs, JobFinishedStep(j)
    PROVE  AllJobsMove
  <1> DEFINE run == [jobRun EXCEPT ![j] = "idle"]
  <1>1. jobRun[j] \in {"ok", "error"}
    BY DEF JobFinishedStep, JobSucceeded, OutputMissing, JobFailed
  <1>2. jobRun' = run \/ jobRun' = Canceled(run)
    BY DEF JobFinishedStep, JobSucceeded, OutputMissing, JobFailed, ContinueOrEnd, HandleError
  <1>3. processingJobs' = [processingJobs EXCEPT ![j] = NoTransformer]
    BY DEF JobFinishedStep, JobSucceeded, OutputMissing, JobFailed, ReleaseJob
  <1> QED BY <1>1, <1>2, <1>3 DEF Canceled, AllJobsMove, JobMoves, KeepsWork, TypeOK, JobTypeOK

\* Every step moves every job by at most one step of its life.
LEMMA JobsStep ==
    ASSUME TypeOK, JobAccounting, NoJobOutlivesItsBuild, [Next]_vars
    PROVE  AllJobsMove
  <1>1. CASE ScheduleStep
    <2>1. CASE \E n \in Nodes : SkipLeaf(n) \/ DelayLeaf(n) \/ AbortOnUnknownLimits(n)
                                \/ FinishLeaf(n)
      BY <2>1, SameJobsMove DEF SkipLeaf, DelayLeaf, AbortOnUnknownLimits, FinishLeaf, jobVars
    <2>2. CASE \E r \in Rules : SkipRule(r) \/ EnterRule(r)
      BY <2>2, SameJobsMove DEF SkipRule, EnterRule, jobVars
    <2>3. ASSUME NEW n \in Generated, ArtifactStep(n) PROVE AllJobsMove
      <3>1. CASE \E x, before : DelayedByRescue(n, x, before)
        BY <3>1, SameJobsMove DEF DelayedByRescue, jobVars
      <3>2. CASE CheckThrows(n)
        BY <3>2, HandleErrorMoves DEF CheckThrows
      <3>3. CASE FinishWithoutRunning(n)
        BY <3>3, SameJobsMove DEF FinishWithoutRunning, jobVars
      <3>4. CASE \E x, before, deps : DelayedByScan(n, x, before, deps)
        BY <3>4, SameJobsMove DEF DelayedByScan, jobVars
      <3>5. CASE \E deps : FinishInsteadOfRunning(n, deps)
        BY <3>5, SameJobsMove DEF FinishInsteadOfRunning, jobVars
      <3>6. CASE \E deps : \E j \in availableJobs : RunTransformer(n, deps, j)
        <4>1. PICK j \in availableJobs : \E deps : RunTransformer(n, deps, j)
          BY <3>6
        <4>2. j \in Jobs /\ jobRun[j] = "idle" /\ processingJobs[j] = NoTransformer
          BY DEF JobAccounting, JobsProcessing, TypeOK, JobTypeOK
        <4>3. PICK s \in {"ok", "running"} : jobRun' = [jobRun EXCEPT ![j] = s]
          BY <4>1 DEF RunTransformer
        <4>4. /\ TransformerOf[n] # NoTransformer
              /\ processingJobs' = [processingJobs EXCEPT ![j] = TransformerOf[n]]
          BY <4>1, GraphAssumption DEF RunTransformer
        <4> QED BY <4>2, <4>3, <4>4 DEF AllJobsMove, JobMoves, KeepsWork, TypeOK, JobTypeOK
      <3>7. CASE \E deps : RunThrows(n, deps)
        BY <3>7, HandleErrorMoves DEF RunThrows
      <3> QED BY <2>3, <3>1, <3>2, <3>3, <3>4, <3>5, <3>6, <3>7 DEF ArtifactStep, ScanStep
    <2>4. CASE EndSchedule
      BY <2>4, SameJobsMove DEF EndSchedule, jobVars
    <2> QED BY <1>1, <2>1, <2>2, <2>3, <2>4 DEF ScheduleStep
  <1>2. CASE LeaveRule
    BY <1>2, SameJobsMove DEF LeaveRule, jobVars
  <1>3. CASE \E done, last \in SUBSET Transformers : RuleThrows(done, last)
    BY <1>3, HandleErrorMoves DEF RuleThrows
  <1>4. CASE PostedFinish
    BY <1>4, SameJobsMove DEF PostedFinish, jobVars
  <1>5. CASE \E j \in Jobs : JobFinishedStep(j)
    BY <1>5, FinishJobMoves
  <1>6. CASE \E j \in Jobs : CommandStep(j)
    BY <1>6 DEF CommandStep, CommandsEnd, AllJobsMove, JobMoves, KeepsWork, TypeOK, JobTypeOK
  <1>7. CASE checkForCancellation
    BY <1>7 DEF checkForCancellation, Canceled, AllJobsMove, JobMoves, KeepsWork, TypeOK,
                JobTypeOK
  <1>8. ASSUME NEW o \in BuildOptions, Build(o) PROVE AllJobsMove
    <2>1. /\ JobsProcessing = {} /\ jobRun' = [j \in Jobs |-> "idle"]
          /\ processingJobs' = [j \in Jobs |-> NoTransformer]
      BY <1>8 DEF Build, NoJobOutlivesItsBuild
    <2>2. \A j \in Jobs : jobRun[j] = "idle" /\ processingJobs[j] = NoTransformer
      BY <2>1 DEF JobsProcessing, TypeOK, JobTypeOK
    <2> QED BY <2>1, <2>2 DEF AllJobsMove, JobMoves, KeepsWork
  <1>9. CASE RequestCancel \/ ReportResult \/ (\E s \in MayEdit : EditSource(s))
             \/ ChangeProperties
    BY <1>9, SameJobsMove DEF RequestCancel, ReportResult, EditSource, ChangeProperties, jobVars
  <1>10. CASE UNCHANGED vars
    BY <1>10, SameJobsMove DEF vars, jobVars
  <1> QED BY <1>1, <1>2, <1>3, <1>4, <1>5, <1>6, <1>7, <1>8, <1>9, <1>10
          DEF Next, ExecutorStep, RuleStep, UserStep, Rest

\* A step of a job's life is a step of the contract.
LEMMA MoveIsContractStep ==
    ASSUME NEW j \in Jobs, JobMoves(j)
    PROVE  [Job(j)!Next]_(Job(j)!vars)
  <1> USE DEF Job!Next, Job!vars, Report, KeepsWork
  <1>1. CASE jobRun'[j] = jobRun[j] /\ KeepsWork(j)
    BY <1>1
  <1>2. CASE /\ jobRun[j] = "idle" /\ jobRun'[j] \in {"running", "ok"}
             /\ processingJobs[j] = NoTransformer /\ processingJobs'[j] # NoTransformer
    BY <1>2 DEF Job!Accept, Job!AcceptEmpty, Job!Free
  <1>3. CASE jobRun[j] = "running" /\ jobRun'[j] \in {"canceled", "ok", "error"} /\ KeepsWork(j)
    BY <1>3 DEF Job!Cancel, Job!Succeed, Job!Fail
  <1>4. CASE jobRun[j] = "canceled" /\ jobRun'[j] = "error" /\ KeepsWork(j)
    BY <1>4 DEF Job!Fail
  <1>5. CASE /\ jobRun[j] \in {"ok", "error"} /\ jobRun'[j] = "idle"
             /\ processingJobs'[j] = NoTransformer
    BY <1>5 DEF Job!Collect
  <1> QED BY <1>1, <1>2, <1>3, <1>4, <1>5 DEF JobMoves

\* The executor keeps its side of the contract with every job, for any number of jobs: no job is
\* handed a transformer while it has one or while its report is on its way, none loses its
\* transformer before it has reported, and only running jobs are canceled.
THEOREM JobsAreUsedByContract == Spec => JobsUsedByContract
  <1>1. Init => \A j \in Jobs : Job(j)!Init
    BY DEF Init, Job!Init, Report
  <1>2. TypeOK /\ JobAccounting /\ NoJobOutlivesItsBuild /\ [Next]_vars
           => [\A j \in Jobs : [Job(j)!Next]_(Job(j)!vars)]_vars
    BY JobsStep, MoveIsContractStep DEF AllJobsMove
  <1> QED BY <1>1, <1>2, TypeCorrect, JobsAccounted, JobsEndWithTheirBuild, PTL
          DEF Spec, JobsUsedByContract
===============================================================================
