------------------------------ MODULE BuildProofs ------------------------------
(***************************************************************************)
(* Theorems about builds as a whole: in which order nodes get their turn,   *)
(* that nothing which can be built is forgotten, that the graph the rules    *)
(* make has no cycle, and what the end of a build says about it.            *)
(*                                                                          *)
(* GraphStepCases and ReportStepCases sort the steps of the executor by     *)
(* what they do to the graph and the queue, and to the report; each         *)
(* invariant is then proved once per kind of step.  The invariants build on *)
(* one another: GraphInv (rules come first), PendingInv, ReadyInv, WaitInv, *)
(* EdgesInv with Acyclic(children), and BuildEndInv.                        *)
(***************************************************************************)
EXTENDS GraphProofs

-------------------------------------------------------------------------------
(***************************************************************************)
(* What the steps of the executor do to the graph, the build states and the *)
(* queue.  The invariants that follow are proved from these kinds of steps. *)
(***************************************************************************)

\* The rule that creates a generated artifact.
Maker(a) == RuleOf[TransformerOf[a]]

\* The executor goes on scheduling, now or after the next job.  An exception ends this.
Live == state = "Running" \/ pc \in {"schedule", "rule"}

\* The children of an artifact that no scanner has found.
Fixed(a) == children[a] \ addedByScanner[a]

\* A walk of updateLeaves() stays in a closed set and leaves out only children that are built.
LEMMA VisitedFacts ==
    ASSUME NEW from \in SUBSET Nodes, NEW ch \in [Nodes -> SUBSET Nodes], NEW bs
    PROVE  /\ from \subseteq Visited(from, bs, ch)
           /\ Visited(from, bs, ch) \subseteq Nodes
           /\ \A n \in Visited(from, bs, ch) : \A c \in ch[n] :
                 bs[c] = "Built" \/ c \in Visited(from, bs, ch)
           /\ \A S : from \subseteq S /\ Closed(S, ch) => Visited(from, bs, ch) \subseteq S
  <1> DEFINE unbuilt == [n \in Nodes |-> {c \in ch[n] : bs[c] # "Built"}]
  <1>1. /\ unbuilt \in [Nodes -> SUBSET Nodes]
        /\ \A n \in Nodes : unbuilt[n] = {c \in ch[n] : bs[c] # "Built"}
    OBVIOUS
  <1>2. Visited(from, bs, ch) = Closure(from, unbuilt)
    BY DEF Visited
  <1> HIDE DEF unbuilt
  <1> DEFINE V == Closure(from, unbuilt)
  <1>3. /\ from \subseteq V /\ V \subseteq Nodes /\ Closed(V, unbuilt)
        /\ \A S : from \subseteq S /\ Closed(S, unbuilt) => V \subseteq S
    BY <1>1, ClosureIsReachability
  <1> HIDE DEF V
  <1>4. ASSUME NEW n \in V, NEW c \in ch[n] PROVE bs[c] = "Built" \/ c \in V
    BY <1>1, <1>3 DEF Closed
  <1>5. ASSUME NEW S, from \subseteq S, Closed(S, ch) PROVE V \subseteq S
    <2>1. /\ from \subseteq S \cap Nodes
          /\ Closed(S \cap Nodes, unbuilt)
      BY <1>1, <1>5 DEF Closed
    <2>2. V \subseteq S \cap Nodes
      BY <1>3, <2>1
    <2> QED BY <2>2
  <1> QED BY <1>2, <1>3, <1>4, <1>5 DEF V

\* Visiting the artifact n changes no edges but those that scanners have added to the outputs of
\* its transformer, and leads only to nodes that exist.
VisitKeeps(n, ch, ad) ==
    /\ ch \in [Nodes -> SUBSET Nodes] /\ ad \in [Generated -> SUBSET Artifacts]
    /\ \A m \in Nodes \ Outputs(TransformerOf[n]) : ch[m] = children[m]
    /\ \A m \in Generated \ Outputs(TransformerOf[n]) : ad[m] = addedByScanner[m]
    /\ \A m \in Outputs(TransformerOf[n]) :
          /\ ch[m] \ ad[m] = Fixed(m)
          /\ ch[m] \subseteq children[m] \cup graph

\* The same for old data that is rescued.
LEMMA RescueKeeps ==
    ASSUME TypeOK, NEW n \in Generated, NEW os \in SUBSET Outputs(TransformerOf[n])
    PROVE  /\ AfterRescue(os) \in GraphRecords
           /\ VisitKeeps(n, AfterRescue(os).children, AfterRescue(os).added)
           /\ \A m \in Nodes \ os : AfterRescue(os).children[m] = children[m]
  <1> DEFINE g == AfterRescue(os)
  <1>1. os \in SUBSET Generated /\ Outputs(TransformerOf[n]) \subseteq Nodes
    BY OutputsType, NodeKinds
  <1>2. g \in GraphRecords
    BY <1>1, RescueType DEF TypeOK
  <1>3. /\ \A m \in Nodes : g.children[m] = IF m \in os THEN children[m] \cup RescueAdds(m)
                                                         ELSE children[m]
        /\ \A m \in Generated : g.added[m] = IF m \in os THEN addedByScanner[m] \cup RescueAdds(m)
                                                         ELSE addedByScanner[m]
    BY DEF AfterRescue
  <1>4. ASSUME NEW m \in os
        PROVE  RescueAdds(m) \cap children[m] = {} /\ RescueAdds(m) \subseteq graph
    BY DEF RescueAdds, SafelyConnectable, ChildrenToConnect, CanRescue
  <1> HIDE DEF g
  <1>5. ASSUME NEW m \in Outputs(TransformerOf[n])
        PROVE  /\ g.children[m] \ g.added[m] = Fixed(m)
               /\ g.children[m] \subseteq children[m] \cup graph
    BY <1>1, <1>3, <1>4, OutputsType DEF Fixed
  <1>6. /\ g.children \in [Nodes -> SUBSET Nodes] /\ g.added \in [Generated -> SUBSET Artifacts]
    BY <1>2 DEF GraphRecords
  <1> QED BY <1>1, <1>2, <1>3, <1>5, <1>6 DEF VisitKeeps, g

\* The children of an output that was scanned.
ScannedChildren(o, deps, g) == Fixed(o) \cup ScanAdds(o, deps, g)

\* The same for a scan.
LEMMA ScanKeepsFixed ==
    ASSUME TypeOK, NEW n \in Generated, NEW os \in SUBSET Outputs(TransformerOf[n]),
           NEW deps \in SUBSET Artifacts, NEW g \in GraphRecords,
           VisitKeeps(n, g.children, g.added)
    PROVE  /\ VisitKeeps(n, AfterScan(os, deps, g).children, AfterScan(os, deps, g).added)
           /\ \A m \in Nodes \ os : AfterScan(os, deps, g).children[m] = g.children[m]
           /\ \A m \in os : AfterScan(os, deps, g).children[m] = ScannedChildren(m, deps, g)
  <1> DEFINE ch == AfterScan(os, deps, g).children
             ad == AfterScan(os, deps, g).added
  <1>1. os \in SUBSET Generated /\ Outputs(TransformerOf[n]) \subseteq Generated
        /\ Generated \subseteq Nodes
    BY OutputsType, NodeKinds
  <1>2. AfterScan(os, deps, g) \in GraphRecords
    BY <1>1, ScanType DEF TypeOK
  <1>3. /\ ch = [m \in Nodes |-> IF m \in os THEN ScanKeeps(m, g) \cup ScanAdds(m, deps, g)
                                  ELSE g.children[m]]
        /\ ad = [a \in Generated |-> IF a \in os THEN ScanAdds(a, deps, g) ELSE g.added[a]]
    BY DEF AfterScan, GraphRecords
  <1>4. ch \in [Nodes -> SUBSET Nodes] /\ ad \in [Generated -> SUBSET Artifacts]
    BY <1>2 DEF GraphRecords
  <1> HIDE DEF ch, ad
  <1>5. ASSUME NEW m \in os
        PROVE  /\ ScanKeeps(m, g) = Fixed(m)
               /\ ScanAdds(m, deps, g) \cap Fixed(m) = {} /\ ScanAdds(m, deps, g) \subseteq graph
    BY DEF ScanKeeps, VisitKeeps, ScanAdds, SafelyConnectable, ScanFinds
  <1>6. \A m \in Nodes \ os : ch[m] = g.children[m]
    BY <1>3
  <1>7. \A m \in Generated \ os : ad[m] = g.added[m]
    BY <1>3
  <1>8. ASSUME NEW m \in os
        PROVE  ch[m] = ScannedChildren(m, deps, g) /\ ad[m] = ScanAdds(m, deps, g)
    BY <1>1, <1>3, <1>5 DEF ScannedChildren
  <1>9. ASSUME NEW m \in Outputs(TransformerOf[n])
        PROVE  ch[m] \ ad[m] = Fixed(m) /\ ch[m] \subseteq children[m] \cup graph
    <2>1. CASE m \in os
      <3>1. Fixed(m) \subseteq children[m]
        BY DEF Fixed
      <3> QED BY <1>5, <1>8, <2>1, <3>1 DEF ScannedChildren
    <2>2. CASE m \notin os
      BY <1>1, <1>6, <1>7, <2>2 DEF VisitKeeps
    <2> QED BY <2>1, <2>2
  <1>10. VisitKeeps(n, ch, ad)
    BY <1>1, <1>4, <1>6, <1>7, <1>9 DEF VisitKeeps
  <1> QED BY <1>6, <1>8, <1>10 DEF ch, ad

\* A step that leaves the graph and the build states alone and queues nothing; what it takes
\* from the queue was not buildable, or an exception is on its way.
Quiet ==
    /\ UNCHANGED <<graph, children, addedByScanner, applied, buildState, inputsScanned, opts,
                   pendingTransformers>>
    /\ pc' = "rule" <=> pc = "rule"
    /\ pc = "rule" => UNCHANGED currentRule
    /\ \A n \in Nodes : Queued(n)' => Queued(n)
    /\ Live' => Live
    /\ state' = "Running" =>
          /\ state = "Running"
          /\ \A n \in Nodes : Queued(n) /\ buildState[n] = "Buildable" => Queued(n)'

\* The node n is taken from the queue to be built.
Takes(n) ==
    /\ pc = "schedule" /\ leaves[n] > 0 /\ buildState[n] = "Buildable"
    /\ UNCHANGED <<graph, applied, opts>>

\* The rest of scheduleJobs() goes on.
GoesOn == UNCHANGED <<delayedLeaves, state, pc, currentRule>>

\* A source file, a node of a product that is not built, or a rule that is up to date.
FinishesNode(n) ==
    /\ n \in Nodes /\ Takes(n) /\ GoesOn
    /\ UNCHANGED <<children, addedByScanner, inputsScanned>>
    /\ buildState' = MarkBuilt({n}, buildState)
    /\ leaves' = Push(Popped(n), ReadyParents({n}, buildState, children))
    /\ \/ /\ n \in Sources \/ ProductOf[n] \notin ProductsToBuild
          /\ UNCHANGED pendingTransformers
       \/ /\ n \in Rules /\ n \in applied
          /\ pendingTransformers' =
                [pendingTransformers EXCEPT ![n] = Cardinality(TransformersOf(n))]

\* What buildArtifact() has done for every outcome of a visit of the artifact n.
VisitsArtifact(n) ==
    /\ n \in Generated /\ Takes(n) /\ ProductOf[n] \in ProductsToBuild
    /\ VisitKeeps(n, children', addedByScanner')
    /\ inputsScanned' \subseteq inputsScanned \cup Outputs(TransformerOf[n])

\* The output x of the transformer of n has to wait for a child.
DelaysFor(n, x) ==
    /\ VisitsArtifact(n) /\ GoesOn
    /\ x \in Outputs(TransformerOf[n]) /\ ~allChildrenBuilt(x, buildState, children')
    /\ x \notin inputsScanned'
    /\ LET visited == Visited(Unbuilt(x, children'), buildState, children')
       IN  /\ buildState' = Touch(visited, buildState)
           /\ leaves' = Push(Popped(n), LeavesAmong(visited, buildState', children'))
    /\ UNCHANGED pendingTransformers

\* A child that is added to an output without a delay is built.
AddsOnlyBuilt(n) ==
    \A o \in Outputs(TransformerOf[n]) : \A c \in children'[o] :
        c \in children[o] \/ buildState[c] = "Built"

\* The transformer of n is finished without running.
FinishesVisited(n) ==
    /\ VisitsArtifact(n) /\ GoesOn /\ AddsOnlyBuilt(n)
    /\ FinishTransformer(TransformerOf[n], Popped(n), buildState, children')

\* The commands of the transformer of n are started.  If this was its first scan in this build,
\* nothing that an earlier scan has found is left.
StartsJob(n) ==
    /\ VisitsArtifact(n) /\ GoesOn /\ AddsOnlyBuilt(n)
    /\ \A o \in Outputs(TransformerOf[n]) \ inputsScanned : \A c \in children'[o] :
          c \in Fixed(o) \/ buildState[c] = "Built"
    /\ buildState' = MarkBuilding(n)
    /\ leaves' = Popped(n)
    /\ UNCHANGED pendingTransformers

\* An exception is thrown while n is visited.
VisitThrows(n) ==
    /\ VisitsArtifact(n)
    /\ UNCHANGED <<buildState, pendingTransformers>>
    /\ leaves' = Popped(n) /\ delayedLeaves' = NoLeaves
    /\ pc' # "rule" /\ ~Live'

\* A job has succeeded.
FinishesJob(j) ==
    /\ j \in Jobs /\ processingJobs[j] \in Transformers /\ pc = "loop"
    /\ UNCHANGED <<graph, children, addedByScanner, applied, inputsScanned, opts, delayedLeaves>>
    /\ FinishTransformer(processingJobs[j], leaves, buildState, children)
    /\ pc' # "rule"
    /\ state' = "Running" => state = "Running"
    /\ Live' => Live

\* handleError() ends the life of a build.
LEMMA ThrowEndsLife ==
    ASSUME NEW bs, NEW errs, NEW busy, NEW run, HandleError(bs, errs, busy, run)
    PROVE  pc' # "rule" /\ ~Live' /\ delayedLeaves' = NoLeaves
  BY DEF HandleError, Finish, Live

\* finishJob() schedules only if the executor was scheduling before.
LEMMA ContinueKeepsLife ==
    ASSUME NEW j, NEW ok, NEW bs, NEW errs, pc = "loop", ContinueOrEnd(j, ok, bs, errs)
    PROVE  pc' # "rule" /\ (Live' => Live) /\ (state' = "Running" => state = "Running")
  BY DEF ContinueOrEnd, Finish, Live

\* Old data was rescued and delays nothing: what it has added is built.
LEMMA RescueAddsBuilt ==
    ASSUME TypeOK, NEW n \in Generated, Considered(n)
    PROVE  LET g == Graph(TransformerOf[n])
           IN  /\ g \in GraphRecords
               /\ VisitKeeps(n, g.children, g.added)
               /\ \A o \in Outputs(TransformerOf[n]) : \A c \in g.children[o] :
                     c \in children[o] \/ buildState[c] = "Built"
  <1> DEFINE t == TransformerOf[n]
             g == Graph(t)
  <1>1. /\ ToRescue(t) \in SUBSET Outputs(t) /\ g = AfterRescue(ToRescue(t))
        /\ Outputs(t) \subseteq Nodes
    BY OutputsType, NodeKinds DEF ToRescue, Graph
  <1>2. /\ g \in GraphRecords /\ VisitKeeps(n, g.children, g.added)
        /\ \A m \in Nodes \ ToRescue(t) : g.children[m] = children[m]
    BY <1>1, RescueKeeps
  <1>3. ASSUME NEW o \in Outputs(t), NEW c \in g.children[o]
        PROVE  c \in children[o] \/ buildState[c] = "Built"
    <2>1. CASE o \notin ToRescue(t)
      BY <1>1, <1>2, <2>1
    <2>2. CASE o \in ToRescue(t)
      <3>1. o \in Nodes
        BY <1>1
      <3>2. ~RescueBlocked(o)
        BY <2>2 DEF Considered
      <3>3. /\ g.children[o] = children[o] \cup RescueAdds(o)
            /\ AfterRescue({o}).children[o] = children[o] \cup RescueAdds(o)
        BY <1>1, <2>2, <3>1 DEF AfterRescue
      <3>4. CASE ChildrenToConnect(o) = {}
        BY <3>3, <3>4 DEF RescueAdds, SafelyConnectable
      <3>5. CASE ~HasUnbuiltDependencies(o, AfterRescue({o}).children)
        BY <3>3, <3>5 DEF HasUnbuiltDependencies, allChildrenBuilt
      <3> QED BY <3>2, <3>4, <3>5 DEF RescueBlocked
    <2> QED BY <2>1, <2>2
  <1> QED BY <1>2, <1>3

\* The same for a scan that delays nothing.
LEMMA ScanAddsBuilt ==
    ASSUME TypeOK, NEW n \in Generated, NEW deps \in SUBSET Artifacts, Scanned(n, deps)
    PROVE  /\ VisitKeeps(n, children', addedByScanner')
           /\ AddsOnlyBuilt(n)
           /\ \A o \in Outputs(TransformerOf[n]) \ inputsScanned : \A c \in children'[o] :
                 c \in Fixed(o) \/ buildState[c] = "Built"
  <1> DEFINE t == TransformerOf[n]
             g == Graph(t)
             s == AfterScan(ToScan(t), deps, g)
  <1>1. /\ ToScan(t) \in SUBSET Outputs(t) /\ Outputs(t) \subseteq Nodes
    BY OutputsType, NodeKinds DEF ToScan
  <1>2. Considered(n) /\ children' = s.children /\ addedByScanner' = s.added
    BY DEF Scanned, MustRun
  <1>3. /\ g \in GraphRecords /\ VisitKeeps(n, g.children, g.added)
        /\ \A o \in Outputs(t) : \A c \in g.children[o] :
              c \in children[o] \/ buildState[c] = "Built"
    BY <1>2, RescueAddsBuilt
  <1> HIDE DEF g
  <1>4. /\ VisitKeeps(n, s.children, s.added)
        /\ \A m \in Nodes \ ToScan(t) : s.children[m] = g.children[m]
        /\ \A m \in ToScan(t) : s.children[m] = ScannedChildren(m, deps, g)
    BY <1>1, <1>3, ScanKeepsFixed
  <1>5. ASSUME NEW o \in ToScan(t), NEW c \in s.children[o]
        PROVE  c \in Fixed(o) \/ buildState[c] = "Built"
    <2>1. ~ScanBlocked(o, deps, g)
      BY DEF Scanned, g
    <2>2. s.children[o] = ScannedChildren(o, deps, g)
      BY <1>4
    <2>3. AfterScan({o}, deps, g).children[o] = ScannedChildren(o, deps, g)
      <3>1. {o} \in SUBSET Outputs(t)
        BY <1>1
      <3> QED BY <1>3, <3>1, ScanKeepsFixed
    <2>4. CASE ScanFinds(o, deps, g) = {}
      <3>1. ScanAdds(o, deps, g) = {}
        BY <2>4 DEF ScanAdds, SafelyConnectable
      <3> QED BY <2>2, <3>1 DEF ScannedChildren
    <2>5. CASE ~HasUnbuiltDependencies(o, AfterScan({o}, deps, g).children)
      BY <2>2, <2>3, <2>5 DEF HasUnbuiltDependencies, allChildrenBuilt
    <2> QED BY <2>1, <2>4, <2>5 DEF ScanBlocked
  <1>6. ASSUME NEW o \in Outputs(t), NEW c \in s.children[o]
        PROVE  c \in children[o] \/ buildState[c] = "Built"
    <2>1. CASE o \in ToScan(t)
      BY <1>5, <2>1 DEF Fixed
    <2>2. CASE o \notin ToScan(t)
      BY <1>1, <1>3, <1>4, <2>2
    <2> QED BY <2>1, <2>2
  <1>7. Outputs(t) \ inputsScanned = ToScan(t)
    BY DEF ToScan
  <1> QED BY <1>2, <1>4, <1>5, <1>6, <1>7 DEF AddsOnlyBuilt

\* A visit of an artifact has one of four outcomes.
LEMMA VisitCases ==
    ASSUME TypeOK, NEW n \in Generated, ArtifactStep(n)
    PROVE  (\E x : DelaysFor(n, x)) \/ FinishesVisited(n) \/ StartsJob(n) \/ VisitThrows(n)
  <1> DEFINE t == TransformerOf[n]
             g == Graph(t)
  <1>1. t \in Transformers /\ ScanResults[t] \subseteq SUBSET Artifacts
    BY GraphAssumption, ExecutorAssumption
  <1>2. ASSUME Considered(n)
        PROVE  g \in GraphRecords /\ VisitKeeps(n, g.children, g.added)
               /\ \A o \in Outputs(t) : \A c \in g.children[o] :
                     c \in children[o] \/ buildState[c] = "Built"
    BY <1>2, RescueAddsBuilt
  <1>3. ASSUME VisitArtifact(n), UNCHANGED <<graph, applied, opts>>
        PROVE  Takes(n) /\ ProductOf[n] \in ProductsToBuild
    BY <1>3 DEF Takes, VisitArtifact, Accept, PopLeaf
  <1>4. ASSUME NEW x \in Outputs(t), NEW before \in SUBSET Outputs(t),
               DelayedByRescue(n, x, before)
        PROVE  DelaysFor(n, x)
    <2> DEFINE k == AfterRescue(before \cup {x})
    <2>1. /\ VisitArtifact(n) /\ RescueBlocked(x) /\ UNCHANGED <<graph, applied, opts>>
          /\ children' = k.children /\ addedByScanner' = k.added
          /\ inputsScanned' = inputsScanned \ {x}
          /\ GoesOn /\ UNCHANGED pendingTransformers
      BY <1>4 DEF DelayedByRescue, GoesOn, endVars, ruleVars
    <2>2. /\ buildState' = Touch(Visited(Unbuilt(x, children'), buildState, children'), buildState)
          /\ leaves' = Push(Popped(n), LeavesAmong(Visited(Unbuilt(x, children'), buildState,
                                                           children'), buildState', children'))
      BY <1>4 DEF DelayedByRescue
    <2>3. VisitKeeps(n, k.children, k.added)
      BY RescueKeeps
    <2>4. ~allChildrenBuilt(x, buildState, k.children)
      <3>1. x \in Nodes
        BY OutputsType, NodeKinds
      <3>2. k.children[x] = AfterRescue({x}).children[x]
        BY <3>1 DEF AfterRescue
      <3> QED BY <2>1, <3>2 DEF RescueBlocked, HasUnbuiltDependencies, allChildrenBuilt
    <2> HIDE DEF k
    <2> QED BY <1>3, <2>1, <2>2, <2>3, <2>4 DEF DelaysFor, VisitsArtifact
  <1>5. CASE CheckThrows(n)
    <2>1. /\ Considered(n) /\ VisitArtifact(n) /\ UNCHANGED <<graph, applied, opts>>
          /\ children' = g.children /\ addedByScanner' = g.added /\ leaves' = Popped(n)
          /\ UNCHANGED <<buildState, inputsScanned, pendingTransformers>>
      BY <1>5 DEF CheckThrows, Considered, ruleVars
    <2>2. pc' # "rule" /\ ~Live' /\ delayedLeaves' = NoLeaves
      BY <1>5, ThrowEndsLife DEF CheckThrows
    <2> HIDE DEF g
    <2> QED BY <1>2, <1>3, <2>1, <2>2 DEF VisitThrows, VisitsArtifact
  <1>6. CASE FinishWithoutRunning(n)
    <2>1. /\ Considered(n) /\ VisitArtifact(n) /\ UNCHANGED <<graph, applied, opts>>
          /\ children' = g.children /\ addedByScanner' = g.added
          /\ FinishTransformer(t, Popped(n), buildState, children')
          /\ UNCHANGED inputsScanned
          /\ GoesOn
      BY <1>6 DEF FinishWithoutRunning, Considered, ruleVars, GoesOn, endVars
    <2> HIDE DEF g
    <2> QED BY <1>2, <1>3, <2>1 DEF FinishesVisited, VisitsArtifact, AddsOnlyBuilt
  <1>7. ASSUME NEW deps \in ScanResults[t], NEW x \in Outputs(t), NEW before \in SUBSET Outputs(t),
               DelayedByScan(n, x, before, deps)
        PROVE  DelaysFor(n, x)
    <2> DEFINE k == AfterScan(before \cup {x}, deps, g)
    <2>1. /\ Considered(n) /\ VisitArtifact(n) /\ ScanBlocked(x, deps, g)
          /\ UNCHANGED <<graph, applied, opts>>
          /\ children' = k.children /\ addedByScanner' = k.added
          /\ inputsScanned' = (inputsScanned \cup before) \ {x}
          /\ GoesOn /\ UNCHANGED pendingTransformers
      BY <1>7 DEF DelayedByScan, MustRun, Considered, GoesOn, endVars, ruleVars
    <2>2. /\ buildState' = Touch(Visited(Unbuilt(x, children'), buildState, children'), buildState)
          /\ leaves' = Push(Popped(n), LeavesAmong(Visited(Unbuilt(x, children'), buildState,
                                                           children'), buildState', children'))
      BY <1>7 DEF DelayedByScan
    <2>3. /\ g \in GraphRecords /\ VisitKeeps(n, g.children, g.added)
          /\ deps \in SUBSET Artifacts
          /\ before \cup {x} \in SUBSET Outputs(t) /\ {x} \in SUBSET Outputs(t)
      BY <1>1, <1>2, <2>1
    <2> HIDE DEF g
    <2>4. ASSUME NEW os \in SUBSET Outputs(t)
          PROVE  /\ VisitKeeps(n, AfterScan(os, deps, g).children, AfterScan(os, deps, g).added)
                 /\ \A m \in os : AfterScan(os, deps, g).children[m] = ScannedChildren(m, deps, g)
      BY <2>3, ScanKeepsFixed
    <2>5. AfterScan({x}, deps, g).children[x] = ScannedChildren(x, deps, g)
      BY <2>3, <2>4
    <2>6. VisitKeeps(n, k.children, k.added) /\ k.children[x] = ScannedChildren(x, deps, g)
      BY <2>3, <2>4
    <2> HIDE DEF k
    <2>8. VisitKeeps(n, children', addedByScanner')
      BY <2>1, <2>6
    <2>9. ~allChildrenBuilt(x, buildState, children')
      BY <2>1, <2>5, <2>6 DEF ScanBlocked, HasUnbuiltDependencies, allChildrenBuilt
    <2>10. /\ x \notin inputsScanned'
           /\ inputsScanned' \subseteq inputsScanned \cup Outputs(TransformerOf[n])
      BY <2>1
    <2>11. Takes(n) /\ ProductOf[n] \in ProductsToBuild /\ GoesOn /\ UNCHANGED pendingTransformers
      BY <1>3, <2>1
    <2> QED BY <2>2, <2>8, <2>9, <2>10, <2>11 DEF DelaysFor, VisitsArtifact
  <1>8. ASSUME NEW deps \in ScanResults[t], Scanned(n, deps), UNCHANGED <<graph, applied, opts>>
        PROVE  /\ VisitsArtifact(n) /\ AddsOnlyBuilt(n)
               /\ \A o \in Outputs(t) \ inputsScanned : \A c \in children'[o] :
                     c \in Fixed(o) \/ buildState[c] = "Built"
    <2>1. deps \in SUBSET Artifacts
      BY <1>1
    <2>2. VisitArtifact(n) /\ inputsScanned' = inputsScanned \cup Outputs(t)
      BY <1>8 DEF Scanned, MustRun, Considered
    <2> QED BY <1>3, <1>8, <2>1, <2>2, ScanAddsBuilt DEF VisitsArtifact
  <1>9. ASSUME NEW deps \in ScanResults[t], FinishInsteadOfRunning(n, deps)
        PROVE  FinishesVisited(n)
    <2>1. /\ Scanned(n, deps) /\ UNCHANGED <<graph, applied, opts>> /\ GoesOn
          /\ FinishTransformer(t, Popped(n), buildState, children')
      BY <1>9 DEF FinishInsteadOfRunning, Scanned, ruleVars, GoesOn, endVars
    <2> QED BY <1>8, <2>1 DEF FinishesVisited
  <1>10. ASSUME NEW deps \in ScanResults[t], NEW j \in availableJobs, RunTransformer(n, deps, j)
         PROVE  StartsJob(n)
    <2>1. /\ Scanned(n, deps) /\ UNCHANGED <<graph, applied, opts>> /\ GoesOn
          /\ buildState' = MarkBuilding(n) /\ leaves' = Popped(n)
          /\ UNCHANGED pendingTransformers
      BY <1>10 DEF RunTransformer, ruleVars, GoesOn, endVars
    <2> QED BY <1>8, <2>1 DEF StartsJob
  <1>11. ASSUME NEW deps \in ScanResults[t], RunThrows(n, deps)
         PROVE  VisitThrows(n)
    <2>1. /\ Scanned(n, deps) /\ UNCHANGED <<graph, applied, opts>>
          /\ leaves' = Popped(n)
          /\ UNCHANGED <<buildState, pendingTransformers>>
      BY <1>11 DEF RunThrows, ruleVars
    <2>2. pc' # "rule" /\ ~Live' /\ delayedLeaves' = NoLeaves
      BY <1>11, ThrowEndsLife DEF RunThrows
    <2> QED BY <1>8, <2>1, <2>2 DEF VisitThrows
  <1> QED BY <1>4, <1>5, <1>6, <1>7, <1>9, <1>10, <1>11 DEF ArtifactStep, ScanStep

\* A step that leaves everything alone that Quiet speaks of.
LEMMA SameIsQuiet ==
    ASSUME TypeOK,
           UNCHANGED <<graph, children, addedByScanner, applied, buildState, inputsScanned, opts,
                       pendingTransformers, leaves, delayedLeaves>>,
           pc' = "rule" <=> pc = "rule", pc = "rule" => UNCHANGED currentRule, Live' => Live,
           state' = "Running" => state = "Running"
    PROVE  Quiet
  BY DEF Quiet, Queued

\* Every step is of one of these kinds.
LEMMA GraphStepCases ==
    ASSUME TypeOK, [Next]_vars
    PROVE  \/ \E o \in BuildOptions : Build(o)
           \/ LeaveRule
           \/ \E done, last \in SUBSET Transformers : RuleThrows(done, last)
           \/ \E r \in Rules : EnterRule(r)
           \/ \E n \in Nodes : FinishesNode(n)
           \/ \E n \in Generated : (\E x : DelaysFor(n, x)) \/ FinishesVisited(n)
                                   \/ StartsJob(n) \/ VisitThrows(n)
           \/ \E j \in Jobs : FinishesJob(j)
           \/ Quiet
  <1> USE DEF graphVars, ruleVars, nodeVars, endVars
  <1>1. CASE ScheduleStep
    <2> USE DEF Accept, PopLeaf
    <2>1. ASSUME NEW n \in Nodes, SkipLeaf(n) PROVE Quiet
      <3>1. leaves' = Popped(n) /\ buildState[n] # "Buildable" /\ pc = "schedule"
            /\ UNCHANGED <<graph, children, addedByScanner, applied, buildState, inputsScanned,
                           opts, pendingTransformers, state, pc, delayedLeaves>>
        BY <2>1 DEF SkipLeaf
      <3> QED BY <3>1 DEF Quiet, Queued, Live, Popped, TypeOK, NodeTypeOK
    <2>2. ASSUME NEW n \in Nodes, DelayLeaf(n) PROVE Quiet
      <3>1. leaves' = Popped(n) /\ leaves[n] > 0 /\ pc = "schedule"
            /\ delayedLeaves' = [delayedLeaves EXCEPT ![n] = @ + 1]
            /\ UNCHANGED <<graph, children, addedByScanner, applied, buildState, inputsScanned,
                           opts, pendingTransformers, state, pc>>
        BY <2>2 DEF DelayLeaf
      <3> QED BY <3>1 DEF Quiet, Queued, Live, Popped, TypeOK, NodeTypeOK
    <2>3. CASE \E n \in Nodes : AbortOnUnknownLimits(n)
      BY <2>3, SameIsQuiet DEF AbortOnUnknownLimits, Live
    <2>4. ASSUME NEW n \in Nodes, FinishLeaf(n) PROVE FinishesNode(n)
      BY <2>4 DEF FinishLeaf, FinishesNode, Takes, GoesOn
    <2>5. ASSUME NEW r \in Rules, SkipRule(r) PROVE FinishesNode(r)
      BY <2>5, NodeKinds DEF SkipRule, FinishesNode, Takes, GoesOn, NeedsApplication
    <2>6. ASSUME EndSchedule PROVE Quiet
      <3>1. /\ leaves' = WithDelayedLeaves /\ delayedLeaves' = NoLeaves /\ pc = "schedule"
            /\ UNCHANGED <<graph, children, addedByScanner, applied, buildState, inputsScanned,
                           opts, pendingTransformers>>
        BY <2>6 DEF EndSchedule
      <3>2. pc' # "rule" /\ (state' = "Running" => state = "Running")
        BY <2>6 DEF EndSchedule, WaitForEvents, Finish
      <3> QED BY <3>1, <3>2 DEF Quiet, Queued, Live, WithDelayedLeaves, NoLeaves, TypeOK,
                 NodeTypeOK
    <2> QED BY <1>1, <2>1, <2>2, <2>3, <2>4, <2>5, <2>6, VisitCases, NodeKinds DEF ScheduleStep
  <1>2. CASE RuleStep
    BY <1>2 DEF RuleStep
  <1>3. CASE PostedFinish
    BY <1>3, SameIsQuiet DEF PostedFinish, Finish, Live
  <1>4. ASSUME NEW j \in Jobs, JobFinishedStep(j) PROVE FinishesJob(j) \/ Quiet
    <2>1. ASSUME NEW written, JobSucceeded(j, written) PROVE FinishesJob(j)
      <3>1. pc = "loop" /\ processingJobs[j] \in Transformers
        BY <2>1 DEF JobSucceeded, ReleaseJob, TypeOK, JobTypeOK
      <3>2. pc' # "rule" /\ (Live' => Live) /\ (state' = "Running" => state = "Running")
        BY <2>1, <3>1, ContinueKeepsLife DEF JobSucceeded
      <3> QED BY <2>1, <3>1, <3>2 DEF JobSucceeded, FinishesJob
    <2>2. CASE JobFailed(j)
      <3>1. pc = "loop"
        BY <2>2 DEF JobFailed, ReleaseJob
      <3>2. pc' # "rule" /\ (Live' => Live) /\ (state' = "Running" => state = "Running")
        BY <2>2, <3>1, ContinueKeepsLife DEF JobFailed
      <3> QED BY <2>2, <3>1, <3>2, SameIsQuiet DEF JobFailed
    <2>3. ASSUME NEW written, OutputMissing(j, written) PROVE Quiet
      <3>1. pc = "loop"
        BY <2>3 DEF OutputMissing, ReleaseJob
      <3>2. pc' # "rule" /\ ~Live' /\ delayedLeaves' = NoLeaves
        BY <2>3, <3>1, ThrowEndsLife DEF OutputMissing
      <3>3. UNCHANGED <<graph, children, addedByScanner, applied, buildState, inputsScanned,
                        opts, pendingTransformers, leaves>>
        BY <2>3 DEF OutputMissing
      <3> QED BY <3>1, <3>2, <3>3 DEF Quiet, Queued, Live, NoLeaves, TypeOK, NodeTypeOK
    <2> QED BY <1>4, <2>1, <2>2, <2>3 DEF JobFinishedStep
  <1>5. CASE \E j \in Jobs : CommandStep(j)
    BY <1>5, SameIsQuiet DEF CommandStep, CommandsEnd, Live
  <1>6. CASE checkForCancellation
    BY <1>6, SameIsQuiet DEF checkForCancellation, Live
  <1>7. CASE RequestCancel \/ ReportResult \/ (\E s \in MayEdit : EditSource(s))
             \/ ChangeProperties
    BY <1>7, SameIsQuiet DEF RequestCancel, ReportResult, EditSource, ChangeProperties, Live
  <1>8. CASE UNCHANGED vars
    BY <1>8, SameIsQuiet DEF vars, Live
  <1> QED BY <1>1, <1>2, <1>3, <1>4, <1>5, <1>6, <1>7, <1>8
          DEF Next, ExecutorStep, UserStep, Rest

-------------------------------------------------------------------------------
(***************************************************************************)
(* The graph that rules and scanners leave.                                 *)
(***************************************************************************)

\* Edges lead to nodes that exist, and start at nodes that exist.  Source files have no children.
NodesPresent ==
    /\ Sources \cup Rules \subseteq graph
    /\ \A n \in Nodes : children[n] \subseteq graph
    /\ \A a \in Generated \ graph : children[a] = {} /\ addedByScanner[a] = {}
    /\ \A s \in Sources : children[s] = {}

\* An artifact waits for the rule that creates it, and a rule for the rules that make its inputs.
RulesConnected ==
    /\ \A a \in graph \cap Generated : Maker(a) \in children[a]
    /\ \A r \in Rules : children[r] \cap Rules = RuleChildren[r]

\* The outputs of an applied rule exist, and a rule that is built has been applied.
RulesApplied ==
    /\ \A r \in applied : OutputsOf(r) \subseteq graph
    /\ \A r \in Rules : buildState[r] = "Built" /\ ProductOf[r] \in ProductsToBuild => r \in applied

\* Nothing gets its turn before the rules it depends on are built, even if an exception has left
\* new edges behind.
RulesFirst ==
    /\ \A n \in Nodes : Queued(n) => n \in graph
    /\ \A a \in Generated : Queued(a) \/ buildState[a] \in {"Building", "Built"}
                               => buildState[Maker(a)] = "Built"
    /\ \A r \in Rules : Queued(r) => \A q \in RuleChildren[r] : buildState[q] = "Built"

\* A rule whose scripts are running has its turn.
RuleHasTurn ==
    pc = "rule" => /\ buildState[currentRule] = "Buildable"
                   /\ ProductOf[currentRule] \in ProductsToBuild
                   /\ \A q \in RuleChildren[currentRule] : buildState[q] = "Built"

\* The invariant of the graph; no part of it is inductive without the others.
GraphInv == NodesPresent /\ RulesConnected /\ RulesApplied /\ RulesFirst /\ RuleHasTurn

\* The rule that makes an artifact is a rule node of the same product.
LEMMA MakerType ==
    ASSUME NEW a \in Generated
    PROVE  /\ TransformerOf[a] \in Transformers /\ Maker(a) \in Rules
           /\ ProductOf[a] = ProductOf[Maker(a)]
           /\ \A b \in Outputs(TransformerOf[a]) :
                 b \in Generated /\ TransformerOf[b] = TransformerOf[a]
           /\ a \in Outputs(TransformerOf[a])
  BY GraphAssumption DEF Maker, Outputs

\* The outputs that the transformers in ts add to the graph.
NewOutputs(ts) == {a \in Generated : TransformerOf[a] \in ts /\ a \notin graph}

\* A rule has been applied, completely or not.
AppliesRule(r, ts) ==
    /\ pc = "rule" /\ r = currentRule /\ r \in Rules /\ ts \in SUBSET TransformersOf(r)
    /\ graph' = graph \cup NewOutputs(ts)
    /\ children' = ConnectOutputs(r, ts)
    /\ UNCHANGED <<addedByScanner, opts, inputsScanned>>

\* The edges that applying a rule leaves.
LEMMA ConnectFacts ==
    ASSUME TypeOK, NEW r \in Rules, r \notin children[r], NEW ts \in SUBSET TransformersOf(r)
    PROVE  LET ch == ConnectOutputs(r, ts)
               present == graph \cup NewOutputs(ts)
           IN  /\ ch \in [Nodes -> SUBSET Nodes]
               /\ \A n \in Nodes : children[n] \subseteq ch[n]
               /\ \A a \in Generated : TransformerOf[a] \in ts =>
                     ch[a] = children[a] \cup {r} \cup Inputs[TransformerOf[a]]
                                \cup (ArtifactDeps[a] \cap present)
               /\ \A a \in Generated : TransformerOf[a] \notin ts => ch[a] = children[a]
               /\ \A p \in Rules : r \in children[p] => ch[p] = children[p] \cup NewOutputs(ts)
               /\ \A p \in Rules : r \notin children[p] =>
                     /\ ch[p] \subseteq children[p] \cup UNION {Inputs[t] : t \in ts}
                     /\ p # r => ch[p] = children[p]
               /\ \A i \in UNION {Inputs[t] : t \in ts} :
                     i \in Sources \/ ProductOf[i] # ProductOf[r] => i \in ch[r]
               /\ \A s \in Sources : ch[s] = children[s]
  <1> DEFINE ch == ConnectOutputs(r, ts)
             new == NewOutputs(ts)
             inputs == UNION {Inputs[t] : t \in ts}
             present == graph \cup new
             late == {i \in inputs : i \in Sources \/ ProductOf[i] # ProductOf[r]}
  <1>1. Sources \cap Rules = {} /\ Generated \cap Rules = {} /\ Sources \cap Generated = {}
        /\ Nodes = Sources \cup Generated \cup Rules
    BY GraphAssumption DEF Artifacts, Nodes
  <1>2. ch \in [Nodes -> SUBSET Nodes]
    <2>1. ts \in SUBSET Transformers
      BY DEF TransformersOf
    <2> QED BY <2>1, ConnectOutputsType DEF TypeOK
  <1>3. ch = [n \in Nodes |->
            CASE n \in Generated /\ TransformerOf[n] \in ts ->
                    children[n] \cup {r} \cup Inputs[TransformerOf[n]]
                                \cup (ArtifactDeps[n] \cap present)
              [] n \in Rules /\ r \in children[n] -> children[n] \cup new
              [] n = r -> children[n] \cup late
              [] OTHER -> children[n]]
    BY DEF ConnectOutputs, NewOutputs
  <1> HIDE DEF ch, new, inputs, present, late
  <1>4. ASSUME NEW a \in Generated
        PROVE  /\ TransformerOf[a] \in ts =>
                     ch[a] = children[a] \cup {r} \cup Inputs[TransformerOf[a]]
                                \cup (ArtifactDeps[a] \cap present)
               /\ TransformerOf[a] \notin ts => ch[a] = children[a]
    BY <1>1, <1>3
  <1>5. ASSUME NEW p \in Rules
        PROVE  /\ r \in children[p] => ch[p] = children[p] \cup new
               /\ r \notin children[p] /\ p # r => ch[p] = children[p]
               /\ r \notin children[p] /\ p = r => ch[p] = children[p] \cup late
    <2>1. p \in Nodes /\ p \notin Generated
      BY <1>1
    <2>2. CASE r \in children[p]
      <3>1. p # r
        BY <2>2
      <3> QED BY <1>3, <2>1, <2>2, <3>1
    <2>3. CASE r \notin children[p] /\ p # r
      BY <1>3, <2>1, <2>3
    <2>4. CASE r \notin children[p] /\ p = r
      BY <1>3, <2>1, <2>4
    <2> QED BY <2>2, <2>3, <2>4
  <1>6. ASSUME NEW s \in Sources PROVE ch[s] = children[s]
    BY <1>1, <1>3
  <1>7. ASSUME NEW n \in Nodes PROVE children[n] \subseteq ch[n]
    <2>1. CASE n \in Generated
      BY <1>4, <2>1
    <2>2. CASE n \in Rules
      BY <1>5, <2>2
    <2>3. CASE n \in Sources
      BY <1>6, <2>3
    <2> QED BY <1>1, <2>1, <2>2, <2>3
  <1>8. \A p \in Rules : r \notin children[p] =>
                     /\ ch[p] \subseteq children[p] \cup inputs
                     /\ p # r => ch[p] = children[p]
    BY <1>5 DEF late
  <1>9. \A i \in inputs : i \in Sources \/ ProductOf[i] # ProductOf[r] => i \in ch[r]
    BY <1>5 DEF late
  <1> QED BY <1>2, <1>4, <1>5, <1>6, <1>7, <1>8, <1>9 DEF ch, new, inputs, present

\* No rule depends on itself.
LEMMA RulesAcyclic ==
    ASSUME GraphInv, NEW r \in Rules
    PROVE  r \notin children[r] /\ r \notin RuleChildren[r]
  <1> DEFINE rc == [n \in Nodes |-> IF n \in Rules THEN RuleChildren[n] ELSE {}]
  <1>1. /\ rc \in [Nodes -> SUBSET Nodes] /\ rc[r] = RuleChildren[r] /\ r \in Nodes
    BY GraphAssumption, NodeKinds
  <1>2. Acyclic(rc)
    BY RuleGraphAssumption
  <1> HIDE DEF rc
  <1>3. r \in Closure({r}, rc)
    BY <1>1, ClosureIsReachability
  <1>4. r \notin rc[r]
    BY <1>1, <1>2, <1>3 DEF Acyclic, existsPath
  <1> QED BY <1>1, <1>4 DEF GraphInv, RulesConnected

\* When a rule is applied its inputs exist.
LEMMA InputsPresent ==
    ASSUME TypeOK, GraphInv, pc = "rule", NEW t \in TransformersOf(currentRule)
    PROVE  Inputs[t] \subseteq graph
  <1> SUFFICES ASSUME NEW i \in Inputs[t] PROVE i \in graph
    OBVIOUS
  <1>1. t \in Transformers /\ RuleOf[t] = currentRule /\ currentRule \in Rules /\ i \in Artifacts
    BY GraphAssumption DEF TransformersOf, TypeOK, ControlTypeOK
  <1>2. CASE i \in Sources
    BY <1>2 DEF GraphInv, NodesPresent
  <1>3. CASE i \in Generated
    <2>1. Maker(i) \in RuleChildren[currentRule] /\ Maker(i) \in Rules
      BY <1>1, <1>3, RuleGraphAssumption, MakerType DEF Maker
    <2>2. buildState[Maker(i)] = "Built" /\ ProductOf[currentRule] \in ProductsToBuild
      BY <2>1 DEF GraphInv, RuleHasTurn
    <2>3. ProductOf[Maker(i)] \in ProductsToBuild
      BY <1>1, <2>1, <2>2, BuildOptionsAssumption DEF TypeOK, ControlTypeOK, ProductsToBuild
    <2>4. Maker(i) \in applied
      BY <2>1, <2>2, <2>3 DEF GraphInv, RulesApplied
    <2> QED BY <1>3, <2>4 DEF GraphInv, RulesApplied, OutputsOf, Maker
  <1> QED BY <1>1, <1>2, <1>3 DEF Artifacts

\* Applying a rule connects nodes that exist.
LEMMA ApplyKeepsGraph ==
    ASSUME TypeOK, GraphInv, NEW r, NEW ts, AppliesRule(r, ts)
    PROVE  NodesPresent' /\ RulesConnected'
  <1> DEFINE ch == ConnectOutputs(r, ts)
             new == NewOutputs(ts)
             inputs == UNION {Inputs[t] : t \in ts}
  <1>1. /\ r \in Rules /\ ts \in SUBSET TransformersOf(r) /\ children' = ch
        /\ graph' = graph \cup new /\ UNCHANGED addedByScanner
    BY DEF AppliesRule
  <1>2. /\ \A n \in Nodes : children[n] \subseteq ch[n]
        /\ \A a \in Generated : TransformerOf[a] \in ts =>
              ch[a] = children[a] \cup {r} \cup Inputs[TransformerOf[a]]
                         \cup (ArtifactDeps[a] \cap (graph \cup new))
        /\ \A a \in Generated : TransformerOf[a] \notin ts => ch[a] = children[a]
        /\ \A p \in Rules : r \in children[p] => ch[p] = children[p] \cup new
        /\ \A p \in Rules : r \notin children[p] => ch[p] \subseteq children[p] \cup inputs
        /\ \A s \in Sources : ch[s] = children[s]
    <2>1. r \notin children[r]
      BY <1>1, RulesAcyclic
    <2> QED BY <1>1, <2>1, ConnectFacts
  <1>3. \A t \in ts : Inputs[t] \subseteq graph
    BY <1>1, InputsPresent DEF AppliesRule
  <1>4. /\ new \subseteq Generated /\ new \cap graph = {}
        /\ \A a \in Generated : TransformerOf[a] \in ts => a \in graph \cup new
    BY DEF NewOutputs
  <1>5. inputs \subseteq graph
    BY <1>3
  <1> HIDE DEF ch, new, inputs
  <1>6. ASSUME NEW n \in Nodes PROVE ch[n] \subseteq graph \cup new
    <2>0. children[n] \subseteq graph /\ r \in graph
      BY <1>1 DEF GraphInv, NodesPresent
    <2>1. CASE n \in Generated
      BY <1>2, <1>3, <2>0, <2>1
    <2>2. CASE n \in Rules
      BY <1>2, <1>5, <2>0, <2>2
    <2>3. CASE n \in Sources
      BY <1>2, <2>0, <2>3
    <2> QED BY <2>1, <2>2, <2>3 DEF Nodes, Artifacts
  <1>7. NodesPresent'
    <2>1. \A a \in Generated \ (graph \cup new) : ch[a] = {} /\ addedByScanner[a] = {}
      BY <1>2, <1>4 DEF GraphInv, NodesPresent
    <2>2. \A s \in Sources : ch[s] = {}
      BY <1>2 DEF GraphInv, NodesPresent
    <2>3. Sources \cup Rules \subseteq graph \cup new
      BY DEF GraphInv, NodesPresent
    <2> QED BY <1>1, <1>6, <2>1, <2>2, <2>3 DEF NodesPresent
  <1>8. RulesConnected'
    <2>1. ASSUME NEW a \in (graph \cup new) \cap Generated PROVE Maker(a) \in ch[a]
      <3>1. CASE a \in graph
        <4>1. Maker(a) \in children[a] /\ a \in Nodes
          BY <3>1, NodeKinds DEF GraphInv, RulesConnected
        <4> QED BY <1>2, <4>1
      <3>2. CASE a \in new
        <4>1. TransformerOf[a] \in ts
          BY <3>2 DEF new, NewOutputs
        <4>2. RuleOf[TransformerOf[a]] = r
          BY <1>1, <4>1 DEF TransformersOf
        <4> QED BY <1>2, <4>1, <4>2 DEF Maker
      <3> QED BY <3>1, <3>2
    <2>2. ASSUME NEW p \in Rules PROVE ch[p] \cap Rules = RuleChildren[p]
      <3>1. children[p] \cap Rules = RuleChildren[p] /\ p \in Nodes
        BY NodeKinds DEF GraphInv, RulesConnected
      <3>2. new \cap Rules = {} /\ inputs \cap Rules = {}
        <4>1. \A t \in ts : Inputs[t] \subseteq Artifacts
          BY <1>1, GraphAssumption DEF TransformersOf
        <4> QED BY <1>4, <4>1, GraphAssumption DEF inputs, Artifacts
      <3>3. children[p] \subseteq ch[p] /\ ch[p] \subseteq children[p] \cup new \cup inputs
        BY <1>2, <3>1
      <3> QED BY <3>1, <3>2, <3>3
    <2> QED BY <1>1, <2>1, <2>2 DEF RulesConnected, Maker
  <1> QED BY <1>7, <1>8

\* A step queues only nodes that are ready, takes back no result, and moves on only what was
\* queued, with the other outputs of its transformer.
QueuesReady ==
    \A n \in Nodes : Queued(n)' =>
        Queued(n) \/ (n \in graph' /\ allChildrenBuilt(n, buildState', children'))

\* No node that is built is built again.
BuiltStays == \A n \in Nodes : buildState[n] = "Built" => buildState'[n] = "Built"

\* Only queued artifacts, and those made with them, are started or finished.
MovesQueued ==
    \A a \in Generated : buildState'[a] \in {"Building", "Built"} =>
        \/ buildState[a] \in {"Building", "Built"}
        \/ \E b \in Generated : Maker(b) = Maker(a) /\ Queued(b)

\* Such a step lets nothing overtake its rule.
LEMMA RulesFirstStep ==
    ASSUME TypeOK, GraphInv, NodesPresent', RulesConnected', graph \subseteq graph',
           QueuesReady, BuiltStays, MovesQueued
    PROVE  RulesFirst'
  <1>1. \A n \in Nodes : Queued(n)' => n \in graph'
    BY DEF QueuesReady, GraphInv, RulesFirst
  <1>2. ASSUME NEW a \in Generated, Queued(a)' PROVE buildState'[Maker(a)] = "Built"
    <2>1. Maker(a) \in Nodes /\ a \in Nodes
      BY MakerType, NodeKinds
    <2>2. CASE Queued(a)
      BY <2>1, <2>2 DEF GraphInv, RulesFirst, BuiltStays
    <2>3. CASE a \in graph' /\ allChildrenBuilt(a, buildState', children')
      <3>1. Maker(a) \in children'[a]
        BY <2>3 DEF RulesConnected, Maker
      <3> QED BY <2>3, <3>1 DEF allChildrenBuilt
    <2> QED BY <1>2, <2>1, <2>2, <2>3 DEF QueuesReady
  <1>3. ASSUME NEW a \in Generated, buildState'[a] \in {"Building", "Built"}
        PROVE  buildState'[Maker(a)] = "Built"
    <2>1. Maker(a) \in Nodes
      BY MakerType, NodeKinds
    <2>2. buildState[Maker(a)] = "Built"
      BY <1>3 DEF MovesQueued, GraphInv, RulesFirst
    <2> QED BY <2>1, <2>2 DEF BuiltStays
  <1>4. ASSUME NEW r \in Rules, Queued(r)', NEW q \in RuleChildren[r]
        PROVE  buildState'[q] = "Built"
    <2>1. r \in Nodes /\ q \in Nodes
      BY GraphAssumption, NodeKinds
    <2>2. CASE Queued(r)
      BY <2>1, <2>2 DEF GraphInv, RulesFirst, BuiltStays
    <2>3. CASE allChildrenBuilt(r, buildState', children')
      <3>1. q \in children'[r]
        BY DEF RulesConnected
      <3> QED BY <2>3, <3>1 DEF allChildrenBuilt
    <2> QED BY <1>4, <2>1, <2>2, <2>3 DEF QueuesReady
  <1> QED BY <1>1, <1>2, <1>3, <1>4 DEF RulesFirst, Maker

\* finishNode() for nodes that are not built: the parents that it queues are ready.
LEMMA FinishReadies ==
    ASSUME TypeOK, GraphInv, NodesPresent', NEW nodes \in SUBSET Nodes,
           NEW lv \in [Nodes -> Nat], \A n \in Nodes : lv[n] <= leaves[n],
           buildState' = MarkBuilt(nodes, buildState),
           leaves' = Push(lv, ReadyParents(nodes, buildState, children')),
           UNCHANGED <<graph, delayedLeaves>>
    PROVE  QueuesReady /\ BuiltStays
  <1>1. BuiltStays
    BY DEF BuiltStays, MarkBuilt
  <1>2. ASSUME NEW n \in Nodes, Queued(n)', ~Queued(n)
        PROVE  n \in graph' /\ allChildrenBuilt(n, buildState', children')
    <2>1. n \in ReadyParents(nodes, buildState, children')
      BY <1>2 DEF Queued, Push, TypeOK, NodeTypeOK
    <2>2. children'[n] # {} /\ allChildrenBuilt(n, buildState', children')
      BY <2>1 DEF ReadyParents
    <2>3. n \in graph'
      BY <2>2, NodeKinds DEF NodesPresent, Nodes, Artifacts
    <2> QED BY <2>2, <2>3
  <1> QED BY <1>1, <1>2 DEF QueuesReady

\* The outputs of a transformer whose turn has come exist, and visiting them keeps the graph.
LEMMA VisitKeepsGraph ==
    ASSUME TypeOK, GraphInv, NEW n, VisitsArtifact(n)
    PROVE  /\ Outputs(TransformerOf[n]) \subseteq graph
           /\ NodesPresent' /\ RulesConnected' /\ UNCHANGED <<graph, applied, opts>>
           /\ Queued(n)
  <1> DEFINE os == Outputs(TransformerOf[n])
  <1>1. /\ n \in Generated /\ ProductOf[n] \in ProductsToBuild /\ leaves[n] > 0
        /\ UNCHANGED <<graph, applied, opts>> /\ VisitKeeps(n, children', addedByScanner')
    BY DEF VisitsArtifact, Takes
  <1>2. Queued(n)
    BY <1>1, NodeKinds DEF Queued, TypeOK, NodeTypeOK
  <1>3. os \subseteq graph
    <2>1. Maker(n) \in Rules /\ ProductOf[Maker(n)] \in ProductsToBuild
          /\ buildState[Maker(n)] = "Built"
      BY <1>1, <1>2, MakerType DEF GraphInv, RulesFirst
    <2>2. Maker(n) \in applied
      BY <2>1 DEF GraphInv, RulesApplied
    <2>3. os \subseteq OutputsOf(Maker(n))
      BY DEF Outputs, OutputsOf, Maker
    <2> QED BY <2>2, <2>3 DEF GraphInv, RulesApplied
  <1>4. os \subseteq Generated /\ Generated \cap Sources = {} /\ Generated \cap Rules = {}
    BY OutputsType, GraphAssumption DEF Artifacts
  <1>5. /\ \A m \in Nodes \ os : children'[m] = children[m]
        /\ \A m \in Generated \ os : addedByScanner'[m] = addedByScanner[m]
        /\ \A m \in os : /\ children'[m] \ addedByScanner'[m] = Fixed(m)
                         /\ children'[m] \subseteq children[m] \cup graph
        /\ addedByScanner' \in [Generated -> SUBSET Artifacts]
    BY <1>1 DEF VisitKeeps
  <1> HIDE DEF os
  <1>6. NodesPresent'
    <2>1. \A m \in Nodes : children'[m] \subseteq graph
      BY <1>5 DEF GraphInv, NodesPresent
    <2>2. \A a \in Generated \ graph : children'[a] = {} /\ addedByScanner'[a] = {}
      BY <1>3, <1>5, NodeKinds DEF GraphInv, NodesPresent
    <2>3. \A s \in Sources : children'[s] = {}
      BY <1>4, <1>5, NodeKinds DEF GraphInv, NodesPresent
    <2> QED BY <1>1, <2>1, <2>2, <2>3 DEF GraphInv, NodesPresent
  <1>7. RulesConnected'
    <2>1. ASSUME NEW a \in graph \cap Generated PROVE Maker(a) \in children'[a]
      <3>1. Maker(a) \in children[a] /\ Maker(a) \notin Artifacts /\ a \in Nodes
        BY MakerType, GraphAssumption, NodeKinds DEF GraphInv, RulesConnected
      <3>2. CASE a \in os
        <4>1. Maker(a) \in Fixed(a)
          BY <3>1 DEF Fixed, TypeOK, GraphTypeOK
        <4> QED BY <1>5, <3>2, <4>1
      <3>3. CASE a \notin os
        BY <1>5, <3>1, <3>3
      <3> QED BY <3>2, <3>3
    <2>2. \A r \in Rules : children'[r] \cap Rules = RuleChildren[r]
      BY <1>4, <1>5, NodeKinds DEF GraphInv, RulesConnected
    <2> QED BY <1>1, <2>1, <2>2 DEF RulesConnected, Maker
  <1> QED BY <1>1, <1>2, <1>3, <1>6, <1>7 DEF os

\* updateLeaves() after a delay queues what is ready.
LEMMA DelayReadies ==
    ASSUME TypeOK, GraphInv, NEW n, NEW x, DelaysFor(n, x)
    PROVE  QueuesReady /\ BuiltStays /\ MovesQueued
  <1> DEFINE visited == Visited(Unbuilt(x, children'), buildState, children')
  <1>1. /\ VisitsArtifact(n) /\ GoesOn /\ x \in Outputs(TransformerOf[n])
        /\ buildState' = Touch(visited, buildState)
        /\ leaves' = Push(Popped(n), LeavesAmong(visited, buildState', children'))
    BY DEF DelaysFor
  <1>2. /\ NodesPresent' /\ UNCHANGED <<graph, delayedLeaves>> /\ n \in Nodes /\ leaves[n] > 0
        /\ children' \in [Nodes -> SUBSET Nodes] /\ x \in Nodes
    BY <1>1, VisitKeepsGraph, NodeKinds, OutputsType DEF VisitsArtifact, Takes, VisitKeeps, GoesOn
  <1>3. visited \subseteq graph'
    <2>1. Unbuilt(x, children') \subseteq children'[x] /\ children'[x] \subseteq Nodes
      BY <1>2 DEF Unbuilt
    <2>2. Closed(graph', children') /\ children'[x] \subseteq graph'
      <3>1. \A m \in Nodes : children'[m] \subseteq graph'
        BY <1>2 DEF NodesPresent
      <3>2. graph' \subseteq Nodes
        BY <1>2 DEF TypeOK, GraphTypeOK
      <3> QED BY <1>2, <3>1, <3>2 DEF Closed
    <2>3. Unbuilt(x, children') \in SUBSET Nodes /\ Unbuilt(x, children') \subseteq graph'
      BY <2>1, <2>2
    <2> QED BY <1>2, <2>2, <2>3, VisitedFacts
  <1> HIDE DEF visited
  <1>4. BuiltStays
    BY <1>1 DEF BuiltStays, Touch
  <1>5. MovesQueued
    BY <1>1, NodeKinds DEF MovesQueued, Touch
  <1>6. QueuesReady
    <2> SUFFICES ASSUME NEW m \in Nodes, Queued(m)', ~Queued(m)
                 PROVE  m \in graph' /\ allChildrenBuilt(m, buildState', children')
      BY DEF QueuesReady
    <2>1. m \in LeavesAmong(visited, buildState', children')
      BY <1>1, <1>2 DEF Queued, Push, Popped, TypeOK, NodeTypeOK
    <2> QED BY <1>3, <2>1 DEF LeavesAmong
  <1> QED BY <1>4, <1>5, <1>6

\* A rule whose scripts have run to their end, or have thrown, has been applied.
LEMMA LeaveApplies ==
    ASSUME TypeOK, LeaveRule
    PROVE  AppliesRule(currentRule, TransformersOf(currentRule))
  <1> DEFINE r == currentRule
             new == {o \in OutputsOf(r) : o \notin graph}
  <1>1. /\ pc = "rule" /\ graph' = graph \cup new
        /\ children' = ConnectOutputs(r, TransformersOf(r))
        /\ UNCHANGED <<addedByScanner, opts, inputsScanned>>
    BY DEF LeaveRule
  <1>2. r \in Rules
    BY <1>1 DEF TypeOK, ControlTypeOK
  <1>3. NewOutputs(TransformersOf(r)) = new
    BY GraphAssumption DEF NewOutputs, TransformersOf, OutputsOf
  <1> QED BY <1>1, <1>2, <1>3 DEF AppliesRule

\* A rule whose script throws has been applied for some of its transformers.
LEMMA ThrowApplies ==
    ASSUME TypeOK, NEW done, NEW last, RuleThrows(done, last)
    PROVE  /\ AppliesRule(currentRule, done \cup last)
           /\ UNCHANGED <<applied, buildState, leaves, pendingTransformers>>
           /\ pc' # "rule" /\ ~Live' /\ delayedLeaves' = NoLeaves
  <1> DEFINE r == currentRule
             ts == done \cup last
             new == {o \in OutputsOf(r) : TransformerOf[o] \in ts /\ o \notin graph}
  <1>1. /\ pc = "rule" /\ graph' = graph \cup new
        /\ children' = ConnectOutputs(r, ts)
        /\ UNCHANGED <<addedByScanner, opts, inputsScanned>>
        /\ ts \in SUBSET TransformersOf(r)
        /\ UNCHANGED <<applied, buildState, leaves, pendingTransformers>>
    BY DEF RuleThrows, nodeVars
  <1>2. r \in Rules
    BY <1>1 DEF TypeOK, ControlTypeOK
  <1>3. NewOutputs(ts) = new
    BY <1>1, GraphAssumption DEF NewOutputs, TransformersOf, OutputsOf
  <1>4. pc' # "rule" /\ ~Live' /\ delayedLeaves' = NoLeaves
    BY ThrowEndsLife DEF RuleThrows
  <1> QED BY <1>1, <1>2, <1>3, <1>4 DEF AppliesRule

\* What finishing an applied rule does to build states and the queue.
LEMMA LeaveRuleFacts ==
    ASSUME TypeOK, GraphInv, LeaveRule
    PROVE  \E v1, v2 \in SUBSET graph' :
              LET bs1 == Touch(v1, buildState)
                  bs2 == Touch(v2, bs1)
              IN  /\ NewOutputs(TransformersOf(currentRule)) \subseteq v1
                  /\ \A n \in v1 : \A c \in children'[n] : buildState[c] = "Built" \/ c \in v1
                  /\ \A n \in v2 : \A c \in children'[n] : bs1[c] = "Built" \/ c \in v2
                  /\ buildState' = MarkBuilt({currentRule}, bs2)
                  /\ leaves' = Push(Push(Push(leaves, LeavesAmong(v1, bs1, children')),
                                         LeavesAmong(v2, bs2, children')),
                                    ReadyParents({currentRule}, bs2, children'))
                  /\ UNCHANGED delayedLeaves
  <1> DEFINE r == currentRule
             ts == TransformersOf(r)
             invalid == {t \in ts : Invalidated(r, t)}
             new == {o \in OutputsOf(r) : o \notin graph}
             old == {o \in OutputsOf(r) : TransformerOf[o] \in invalid}
             ch == ConnectOutputs(r, ts)
             v1 == Visited(new, buildState, ch)
             bs1 == Touch(v1, buildState)
             v2 == Visited(old, bs1, ch)
             bs2 == Touch(v2, bs1)
  <1>1. /\ children' = ch /\ graph' = graph \cup new
        /\ buildState' = MarkBuilt({r}, bs2)
        /\ leaves' = Push(Push(Push(leaves, LeavesAmong(v1, bs1, ch)), LeavesAmong(v2, bs2, ch)),
                          ReadyParents({r}, bs2, ch))
        /\ UNCHANGED delayedLeaves
    BY DEF LeaveRule
  <1>2. AppliesRule(r, ts) /\ r \in Rules
    BY LeaveApplies DEF AppliesRule
  <1>3. NodesPresent'
    BY <1>2, ApplyKeepsGraph
  <1>4. ch \in [Nodes -> SUBSET Nodes] /\ OutputsOf(r) \subseteq Nodes
    <2>1. ts \in SUBSET Transformers
      BY DEF TransformersOf
    <2> QED BY <1>2, <2>1, ConnectOutputsType, NodeKinds DEF TypeOK, OutputsOf
  <1>5. new \in SUBSET Nodes /\ old \in SUBSET Nodes /\ new \subseteq graph' /\ old \subseteq graph'
    BY <1>1, <1>4
  <1>6. Closed(graph', ch)
    <2>1. \A n \in Nodes : ch[n] \subseteq graph'
      BY <1>1, <1>3 DEF NodesPresent
    <2>2. graph' \subseteq Nodes
      BY <1>1, <1>4 DEF TypeOK, GraphTypeOK
    <2> QED BY <2>1, <2>2 DEF Closed
  <1>7. NewOutputs(ts) = new
    BY GraphAssumption DEF NewOutputs, TransformersOf, OutputsOf
  <1> HIDE DEF new, old, ch, ts
  <1>8. /\ new \subseteq v1 /\ v1 \subseteq graph'
        /\ \A n \in v1 : \A c \in ch[n] : buildState[c] = "Built" \/ c \in v1
    BY <1>4, <1>5, <1>6, VisitedFacts
  <1> HIDE DEF v1, bs1
  <1>9. /\ v2 \subseteq graph'
        /\ \A n \in v2 : \A c \in ch[n] : bs1[c] = "Built" \/ c \in v2
    BY <1>4, <1>5, <1>6, VisitedFacts
  <1> HIDE DEF v2, bs2
  <1>10. /\ bs1 = Touch(v1, buildState) /\ bs2 = Touch(v2, bs1)
         /\ v1 \in SUBSET graph' /\ v2 \in SUBSET graph'
    BY <1>8, <1>9 DEF bs1, bs2
  <1> QED
    <2> USE <1>10
    <2> WITNESS v1 \in SUBSET graph', v2 \in SUBSET graph'
    <2> QED BY <1>1, <1>7, <1>8, <1>9, <1>10 DEF ts

\* Applying a rule queues what is ready.
LEMMA LeaveReadies ==
    ASSUME TypeOK, GraphInv, LeaveRule
    PROVE  QueuesReady /\ BuiltStays /\ MovesQueued
  <1>1. PICK v1, v2 \in SUBSET graph' :
              LET bs1 == Touch(v1, buildState)
                  bs2 == Touch(v2, bs1)
              IN  /\ buildState' = MarkBuilt({currentRule}, bs2)
                  /\ leaves' = Push(Push(Push(leaves, LeavesAmong(v1, bs1, children')),
                                         LeavesAmong(v2, bs2, children')),
                                    ReadyParents({currentRule}, bs2, children'))
                  /\ UNCHANGED delayedLeaves
    BY LeaveRuleFacts
  <1> DEFINE bs1 == Touch(v1, buildState)
             bs2 == Touch(v2, bs1)
  <1>2. /\ AppliesRule(currentRule, TransformersOf(currentRule))
        /\ currentRule \in Rules /\ NodesPresent'
    BY LeaveApplies, ApplyKeepsGraph DEF AppliesRule
  <1>3. /\ \A n \in Nodes : bs1[n] = IF n \in v1 /\ buildState[n] = "Untouched" THEN "Buildable"
                                     ELSE buildState[n]
        /\ \A n \in Nodes : bs2[n] = IF n \in v2 /\ bs1[n] = "Untouched" THEN "Buildable"
                                     ELSE bs1[n]
        /\ \A n \in Nodes : buildState'[n] = IF n = currentRule THEN "Built" ELSE bs2[n]
    BY <1>1 DEF Touch, MarkBuilt
  <1>4. children' \in [Nodes -> SUBSET Nodes]
    <2>1. TransformersOf(currentRule) \in SUBSET Transformers
      BY DEF TransformersOf
    <2> QED BY <1>2, <2>1, ConnectOutputsType DEF TypeOK, AppliesRule
  <1>5. leaves' = Push(Push(Push(leaves, LeavesAmong(v1, bs1, children')),
                                         LeavesAmong(v2, bs2, children')),
                                    ReadyParents({currentRule}, bs2, children'))
        /\ UNCHANGED delayedLeaves
    BY <1>1
  <1> HIDE DEF bs1, bs2
  <1>6. BuiltStays
    BY <1>3 DEF BuiltStays
  <1>7. MovesQueued
    <2>1. Generated \cap Rules = {} /\ Generated \subseteq Nodes
      BY GraphAssumption, NodeKinds DEF Artifacts
    <2> QED BY <1>2, <1>3, <2>1 DEF MovesQueued
  <1>8. QueuesReady
    <2> SUFFICES ASSUME NEW m \in Nodes, Queued(m)', ~Queued(m)
                 PROVE  m \in graph' /\ allChildrenBuilt(m, buildState', children')
      BY DEF QueuesReady
    <2>1. \/ m \in LeavesAmong(v1, bs1, children')
          \/ m \in LeavesAmong(v2, bs2, children')
          \/ m \in ReadyParents({currentRule}, bs2, children')
      BY <1>5 DEF Queued, Push, TypeOK, NodeTypeOK
    <2>2. children'[m] \subseteq Nodes
      BY <1>4
    <2>3. CASE m \in LeavesAmong(v1, bs1, children')
      BY <1>3, <2>2, <2>3 DEF LeavesAmong, allChildrenBuilt
    <2>4. CASE m \in LeavesAmong(v2, bs2, children')
      BY <1>3, <2>2, <2>4 DEF LeavesAmong, allChildrenBuilt
    <2>5. CASE m \in ReadyParents({currentRule}, bs2, children')
      <3>1. children'[m] # {} /\ allChildrenBuilt(m, MarkBuilt({currentRule}, bs2), children')
        BY <2>5 DEF ReadyParents
      <3>2. m \in graph'
        BY <1>2, <3>1, NodeKinds DEF NodesPresent, Nodes, Artifacts
      <3> QED BY <1>3, <2>2, <3>1, <3>2 DEF allChildrenBuilt, MarkBuilt
    <2> QED BY <2>1, <2>3, <2>4, <2>5
  <1> QED BY <1>6, <1>7, <1>8

\* The build states and the queue that doBuild() prepares.
LEMMA BuildFacts ==
    ASSUME TypeOK, GraphInv, NEW o \in BuildOptions, Build(o)
    PROVE  LET reachable == Closure(RootNodes(o.products), children)
           IN  /\ buildState' = [n \in Nodes |-> IF n \in reachable THEN "Buildable"
                                                 ELSE "Untouched"]
               /\ RootNodes(o.products) \subseteq reachable
               /\ reachable \subseteq graph /\ Closed(reachable, children)
               /\ \A n \in Nodes : Queued(n)' <=> n \in reachable /\ children[n] = {}
               /\ opts' = o /\ state' = "Running" /\ pc' = "schedule" /\ delayedLeaves' = NoLeaves
               /\ UNCHANGED <<graph, children, addedByScanner, applied>>
               /\ inputsScanned' = {a \in inputsScanned : ProductOf[a] \notin o.products}
               /\ pendingTransformers' = [r \in Rules |-> 0]
  <1> DEFINE roots == RootNodes(o.products)
             reachable == Closure(roots, children)
             states == PreparedStates(roots)
             visited == Visited(roots, states, children)
  <1>1. /\ buildState' = states
        /\ leaves' = Push(NoLeaves, LeavesAmong(visited, states, children))
        /\ opts' = o /\ state' = "Running" /\ pc' = "schedule" /\ delayedLeaves' = NoLeaves
        /\ UNCHANGED <<graph, children, addedByScanner, applied>>
        /\ inputsScanned' = {a \in inputsScanned : ProductOf[a] \notin o.products}
        /\ pendingTransformers' = [r \in Rules |-> 0]
    BY DEF Build, ruleVars
  <1>2. roots \in SUBSET Nodes /\ roots \subseteq graph /\ children \in [Nodes -> SUBSET Nodes]
        /\ graph \subseteq Nodes
    BY DEF RootNodes, TypeOK, GraphTypeOK
  <1>3. /\ roots \subseteq reachable /\ reachable \subseteq Nodes /\ Closed(reachable, children)
        /\ \A S : roots \subseteq S /\ Closed(S, children) => reachable \subseteq S
    BY <1>2, ClosureIsReachability
  <1>4. reachable \subseteq graph
    <2>1. Closed(graph, children)
      BY <1>2 DEF Closed, GraphInv, NodesPresent
    <2> QED BY <1>2, <1>3, <2>1
  <1>5. states = [n \in Nodes |-> IF n \in reachable THEN "Buildable" ELSE "Untouched"]
    BY DEF PreparedStates
  <1> HIDE DEF roots, reachable, states
  <1>6. \A n \in Nodes : states[n] # "Built"
    BY <1>5
  <1>7. visited = reachable
    <2>1. /\ roots \subseteq visited /\ visited \subseteq Nodes
          /\ \A n \in visited : \A c \in children[n] : states[c] = "Built" \/ c \in visited
          /\ \A S : roots \subseteq S /\ Closed(S, children) => visited \subseteq S
      BY <1>2, VisitedFacts
    <2>2. Closed(visited, children)
      BY <1>2, <1>6, <2>1 DEF Closed
    <2> QED BY <1>3, <2>1, <2>2
  <1> HIDE DEF visited
  <1>8. \A n \in Nodes : Queued(n)' <=> n \in reachable /\ children[n] = {}
    <2>1. \A n \in Nodes : allChildrenBuilt(n, states, children) <=> children[n] = {}
      BY <1>2, <1>6 DEF allChildrenBuilt
    <2> QED BY <1>1, <1>7, <2>1 DEF Queued, Push, NoLeaves, LeavesAmong
  <1> QED BY <1>1, <1>3, <1>4, <1>5, <1>8 DEF roots, reachable

\* doBuild() queues nothing that has to wait.
LEMMA BuildKeepsGraph ==
    ASSUME TypeOK, GraphInv, NEW o \in BuildOptions, Build(o)
    PROVE  GraphInv'
  <1> DEFINE reachable == Closure(RootNodes(o.products), children)
  <1>1. /\ buildState' = [n \in Nodes |-> IF n \in reachable THEN "Buildable" ELSE "Untouched"]
        /\ reachable \subseteq graph
        /\ \A n \in Nodes : Queued(n)' => n \in reachable /\ children[n] = {}
        /\ pc' = "schedule" /\ UNCHANGED <<graph, children, addedByScanner, applied>>
    BY BuildFacts
  <1> HIDE DEF reachable
  <1>2. NodesPresent' /\ RulesConnected' /\ RuleHasTurn'
    BY <1>1 DEF GraphInv, NodesPresent, RulesConnected, RuleHasTurn, Maker
  <1>3. RulesApplied'
    BY <1>1, NodeKinds DEF GraphInv, RulesApplied
  <1>4. RulesFirst'
    <2>1. \A n \in Nodes : Queued(n)' => n \in graph'
      BY <1>1
    <2>2. \A a \in Generated : ~Queued(a)' /\ buildState'[a] \notin {"Building", "Built"}
      <3>1. \A a \in Generated : ~Queued(a)'
        BY <1>1, NodeKinds DEF GraphInv, RulesConnected
      <3> QED BY <1>1, <3>1, NodeKinds
    <2>3. \A r \in Rules : Queued(r)' => RuleChildren[r] = {}
      BY <1>1, NodeKinds DEF GraphInv, RulesConnected
    <2> QED BY <2>1, <2>2, <2>3 DEF RulesFirst
  <1> QED BY <1>2, <1>3, <1>4 DEF GraphInv

\* A step queues nothing.
QueuesNothing == \A n \in Nodes : Queued(n)' => Queued(n)

\* Only nodes whose rule was applied are marked as built.
AppliesBuilt ==
    \A r \in Rules : buildState'[r] = "Built" /\ ProductOf[r] \in ProductsToBuild =>
        buildState[r] = "Built" \/ r \in applied'

\* What the steps within a build have in common.
LEMMA GraphInvStep ==
    ASSUME TypeOK, GraphInv, NodesPresent', RulesConnected', graph \subseteq graph',
           QueuesReady, BuiltStays, MovesQueued, AppliesBuilt, UNCHANGED <<applied, opts>>,
           pc' # "rule"
    PROVE  GraphInv'
  <1>1. RulesFirst'
    BY RulesFirstStep
  <1>2. RulesApplied'
    BY DEF AppliesBuilt, GraphInv, RulesApplied, ProductsToBuild
  <1> QED BY <1>1, <1>2 DEF GraphInv, RuleHasTurn

\* A source file, a node of another product or a rule that is up to date is finished.
LEMMA FinishNodeReadies ==
    ASSUME TypeOK, GraphInv, NEW n \in Nodes, FinishesNode(n)
    PROVE  GraphInv' /\ QueuesReady /\ BuiltStays
  <1>1. /\ leaves[n] > 0 /\ UNCHANGED <<graph, children, addedByScanner, applied, opts>>
        /\ buildState' = MarkBuilt({n}, buildState)
        /\ leaves' = Push(Popped(n), ReadyParents({n}, buildState, children))
        /\ UNCHANGED <<delayedLeaves, pc>> /\ pc = "schedule"
        /\ n \in Sources \/ ProductOf[n] \notin ProductsToBuild \/ n \in applied
    BY DEF FinishesNode, Takes, GoesOn
  <1>2. NodesPresent' /\ RulesConnected'
    BY <1>1 DEF GraphInv, NodesPresent, RulesConnected, Maker
  <1>3. QueuesReady /\ BuiltStays
    <2>1. /\ Popped(n) \in [Nodes -> Nat] /\ \A m \in Nodes : Popped(n)[m] <= leaves[m]
      BY <1>1, PoppedQueue
    <2>2. leaves' = Push(Popped(n), ReadyParents({n}, buildState, children'))
          /\ {n} \in SUBSET Nodes
      BY <1>1
    <2> HIDE DEF GraphInv
    <2> QED BY <1>1, <1>2, <2>1, <2>2, FinishReadies
  <1>4. Queued(n)
    BY <1>1 DEF Queued, TypeOK, NodeTypeOK
  <1>5. MovesQueued
    BY <1>1, <1>4, NodeKinds DEF MovesQueued, MarkBuilt
  <1>6. AppliesBuilt
    BY <1>1, NodeKinds, GraphAssumption DEF AppliesBuilt, MarkBuilt, Artifacts
  <1> QED BY <1>1, <1>2, <1>3, <1>5, <1>6, GraphInvStep

\* The outputs of a transformer that is finished without running, or starts.
LEMMA VisitReadies ==
    ASSUME TypeOK, GraphInv, SiblingsTogether, NEW n \in Generated,
           FinishesVisited(n) \/ StartsJob(n)
    PROVE  GraphInv' /\ QueuesReady /\ BuiltStays
  <1> DEFINE os == Outputs(TransformerOf[n])
  <1>1. /\ VisitsArtifact(n) /\ GoesOn
    BY DEF FinishesVisited, StartsJob
  <1>2. /\ NodesPresent' /\ RulesConnected' /\ UNCHANGED <<graph, applied, opts>>
        /\ Queued(n)
    BY <1>1, VisitKeepsGraph
  <1>3. /\ n \in Nodes /\ leaves[n] > 0 /\ pc = "schedule" /\ UNCHANGED <<delayedLeaves, pc>>
        /\ buildState[n] = "Buildable" /\ ProductOf[n] \in ProductsToBuild
        /\ os \subseteq Generated /\ os \subseteq Nodes
    BY <1>1, NodeKinds, OutputsType DEF VisitsArtifact, Takes, GoesOn
  <1>4. /\ Popped(n) \in [Nodes -> Nat] /\ \A m \in Nodes : Popped(n)[m] <= leaves[m]
    BY <1>3, PoppedQueue
  <1>5. \A m \in Nodes \ os : buildState'[m] = buildState[m]
    <2>1. CASE FinishesVisited(n)
      BY <2>1 DEF FinishesVisited, FinishTransformer, MarkBuilt
    <2>2. CASE StartsJob(n)
      BY <2>2 DEF StartsJob, MarkBuilding
    <2> QED BY <2>1, <2>2
  <1>6. QueuesReady /\ BuiltStays
    <2>1. CASE FinishesVisited(n)
      <3>1. /\ buildState' = MarkBuilt(os, buildState)
            /\ leaves' = Push(Popped(n), ReadyParents(os, buildState, children'))
        BY <2>1 DEF FinishesVisited, FinishTransformer
      <3> QED BY <1>2, <1>3, <1>4, <3>1, FinishReadies
    <2>2. CASE StartsJob(n)
      <3>1. leaves' = Popped(n)
        BY <2>2 DEF StartsJob
      <3>2. QueuesReady
        BY <1>3, <1>4, <3>1 DEF QueuesReady, Queued, TypeOK, NodeTypeOK
      <3>3. \A m \in os : buildState[m] # "Built"
        <4> SUFFICES ASSUME NEW m \in os, buildState[m] = "Built" PROVE FALSE
          OBVIOUS
        <4>1. /\ m \in Generated /\ TransformerOf[m] = TransformerOf[n]
              /\ ProductOf[m] \in ProductsToBuild
          BY <1>3, MakerType DEF Outputs, Maker
        <4> QED BY <1>3, <4>1 DEF SiblingsTogether
      <3> QED BY <1>5, <3>2, <3>3 DEF BuiltStays
    <2> QED BY <2>1, <2>2
  <1>7. MovesQueued
    <2> SUFFICES ASSUME NEW a \in Generated, buildState'[a] # buildState[a]
                 PROVE  \E b \in Generated : Maker(b) = Maker(a) /\ Queued(b)
      BY DEF MovesQueued
    <2>1. a \in os
      BY <1>5, NodeKinds
    <2>2. Maker(n) = Maker(a)
      BY <2>1 DEF Outputs, Maker
    <2> QED BY <1>2, <2>2
  <1>8. AppliesBuilt
    <2>1. Rules \cap os = {} /\ Rules \subseteq Nodes
      BY <1>3, GraphAssumption, NodeKinds DEF Artifacts
    <2> QED BY <1>5, <2>1 DEF AppliesBuilt
  <1> QED BY <1>2, <1>3, <1>6, <1>7, <1>8, GraphInvStep

\* A job has succeeded.
LEMMA JobReadies ==
    ASSUME TypeOK, GraphInv, OneJobPerTransformer, NEW j \in Jobs, FinishesJob(j)
    PROVE  GraphInv' /\ QueuesReady /\ BuiltStays
  <1> DEFINE os == Outputs(processingJobs[j])
  <1>1. /\ UNCHANGED <<graph, children, addedByScanner, applied, opts, delayedLeaves>>
        /\ pc' # "rule"
        /\ buildState' = MarkBuilt(os, buildState)
        /\ leaves' = Push(leaves, ReadyParents(os, buildState, children))
        /\ processingJobs[j] \in Transformers
    BY DEF FinishesJob, FinishTransformer
  <1>2. NodesPresent' /\ RulesConnected'
    BY <1>1 DEF GraphInv, NodesPresent, RulesConnected, Maker
  <1>3. /\ os \subseteq Generated /\ os \subseteq Nodes
        /\ \A o \in os : buildState[o] = "Building"
    <2>1. j \in JobsProcessing
      BY <1>1, GraphAssumption DEF JobsProcessing
    <2> QED BY <2>1, OutputsType, NodeKinds DEF OneJobPerTransformer
  <1>4. QueuesReady /\ BuiltStays
    <2>1. leaves' = Push(leaves, ReadyParents(os, buildState, children'))
      BY <1>1
    <2>2. leaves \in [Nodes -> Nat] /\ \A m \in Nodes : leaves[m] <= leaves[m]
      BY DEF TypeOK, NodeTypeOK
    <2> QED BY <1>1, <1>2, <1>3, <2>1, <2>2, FinishReadies
  <1>5. MovesQueued
    BY <1>1, <1>3, NodeKinds DEF MovesQueued, MarkBuilt
  <1>6. AppliesBuilt
    <2>1. Rules \cap os = {} /\ Rules \subseteq Nodes
      BY <1>3, GraphAssumption, NodeKinds DEF Artifacts
    <2> QED BY <1>1, <2>1 DEF AppliesBuilt, MarkBuilt
  <1> QED BY <1>1, <1>2, <1>4, <1>5, <1>6, GraphInvStep

\* Every step keeps rules and artifacts in order.
LEMMA GraphInvNext ==
    ASSUME TypeOK, GraphInv, SiblingsTogether, OneJobPerTransformer, [Next]_vars
    PROVE  GraphInv'
  <1>1. CASE \E o \in BuildOptions : Build(o)
    BY <1>1, BuildKeepsGraph
  <1>2. CASE LeaveRule
    <2>1. AppliesRule(currentRule, TransformersOf(currentRule))
      BY <1>2, LeaveApplies
    <2>2. /\ NodesPresent' /\ RulesConnected' /\ QueuesReady /\ BuiltStays /\ MovesQueued
          /\ graph \subseteq graph'
      BY <1>2, <2>1, ApplyKeepsGraph, LeaveReadies DEF AppliesRule
    <2>3. RulesFirst'
      BY <2>2, RulesFirstStep
    <2>4. /\ applied' = applied \cup {currentRule} /\ pc' # "rule" /\ UNCHANGED opts
          /\ graph' = graph \cup {o \in OutputsOf(currentRule) : o \notin graph}
          /\ currentRule \in Rules
      BY <1>2, <2>1 DEF LeaveRule, AppliesRule
    <2>5. \A r \in Rules : buildState'[r] = "Built" => buildState[r] = "Built" \/ r = currentRule
      <3>1. PICK v1, v2 : buildState' = MarkBuilt({currentRule}, Touch(v2, Touch(v1, buildState)))
        BY <1>2, LeaveRuleFacts
      <3> QED BY <3>1, NodeKinds DEF MarkBuilt, Touch
    <2>6. RulesApplied'
      <3>1. \A r \in applied' : OutputsOf(r) \subseteq graph'
        BY <2>4 DEF GraphInv, RulesApplied
      <3>2. \A r \in Rules : buildState'[r] = "Built" /\ ProductOf[r] \in ProductsToBuild'
               => r \in applied'
        BY <2>4, <2>5 DEF GraphInv, RulesApplied, ProductsToBuild
      <3> QED BY <3>1, <3>2 DEF RulesApplied
    <2> QED BY <2>2, <2>3, <2>4, <2>6 DEF GraphInv, RuleHasTurn
  <1>3. CASE \E done, last \in SUBSET Transformers : RuleThrows(done, last)
    <2>1. PICK done, last \in SUBSET Transformers : RuleThrows(done, last)
      BY <1>3
    <2>2. /\ AppliesRule(currentRule, done \cup last) /\ pc' # "rule"
          /\ UNCHANGED <<applied, buildState, leaves>> /\ delayedLeaves' = NoLeaves
      BY <2>1, ThrowApplies
    <2>3. /\ NodesPresent' /\ RulesConnected' /\ graph \subseteq graph' /\ UNCHANGED opts
      BY <2>2, ApplyKeepsGraph DEF AppliesRule
    <2>4. QueuesReady /\ BuiltStays /\ MovesQueued /\ AppliesBuilt
      BY <2>2 DEF QueuesReady, BuiltStays, MovesQueued, AppliesBuilt, Queued, NoLeaves, TypeOK,
         NodeTypeOK
    <2> QED BY <2>2, <2>3, <2>4, GraphInvStep
  <1>4. CASE \E r \in Rules : EnterRule(r)
    <2>1. PICK r \in Rules : EnterRule(r)
      BY <1>4
    <2>2. /\ pc = "schedule" /\ leaves[r] > 0 /\ buildState[r] = "Buildable"
          /\ ProductOf[r] \in ProductsToBuild /\ leaves' = Popped(r) /\ currentRule' = r
          /\ UNCHANGED <<graph, children, addedByScanner, applied, opts, buildState,
                         delayedLeaves>>
      BY <2>1 DEF EnterRule, Accept, PopLeaf
    <2>3. QueuesNothing
      BY <2>2, PoppedQueue, NodeKinds DEF QueuesNothing, Queued, TypeOK, NodeTypeOK
    <2>4. Queued(r)
      BY <2>2, NodeKinds DEF Queued, TypeOK, NodeTypeOK
    <2>5. NodesPresent' /\ RulesConnected' /\ RulesApplied'
      BY <2>2 DEF GraphInv, NodesPresent, RulesConnected, RulesApplied, Maker, ProductsToBuild
    <2>6. RulesFirst'
      BY <2>2, <2>3, NodeKinds DEF QueuesNothing, GraphInv, RulesFirst, Maker
    <2>7. RuleHasTurn'
      BY <2>2, <2>4 DEF GraphInv, RulesFirst, RuleHasTurn, ProductsToBuild
    <2> QED BY <2>5, <2>6, <2>7 DEF GraphInv
  <1>5. CASE \E n \in Nodes : FinishesNode(n)
    BY <1>5, FinishNodeReadies
  <1>6. ASSUME NEW n \in Generated, NEW x, DelaysFor(n, x) PROVE GraphInv'
    <2>1. VisitsArtifact(n) /\ pc = "schedule" /\ pc' = pc
      BY <1>6 DEF DelaysFor, VisitsArtifact, Takes, GoesOn
    <2>2. /\ NodesPresent' /\ RulesConnected' /\ UNCHANGED <<graph, applied, opts>>
          /\ QueuesReady /\ BuiltStays /\ MovesQueued
      BY <1>6, <2>1, VisitKeepsGraph, DelayReadies
    <2>3. AppliesBuilt
      BY <1>6, NodeKinds DEF DelaysFor, AppliesBuilt, Touch
    <2> QED BY <2>1, <2>2, <2>3, GraphInvStep
  <1>7. ASSUME NEW n \in Generated, FinishesVisited(n) \/ StartsJob(n) PROVE GraphInv'
    BY <1>7, VisitReadies
  <1>8. ASSUME NEW n \in Generated, VisitThrows(n) PROVE GraphInv'
    <2>1. /\ VisitsArtifact(n) /\ pc' # "rule" /\ UNCHANGED buildState /\ leaves' = Popped(n)
          /\ delayedLeaves' = NoLeaves /\ leaves[n] > 0
      BY <1>8 DEF VisitThrows, VisitsArtifact, Takes
    <2>2. /\ NodesPresent' /\ RulesConnected' /\ UNCHANGED <<graph, applied, opts>>
      BY <2>1, VisitKeepsGraph
    <2>3. QueuesReady /\ BuiltStays /\ MovesQueued /\ AppliesBuilt
      BY <2>1, PoppedQueue, NodeKinds DEF QueuesReady, BuiltStays, MovesQueued, AppliesBuilt,
         Queued, NoLeaves, TypeOK, NodeTypeOK
    <2> QED BY <2>1, <2>2, <2>3, GraphInvStep
  <1>9. CASE \E j \in Jobs : FinishesJob(j)
    BY <1>9, JobReadies
  <1>10. CASE Quiet
    <2>1. /\ UNCHANGED <<graph, children, addedByScanner, applied, opts, buildState>>
          /\ pc' = "rule" <=> pc = "rule"
          /\ pc = "rule" => UNCHANGED currentRule
          /\ \A n \in Nodes : Queued(n)' => Queued(n)
      BY <1>10 DEF Quiet
    <2>2. NodesPresent' /\ RulesConnected' /\ RulesApplied' /\ RuleHasTurn'
      BY <2>1 DEF GraphInv, NodesPresent, RulesConnected, RulesApplied, Maker, ProductsToBuild,
         RuleHasTurn
    <2>3. RulesFirst'
      BY <2>1, NodeKinds DEF GraphInv, RulesFirst, Maker
    <2> QED BY <2>2, <2>3 DEF GraphInv
  <1> QED BY <1>1, <1>2, <1>3, <1>4, <1>5, <1>6, <1>7, <1>8, <1>9, <1>10, GraphStepCases

\* Initially there are only source files and rules.
LEMMA GraphInvInit ==
    ASSUME Init PROVE GraphInv
  <1>1. /\ graph = Sources \cup Rules
        /\ children = [n \in Nodes |-> IF n \in Rules THEN RuleChildren[n] ELSE {}]
        /\ addedByScanner = [a \in Generated |-> {}] /\ applied = {} /\ pc = "idle"
        /\ buildState = [n \in Nodes |-> "Untouched"]
        /\ leaves = NoLeaves /\ delayedLeaves = NoLeaves
    BY DEF Init
  <1>2. Sources \cap Rules = {} /\ Generated \cap Rules = {} /\ Sources \cap Generated = {}
        /\ RuleChildren \in [Rules -> SUBSET Rules]
    BY GraphAssumption DEF Artifacts
  <1>3. NodesPresent /\ RulesConnected
    BY <1>1, <1>2, NodeKinds DEF NodesPresent, RulesConnected
  <1>4. RulesApplied /\ RuleHasTurn
    BY <1>1, NodeKinds DEF RulesApplied, RuleHasTurn
  <1>5. RulesFirst
    BY <1>1, NodeKinds DEF RulesFirst, Queued, NoLeaves
  <1> QED BY <1>3, <1>4, <1>5 DEF GraphInv

\* In every graph that builds, failures and exceptions leave behind, edges lead to nodes that
\* exist, every artifact waits for the rule that creates it, and nothing is queued, running or
\* built before the rules it comes from have been applied.
THEOREM RulesComeFirst == Spec => []GraphInv
  <1>1. Init => GraphInv
    BY GraphInvInit
  <1>2. TypeOK /\ SiblingsTogether /\ OneJobPerTransformer /\ GraphInv /\ [Next]_vars => GraphInv'
    BY GraphInvNext
  <1> QED BY <1>1, <1>2, TypeCorrect, OutputsBuiltTogether, TransformersRunOnce, PTL DEF Spec

-------------------------------------------------------------------------------
(***************************************************************************)
(* The transformers that are pending.                                       *)
(***************************************************************************)

\* The transformers of a rule that are not finished.
Unfinished(r, bs) == {t \in TransformersOf(r) : \E o \in Outputs(t) : bs[o] # "Built"}

\* PendingTransformersCounted in every state.
PendingInv ==
    \A r \in Rules : buildState[r] = "Built" /\ ProductOf[r] \in ProductsToBuild =>
        pendingTransformers[r] = Cardinality(Unfinished(r, buildState))

\* The artifacts that the rule r makes are as far as they were.
SameOutputs(r) ==
    \A a \in Generated : Maker(a) = r => (buildState'[a] = "Built" <=> buildState[a] = "Built")

\* Then the same transformers are unfinished.
LEMMA SameUnfinished ==
    ASSUME NEW r \in Rules, SameOutputs(r)
    PROVE  Unfinished(r, buildState') = Unfinished(r, buildState)
  <1>1. \A t \in TransformersOf(r) : \A o \in Outputs(t) : o \in Generated /\ Maker(o) = r
    BY DEF TransformersOf, Outputs, Maker
  <1>2. \A t \in TransformersOf(r) : \A o \in Outputs(t) :
            buildState'[o] = "Built" <=> buildState[o] = "Built"
    BY <1>1 DEF SameOutputs
  <1> QED BY <1>2 DEF Unfinished

\* A step that finishes no transformer and no rule.
LEMMA PendingKeeps ==
    ASSUME PendingInv, UNCHANGED opts, NEW R,
           \A r \in Rules \ R : /\ pendingTransformers'[r] = pendingTransformers[r]
                                /\ buildState'[r] = "Built" => buildState[r] = "Built"
                                /\ ProductOf[r] \in ProductsToBuild => SameOutputs(r),
           \A r \in Rules \cap R : buildState'[r] = "Built" /\ ProductOf[r] \in ProductsToBuild =>
               pendingTransformers'[r] = Cardinality(Unfinished(r, buildState'))
    PROVE  PendingInv'
  <1> SUFFICES ASSUME NEW r \in Rules, buildState'[r] = "Built", ProductOf[r] \in ProductsToBuild'
               PROVE  pendingTransformers'[r] = Cardinality(Unfinished(r, buildState'))
    BY DEF PendingInv, Unfinished
  <1>1. ProductOf[r] \in ProductsToBuild
    BY DEF ProductsToBuild
  <1>2. CASE r \in R
    BY <1>1, <1>2
  <1>3. CASE r \notin R
    <2>1. Unfinished(r, buildState') = Unfinished(r, buildState)
      BY <1>1, <1>3, SameUnfinished
    <2>2. buildState[r] = "Built" /\ pendingTransformers'[r] = pendingTransformers[r]
      BY <1>3
    <2> QED BY <1>1, <2>1, <2>2 DEF PendingInv
  <1> QED BY <1>2, <1>3

\* A rule that was just applied, or found up to date, has finished nothing.
LEMMA FreshRulePending ==
    ASSUME TypeOK, GraphInv, NEW r \in Rules, buildState[r] # "Built", SameOutputs(r)
    PROVE  Unfinished(r, buildState') = TransformersOf(r)
  <1> SUFFICES ASSUME NEW t \in TransformersOf(r)
               PROVE  \E o \in Outputs(t) : buildState'[o] # "Built"
    BY DEF Unfinished
  <1>1. PICK o \in Outputs(t) : o \in Generated /\ Maker(o) = r
    BY RuleGraphAssumption DEF TransformersOf, Outputs, Maker
  <1>2. buildState[o] # "Built"
    BY <1>1 DEF GraphInv, RulesFirst
  <1> QED BY <1>1, <1>2 DEF SameOutputs

\* The transformer t is finished.
LEMMA FinishCounts ==
    ASSUME TypeOK, PendingInv, NEW t \in Transformers,
           buildState' = MarkBuilt(Outputs(t), buildState),
           pendingTransformers' = [pendingTransformers EXCEPT ![RuleOf[t]] = @ - 1],
           \E o \in Outputs(t) : buildState[o] # "Built", UNCHANGED opts
    PROVE  PendingInv'
  <1> DEFINE r0 == RuleOf[t]
             U == Unfinished(r0, buildState)
  <1>1. /\ r0 \in Rules /\ Outputs(t) \subseteq Generated /\ Generated \cap Rules = {}
        /\ Generated \subseteq Nodes /\ Rules \subseteq Nodes
        /\ \A a \in Outputs(t) : Maker(a) = r0
    BY GraphAssumption, OutputsType, NodeKinds DEF Artifacts, Maker, Outputs
  <1>2. \A n \in Nodes : buildState'[n] = IF n \in Outputs(t) THEN "Built" ELSE buildState[n]
    BY DEF MarkBuilt
  <1>3. ASSUME NEW r \in Rules \ {r0}
        PROVE  /\ pendingTransformers'[r] = pendingTransformers[r]
               /\ buildState'[r] = "Built" => buildState[r] = "Built"
               /\ SameOutputs(r)
    <2>1. pendingTransformers'[r] = pendingTransformers[r]
      BY DEF TypeOK, NodeTypeOK
    <2>2. buildState'[r] = buildState[r]
      BY <1>1, <1>2
    <2>3. SameOutputs(r)
      BY <1>1, <1>2 DEF SameOutputs
    <2> QED BY <2>1, <2>2, <2>3
  <1>4. ASSUME buildState'[r0] = "Built", ProductOf[r0] \in ProductsToBuild
        PROVE  pendingTransformers'[r0] = Cardinality(Unfinished(r0, buildState'))
    <2>1. pendingTransformers[r0] = Cardinality(U)
      <3>1. buildState[r0] = "Built"
        BY <1>1, <1>2, <1>4
      <3> QED BY <1>1, <1>4, <3>1 DEF PendingInv
    <2>2. pendingTransformers'[r0] = Cardinality(U) - 1
      BY <1>1, <2>1 DEF TypeOK, NodeTypeOK
    <2>3. t \in U
      BY DEF Unfinished, TransformersOf
    <2>4. Unfinished(r0, buildState') = U \ {t}
      <3>1. ASSUME NEW k \in TransformersOf(r0), k # t
            PROVE  \A o \in Outputs(k) : buildState'[o] = buildState[o]
        BY <1>1, <1>2, <3>1 DEF Outputs
      <3>2. \A o \in Outputs(t) : buildState'[o] = "Built"
        BY <1>1, <1>2
      <3> QED BY <3>1, <3>2 DEF Unfinished
    <2>5. IsFiniteSet(U)
      <3>1. U \subseteq Transformers
        BY DEF Unfinished, TransformersOf
      <3> QED BY <3>1, GraphAssumption, FS_Subset
    <2> HIDE DEF U
    <2>6. Cardinality(U \ {t}) = Cardinality(U) - 1
      BY <2>3, <2>5, FS_RemoveElement
    <2> QED BY <2>2, <2>4, <2>6
  <1> QED
    <2>1. \A r \in Rules \cap {r0} : buildState'[r] = "Built" /\ ProductOf[r] \in ProductsToBuild =>
               pendingTransformers'[r] = Cardinality(Unfinished(r, buildState'))
      BY <1>4
    <2> HIDE DEF r0
    <2> QED BY <1>3, <2>1, PendingKeeps

\* Every step counts the transformers that it finishes.
LEMMA PendingStep ==
    ASSUME TypeOK, GraphInv, SiblingsTogether, OneJobPerTransformer, PendingInv, [Next]_vars
    PROVE  PendingInv'
  <1>0. Generated \cap Rules = {} /\ Generated \subseteq Nodes /\ Rules \subseteq Nodes
        /\ Sources \cap Rules = {} /\ Sources \cap Generated = {}
    BY GraphAssumption, NodeKinds DEF Artifacts
  <1>1. ASSUME NEW o \in BuildOptions, Build(o) PROVE PendingInv'
    <2>1. \A n \in Nodes : buildState'[n] # "Built"
      BY <1>1, BuildFacts
    <2> QED BY <1>0, <2>1 DEF PendingInv
  <1>2. ASSUME UNCHANGED <<opts, pendingTransformers, buildState>> PROVE PendingInv'
    <2>1. \A r \in Rules : SameOutputs(r)
      BY <1>2 DEF SameOutputs
    <2>2. \A r \in Rules \ {} : /\ pendingTransformers'[r] = pendingTransformers[r]
                                /\ buildState'[r] = "Built" => buildState[r] = "Built"
                                /\ ProductOf[r] \in ProductsToBuild => SameOutputs(r)
      BY <1>2, <2>1
    <2>3. \A r \in Rules \cap {} : buildState'[r] = "Built" /\ ProductOf[r] \in ProductsToBuild =>
             pendingTransformers'[r] = Cardinality(Unfinished(r, buildState'))
      OBVIOUS
    <2> QED BY <1>2, <2>2, <2>3, PendingKeeps
  <1>3. ASSUME NEW r0 \in Rules, UNCHANGED opts,
               pendingTransformers' =
                  [pendingTransformers EXCEPT ![r0] = Cardinality(TransformersOf(r0))],
               buildState[r0] # "Built",
               \A n \in Nodes \ {r0} : buildState'[n] = "Built" <=> buildState[n] = "Built"
        PROVE  PendingInv'
    <2>1. \A r \in Rules : SameOutputs(r)
      BY <1>0, <1>3 DEF SameOutputs
    <2>2. Unfinished(r0, buildState') = TransformersOf(r0)
      BY <1>3, <2>1, FreshRulePending
    <2>3. pendingTransformers'[r0] = Cardinality(TransformersOf(r0))
      BY <1>3 DEF TypeOK, NodeTypeOK
    <2>4. \A r \in Rules \ {r0} : pendingTransformers'[r] = pendingTransformers[r]
      BY <1>3 DEF TypeOK, NodeTypeOK
    <2>5. \A r \in Rules \ {r0} : buildState'[r] = "Built" => buildState[r] = "Built"
      BY <1>0, <1>3
    <2>6. \A r \in Rules \ {r0} : /\ pendingTransformers'[r] = pendingTransformers[r]
                                  /\ buildState'[r] = "Built" => buildState[r] = "Built"
                                  /\ ProductOf[r] \in ProductsToBuild => SameOutputs(r)
      BY <2>1, <2>4, <2>5
    <2>7. \A r \in Rules \cap {r0} :
             pendingTransformers'[r] = Cardinality(Unfinished(r, buildState'))
      BY <2>2, <2>3
    <2> QED BY <1>3, <2>6, <2>7, PendingKeeps
  <1>4. ASSUME UNCHANGED <<opts, pendingTransformers>>,
               \A n \in Nodes : buildState'[n] = "Built" <=> buildState[n] = "Built"
        PROVE  PendingInv'
    <2>1. \A r \in Rules : SameOutputs(r)
      BY <1>0, <1>4 DEF SameOutputs
    <2>2. \A r \in Rules \ {} : /\ pendingTransformers'[r] = pendingTransformers[r]
                                /\ buildState'[r] = "Built" => buildState[r] = "Built"
                                /\ ProductOf[r] \in ProductsToBuild => SameOutputs(r)
      BY <1>0, <1>4, <2>1
    <2>3. \A r \in Rules \cap {} : buildState'[r] = "Built" /\ ProductOf[r] \in ProductsToBuild =>
             pendingTransformers'[r] = Cardinality(Unfinished(r, buildState'))
      OBVIOUS
    <2> QED BY <1>4, <2>2, <2>3, PendingKeeps
  <1>5. CASE LeaveRule
    <2>1. PICK v1, v2 : buildState' = MarkBuilt({currentRule}, Touch(v2, Touch(v1, buildState)))
      BY <1>5, LeaveRuleFacts
    <2>2. \A n \in Nodes \ {currentRule} : buildState'[n] = "Built" <=> buildState[n] = "Built"
      BY <2>1 DEF MarkBuilt, Touch
    <2>3. /\ pc = "rule" /\ UNCHANGED opts
          /\ pendingTransformers' = [pendingTransformers EXCEPT ![currentRule] =
                Cardinality(TransformersOf(currentRule))]
      BY <1>5 DEF LeaveRule
    <2>4. currentRule \in Rules /\ buildState[currentRule] # "Built"
      BY <2>3 DEF TypeOK, ControlTypeOK, GraphInv, RuleHasTurn
    <2> QED BY <1>3, <2>2, <2>3, <2>4
  <1>6. CASE \E done, last \in SUBSET Transformers : RuleThrows(done, last)
    BY <1>2, <1>6, ThrowApplies DEF AppliesRule
  <1>7. CASE \E r \in Rules : EnterRule(r)
    BY <1>2, <1>7 DEF EnterRule
  <1>8. ASSUME NEW n \in Nodes, FinishesNode(n) PROVE PendingInv'
    <2>1. /\ UNCHANGED opts /\ buildState[n] = "Buildable"
          /\ \A m \in Nodes : buildState'[m] = IF m = n THEN "Built" ELSE buildState[m]
      BY <1>8 DEF FinishesNode, Takes, MarkBuilt
    <2>2. CASE n \in Rules /\ pendingTransformers' =
                  [pendingTransformers EXCEPT ![n] = Cardinality(TransformersOf(n))]
      BY <1>3, <2>1, <2>2
    <2>3. CASE (n \in Sources \/ ProductOf[n] \notin ProductsToBuild)
               /\ UNCHANGED pendingTransformers
      <3>1. ASSUME NEW r \in Rules, ProductOf[r] \in ProductsToBuild PROVE SameOutputs(r)
        <4> SUFFICES ASSUME NEW a \in Generated, Maker(a) = r PROVE a # n
          BY <1>0, <2>1 DEF SameOutputs
        <4> QED BY <1>0, <2>3, <3>1, MakerType
      <3> DEFINE R == IF n \in Rules THEN {n} ELSE {}
      <3>2. \A r \in Rules \ R : /\ pendingTransformers'[r] = pendingTransformers[r]
                                 /\ buildState'[r] = "Built" => buildState[r] = "Built"
                                 /\ ProductOf[r] \in ProductsToBuild => SameOutputs(r)
        BY <1>0, <2>1, <2>3, <3>1
      <3>3. \A r \in Rules \cap R : ProductOf[r] \notin ProductsToBuild
        BY <1>0, <2>3
      <3> HIDE DEF R
      <3> QED BY <2>1, <3>2, <3>3, PendingKeeps
    <2> QED BY <1>8, <2>2, <2>3 DEF FinishesNode
  <1>9. ASSUME NEW n \in Generated, NEW x, DelaysFor(n, x) PROVE PendingInv'
    <2>1. UNCHANGED <<opts, pendingTransformers>>
      BY <1>9 DEF DelaysFor, VisitsArtifact, Takes
    <2>2. \A m \in Nodes : buildState'[m] = "Built" <=> buildState[m] = "Built"
      BY <1>9 DEF DelaysFor, Touch
    <2> QED BY <1>4, <2>1, <2>2
  <1>10. ASSUME NEW n \in Generated, FinishesVisited(n) PROVE PendingInv'
    <2>1. /\ UNCHANGED opts /\ buildState[n] = "Buildable"
          /\ buildState' = MarkBuilt(Outputs(TransformerOf[n]), buildState)
          /\ pendingTransformers' = [pendingTransformers EXCEPT ![RuleOf[TransformerOf[n]]] = @ - 1]
      BY <1>10 DEF FinishesVisited, VisitsArtifact, Takes, FinishTransformer
    <2> QED BY <2>1, MakerType, FinishCounts
  <1>11. ASSUME NEW n \in Generated, StartsJob(n) PROVE PendingInv'
    <2>1. UNCHANGED <<opts, pendingTransformers>>
      BY <1>11 DEF StartsJob, VisitsArtifact, Takes
    <2>2. BuiltStays
      BY <1>11, VisitReadies
    <2>3. \A m \in Nodes : buildState'[m] = "Built" <=> buildState[m] = "Built"
      BY <1>11, <2>2 DEF StartsJob, MarkBuilding, BuiltStays
    <2> QED BY <1>4, <2>1, <2>3
  <1>12. CASE \E n \in Generated : VisitThrows(n)
    BY <1>2, <1>12 DEF VisitThrows, VisitsArtifact, Takes
  <1>13. ASSUME NEW j \in Jobs, FinishesJob(j) PROVE PendingInv'
    <2> DEFINE t == processingJobs[j]
    <2>1. /\ UNCHANGED opts /\ t \in Transformers
          /\ buildState' = MarkBuilt(Outputs(t), buildState)
          /\ pendingTransformers' = [pendingTransformers EXCEPT ![RuleOf[t]] = @ - 1]
      BY <1>13 DEF FinishesJob, FinishTransformer
    <2>2. \E o \in Outputs(t) : buildState[o] # "Built"
      <3>1. j \in JobsProcessing
        BY <2>1, GraphAssumption DEF JobsProcessing
      <3> QED BY <2>1, <3>1, RuleGraphAssumption DEF OneJobPerTransformer
    <2> HIDE DEF t
    <2> QED BY <2>1, <2>2, FinishCounts
  <1>14. CASE Quiet
    BY <1>2, <1>14 DEF Quiet
  <1> QED BY <1>1, <1>5, <1>6, <1>7, <1>8, <1>9, <1>10, <1>11, <1>12, <1>13, <1>14,
             GraphStepCases

\* m_pendingTransformersPerRule counts the transformers of an executed rule that are not
\* finished, whatever the number of their outputs and however the build goes on: the QBS_CHECK
\* in finishTransformer() cannot fail.
THEOREM PendingTransformersAreCounted == Spec => []PendingTransformersCounted
  <1>1. Init => PendingInv
    BY NodeKinds DEF Init, PendingInv
  <1>2. TypeOK /\ SiblingsTogether /\ OneJobPerTransformer /\ GraphInv /\ PendingInv
           /\ [Next]_vars => PendingInv'
    BY PendingStep
  <1>3. PendingInv => PendingTransformersCounted
    BY DEF PendingInv, PendingTransformersCounted, Unfinished
  <1> QED BY <1>1, <1>2, <1>3, TypeCorrect, OutputsBuiltTogether, TransformersRunOnce,
             RulesComeFirst, PTL DEF Spec

-------------------------------------------------------------------------------
(***************************************************************************)
(* No wake-up is lost.                                                      *)
(***************************************************************************)

\* A node that can be built.
Ready(n) == buildState[n] = "Buildable" /\ allChildrenBuilt(n, buildState, children)

\* Wherever the executor is, what can be built is queued, or it is the rule that is just applied.
ReadyInv ==
    state = "Running" =>
        \A n \in Nodes : Ready(n) => Queued(n) \/ (pc = "rule" /\ n = currentRule)

\* Leaves are only put aside while jobs are being scheduled.
DelayedInv == pc \in {"loop", "finishing"} => delayedLeaves = NoLeaves

\* finishNode() for the nodes of a set wakes up the parents that have waited for them.
LEMMA FinishWakes ==
    ASSUME TypeOK, ReadyInv, pc # "rule", state' = "Running" => state = "Running",
           NEW nodes \in SUBSET Nodes, NEW lv \in [Nodes -> Nat],
           \A m \in Nodes \ nodes : lv[m] = leaves[m] /\ children'[m] = children[m],
           buildState' = MarkBuilt(nodes, buildState),
           leaves' = Push(lv, ReadyParents(nodes, buildState, children')),
           UNCHANGED delayedLeaves
    PROVE  ReadyInv'
  <1> SUFFICES ASSUME state' = "Running", NEW m \in Nodes, Ready(m)' PROVE Queued(m)'
    BY DEF ReadyInv
  <1>1. /\ \A n \in Nodes : buildState'[n] = IF n \in nodes THEN "Built" ELSE buildState[n]
        /\ buildState'[m] = "Buildable" /\ \A c \in children'[m] : buildState'[c] = "Built"
    BY DEF MarkBuilt, Ready, allChildrenBuilt
  <1>2. m \notin nodes /\ buildState[m] = "Buildable" /\ lv[m] = leaves[m]
        /\ children'[m] = children[m] /\ children[m] \subseteq Nodes
    BY <1>1 DEF TypeOK, GraphTypeOK
  <1>3. CASE children'[m] \cap nodes # {}
    <2>1. m \in ReadyParents(nodes, buildState, children')
      BY <1>1, <1>2, <1>3 DEF ReadyParents, allChildrenBuilt
    <2> QED BY <2>1 DEF Queued, Push, TypeOK, NodeTypeOK
  <1>4. CASE children'[m] \cap nodes = {}
    <2>1. Ready(m)
      BY <1>1, <1>2, <1>4 DEF Ready, allChildrenBuilt
    <2>2. leaves[m] + delayedLeaves[m] > 0
      BY <2>1 DEF ReadyInv, Queued
    <2> QED BY <1>2, <2>2 DEF Queued, Push, TypeOK, NodeTypeOK
  <1> QED BY <1>3, <1>4

\* The outputs of an applied rule, and what waits for the rule, are queued as soon as they are
\* ready.
LEMMA LeaveWakes ==
    ASSUME TypeOK, GraphInv, ReadyInv, LeaveRule
    PROVE  ReadyInv'
  <1>1. PICK v1, v2 \in SUBSET graph' :
              LET bs1 == Touch(v1, buildState)
                  bs2 == Touch(v2, bs1)
              IN  /\ buildState' = MarkBuilt({currentRule}, bs2)
                  /\ leaves' = Push(Push(Push(leaves, LeavesAmong(v1, bs1, children')),
                                         LeavesAmong(v2, bs2, children')),
                                    ReadyParents({currentRule}, bs2, children'))
                  /\ UNCHANGED delayedLeaves
    BY LeaveRuleFacts
  <1> DEFINE bs1 == Touch(v1, buildState)
             bs2 == Touch(v2, bs1)
  <1>2. /\ \A n \in Nodes : bs1[n] = IF n \in v1 /\ buildState[n] = "Untouched" THEN "Buildable"
                                     ELSE buildState[n]
        /\ \A n \in Nodes : bs2[n] = IF n \in v2 /\ bs1[n] = "Untouched" THEN "Buildable"
                                     ELSE bs1[n]
        /\ \A n \in Nodes : buildState'[n] = IF n = currentRule THEN "Built" ELSE bs2[n]
    BY <1>1 DEF Touch, MarkBuilt
  <1>3. /\ leaves' = Push(Push(Push(leaves, LeavesAmong(v1, bs1, children')),
                               LeavesAmong(v2, bs2, children')),
                          ReadyParents({currentRule}, bs2, children'))
        /\ buildState' = MarkBuilt({currentRule}, bs2)
        /\ UNCHANGED <<delayedLeaves, state>>
    BY <1>1 DEF LeaveRule, endVars
  <1> HIDE DEF bs1, bs2
  <1>4. /\ currentRule \in Rules
        /\ children' \in [Nodes -> SUBSET Nodes]
        /\ \A n \in Nodes : children[n] \subseteq children'[n]
    <2>1. AppliesRule(currentRule, TransformersOf(currentRule))
      BY LeaveApplies
    <2>2. currentRule \in Rules /\ currentRule \notin children[currentRule]
      BY <2>1, RulesAcyclic DEF AppliesRule
    <2> QED BY <2>1, <2>2, ConnectFacts DEF AppliesRule
  <1> SUFFICES ASSUME state' = "Running", NEW m \in Nodes, Ready(m)' PROVE Queued(m)'
    BY DEF ReadyInv
  <1>5. /\ buildState'[m] = "Buildable" /\ \A c \in children'[m] : buildState'[c] = "Built"
        /\ m # currentRule /\ bs2[m] = "Buildable" /\ children'[m] \subseteq Nodes
    BY <1>2, <1>4 DEF Ready, allChildrenBuilt
  <1>6. CASE currentRule \in children'[m]
    <2>1. m \in ReadyParents({currentRule}, bs2, children')
      BY <1>3, <1>5, <1>6 DEF ReadyParents, allChildrenBuilt
    <2> QED BY <1>3, <2>1 DEF Queued, Push, TypeOK, NodeTypeOK
  <1>7. CASE currentRule \notin children'[m]
    <2>1. \A c \in children'[m] : buildState[c] = "Built" /\ bs1[c] = "Built" /\ bs2[c] = "Built"
      BY <1>2, <1>5, <1>7
    <2>2. CASE buildState[m] = "Buildable"
      <3>1. Ready(m)
        BY <1>4, <2>1, <2>2 DEF Ready, allChildrenBuilt
      <3>2. leaves[m] + delayedLeaves[m] > 0
        BY <1>3, <1>5, <3>1 DEF ReadyInv, Queued
      <3> QED BY <1>3, <3>2 DEF Queued, Push, TypeOK, NodeTypeOK
    <2>3. CASE buildState[m] # "Buildable"
      <3>1. m \in LeavesAmong(v1, bs1, children') \/ m \in LeavesAmong(v2, bs2, children')
        BY <1>2, <1>5, <2>1, <2>3 DEF LeavesAmong, allChildrenBuilt
      <3> QED BY <1>3, <3>1 DEF Queued, Push, TypeOK, NodeTypeOK
    <2> QED BY <2>2, <2>3
  <1> QED BY <1>6, <1>7

\* Every step keeps ready nodes in the queue, if every transformer has one output.
LEMMA ReadyStep ==
    ASSUME SingleOutputs, TypeOK, GraphInv, SiblingsTogether, OneJobPerTransformer, ReadyInv,
           [Next]_vars
    PROVE  ReadyInv'
  <1>1. ASSUME NEW o \in BuildOptions, Build(o) PROVE ReadyInv'
    <2> DEFINE reachable == Closure(RootNodes(o.products), children)
    <2>1. /\ buildState' = [n \in Nodes |-> IF n \in reachable THEN "Buildable" ELSE "Untouched"]
          /\ \A n \in Nodes : Queued(n)' <=> n \in reachable /\ children[n] = {}
          /\ UNCHANGED children
      BY <1>1, BuildFacts
    <2> HIDE DEF reachable
    <2> SUFFICES ASSUME NEW n \in Nodes, Ready(n)' PROVE Queued(n)'
      BY DEF ReadyInv
    <2>2. n \in reachable
      BY <2>1 DEF Ready
    <2>3. children[n] = {}
      <3>1. \A c \in children[n] : c \in Nodes /\ buildState'[c] = "Built"
        BY <2>1 DEF Ready, allChildrenBuilt, TypeOK, GraphTypeOK
      <3>2. \A c \in Nodes : buildState'[c] # "Built"
        BY <2>1
      <3> QED BY <3>1, <3>2
    <2> QED BY <2>1, <2>2, <2>3
  <1>2. CASE LeaveRule
    BY <1>2, LeaveWakes
  <1>3. CASE \E done, last \in SUBSET Transformers : RuleThrows(done, last)
    <2>1. ~Live'
      BY <1>3, ThrowApplies
    <2> QED BY <2>1 DEF Live, ReadyInv
  <1>4. ASSUME NEW r \in Rules, EnterRule(r) PROVE ReadyInv'
    <2>1. /\ pc' = "rule" /\ currentRule' = r /\ leaves' = Popped(r) /\ pc = "schedule"
          /\ UNCHANGED <<children, buildState, delayedLeaves, state>>
      BY <1>4 DEF EnterRule, Accept, PopLeaf, endVars
    <2>2. \A n \in Nodes : Ready(n)' => Ready(n)
      BY <2>1 DEF Ready
    <2>3. \A n \in Nodes : n # r /\ Queued(n) => Queued(n)'
      BY <2>1 DEF Queued, Popped, TypeOK, NodeTypeOK
    <2> QED BY <2>1, <2>2, <2>3 DEF ReadyInv
  <1>5. ASSUME NEW n \in Nodes, FinishesNode(n) PROVE ReadyInv'
    <2>1. /\ leaves[n] > 0 /\ pc # "rule" /\ UNCHANGED <<children, delayedLeaves, state>>
          /\ buildState' = MarkBuilt({n}, buildState)
          /\ leaves' = Push(Popped(n), ReadyParents({n}, buildState, children))
      BY <1>5 DEF FinishesNode, Takes, GoesOn
    <2>2. /\ Popped(n) \in [Nodes -> Nat] /\ {n} \in SUBSET Nodes
          /\ \A m \in Nodes \ {n} : Popped(n)[m] = leaves[m] /\ children'[m] = children[m]
          /\ leaves' = Push(Popped(n), ReadyParents({n}, buildState, children'))
      BY <2>1, PoppedQueue DEF Popped, TypeOK, NodeTypeOK
    <2> QED BY <2>1, <2>2, FinishWakes
  <1>6. ASSUME NEW n \in Generated, VisitsArtifact(n)
        PROVE  /\ n \in Nodes /\ leaves[n] > 0 /\ pc = "schedule"
               /\ Outputs(TransformerOf[n]) = {n}
               /\ \A m \in Nodes \ {n} : Popped(n)[m] = leaves[m] /\ children'[m] = children[m]
               /\ Popped(n) \in [Nodes -> Nat]
    <2>1. n \in Nodes /\ leaves[n] > 0 /\ pc = "schedule"
      BY <1>6, NodeKinds DEF VisitsArtifact, Takes
    <2>2. Outputs(TransformerOf[n]) = {n}
      BY MakerType DEF SingleOutputs
    <2>3. \A m \in Nodes \ {n} : children'[m] = children[m]
      BY <1>6, <2>2 DEF VisitsArtifact, VisitKeeps
    <2>4. \A m \in Nodes \ {n} : Popped(n)[m] = leaves[m]
      BY DEF Popped, TypeOK, NodeTypeOK
    <2> QED BY <2>1, <2>2, <2>3, <2>4, PoppedQueue
  <1>7. ASSUME NEW n \in Generated, NEW x, DelaysFor(n, x) PROVE ReadyInv'
    <2> DEFINE visited == Visited(Unbuilt(x, children'), buildState, children')
    <2>1. /\ VisitsArtifact(n) /\ UNCHANGED <<delayedLeaves, state>>
          /\ x \in Outputs(TransformerOf[n]) /\ ~allChildrenBuilt(x, buildState, children')
          /\ buildState' = Touch(visited, buildState)
          /\ leaves' = Push(Popped(n), LeavesAmong(visited, buildState', children'))
          /\ children' \in [Nodes -> SUBSET Nodes]
      BY <1>7 DEF DelaysFor, GoesOn, VisitsArtifact, VisitKeeps
    <2> HIDE DEF visited
    <2>2. x = n
      BY <1>6, <2>1
    <2>3. \A m \in Nodes : buildState'[m] = IF m \in visited /\ buildState[m] = "Untouched"
                                            THEN "Buildable" ELSE buildState[m]
      BY <2>1 DEF Touch
    <2> SUFFICES ASSUME state' = "Running", NEW m \in Nodes, Ready(m)' PROVE Queued(m)'
      BY DEF ReadyInv
    <2>4. /\ buildState'[m] = "Buildable" /\ \A c \in children'[m] : buildState'[c] = "Built"
          /\ \A c \in children'[m] : buildState[c] = "Built"
      BY <2>1, <2>3 DEF Ready, allChildrenBuilt
    <2>5. m # n
      BY <2>1, <2>2, <2>4 DEF allChildrenBuilt
    <2>6. CASE buildState[m] = "Buildable"
      <3>1. Ready(m)
        BY <1>6, <2>1, <2>4, <2>5, <2>6 DEF Ready, allChildrenBuilt
      <3>2. leaves[m] + delayedLeaves[m] > 0
        BY <1>6, <2>1, <3>1 DEF ReadyInv, Queued
      <3> QED BY <1>6, <2>1, <2>5, <3>2 DEF Queued, Push, TypeOK, NodeTypeOK
    <2>7. CASE buildState[m] # "Buildable"
      <3>1. m \in LeavesAmong(visited, buildState', children')
        BY <2>3, <2>4, <2>7 DEF LeavesAmong, allChildrenBuilt
      <3> QED BY <1>6, <2>1, <3>1 DEF Queued, Push, TypeOK, NodeTypeOK
    <2> QED BY <2>6, <2>7
  <1>8. ASSUME NEW n \in Generated, FinishesVisited(n) PROVE ReadyInv'
    <2>1. /\ VisitsArtifact(n) /\ UNCHANGED <<delayedLeaves, state>>
          /\ buildState' = MarkBuilt(Outputs(TransformerOf[n]), buildState)
          /\ leaves' = Push(Popped(n), ReadyParents(Outputs(TransformerOf[n]), buildState,
                                                    children'))
      BY <1>8 DEF FinishesVisited, FinishTransformer, GoesOn
    <2>2. /\ n \in Nodes /\ pc # "rule" /\ Outputs(TransformerOf[n]) = {n}
          /\ \A m \in Nodes \ {n} : Popped(n)[m] = leaves[m] /\ children'[m] = children[m]
          /\ Popped(n) \in [Nodes -> Nat]
      BY <1>6, <2>1
    <2>3. /\ {n} \in SUBSET Nodes /\ buildState' = MarkBuilt({n}, buildState)
          /\ leaves' = Push(Popped(n), ReadyParents({n}, buildState, children'))
      BY <2>1, <2>2
    <2> QED BY <2>1, <2>2, <2>3, FinishWakes
  <1>9. ASSUME NEW n \in Generated, StartsJob(n) PROVE ReadyInv'
    <2>1. /\ VisitsArtifact(n) /\ UNCHANGED <<delayedLeaves, state>>
          /\ buildState' = MarkBuilding(n) /\ leaves' = Popped(n)
      BY <1>9 DEF StartsJob, GoesOn
    <2>2. \A m \in Nodes : buildState'[m] = IF m = n THEN "Building" ELSE buildState[m]
      BY <1>6, <2>1 DEF MarkBuilding
    <2> SUFFICES ASSUME state' = "Running", NEW m \in Nodes, Ready(m)' PROVE Queued(m)'
      BY DEF ReadyInv
    <2>3. m # n /\ children'[m] = children[m] /\ children[m] \subseteq Nodes
      BY <1>6, <2>1, <2>2 DEF Ready, TypeOK, GraphTypeOK
    <2>4. Ready(m)
      BY <2>2, <2>3 DEF Ready, allChildrenBuilt
    <2>5. leaves[m] + delayedLeaves[m] > 0
      BY <1>6, <2>1, <2>4 DEF ReadyInv, Queued
    <2> QED BY <1>6, <2>1, <2>3, <2>5 DEF Queued
  <1>10. ASSUME NEW n \in Generated, VisitThrows(n) PROVE ReadyInv'
    BY <1>10 DEF VisitThrows, Live, ReadyInv
  <1>11. ASSUME NEW j \in Jobs, FinishesJob(j) PROVE ReadyInv'
    <2> DEFINE os == Outputs(processingJobs[j])
    <2>1. /\ pc # "rule" /\ (state' = "Running" => state = "Running")
          /\ UNCHANGED <<children, delayedLeaves>>
          /\ buildState' = MarkBuilt(os, buildState)
          /\ leaves' = Push(leaves, ReadyParents(os, buildState, children))
      BY <1>11 DEF FinishesJob, FinishTransformer
    <2>2. /\ os \in SUBSET Nodes /\ leaves \in [Nodes -> Nat]
          /\ \A m \in Nodes \ os : leaves[m] = leaves[m] /\ children'[m] = children[m]
          /\ leaves' = Push(leaves, ReadyParents(os, buildState, children'))
      BY <2>1, OutputsType, NodeKinds DEF TypeOK, NodeTypeOK
    <2> QED BY <2>1, <2>2, FinishWakes
  <1>12. CASE Quiet
    <2>1. /\ UNCHANGED <<children, buildState>>
          /\ pc' = "rule" <=> pc = "rule"
          /\ pc = "rule" => UNCHANGED currentRule
          /\ state' = "Running" =>
                /\ state = "Running"
                /\ \A n \in Nodes : Queued(n) /\ buildState[n] = "Buildable" => Queued(n)'
      BY <1>12 DEF Quiet
    <2>2. \A n \in Nodes : Ready(n)' => Ready(n) /\ buildState[n] = "Buildable"
      BY <2>1 DEF Ready
    <2> QED BY <2>1, <2>2 DEF ReadyInv
  <1> QED BY <1>1, <1>2, <1>3, <1>4, <1>5, <1>7, <1>8, <1>9, <1>10, <1>11, <1>12,
             GraphStepCases

\* finishJob() and the steps that wait leave the delayed leaves where they are.
LEMMA DelayedStep ==
    ASSUME TypeOK, DelayedInv, [Next]_vars
    PROVE  DelayedInv'
  <1> USE DEF DelayedInv
  <1>1. CASE ScheduleStep
    <2>1. CASE \E n \in Nodes : SkipLeaf(n) \/ DelayLeaf(n) \/ AbortOnUnknownLimits(n)
                                \/ FinishLeaf(n)
      BY <2>1 DEF SkipLeaf, DelayLeaf, AbortOnUnknownLimits, FinishLeaf, Accept, PopLeaf
    <2>2. CASE \E r \in Rules : SkipRule(r) \/ EnterRule(r)
      BY <2>2 DEF SkipRule, EnterRule, Accept, PopLeaf
    <2>3. ASSUME NEW n \in Generated, ArtifactStep(n) PROVE DelayedInv'
      <3>1. (\E x : DelaysFor(n, x)) \/ FinishesVisited(n) \/ StartsJob(n) \/ VisitThrows(n)
        BY <2>3, VisitCases
      <3> QED BY <3>1 DEF DelaysFor, FinishesVisited, StartsJob, VisitThrows, GoesOn,
                 VisitsArtifact, Takes
    <2>4. CASE EndSchedule
      BY <2>4 DEF EndSchedule
    <2> QED BY <1>1, <2>1, <2>2, <2>3, <2>4 DEF ScheduleStep
  <1>2. CASE RuleStep
    BY <1>2, ThrowApplies DEF RuleStep, LeaveRule
  <1>3. CASE PostedFinish
    BY <1>3 DEF PostedFinish, Finish
  <1>4. ASSUME NEW j \in Jobs, JobFinishedStep(j) PROVE DelayedInv'
    <2>1. CASE JobFailed(j)
      BY <2>1 DEF JobFailed, ReleaseJob
    <2>2. ASSUME NEW written, JobSucceeded(j, written) PROVE DelayedInv'
      BY <2>2 DEF JobSucceeded, ReleaseJob
    <2>3. ASSUME NEW written, OutputMissing(j, written) PROVE DelayedInv'
      BY <2>3, ThrowEndsLife DEF OutputMissing
    <2> QED BY <1>4, <2>1, <2>2, <2>3 DEF JobFinishedStep
  <1>5. CASE \E j \in Jobs : CommandStep(j)
    BY <1>5 DEF CommandStep, CommandsEnd
  <1>6. CASE checkForCancellation \/ RequestCancel \/ ReportResult
             \/ (\E s \in MayEdit : EditSource(s)) \/ ChangeProperties
    BY <1>6 DEF checkForCancellation, RequestCancel, ReportResult, EditSource, ChangeProperties
  <1>7. CASE \E o \in BuildOptions : Build(o)
    BY <1>7 DEF Build
  <1>8. CASE UNCHANGED vars
    BY <1>8 DEF vars
  <1> QED BY <1>1, <1>2, <1>3, <1>4, <1>5, <1>6, <1>7, <1>8
          DEF Next, ExecutorStep, UserStep, Rest

\* No wake-up is lost, if every transformer has one output: whenever the executor waits or gives
\* up, each node that could be built is queued, after any sequence of builds, rule applications,
\* scans, delays and job limits.  With several outputs the executor does lose one.
THEOREM ReadyNodesStayQueued ==
    ASSUME SingleOutputs
    PROVE  Spec => []ReadyNodesAreQueued
  <1>1. Init => ReadyInv /\ DelayedInv
    BY DEF Init, ReadyInv, DelayedInv
  <1>2. TypeOK /\ SiblingsTogether /\ OneJobPerTransformer /\ GraphInv /\ ReadyInv /\ DelayedInv
           /\ [Next]_vars => ReadyInv' /\ DelayedInv'
    BY ReadyStep, DelayedStep
  <1>3. TypeOK /\ ReadyInv /\ DelayedInv => ReadyNodesAreQueued
    <2> SUFFICES ASSUME TypeOK, ReadyInv, DelayedInv, pc \in {"loop", "finishing"},
                        state = "Running", NEW n \in graph, Ready(n)
                 PROVE  leaves[n] > 0
      BY DEF ReadyNodesAreQueued, Ready
    <2>1. n \in Nodes /\ Queued(n)
      BY DEF ReadyInv, TypeOK, GraphTypeOK
    <2> QED BY <2>1 DEF Queued, DelayedInv, NoLeaves, TypeOK, NodeTypeOK
  <1> QED BY <1>1, <1>2, <1>3, TypeCorrect, OutputsBuiltTogether, TransformersRunOnce,
             RulesComeFirst, PTL DEF Spec

-------------------------------------------------------------------------------
(***************************************************************************)
(* Commands wait for what they depend on.                                   *)
(***************************************************************************)

\* What a node in the queue cannot do without.  Children that a scanner has added are not among
\* them: the scan is repeated when the node gets its turn.
Needs(n) == IF n \in Generated THEN Fixed(n) ELSE children[n]

\* As long as no exception was thrown, a queued node has what it needs.
QueuedHaveNeeds ==
    Live => \A n \in Nodes : Queued(n) /\ buildState[n] = "Buildable" =>
                \A c \in Needs(n) : buildState[c] = "Built"

\* What was scanned in this build has been started.
ScannedHaveRun ==
    Live => \A n \in inputsScanned : ProductOf[n] \in ProductsToBuild =>
                buildState[n] \in {"Building", "Built"}

\* Commands run only for artifacts all of whose children are built: inputs, explicit
\* dependencies, and whatever scanners have found.
CommandsWait ==
    \A n \in Nodes : buildState[n] = "Building" =>
        n \in Generated /\ allChildrenBuilt(n, buildState, children)

\* Commands have been started, or are not needed.
Started(n) == buildState[n] \in {"Building", "Built"}

\* What these invariants need to know of a step.
KeepsNeeds ==
    \A n \in Nodes : Queued(n) /\ buildState'[n] = "Buildable" =>
        buildState[n] = "Buildable" /\ Needs(n)' = Needs(n)

\* What was started is not set back.
KeepsStarted == \A n \in Nodes : Started(n) => Started(n)'

\* Commands are started with all children built, and get no new children while they run.
KeepsCommands ==
    \A n \in Nodes : buildState'[n] = "Building" =>
        \/ buildState[n] = "Building" /\ children'[n] = children[n]
        \/ n \in Generated /\ allChildrenBuilt(n, buildState', children')

\* Such steps let no command overtake its dependencies.
LEMMA WaitStep ==
    ASSUME TypeOK, QueuedHaveNeeds, ScannedHaveRun, CommandsWait,
           BuiltStays, KeepsCommands,
           Live' => /\ Live /\ QueuesReady /\ KeepsNeeds /\ KeepsStarted /\ UNCHANGED opts
                    /\ \A n \in inputsScanned' : n \in inputsScanned \/ Started(n)',
           children' \in [Nodes -> SUBSET Nodes]
    PROVE  QueuedHaveNeeds' /\ ScannedHaveRun' /\ CommandsWait'
  <1>1. CommandsWait'
    <2> SUFFICES ASSUME NEW n \in Nodes, buildState'[n] = "Building"
                 PROVE  n \in Generated /\ allChildrenBuilt(n, buildState', children')
      BY DEF CommandsWait
    <2>1. CASE buildState[n] = "Building" /\ children'[n] = children[n]
      <3>1. n \in Generated /\ children[n] \subseteq Nodes
            /\ \A c \in children[n] : buildState[c] = "Built"
        BY <2>1 DEF CommandsWait, allChildrenBuilt, TypeOK, GraphTypeOK
      <3> QED BY <2>1, <3>1 DEF BuiltStays, allChildrenBuilt
    <2> QED BY <2>1 DEF KeepsCommands
  <1>2. QueuedHaveNeeds'
    <2> SUFFICES ASSUME Live', NEW n \in Nodes, Queued(n)', buildState'[n] = "Buildable",
                        NEW c \in Needs(n)'
                 PROVE  buildState'[c] = "Built"
      BY DEF QueuedHaveNeeds
    <2>1. c \in Nodes /\ c \in children'[n]
      BY DEF Needs, Fixed
    <2>2. CASE Queued(n)
      <3>1. buildState[n] = "Buildable" /\ c \in Needs(n)
        BY <2>2 DEF KeepsNeeds
      <3> QED BY <2>1, <2>2, <3>1 DEF QueuedHaveNeeds, BuiltStays
    <2>3. CASE allChildrenBuilt(n, buildState', children')
      BY <2>1, <2>3 DEF allChildrenBuilt
    <2> QED BY <2>2, <2>3 DEF QueuesReady
  <1>3. ScannedHaveRun'
    <2> SUFFICES ASSUME Live', NEW n \in inputsScanned', ProductOf[n] \in ProductsToBuild'
                 PROVE  Started(n)'
      BY DEF ScannedHaveRun, Started
    <2>1. CASE n \in inputsScanned
      <3>1. n \in Nodes /\ ProductOf[n] \in ProductsToBuild
        BY <2>1, NodeKinds DEF TypeOK, NodeTypeOK, ProductsToBuild
      <3>2. Started(n)
        BY <2>1, <3>1 DEF ScannedHaveRun, Started
      <3> QED BY <3>1, <3>2 DEF KeepsStarted
    <2> QED BY <2>1
  <1> QED BY <1>1, <1>2, <1>3

\* Applying a rule does not touch what another rule has made.
LEMMA ApplyKeepsOthers ==
    ASSUME TypeOK, GraphInv, NEW r, NEW ts, AppliesRule(r, ts)
    PROVE  /\ children' \in [Nodes -> SUBSET Nodes]
           /\ \A n \in Generated : buildState[Maker(n)] = "Built" => children'[n] = children[n]
           /\ \A n \in Rules : n # r /\ r \notin RuleChildren[n] => children'[n] = children[n]
           /\ \A n \in Sources : children'[n] = children[n]
           /\ buildState[r] = "Buildable" /\ r \in Rules
  <1>1. /\ pc = "rule" /\ r = currentRule /\ r \in Rules /\ ts \in SUBSET TransformersOf(r)
        /\ children' = ConnectOutputs(r, ts) /\ r \notin children[r]
    BY RulesAcyclic DEF AppliesRule
  <1>2. buildState[r] = "Buildable"
    BY <1>1 DEF GraphInv, RuleHasTurn
  <1>3. /\ children' \in [Nodes -> SUBSET Nodes]
        /\ \A a \in Generated : TransformerOf[a] \notin ts => children'[a] = children[a]
        /\ \A p \in Rules : r \notin children[p] /\ p # r => children'[p] = children[p]
        /\ \A s \in Sources : children'[s] = children[s]
    BY <1>1, ConnectFacts
  <1>4. ASSUME NEW n \in Generated, buildState[Maker(n)] = "Built"
        PROVE  TransformerOf[n] \notin ts
    BY <1>1, <1>2, <1>4 DEF TransformersOf, Maker
  <1>5. \A n \in Rules : r \in children[n] => r \in RuleChildren[n]
    BY <1>1 DEF GraphInv, RulesConnected
  <1> QED BY <1>1, <1>2, <1>3, <1>4, <1>5

\* A visit keeps what the outputs of the transformer cannot do without.
LEMMA VisitKeepsNeeds ==
    ASSUME TypeOK, NEW n \in Generated, VisitsArtifact(n)
    PROVE  \A m \in Nodes : Needs(m)' = Needs(m)
  <1>1. /\ \A m \in Nodes \ Outputs(TransformerOf[n]) : children'[m] = children[m]
        /\ \A m \in Generated \ Outputs(TransformerOf[n]) : addedByScanner'[m] = addedByScanner[m]
        /\ \A m \in Outputs(TransformerOf[n]) : children'[m] \ addedByScanner'[m] = Fixed(m)
    BY DEF VisitsArtifact, VisitKeeps
  <1>2. Outputs(TransformerOf[n]) \subseteq Generated /\ Generated \subseteq Nodes
    BY OutputsType, NodeKinds
  <1> SUFFICES ASSUME NEW m \in Nodes PROVE Needs(m)' = Needs(m)
    OBVIOUS
  <1>3. CASE m \in Outputs(TransformerOf[n])
    BY <1>1, <1>2, <1>3 DEF Needs, Fixed
  <1>4. CASE m \notin Outputs(TransformerOf[n])
    BY <1>1, <1>2, <1>4 DEF Needs, Fixed
  <1> QED BY <1>3, <1>4

\* CommandsWait with what it needs to be inductive.
WaitInv == QueuedHaveNeeds /\ ScannedHaveRun /\ CommandsWait

\* Every step lets commands wait, if every transformer has one output.
LEMMA WaitNext ==
    ASSUME SingleOutputs, TypeOK, TypeOK', GraphInv, SiblingsTogether, OneJobPerTransformer,
           QueuedAreTouched, WaitInv, [Next]_vars
    PROVE  WaitInv'
  <1> USE DEF WaitInv
  <1>0. /\ children' \in [Nodes -> SUBSET Nodes]
        /\ \A n \in Nodes : Queued(n) => buildState[n] # "Untouched"
        /\ Generated \cap Rules = {} /\ Sources \cap Rules = {} /\ Sources \cap Generated = {}
        /\ Generated \subseteq Nodes /\ Rules \subseteq Nodes /\ Sources \subseteq Nodes
        /\ Nodes = Sources \cup Generated \cup Rules
    BY GraphAssumption, NodeKinds
       DEF QueuedAreTouched, Queued, TypeOK, GraphTypeOK, Artifacts, Nodes
  <1>1. ASSUME NEW o \in BuildOptions, Build(o) PROVE WaitInv'
    <2> DEFINE reachable == Closure(RootNodes(o.products), children)
    <2>1. /\ buildState' = [n \in Nodes |-> IF n \in reachable THEN "Buildable" ELSE "Untouched"]
          /\ \A n \in Nodes : Queued(n)' => children[n] = {}
          /\ UNCHANGED <<children, addedByScanner>> /\ opts' = o
          /\ inputsScanned' = {a \in inputsScanned : ProductOf[a] \notin o.products}
      BY <1>1, BuildFacts
    <2> HIDE DEF reachable
    <2>2. CommandsWait'
      BY <2>1 DEF CommandsWait
    <2>3. ScannedHaveRun'
      BY <2>1 DEF ScannedHaveRun, ProductsToBuild
    <2>4. QueuedHaveNeeds'
      BY <2>1 DEF QueuedHaveNeeds, Needs, Fixed
    <2> QED BY <2>2, <2>3, <2>4
  <1>2. CASE LeaveRule
    <2>1. AppliesRule(currentRule, TransformersOf(currentRule))
      BY <1>2, LeaveApplies
    <2>2. /\ \A n \in Generated : buildState[Maker(n)] = "Built" => children'[n] = children[n]
          /\ \A n \in Rules : n # currentRule /\ currentRule \notin RuleChildren[n]
                => children'[n] = children[n]
          /\ \A n \in Sources : children'[n] = children[n]
          /\ buildState[currentRule] = "Buildable" /\ currentRule \in Rules
          /\ UNCHANGED <<addedByScanner, opts, inputsScanned>> /\ pc = "rule"
      BY <2>1, ApplyKeepsOthers DEF AppliesRule
    <2>3. QueuesReady /\ BuiltStays
      BY <1>2, LeaveReadies
    <2>4. PICK v1, v2 : buildState' = MarkBuilt({currentRule}, Touch(v2, Touch(v1, buildState)))
      BY <1>2, LeaveRuleFacts
    <2>5. \A n \in Nodes : /\ buildState[n] # "Untouched" /\ n # currentRule
                                 => buildState'[n] = buildState[n]
                           /\ buildState'[n] = "Building" => buildState[n] = "Building"
                           /\ Started(n) => Started(n)'
                           /\ n = currentRule => buildState'[n] = "Built"
      BY <2>2, <2>4 DEF MarkBuilt, Touch, Started
    <2>6. KeepsCommands
      <3> SUFFICES ASSUME NEW n \in Nodes, buildState'[n] = "Building"
                   PROVE  buildState[n] = "Building" /\ children'[n] = children[n]
        BY DEF KeepsCommands
      <3>1. buildState[n] = "Building" /\ n \in Generated
        BY <2>5 DEF CommandsWait
      <3>2. buildState[Maker(n)] = "Built"
        BY <3>1 DEF GraphInv, RulesFirst
      <3> QED BY <2>2, <3>1, <3>2
    <2>7. KeepsNeeds
      <3> SUFFICES ASSUME NEW n \in Nodes, Queued(n), buildState'[n] = "Buildable"
                   PROVE  buildState[n] = "Buildable" /\ Needs(n)' = Needs(n)
        BY DEF KeepsNeeds
      <3>1. buildState[n] = "Buildable" /\ n # currentRule
        BY <1>0, <2>5
      <3>2. CASE n \in Generated
        <4>1. children'[n] = children[n]
          BY <2>2, <3>2 DEF GraphInv, RulesFirst
        <4> QED BY <2>2, <3>1, <3>2, <4>1 DEF Needs, Fixed
      <3>3. CASE n \in Rules
        <4>1. currentRule \notin RuleChildren[n]
          BY <2>2, <3>3 DEF GraphInv, RulesFirst
        <4> QED BY <1>0, <2>2, <3>1, <3>3, <4>1 DEF Needs
      <3>4. CASE n \in Sources
        BY <1>0, <2>2, <3>1, <3>4 DEF Needs
      <3> QED BY <1>0, <3>2, <3>3, <3>4
    <2>8. KeepsStarted
      BY <2>5 DEF KeepsStarted
    <2>9. Live
      BY <2>2 DEF Live
    <2> QED BY <1>0, <2>2, <2>3, <2>6, <2>7, <2>8, <2>9, WaitStep
  <1>3. ASSUME NEW done, NEW last, RuleThrows(done, last) PROVE WaitInv'
    <2>1. /\ AppliesRule(currentRule, done \cup last) /\ UNCHANGED buildState /\ ~Live'
      BY <1>3, ThrowApplies
    <2>2. \A n \in Generated : buildState[Maker(n)] = "Built" => children'[n] = children[n]
      BY <2>1, ApplyKeepsOthers
    <2>3. KeepsCommands
      BY <2>1, <2>2 DEF KeepsCommands, CommandsWait, GraphInv, RulesFirst
    <2> QED BY <1>0, <2>1, <2>3, WaitStep DEF BuiltStays
  <1>4. ASSUME NEW r \in Rules, EnterRule(r) PROVE WaitInv'
    <2>1. /\ pc = "schedule" /\ leaves' = Popped(r)
          /\ UNCHANGED <<children, addedByScanner, buildState, delayedLeaves, inputsScanned, opts>>
      BY <1>4 DEF EnterRule, Accept, PopLeaf
    <2>2. QueuesReady
      BY <2>1, <1>4, PoppedQueue, NodeKinds
         DEF EnterRule, Accept, PopLeaf, QueuesReady, Queued, TypeOK, NodeTypeOK
    <2>3. BuiltStays /\ KeepsNeeds /\ KeepsStarted /\ KeepsCommands /\ Live
      BY <2>1 DEF BuiltStays, KeepsNeeds, KeepsStarted, KeepsCommands, Live, Needs, Fixed, Started
    <2> QED BY <1>0, <2>1, <2>2, <2>3, WaitStep
  <1>5. ASSUME NEW nodes, buildState' = MarkBuilt(nodes, buildState),
               UNCHANGED <<children, addedByScanner, inputsScanned, opts>>,
               Live' => Live, QueuesReady, BuiltStays
        PROVE  WaitInv'
    <2>1. \A n \in Nodes : buildState'[n] = IF n \in nodes THEN "Built" ELSE buildState[n]
      BY <1>5 DEF MarkBuilt
    <2>2. KeepsNeeds /\ KeepsStarted /\ KeepsCommands
      BY <1>5, <2>1 DEF KeepsNeeds, KeepsStarted, KeepsCommands, Needs, Fixed, Started
    <2> QED BY <1>0, <1>5, <2>2, WaitStep
  <1>6. ASSUME NEW n \in Nodes, FinishesNode(n) PROVE WaitInv'
    <2>1. /\ buildState' = MarkBuilt({n}, buildState)
          /\ UNCHANGED <<children, addedByScanner, inputsScanned, opts, state, pc>>
      BY <1>6 DEF FinishesNode, Takes, GoesOn
    <2>2. QueuesReady /\ BuiltStays
      BY <1>6, FinishNodeReadies
    <2> QED BY <1>5, <2>1, <2>2 DEF Live
  <1>7. ASSUME NEW j \in Jobs, FinishesJob(j) PROVE WaitInv'
    <2>1. /\ buildState' = MarkBuilt(Outputs(processingJobs[j]), buildState)
          /\ UNCHANGED <<children, addedByScanner, inputsScanned, opts>> /\ (Live' => Live)
      BY <1>7 DEF FinishesJob, FinishTransformer
    <2>2. QueuesReady /\ BuiltStays
      BY <1>7, JobReadies
    <2> QED BY <1>5, <2>1, <2>2
  <1>8. ASSUME NEW n \in Generated, VisitsArtifact(n)
        PROVE  /\ Outputs(TransformerOf[n]) = {n} /\ n \in Nodes /\ Live
               /\ buildState[n] = "Buildable" /\ ProductOf[n] \in ProductsToBuild /\ Queued(n)
               /\ \A m \in Nodes \ {n} : children'[m] = children[m]
               /\ \A m \in Nodes : Needs(m)' = Needs(m)
               /\ inputsScanned' \subseteq inputsScanned \cup {n} /\ UNCHANGED opts
    <2>1. Outputs(TransformerOf[n]) = {n}
      BY MakerType DEF SingleOutputs
    <2>2. /\ buildState[n] = "Buildable" /\ ProductOf[n] \in ProductsToBuild /\ pc = "schedule"
          /\ \A m \in Nodes \ {n} : children'[m] = children[m]
          /\ inputsScanned' \subseteq inputsScanned \cup {n} /\ UNCHANGED opts
      BY <1>8, <2>1 DEF VisitsArtifact, Takes, VisitKeeps
    <2>3. Queued(n) /\ \A m \in Nodes : Needs(m)' = Needs(m)
      BY <1>8, VisitKeepsGraph, VisitKeepsNeeds
    <2> QED BY <1>0, <2>1, <2>2, <2>3 DEF Live
  <1>9. ASSUME NEW n \in Generated, NEW x, DelaysFor(n, x) PROVE WaitInv'
    <2>1. VisitsArtifact(n) /\ x \in Outputs(TransformerOf[n]) /\ x \notin inputsScanned'
          /\ \E visited : buildState' = Touch(visited, buildState)
      BY <1>9 DEF DelaysFor
    <2>2. QueuesReady /\ BuiltStays
      BY <1>9, DelayReadies
    <2>3. \A m \in Nodes : /\ buildState[m] # "Untouched" => buildState'[m] = buildState[m]
                           /\ buildState'[m] = "Building" => buildState[m] = "Building"
      BY <2>1 DEF Touch
    <2>4. x = n
      BY <1>8, <2>1
    <2>5. KeepsNeeds
      BY <1>0, <1>8, <2>1, <2>3 DEF KeepsNeeds
    <2>6. KeepsStarted
      BY <2>3 DEF KeepsStarted, Started
    <2>7. KeepsCommands
      BY <1>8, <2>1, <2>3 DEF KeepsCommands
    <2>8. \A m \in inputsScanned' : m \in inputsScanned
      BY <1>8, <2>1, <2>4
    <2> QED BY <1>0, <1>8, <2>1, <2>2, <2>5, <2>6, <2>7, <2>8, WaitStep
  <1>10. ASSUME NEW n \in Generated, FinishesVisited(n) PROVE WaitInv'
    <2>1. VisitsArtifact(n) /\ buildState' = MarkBuilt({n}, buildState)
      BY <1>8, <1>10 DEF FinishesVisited, FinishTransformer
    <2>2. QueuesReady /\ BuiltStays
      BY <1>10, VisitReadies
    <2>3. \A m \in Nodes : buildState'[m] = IF m = n THEN "Built" ELSE buildState[m]
      BY <2>1 DEF MarkBuilt
    <2>4. KeepsNeeds /\ KeepsStarted /\ KeepsCommands
      BY <1>8, <2>1, <2>3 DEF KeepsNeeds, KeepsStarted, Started, KeepsCommands
    <2>5. Started(n)'
      BY <1>8, <2>1, <2>3 DEF Started
    <2> QED BY <1>0, <1>8, <2>1, <2>2, <2>4, <2>5, WaitStep
  <1>11. ASSUME NEW n \in Generated, StartsJob(n) PROVE WaitInv'
    <2>1. /\ VisitsArtifact(n) /\ buildState' = MarkBuilding(n)
          /\ \A o \in Outputs(TransformerOf[n]) \ inputsScanned : \A c \in children'[o] :
                c \in Fixed(o) \/ buildState[c] = "Built"
      BY <1>11 DEF StartsJob
    <2>2. QueuesReady /\ BuiltStays
      BY <1>11, VisitReadies
    <2>3. \A m \in Nodes : buildState'[m] = IF m = n THEN "Building" ELSE buildState[m]
      BY <1>8, <2>1 DEF MarkBuilding
    <2>4. KeepsNeeds /\ KeepsStarted
      BY <1>8, <2>1, <2>3 DEF KeepsNeeds, KeepsStarted, Started
    <2>5. allChildrenBuilt(n, buildState', children')
      <3>1. n \notin inputsScanned
        BY <1>8, <2>1 DEF ScannedHaveRun
      <3>2. \A c \in children'[n] : c \in Nodes /\ (c \in Fixed(n) \/ buildState[c] = "Built")
        BY <1>0, <1>8, <2>1, <3>1
      <3>3. \A c \in Fixed(n) : buildState[c] = "Built"
        BY <1>8, <2>1 DEF QueuedHaveNeeds, Needs
      <3> QED BY <2>2, <3>2, <3>3 DEF allChildrenBuilt, BuiltStays
    <2>6. KeepsCommands
      BY <1>8, <2>1, <2>3, <2>5 DEF KeepsCommands
    <2>7. Started(n)'
      BY <1>8, <2>1, <2>3 DEF Started
    <2> QED BY <1>0, <1>8, <2>1, <2>2, <2>4, <2>6, <2>7, WaitStep
  <1>12. ASSUME NEW n \in Generated, VisitThrows(n) PROVE WaitInv'
    <2>1. VisitsArtifact(n) /\ UNCHANGED buildState /\ ~Live'
      BY <1>12 DEF VisitThrows
    <2>2. KeepsCommands /\ BuiltStays
      BY <1>8, <2>1 DEF KeepsCommands, BuiltStays
    <2> QED BY <1>0, <2>1, <2>2, WaitStep
  <1>13. CASE Quiet
    <2>1. /\ UNCHANGED <<children, addedByScanner, buildState, inputsScanned, opts>>
          /\ \A n \in Nodes : Queued(n)' => Queued(n)
          /\ Live' => Live
      BY <1>13 DEF Quiet
    <2>2. QueuesReady /\ BuiltStays /\ KeepsNeeds /\ KeepsStarted /\ KeepsCommands
      BY <2>1 DEF QueuesReady, BuiltStays, KeepsNeeds, KeepsStarted, KeepsCommands, Needs, Fixed,
         Started
    <2> QED BY <1>0, <2>1, <2>2, WaitStep
  <1> QED BY <1>1, <1>2, <1>3, <1>4, <1>6, <1>7, <1>9, <1>10, <1>11, <1>12, <1>13,
             GraphStepCases

\* While the commands of a transformer run, everything its output depends on is built, the
\* dependencies that were only found by scanning its inputs included, if every transformer has
\* one output.
THEOREM CommandsWaitForDependencies ==
    ASSUME SingleOutputs
    PROVE  Spec => []CommandsWait
  <1>1. Init => WaitInv
    BY NodeKinds DEF Init, WaitInv, QueuedHaveNeeds, ScannedHaveRun, CommandsWait, Live
  <1>2. TypeOK /\ TypeOK' /\ SiblingsTogether /\ OneJobPerTransformer /\ GraphInv
           /\ QueuedAreTouched /\ WaitInv /\ [Next]_vars => WaitInv'
    BY WaitNext
  <1>3. WaitInv => CommandsWait
    BY DEF WaitInv
  <1> QED BY <1>1, <1>2, <1>3, TypeCorrect, OutputsBuiltTogether, TransformersRunOnce,
             RulesComeFirst, OnlyTouchedNodesQueued, PTL DEF Spec

-------------------------------------------------------------------------------
(***************************************************************************)
(* The graph never has a cycle.                                             *)
(***************************************************************************)

\* The nodes of new are inserted between the parents of r on the one side, r and its children on
\* the other.  Nodes may also get new children in leaf, which have no children themselves.
LEMMA InsertKeepsAcyclic ==
    ASSUME NEW old \in [Nodes -> SUBSET Nodes], NEW ch \in [Nodes -> SUBSET Nodes], Acyclic(old),
           NEW new \in SUBSET Nodes, NEW leaf \in SUBSET Nodes, NEW r \in Nodes, r \notin new,
           new \cap leaf = {},
           \A n \in leaf : ch[n] = {},
           \A n \in Nodes : old[n] \cap new = {},
           \A n \in new : ch[n] \subseteq {r} \cup old[r] \cup leaf,
           \A n \in Nodes \ new : \/ ch[n] \subseteq old[n] \cup leaf
                                  \/ r \in old[n] /\ ch[n] \subseteq old[n] \cup new
    PROVE  Acyclic(ch)
  <1> DEFINE K(c) == Closure({c}, old)
             D == K(r) \cup leaf
  <1>1. ASSUME NEW c \in Nodes
        PROVE  /\ c \in K(c) /\ K(c) \subseteq Nodes /\ Closed(K(c), old)
               /\ \A S : c \in S /\ Closed(S, old) => K(c) \subseteq S
    BY ClosureIsReachability
  <1>2. ASSUME NEW c \in Nodes, NEW S, c \in S, Closed(S, ch) PROVE Closure({c}, ch) \subseteq S
    BY <1>2, ClosureIsReachability
  <1>3. \A n \in Nodes : \A c \in old[n] : n \notin K(c)
    BY DEF Acyclic, existsPath
  <1> HIDE DEF K
  <1>4. K(r) \cap new = {} /\ r \in K(r) /\ Closed(K(r), old) /\ K(r) \subseteq Nodes
    <2>1. Closed(Nodes \ new, old)
      BY DEF Closed
    <2> QED BY <1>1, <2>1
  <1>5. ASSUME NEW n \in K(r) PROVE ch[n] \subseteq old[n] \cup leaf
    <2>1. n \in Nodes \ new
      BY <1>4
    <2>2. r \notin old[n]
      BY <1>3, <1>5, <2>1
    <2> QED BY <2>1, <2>2
  <1>6. Closed(D, ch)
    BY <1>4, <1>5 DEF Closed
  <1>7. D \cap new = {} /\ D \subseteq Nodes
    BY <1>4
  <1>8. \A n \in new : ch[n] \subseteq D
    BY <1>4 DEF Closed
  <1> SUFFICES ASSUME NEW n \in Nodes, NEW c \in ch[n], n \in Closure({c}, ch) PROVE FALSE
    BY DEF Acyclic, existsPath
  <1>9. c \in Nodes
    OBVIOUS
  <1>10. CASE n \in new
    <2>1. c \in D
      BY <1>8, <1>10
    <2>2. Closure({c}, ch) \subseteq D
      BY <1>2, <1>6, <1>9, <2>1
    <2> QED BY <1>7, <1>10, <2>2
  <1>11. CASE n \in D
    <2>1. n \in K(r) /\ n \notin leaf
      BY <1>11
    <2>2. c \in D
      BY <1>6, <1>11 DEF Closed
    <2>3. CASE c \in leaf
      <3>1. Closed(leaf, ch)
        BY DEF Closed
      <3> QED BY <1>2, <1>9, <2>1, <2>3, <3>1
    <2>4. CASE c \in K(r) /\ c \notin leaf
      <3>1. c \in old[n]
        BY <1>5, <2>1, <2>4
      <3>2. K(c) \subseteq K(r)
        BY <1>1, <1>4, <1>9, <2>4
      <3>3. Closed(K(c) \cup leaf, ch)
        BY <1>1, <1>5, <1>9, <3>2 DEF Closed
      <3>4. n \in K(c) \cup leaf
        BY <1>1, <1>2, <1>9, <3>3
      <3> QED BY <1>3, <2>1, <3>1, <3>4
    <2> QED BY <2>2, <2>3, <2>4
  <1>12. CASE n \notin new /\ n \notin D
    <2>1. CASE c \in D
      <3>1. Closure({c}, ch) \subseteq D
        BY <1>2, <1>6, <1>9, <2>1
      <3> QED BY <1>12, <3>1
    <2>2. CASE c \in new
      <3>1. Closed({c} \cup D, ch)
        BY <1>6, <1>8, <2>2 DEF Closed
      <3>2. n \in {c} \cup D
        BY <1>2, <1>9, <3>1
      <3> QED BY <1>12, <2>2, <3>2
    <2>3. CASE c \notin D /\ c \notin new
      <3>1. c \in old[n]
        BY <1>12, <2>3
      <3> DEFINE T == K(c) \cup new \cup D
      <3>2. Closed(T, ch)
        <4> SUFFICES ASSUME NEW m \in T, NEW d \in ch[m] PROVE d \in T
          BY DEF Closed
        <4>1. CASE m \in new \cup D
          BY <1>6, <1>8, <4>1 DEF Closed
        <4>2. CASE m \in K(c) /\ m \notin new
          <5>1. m \in Nodes \ new /\ old[m] \subseteq K(c)
            BY <1>1, <1>9, <4>2 DEF Closed
          <5> QED BY <5>1
        <4> QED BY <4>1, <4>2
      <3>3. n \in T
        BY <1>1, <1>2, <1>9, <3>2
      <3> QED BY <1>3, <1>12, <3>1, <3>3
    <2> QED BY <2>1, <2>2, <2>3
  <1> QED BY <1>10, <1>11, <1>12

\* The explicit dependencies of a single artifact come from rules that its own rule waits for.
DepsFromChildRules ==
    \A a \in Generated : \A d \in ArtifactDeps[a] \cap Generated :
        Maker(d) \in RuleChildren[Maker(a)]

\* An artifact keeps the edges it was created with: no scan takes them away.
FixedEdges ==
    \A a \in graph \cap Generated :
        Inputs[TransformerOf[a]] \cup ArtifactDeps[a] \cup {Maker(a)} \subseteq Fixed(a)

\* A rule waits for what the rules it depends on have created.
RulesHaveArtifacts ==
    \A a \in graph \cap Generated : \A p \in Rules :
        Maker(a) \in children[p] => a \in children[p]

\* A rule waits for the inputs it was applied to.
RulesHaveInputs ==
    \A a \in graph \cap Generated : Inputs[TransformerOf[a]] \subseteq children[Maker(a)]

\* The edges that do not come from scanners, in both directions.
EdgesInv == FixedEdges /\ RulesHaveArtifacts /\ RulesHaveInputs

\* What a rule connects its new outputs to is among its own children.
LEMMA NewEdges ==
    ASSUME DepsFromChildRules, TypeOK, GraphInv, EdgesInv, NEW r, NEW ts, AppliesRule(r, ts)
    PROVE  /\ \A t \in ts : Inputs[t] \subseteq children[r] \cup Sources
           /\ \A t \in ts : Inputs[t] \subseteq children'[r]
           /\ \A a \in Generated : TransformerOf[a] \in ts =>
                 /\ ArtifactDeps[a] \subseteq children[r] \cup Sources
                 /\ ArtifactDeps[a] \subseteq graph
                 /\ Maker(a) = r
  <1>1. /\ pc = "rule" /\ r = currentRule /\ r \in Rules /\ ts \in SUBSET TransformersOf(r)
        /\ children' = ConnectOutputs(r, ts) /\ r \notin children[r]
    BY RulesAcyclic DEF AppliesRule
  <1>2. ASSUME NEW d \in Artifacts, d \in Generated => Maker(d) \in RuleChildren[r]
        PROVE  d \in children[r] \cup Sources /\ d \in graph
    <2>1. CASE d \in Sources
      BY <2>1 DEF GraphInv, NodesPresent
    <2>2. CASE d \in Generated
      <3>1. Maker(d) \in RuleChildren[r] /\ Maker(d) \in Rules
        BY <1>2, <2>2, MakerType
      <3>2. buildState[Maker(d)] = "Built" /\ ProductOf[r] \in ProductsToBuild
        BY <1>1, <3>1 DEF GraphInv, RuleHasTurn
      <3>3. ProductOf[Maker(d)] \in ProductsToBuild
        BY <1>1, <3>1, <3>2, BuildOptionsAssumption DEF TypeOK, ControlTypeOK, ProductsToBuild
      <3>4. Maker(d) \in applied
        BY <3>1, <3>2, <3>3 DEF GraphInv, RulesApplied
      <3>5. d \in graph
        BY <2>2, <3>4 DEF GraphInv, RulesApplied, OutputsOf, Maker
      <3>6. Maker(d) \in children[r]
        BY <1>1, <3>1 DEF GraphInv, RulesConnected
      <3> QED BY <1>1, <2>2, <3>5, <3>6 DEF EdgesInv, RulesHaveArtifacts
    <2> QED BY <2>1, <2>2 DEF Artifacts
  <1>3. ASSUME NEW t \in ts, NEW i \in Inputs[t] PROVE i \in children[r] \cup Sources
    <2>1. /\ t \in Transformers /\ RuleOf[t] = r /\ i \in Artifacts
      BY <1>1, GraphAssumption DEF TransformersOf
    <2>2. i \in Generated => Maker(i) \in RuleChildren[r]
      BY <2>1, RuleGraphAssumption DEF Maker
    <2> QED BY <1>2, <2>1, <2>2
  <1>4. ASSUME NEW t \in ts, NEW i \in Inputs[t] PROVE i \in children'[r]
    <2>1. /\ \A n \in Nodes : children[n] \subseteq children'[n]
          /\ \A k \in UNION {Inputs[u] : u \in ts} :
                k \in Sources \/ ProductOf[k] # ProductOf[r] => k \in children'[r]
      BY <1>1, ConnectFacts
    <2> QED BY <1>1, <1>3, <2>1, NodeKinds
  <1>5. ASSUME NEW a \in Generated, TransformerOf[a] \in ts
        PROVE  /\ ArtifactDeps[a] \subseteq children[r] \cup Sources
               /\ ArtifactDeps[a] \subseteq graph
               /\ Maker(a) = r
    <2>1. Maker(a) = r
      BY <1>1, <1>5 DEF TransformersOf, Maker
    <2>2. ArtifactDeps[a] \subseteq Artifacts
      BY ExecutorAssumption
    <2>3. \A d \in ArtifactDeps[a] : d \in Generated => Maker(d) \in RuleChildren[r]
      BY <2>1 DEF DepsFromChildRules
    <2> QED BY <1>2, <2>1, <2>2, <2>3
  <1> QED BY <1>3, <1>4, <1>5

\* Applying a rule leaves such edges.
LEMMA ApplyKeepsEdges ==
    ASSUME DepsFromChildRules, TypeOK, GraphInv, EdgesInv, NEW r, NEW ts, AppliesRule(r, ts)
    PROVE  EdgesInv'
  <1> DEFINE new == NewOutputs(ts)
  <1>1. /\ r \in Rules /\ ts \in SUBSET TransformersOf(r) /\ graph' = graph \cup new
        /\ children' = ConnectOutputs(r, ts) /\ r \notin children[r] /\ UNCHANGED addedByScanner
    BY RulesAcyclic DEF AppliesRule
  <1>2. /\ \A n \in Nodes : children[n] \subseteq children'[n]
        /\ \A a \in Generated : TransformerOf[a] \in ts =>
              children'[a] = children[a] \cup {r} \cup Inputs[TransformerOf[a]]
                                \cup (ArtifactDeps[a] \cap (graph \cup new))
        /\ \A p \in Rules : r \in children[p] => children'[p] = children[p] \cup new
    BY <1>1, ConnectFacts
  <1>3. /\ \A t \in ts : Inputs[t] \subseteq children'[r]
        /\ \A a \in Generated : TransformerOf[a] \in ts =>
                 /\ ArtifactDeps[a] \subseteq graph
                 /\ Maker(a) = r
    BY NewEdges
  <1>4. /\ RulesConnected'
    BY ApplyKeepsGraph
  <1>5. \A a \in new : a \in Generated /\ TransformerOf[a] \in ts /\ a \notin graph
    BY DEF NewOutputs
  <1> HIDE DEF new
  <1>6. ASSUME NEW a \in graph' \cap Generated
        PROVE  Inputs[TransformerOf[a]] \cup ArtifactDeps[a] \cup {Maker(a)}
                  \subseteq children'[a] \ addedByScanner'[a]
    <2>1. CASE a \in graph
      <3>1. /\ Inputs[TransformerOf[a]] \cup ArtifactDeps[a] \cup {Maker(a)}
                  \subseteq children[a] \ addedByScanner[a]
            /\ a \in Nodes
        BY <2>1, NodeKinds DEF EdgesInv, FixedEdges, Fixed
      <3>2. children[a] \subseteq children'[a]
        BY <1>2, <3>1
      <3> QED BY <1>1, <3>1, <3>2
    <2>2. CASE a \in new
      <3>1. TransformerOf[a] \in ts /\ a \notin graph
        BY <1>5, <2>2
      <3>2. addedByScanner[a] = {}
        BY <3>1 DEF GraphInv, NodesPresent
      <3>3. /\ Inputs[TransformerOf[a]] \subseteq children'[a] /\ r \in children'[a]
            /\ ArtifactDeps[a] \subseteq children'[a] /\ Maker(a) = r
        BY <1>2, <1>3, <3>1
      <3> QED BY <1>1, <3>2, <3>3
    <2> QED BY <1>1, <2>1, <2>2
  <1>7. ASSUME NEW a \in graph' \cap Generated, NEW p \in Rules, Maker(a) \in children'[p]
        PROVE  a \in children'[p]
    <2>1. Maker(a) \in children[p] /\ p \in Nodes
      BY <1>4, <1>7, MakerType, NodeKinds DEF GraphInv, RulesConnected
    <2>2. CASE a \in graph
      BY <1>2, <2>1, <2>2 DEF EdgesInv, RulesHaveArtifacts
    <2>3. CASE a \in new
      BY <1>2, <1>3, <1>5, <2>1, <2>3
    <2> QED BY <1>1, <2>2, <2>3
  <1>8. ASSUME NEW a \in graph' \cap Generated
        PROVE  Inputs[TransformerOf[a]] \subseteq children'[Maker(a)]
    <2>1. CASE a \in graph
      <3>1. Inputs[TransformerOf[a]] \subseteq children[Maker(a)] /\ Maker(a) \in Nodes
        BY <2>1, MakerType, NodeKinds DEF EdgesInv, RulesHaveInputs
      <3>2. children[Maker(a)] \subseteq children'[Maker(a)]
        BY <1>2, <3>1
      <3> QED BY <3>1, <3>2
    <2>2. CASE a \in new
      BY <1>3, <1>5, <2>2
    <2> QED BY <1>1, <2>1, <2>2
  <1>9. FixedEdges'
    BY <1>6 DEF FixedEdges, Fixed, Maker
  <1>10. RulesHaveArtifacts' /\ RulesHaveInputs'
    BY <1>7, <1>8 DEF RulesHaveArtifacts, RulesHaveInputs, Maker
  <1> QED BY <1>9, <1>10 DEF EdgesInv

\* Applying a rule closes no cycle.
LEMMA ApplyClosesNoCycle ==
    ASSUME DepsFromChildRules, TypeOK, GraphInv, EdgesInv, Acyclic(children),
           NEW r, NEW ts, AppliesRule(r, ts)
    PROVE  Acyclic(children')
  <1> DEFINE new == NewOutputs(ts)
  <1>1. /\ r \in Rules /\ ts \in SUBSET TransformersOf(r) /\ r \in Nodes
        /\ children' = ConnectOutputs(r, ts) /\ r \notin children[r]
        /\ children \in [Nodes -> SUBSET Nodes]
    BY RulesAcyclic, NodeKinds DEF AppliesRule, TypeOK, GraphTypeOK
  <1>2. /\ children' \in [Nodes -> SUBSET Nodes]
        /\ \A a \in Generated : TransformerOf[a] \in ts =>
              children'[a] = children[a] \cup {r} \cup Inputs[TransformerOf[a]]
                                \cup (ArtifactDeps[a] \cap (graph \cup new))
        /\ \A a \in Generated : TransformerOf[a] \notin ts => children'[a] = children[a]
        /\ \A p \in Rules : r \in children[p] => children'[p] = children[p] \cup new
        /\ \A p \in Rules : r \notin children[p] =>
              /\ children'[p] \subseteq children[p] \cup UNION {Inputs[t] : t \in ts}
              /\ p # r => children'[p] = children[p]
        /\ \A s \in Sources : children'[s] = children[s]
    BY <1>1, ConnectFacts
  <1>3. /\ \A t \in ts : Inputs[t] \subseteq children[r] \cup Sources
        /\ \A a \in Generated : TransformerOf[a] \in ts =>
                 ArtifactDeps[a] \subseteq children[r] \cup Sources /\ Maker(a) = r
    BY NewEdges
  <1>4. /\ new \subseteq Generated /\ new \cap graph = {}
        /\ \A a \in new : TransformerOf[a] \in ts
        /\ \A a \in Generated : TransformerOf[a] \in ts => a \in graph \cup new
    BY DEF NewOutputs
  <1> HIDE DEF new
  <1>5. /\ new \in SUBSET Nodes /\ Sources \in SUBSET Nodes /\ r \notin new /\ new \cap Sources = {}
        /\ Nodes = Sources \cup Generated \cup Rules
    BY <1>1, <1>4, NodeKinds, GraphAssumption DEF Artifacts, Nodes
  <1>6. \A s \in Sources : children'[s] = {}
    BY <1>2 DEF GraphInv, NodesPresent
  <1>7. \A n \in Nodes : children[n] \cap new = {}
    BY <1>4 DEF GraphInv, NodesPresent
  <1>8. ASSUME NEW n \in new PROVE children'[n] \subseteq {r} \cup children[r] \cup Sources
    <2>1. /\ children'[n] = children[n] \cup {r} \cup Inputs[TransformerOf[n]]
                                \cup (ArtifactDeps[n] \cap (graph \cup new))
      BY <1>2, <1>4
    <2>2. children[n] = {}
      BY <1>4 DEF GraphInv, NodesPresent
    <2>3. Inputs[TransformerOf[n]] \subseteq children[r] \cup Sources
          /\ ArtifactDeps[n] \subseteq children[r] \cup Sources
      BY <1>3, <1>4
    <2> QED BY <2>1, <2>2, <2>3
  <1>9. ASSUME NEW n \in Nodes \ new
        PROVE  \/ children'[n] \subseteq children[n] \cup Sources
               \/ r \in children[n] /\ children'[n] \subseteq children[n] \cup new
    <2>1. CASE n \in Generated
      <3>1. CASE TransformerOf[n] \in ts
        <4>1. n \in graph /\ Maker(n) = r
          BY <1>3, <1>4, <2>1, <3>1
        <4>2. Inputs[TransformerOf[n]] \cup ArtifactDeps[n] \cup {r} \subseteq children[n]
          BY <2>1, <4>1 DEF EdgesInv, FixedEdges, Fixed
        <4> QED BY <1>2, <2>1, <3>1, <4>2
      <3> QED BY <1>2, <2>1, <3>1
    <2>2. CASE n \in Rules
      <3>1. CASE r \in children[n]
        BY <1>2, <2>2, <3>1
      <3>2. CASE r \notin children[n] /\ n = r
        <4>1. UNION {Inputs[t] : t \in ts} \subseteq children[r] \cup Sources
          BY <1>3
        <4> QED BY <1>2, <2>2, <3>2, <4>1
      <3>3. CASE r \notin children[n] /\ n # r
        BY <1>2, <2>2, <3>3
      <3> QED BY <3>1, <3>2, <3>3
    <2>3. CASE n \in Sources
      BY <1>2, <2>3
    <2> QED BY <1>5, <2>1, <2>2, <2>3
  <1>10. /\ children' \in [Nodes -> SUBSET Nodes] /\ children \in [Nodes -> SUBSET Nodes]
         /\ r \in Nodes
    BY <1>1, <1>2
  <1>11. \A n \in new : children'[n] \subseteq {r} \cup children[r] \cup Sources
    BY <1>8
  <1>12. \A n \in Nodes \ new :
             \/ children'[n] \subseteq children[n] \cup Sources
             \/ r \in children[n] /\ children'[n] \subseteq children[n] \cup new
    BY <1>9
  <1> QED BY <1>5, <1>6, <1>7, <1>10, <1>11, <1>12, InsertKeepsAcyclic

\* Every step keeps the edges that rules have made.
LEMMA EdgesStep ==
    ASSUME DepsFromChildRules, TypeOK, GraphInv, EdgesInv, [Next]_vars
    PROVE  EdgesInv'
  <1>1. ASSUME UNCHANGED <<graph, children, addedByScanner>> PROVE EdgesInv'
    BY <1>1 DEF EdgesInv, FixedEdges, RulesHaveArtifacts, RulesHaveInputs, Fixed, Maker
  <1>2. ASSUME NEW n \in Generated, VisitsArtifact(n) PROVE EdgesInv'
    <2>1. /\ UNCHANGED graph
          /\ \A m \in Nodes \ Outputs(TransformerOf[n]) : children'[m] = children[m]
      BY <1>2 DEF VisitsArtifact, Takes, VisitKeeps
    <2>2. \A m \in Generated : Fixed(m)' = Fixed(m)
      <3>1. \A m \in Nodes : Needs(m)' = Needs(m)
        BY <1>2, VisitKeepsNeeds
      <3> QED BY <3>1, NodeKinds DEF Needs
    <2>3. \A p \in Rules : children'[p] = children[p]
      BY <2>1, OutputsType, NodeKinds, GraphAssumption DEF Artifacts
    <2>4. FixedEdges'
      BY <2>1, <2>2 DEF EdgesInv, FixedEdges, Maker
    <2>5. RulesHaveArtifacts'
      BY <2>1, <2>3 DEF EdgesInv, RulesHaveArtifacts, Maker
    <2>6. RulesHaveInputs'
      BY <2>1, <2>3, MakerType DEF EdgesInv, RulesHaveInputs, Maker
    <2> QED BY <2>4, <2>5, <2>6 DEF EdgesInv
  <1>3. CASE LeaveRule
    BY <1>3, LeaveApplies, ApplyKeepsEdges
  <1>4. CASE \E done, last \in SUBSET Transformers : RuleThrows(done, last)
    BY <1>4, ThrowApplies, ApplyKeepsEdges
  <1>5. CASE \E o \in BuildOptions : Build(o)
    BY <1>1, <1>5 DEF Build
  <1>6. CASE (\E r \in Rules : EnterRule(r)) \/ (\E n \in Nodes : FinishesNode(n))
             \/ (\E j \in Jobs : FinishesJob(j)) \/ Quiet
    BY <1>1, <1>6 DEF EnterRule, FinishesNode, Takes, FinishesJob, Quiet
  <1>7. ASSUME NEW n \in Generated, (\E x : DelaysFor(n, x)) \/ FinishesVisited(n)
                                   \/ StartsJob(n) \/ VisitThrows(n)
        PROVE  EdgesInv'
    <2>1. VisitsArtifact(n)
      BY <1>7 DEF DelaysFor, FinishesVisited, StartsJob, VisitThrows
    <2> QED BY <1>2, <2>1
  <1> QED BY <1>3, <1>4, <1>5, <1>6, <1>7, GraphStepCases

\* Every step keeps the graph free of cycles; for the steps of scheduleJobs() this is
\* ScansCloseNoCycle.
LEMMA AcyclicStep ==
    ASSUME DepsFromChildRules, TypeOK, GraphInv, EdgesInv, Acyclic(children), [Next]_vars,
           [pc = "schedule" /\ Acyclic(children) => Acyclic(children')]_vars
    PROVE  Acyclic(children')
  <1>1. CASE UNCHANGED vars
    BY <1>1 DEF vars, graphVars
  <1>2. CASE pc = "schedule"
    BY <1>1, <1>2
  <1>3. CASE LeaveRule
    BY <1>3, LeaveApplies, ApplyClosesNoCycle
  <1>4. CASE \E done, last \in SUBSET Transformers : RuleThrows(done, last)
    BY <1>4, ThrowApplies, ApplyClosesNoCycle
  <1>5. CASE pc # "schedule" /\ ~LeaveRule
             /\ ~ \E done, last \in SUBSET Transformers : RuleThrows(done, last)
    <2>1. UNCHANGED children
      BY <1>5, GraphStepCases
         DEF Build, EnterRule, Accept, PopLeaf, FinishesNode, DelaysFor, FinishesVisited,
             StartsJob, VisitThrows, VisitsArtifact, Takes, FinishesJob, Quiet
    <2> QED BY <2>1
  <1> QED BY <1>2, <1>3, <1>4, <1>5

\* The build graph has no cycle, neither from applying rules nor from what scanners find, if
\* every transformer has one output and explicit dependencies come from rules that are applied
\* before: no two nodes wait for each other.
THEOREM GraphStaysAcyclic ==
    ASSUME SingleOutputs, DepsFromChildRules
    PROVE  Spec => [](EdgesInv /\ Acyclic(children))
  <1>1. Init => EdgesInv /\ Acyclic(children)
    <2> SUFFICES ASSUME Init PROVE EdgesInv /\ Acyclic(children)
      OBVIOUS
    <2>1. graph \cap Generated = {}
      BY GraphAssumption DEF Init, Artifacts
    <2>2. EdgesInv
      BY <2>1 DEF EdgesInv, FixedEdges, RulesHaveArtifacts, RulesHaveInputs
    <2> QED BY <2>2, RuleGraphAssumption DEF Init
  <1>2. TypeOK /\ GraphInv /\ EdgesInv /\ Acyclic(children) /\ [Next]_vars
           /\ [pc = "schedule" /\ Acyclic(children) => Acyclic(children')]_vars
           => EdgesInv' /\ Acyclic(children)'
    BY EdgesStep, AcyclicStep
  <1>3. Spec => [][pc = "schedule" /\ Acyclic(children) => Acyclic(children')]_vars
    BY ScansAreSafe DEF ScansCloseNoCycle
  <1> QED BY <1>1, <1>2, <1>3, TypeCorrect, RulesComeFirst, PTL DEF Spec

-------------------------------------------------------------------------------
(***************************************************************************)
(* Nothing is forgotten: what is left unbuilt has a reason.                 *)
(***************************************************************************)

\* In a graph without cycles every set of nodes has a node that waits for no other one in it.
LEMMA SomeNodeIsFirst ==
    ASSUME NEW ch \in [Nodes -> SUBSET Nodes], Acyclic(ch), NEW S \in SUBSET Nodes, S # {}
    PROVE  \E n \in S : ch[n] \cap S = {}
  <1> DEFINE K(n) == Closure({n}, ch)
             sizes == {Cardinality(K(n)) : n \in S}
  <1>1. ASSUME NEW n \in Nodes
        PROVE  /\ n \in K(n) /\ ch[n] \subseteq K(n) /\ K(n) \subseteq Nodes
               /\ \A c \in K(n) : K(c) \subseteq K(n)
    <2>1. n \in K(n) /\ K(n) \subseteq Nodes /\ Closed(K(n), ch)
      BY ClosureIsReachability
    <2> QED BY <2>1, ReachabilityIsTransitive DEF Closed
  <1>2. \A n \in Nodes : \A c \in ch[n] : n \notin K(c)
    BY DEF Acyclic, existsPath
  <1> HIDE DEF K
  <1>3. \A n \in Nodes : IsFiniteSet(K(n)) /\ Cardinality(K(n)) \in Nat
    BY <1>1, GraphAssumption, FS_Subset, FS_CardinalityType
  <1>a. sizes \subseteq Nat /\ sizes # {}
    BY <1>3
  <1>b. \A n \in S : Cardinality(K(n)) \in sizes
    OBVIOUS
  <1>c. \A k \in sizes : \E n \in S : k = Cardinality(K(n))
    OBVIOUS
  <1> HIDE DEF sizes
  <1>4. PICK m \in sizes : \A k \in sizes : m <= k
    BY <1>a, LeastNumber
  <1>5. PICK n \in S : m = Cardinality(K(n))
    BY <1>4, <1>c
  <1>6. ASSUME NEW c \in ch[n], c \in S PROVE FALSE
    <2>1. K(c) \subseteq K(n) /\ K(c) # K(n) /\ c \in Nodes
      BY <1>1, <1>2
    <2>2. Cardinality(K(c)) <= Cardinality(K(n)) /\ Cardinality(K(c)) # Cardinality(K(n))
      BY <1>3, <2>1, FS_Subset
    <2>3. Cardinality(K(n)) <= Cardinality(K(c))
      BY <1>4, <1>5, <1>6, <1>b
    <2> QED BY <1>3, <2>1, <2>2, <2>3
  <1> QED BY <1>6

\* While a build is running, its root nodes have been initialized, and with a node its children.
RootsTouched == state = "Running" => \A n \in Roots : buildState[n] # "Untouched"

\* No node that is initialized has a child that is not.
ChildrenTouched ==
    state = "Running" => \A n \in Nodes : buildState[n] # "Untouched" =>
        \A c \in children[n] : buildState[c] # "Untouched"

\* New nodes are visited when their rule has been applied.
LEMMA LeaveTouches ==
    ASSUME DepsFromChildRules, TypeOK, GraphInv, EdgesInv, RootsTouched, ChildrenTouched, LeaveRule
    PROVE  RootsTouched' /\ ChildrenTouched'
  <1> DEFINE r == currentRule
             ts == TransformersOf(r)
             new == NewOutputs(ts)
  <1>1. PICK v1, v2 \in SUBSET graph' :
              LET bs1 == Touch(v1, buildState)
                  bs2 == Touch(v2, bs1)
              IN  /\ new \subseteq v1
                  /\ \A n \in v1 : \A c \in children'[n] : buildState[c] = "Built" \/ c \in v1
                  /\ \A n \in v2 : \A c \in children'[n] : bs1[c] = "Built" \/ c \in v2
                  /\ buildState' = MarkBuilt({r}, bs2)
    BY LeaveRuleFacts
  <1> DEFINE bs1 == Touch(v1, buildState)
             bs2 == Touch(v2, bs1)
  <1>2. /\ \A n \in Nodes : bs1[n] = IF n \in v1 /\ buildState[n] = "Untouched" THEN "Buildable"
                                     ELSE buildState[n]
        /\ \A n \in Nodes : bs2[n] = IF n \in v2 /\ bs1[n] = "Untouched" THEN "Buildable"
                                     ELSE bs1[n]
        /\ \A n \in Nodes : buildState'[n] = IF n = r THEN "Built" ELSE bs2[n]
    BY <1>1 DEF Touch, MarkBuilt
  <1>3. /\ new \subseteq v1
        /\ \A n \in v1 : \A c \in children'[n] : buildState[c] = "Built" \/ c \in v1
        /\ \A n \in v2 : \A c \in children'[n] : bs1[c] = "Built" \/ c \in v2
    BY <1>1
  <1> HIDE DEF bs1, bs2
  <1>4. /\ AppliesRule(r, ts) /\ r \in Rules /\ ts \in SUBSET TransformersOf(r) /\ pc = "rule"
        /\ children' = ConnectOutputs(r, ts) /\ r \notin children[r]
        /\ graph' = graph \cup new /\ UNCHANGED <<opts, state>>
        /\ buildState[r] = "Buildable"
    <2>1. AppliesRule(r, ts) /\ UNCHANGED state
      BY LeaveApplies DEF LeaveRule, endVars
    <2> QED BY <2>1, RulesAcyclic DEF AppliesRule, GraphInv, RuleHasTurn
  <1>5. /\ children' \in [Nodes -> SUBSET Nodes]
        /\ \A a \in Generated : TransformerOf[a] \in ts =>
              children'[a] = children[a] \cup {r} \cup Inputs[TransformerOf[a]]
                                \cup (ArtifactDeps[a] \cap (graph \cup new))
        /\ \A a \in Generated : TransformerOf[a] \notin ts => children'[a] = children[a]
        /\ \A p \in Rules : r \in children[p] => children'[p] = children[p] \cup new
        /\ \A p \in Rules : r \notin children[p] =>
              /\ children'[p] \subseteq children[p] \cup UNION {Inputs[t] : t \in ts}
              /\ p # r => children'[p] = children[p]
        /\ \A s \in Sources : children'[s] = children[s]
    BY <1>4, ConnectFacts
  <1>6. /\ \A a \in Generated : TransformerOf[a] \in ts => Maker(a) = r /\ a \in graph \cup new
        /\ new \subseteq Generated /\ \A a \in new : TransformerOf[a] \in ts
    BY <1>4, NewEdges DEF NewOutputs
  <1> HIDE DEF new, ts
  <1>7. \A n \in Nodes : \/ buildState[n] # "Untouched" \/ n \in v1 \/ n \in v2
                         => buildState'[n] # "Untouched"
    BY <1>2
  <1>8. \A n \in Nodes : buildState'[n] # "Untouched"
                         => \/ buildState[n] # "Untouched" \/ n \in v1 \/ n \in v2
    BY <1>2, <1>4
  <1>9. RootsTouched'
    <2> SUFFICES ASSUME state' = "Running", NEW n \in Roots' PROVE buildState'[n] # "Untouched"
      BY DEF RootsTouched
    <2>1. CASE n \in graph
      <3>1. n \in Roots /\ n \in Nodes
        BY <1>4, <2>1 DEF Roots, RootNodes, ProductsToBuild, TypeOK, GraphTypeOK
      <3> QED BY <1>4, <1>7, <3>1 DEF RootsTouched
    <2>2. CASE n \in new
      BY <1>3, <1>6, <1>7, <2>2, NodeKinds
    <2> QED BY <1>4, <2>1, <2>2 DEF Roots, RootNodes
  <1>10. ChildrenTouched'
    <2> SUFFICES ASSUME state' = "Running", NEW n \in Nodes, buildState'[n] # "Untouched",
                        NEW c \in children'[n]
                 PROVE  buildState'[c] # "Untouched"
      BY DEF ChildrenTouched
    <2>0. c \in Nodes
      BY <1>5
    <2>1. CASE n \in v1
      BY <1>3, <1>7, <2>0, <2>1
    <2>2. CASE n \in v2
      BY <1>2, <1>3, <1>7, <2>0, <2>2
    <2>3. CASE n \notin v1 /\ n \notin v2
      <3>1. buildState[n] # "Untouched"
        BY <1>8, <2>3
      <3>2. CASE c \in children[n]
        BY <1>4, <1>7, <2>0, <3>1, <3>2 DEF ChildrenTouched
      <3>3. CASE c \notin children[n]
        <4>1. n \notin Generated
          <5> SUFFICES ASSUME n \in Generated PROVE FALSE
            OBVIOUS
          <5>1. TransformerOf[n] \in ts
            BY <1>5, <3>3
          <5>2. Maker(n) = r /\ n \in graph
            BY <1>3, <1>6, <2>3, <5>1
          <5>3. Inputs[TransformerOf[n]] \cup ArtifactDeps[n] \cup {r} \subseteq children[n]
            BY <5>2 DEF EdgesInv, FixedEdges, Fixed
          <5> QED BY <1>5, <3>3, <5>1, <5>3
        <4>2. n \in Rules
          BY <1>5, <3>3, <4>1 DEF Nodes, Artifacts
        <4>3. CASE r \in children[n]
          BY <1>3, <1>5, <1>7, <2>0, <3>3, <4>2, <4>3
        <4>4. CASE r \notin children[n]
          <5>1. n = r /\ \E t \in ts : c \in Inputs[t]
            BY <1>5, <3>3, <4>2, <4>4
          <5>2. PICK t \in ts : c \in Inputs[t]
            BY <5>1
          <5>3. PICK a \in Outputs(t) : a \in Generated /\ TransformerOf[a] = t
            BY RuleGraphAssumption DEF Outputs, ts, TransformersOf
          <5>4. Maker(a) = r /\ a \in graph \cup new
            BY <1>6, <5>3
          <5>5. a \notin graph
            BY <3>3, <5>1, <5>2, <5>3, <5>4 DEF EdgesInv, RulesHaveInputs
          <5>6. a \in v1 /\ c \in children'[a]
            BY <1>3, <1>5, <5>2, <5>3, <5>4, <5>5
          <5> QED BY <1>3, <1>7, <2>0, <5>6
        <4> QED BY <4>3, <4>4
      <3> QED BY <3>2, <3>3
    <2> QED BY <2>1, <2>2, <2>3
  <1> QED BY <1>9, <1>10

\* Every step initializes what it makes reachable.
LEMMA TouchStep ==
    ASSUME SingleOutputs, DepsFromChildRules, TypeOK, TypeOK', GraphInv, SiblingsTogether,
           OneJobPerTransformer, EdgesInv, RootsTouched, ChildrenTouched, [Next]_vars
    PROVE  RootsTouched' /\ ChildrenTouched'
  <1>1. ASSUME NEW o \in BuildOptions, Build(o) PROVE RootsTouched' /\ ChildrenTouched'
    <2> DEFINE roots == RootNodes(o.products)
               reachable == Closure(roots, children)
    <2>1. /\ buildState' = [n \in Nodes |-> IF n \in reachable THEN "Buildable" ELSE "Untouched"]
          /\ roots \subseteq reachable /\ Closed(reachable, children) /\ reachable \subseteq graph
          /\ UNCHANGED <<graph, children>> /\ opts' = o
      BY <1>1, BuildFacts
    <2>2. Roots' = roots
      BY <2>1 DEF Roots, RootNodes, ProductsToBuild
    <2>3. graph \subseteq Nodes /\ children \in [Nodes -> SUBSET Nodes]
      BY DEF TypeOK, GraphTypeOK
    <2> HIDE DEF reachable, roots
    <2>4. RootsTouched'
      BY <2>1, <2>2, <2>3 DEF RootsTouched
    <2>5. ChildrenTouched'
      BY <2>1, <2>3 DEF ChildrenTouched, Closed
    <2> QED BY <2>4, <2>5
  <1>2. CASE LeaveRule
    BY <1>2, LeaveTouches
  <1>3. ASSUME ~ \E o \in BuildOptions : Build(o), UNCHANGED <<graph, opts>>,
               state' = "Running" => state = "Running"
        PROVE  RootsTouched'
    <2>1. StayTouched
      BY <1>3, TouchedStep
    <2>2. Roots' = Roots /\ Roots \subseteq Nodes
      BY <1>3 DEF Roots, RootNodes, ProductsToBuild, TypeOK, GraphTypeOK
    <2> QED BY <1>3, <2>1, <2>2 DEF StayTouched, RootsTouched
  <1>4. ASSUME ~ \E o \in BuildOptions : Build(o), UNCHANGED <<graph, opts>>,
               state' = "Running" => state = "Running",
               \A n \in Nodes : buildState'[n] # "Untouched" =>
                  \/ buildState[n] # "Untouched" /\ \A c \in children'[n] :
                         c \in children[n] \/ buildState'[c] # "Untouched"
                  \/ \A c \in children'[n] : buildState'[c] # "Untouched"
        PROVE  RootsTouched' /\ ChildrenTouched'
    <2>1. StayTouched
      BY <1>4, TouchedStep
    <2>2. \A n \in Nodes : children[n] \subseteq Nodes
      BY DEF TypeOK, GraphTypeOK
    <2>3. ChildrenTouched'
      BY <1>4, <2>1, <2>2 DEF StayTouched, ChildrenTouched
    <2> QED BY <1>3, <1>4, <2>3
  <1>5. ASSUME state' # "Running" PROVE RootsTouched' /\ ChildrenTouched'
    BY <1>5 DEF RootsTouched, ChildrenTouched
  <1>6. CASE \E done, last \in SUBSET Transformers : RuleThrows(done, last)
    BY <1>5, <1>6, ThrowApplies DEF Live
  <1>7. CASE \E n \in Generated : VisitThrows(n)
    BY <1>5, <1>7 DEF VisitThrows, Live
  <1>8. CASE ~ \E o \in BuildOptions : Build(o)
    <2>1. CASE (\E r \in Rules : EnterRule(r)) \/ Quiet
      <3>1. /\ UNCHANGED <<graph, opts, children, buildState>>
            /\ state' = "Running" => state = "Running"
        BY <2>1 DEF EnterRule, Quiet, endVars
      <3> QED BY <1>4, <1>8, <3>1
    <2>2. ASSUME NEW n \in Nodes, FinishesNode(n) PROVE RootsTouched' /\ ChildrenTouched'
      <3>1. /\ UNCHANGED <<graph, opts, children, state>> /\ buildState[n] = "Buildable"
            /\ buildState' = MarkBuilt({n}, buildState)
        BY <2>2 DEF FinishesNode, Takes, GoesOn
      <3>2. \A m \in Nodes : buildState'[m] # "Untouched" => buildState[m] # "Untouched"
        BY <3>1 DEF MarkBuilt
      <3> QED BY <1>4, <1>8, <3>1, <3>2
    <2>3. ASSUME NEW j \in Jobs, FinishesJob(j) PROVE RootsTouched' /\ ChildrenTouched'
      <3>1. /\ UNCHANGED <<graph, opts, children>> /\ processingJobs[j] \in Transformers
            /\ state' = "Running" => state = "Running"
            /\ buildState' = MarkBuilt(Outputs(processingJobs[j]), buildState)
        BY <2>3 DEF FinishesJob, FinishTransformer
      <3>2. \A o \in Outputs(processingJobs[j]) : buildState[o] = "Building"
        BY <3>1, GraphAssumption DEF JobsProcessing, OneJobPerTransformer
      <3>3. \A m \in Nodes : buildState'[m] # "Untouched" => buildState[m] # "Untouched"
        BY <3>1, <3>2 DEF MarkBuilt
      <3> QED BY <1>4, <1>8, <3>1, <3>3
    <2>4. ASSUME NEW n \in Generated, VisitsArtifact(n), GoesOn
          PROVE  /\ UNCHANGED <<graph, opts, state>> /\ Outputs(TransformerOf[n]) = {n}
                 /\ n \in Nodes /\ buildState[n] = "Buildable"
                 /\ \A m \in Nodes \ {n} : children'[m] = children[m]
      <3>1. Outputs(TransformerOf[n]) = {n}
        BY MakerType DEF SingleOutputs
      <3> QED BY <2>4, <3>1, NodeKinds DEF VisitsArtifact, Takes, GoesOn, VisitKeeps
    <2>5. ASSUME NEW n \in Generated, FinishesVisited(n) \/ StartsJob(n)
          PROVE  RootsTouched' /\ ChildrenTouched'
      <3>1. VisitsArtifact(n) /\ GoesOn /\ AddsOnlyBuilt(n) /\ BuiltStays
        BY <2>5, VisitReadies DEF FinishesVisited, StartsJob
      <3>2. \A m \in Nodes \ {n} : buildState'[m] = buildState[m]
        BY <2>4, <2>5, <3>1
           DEF FinishesVisited, StartsJob, FinishTransformer, MarkBuilt, MarkBuilding
      <3>3. ASSUME NEW c \in children'[n] PROVE c \in children[n] \/ buildState'[c] # "Untouched"
        <4>1. c \in Nodes
          BY <2>4, <3>1 DEF TypeOK, GraphTypeOK
        <4>2. c \in children[n] \/ buildState[c] = "Built"
          BY <2>4, <3>1 DEF AddsOnlyBuilt
        <4> QED BY <3>1, <4>1, <4>2 DEF BuiltStays
      <3>4. \A m \in Nodes : buildState'[m] # "Untouched" =>
               buildState[m] # "Untouched" /\ \A c \in children'[m] :
                  c \in children[m] \/ buildState'[c] # "Untouched"
        BY <2>4, <3>1, <3>2, <3>3
      <3> QED BY <1>4, <1>8, <2>4, <3>1, <3>4
    <2>6. ASSUME NEW n \in Generated, NEW x, DelaysFor(n, x) PROVE RootsTouched' /\ ChildrenTouched'
      <3> DEFINE from == Unbuilt(x, children')
                 visited == Visited(from, buildState, children')
      <3>1. /\ VisitsArtifact(n) /\ GoesOn /\ x \in Outputs(TransformerOf[n])
            /\ buildState' = Touch(visited, buildState)
        BY <2>6 DEF DelaysFor
      <3>2. x = n /\ n \in Nodes /\ children' \in [Nodes -> SUBSET Nodes]
        BY <2>4, <3>1 DEF TypeOK, GraphTypeOK
      <3>3. /\ from \subseteq visited
            /\ \A m \in visited : \A c \in children'[m] : buildState[c] = "Built" \/ c \in visited
        <4>1. from \in SUBSET Nodes
          BY <3>2 DEF Unbuilt
        <4> QED BY <3>2, <4>1, VisitedFacts
      <3> HIDE DEF visited
      <3>4. \A m \in Nodes : /\ buildState[m] # "Untouched" \/ m \in visited
                                 => buildState'[m] # "Untouched"
                             /\ buildState'[m] # "Untouched"
                                 => buildState[m] # "Untouched" \/ m \in visited
        BY <3>1 DEF Touch
      <3>5. \A c \in children'[n] : buildState'[c] # "Untouched"
        <4>1. \A c \in children'[n] : buildState[c] = "Untouched" => c \in from
          BY <3>2 DEF Unbuilt
        <4> QED BY <3>2, <3>3, <3>4, <4>1
      <3>6. ASSUME NEW m \in Nodes, m # n, buildState'[m] # "Untouched"
            PROVE  \/ buildState[m] # "Untouched" /\ children'[m] = children[m]
                   \/ \A c \in children'[m] : buildState'[c] # "Untouched"
        <4>1. CASE m \in visited
          BY <3>2, <3>3, <3>4, <4>1
        <4>2. CASE m \notin visited
          BY <2>4, <3>1, <3>4, <3>6, <4>2
        <4> QED BY <4>1, <4>2
      <3> QED BY <1>4, <1>8, <2>4, <3>1, <3>5, <3>6
    <2> QED BY <1>2, <1>6, <1>7, <1>8, <2>1, <2>2, <2>3, <2>5, <2>6, GraphStepCases
  <1> QED BY <1>1, <1>8

\* A step that leaves alone what a build reports, its jobs and the request to cancel it.
KeepsReport ==
    /\ UNCHANGED <<state, errors, failed, jobRun, processingJobs, opts>>
    /\ canceled => canceled'
    /\ pc' \in {"done", "finishing"} => UNCHANGED <<pc, graph, children, buildState, leaves>>
    /\ \A n \in Nodes : buildState'[n] = "Building" => buildState[n] = "Building"

\* handleError() reports an exception.
Throws ==
    /\ pc \in {"schedule", "rule", "loop"}
    /\ "thrown" \in errors' /\ errors \subseteq errors'
    /\ state' # "Idle" => errors' \subseteq errors \cup {"thrown"}
    /\ state' # "Running" /\ pc' # "finishing"
    /\ \A j \in Jobs : jobRun'[j] = "error" <=> jobRun[j] = "error"
    /\ UNCHANGED <<failed, opts>>

\* The executor has started the commands of the transformer of n.
StartsCommands(n, j) ==
    /\ n \in Generated /\ j \in Jobs /\ jobRun[j] = "idle"
    /\ UNCHANGED <<state, errors, failed, opts, canceled>>
    /\ pc' = "schedule"
    /\ buildState' = MarkBuilding(n)
    /\ processingJobs' = [processingJobs EXCEPT ![j] = TransformerOf[n]]
    /\ \E r \in {"ok", "running"} : jobRun' = [jobRun EXCEPT ![j] = r]

\* handleError() keeps the results of the jobs.
LEMMA HandleErrorThrows ==
    ASSUME NEW bs, NEW busy, NEW run \in [Jobs -> {"idle", "running", "canceled", "ok", "error"}],
           \A j \in Jobs : run[j] = "error" <=> jobRun[j] = "error",
           HandleError(bs, errors, busy, run), UNCHANGED <<failed, opts>>,
           pc \in {"schedule", "rule", "loop"}
    PROVE  Throws
  <1>1. \A j \in Jobs : Canceled(run)[j] = "error" <=> run[j] = "error"
    BY DEF Canceled
  <1> QED BY <1>1 DEF HandleError, Finish, Throws

\* Marking nodes as built and initializing others starts nothing.
LEMMA MarkStartsNothing ==
    ASSUME NEW S, NEW bs
    PROVE  /\ \A n \in Nodes : MarkBuilt(S, bs)[n] = "Building" => bs[n] = "Building"
           /\ \A n \in Nodes : Touch(S, bs)[n] = "Building" => bs[n] = "Building"
  BY DEF MarkBuilt, Touch

\* What a step can do to the report of a build.
LEMMA ReportStepCases ==
    ASSUME TypeOK, JobAccounting, [Next]_vars
    PROVE  \/ KeepsReport
           \/ Throws
           \/ \E n, j : StartsCommands(n, j)
           \/ EndSchedule \/ PostedFinish
           \/ \E j \in Jobs : JobFailed(j) \/ \E written : JobSucceeded(j, written)
           \/ \E j \in Jobs : CommandStep(j)
           \/ checkForCancellation
           \/ \E o \in BuildOptions : Build(o)
  <1> USE DEF graphVars, ruleVars, nodeVars, endVars, jobVars, worldVars, ghostVars
  <1>0. jobRun \in [Jobs -> {"idle", "running", "canceled", "ok", "error"}]
    BY DEF TypeOK, JobTypeOK
  <1>1. CASE ScheduleStep
    <2> USE DEF Accept, PopLeaf
    <2>1. CASE \E n \in Nodes : SkipLeaf(n) \/ DelayLeaf(n) \/ AbortOnUnknownLimits(n)
      BY <2>1 DEF SkipLeaf, DelayLeaf, AbortOnUnknownLimits, KeepsReport
    <2>2. CASE \E n \in Nodes : FinishLeaf(n)
      BY <2>2, MarkStartsNothing DEF FinishLeaf, KeepsReport
    <2>3. CASE \E r \in Rules : SkipRule(r)
      BY <2>3, MarkStartsNothing DEF SkipRule, KeepsReport
    <2>4. CASE \E r \in Rules : EnterRule(r)
      BY <2>4 DEF EnterRule, KeepsReport
    <2>5. ASSUME NEW n \in Generated, ArtifactStep(n)
          PROVE  KeepsReport \/ Throws \/ \E j : StartsCommands(n, j)
      <3> USE DEF Considered, VisitArtifact
      <3>1. ASSUME NEW x, NEW before, DelayedByRescue(n, x, before) PROVE KeepsReport
        BY <3>1, MarkStartsNothing DEF DelayedByRescue, KeepsReport
      <3>2. CASE CheckThrows(n)
        BY <1>0, <3>2, HandleErrorThrows DEF CheckThrows
      <3>3. CASE FinishWithoutRunning(n)
        BY <3>3, MarkStartsNothing DEF FinishWithoutRunning, FinishTransformer, KeepsReport
      <3> USE DEF MustRun, Scanned
      <3>4. ASSUME NEW x, NEW before, NEW deps, DelayedByScan(n, x, before, deps)
            PROVE  KeepsReport
        BY <3>4, MarkStartsNothing DEF DelayedByScan, KeepsReport
      <3>5. ASSUME NEW deps, FinishInsteadOfRunning(n, deps) PROVE KeepsReport
        BY <3>5, MarkStartsNothing DEF FinishInsteadOfRunning, FinishTransformer, KeepsReport
      <3>6. ASSUME NEW deps, NEW j \in availableJobs, RunTransformer(n, deps, j)
            PROVE  StartsCommands(n, j)
        <4>1. j \in Jobs /\ jobRun[j] = "idle"
          BY DEF JobAccounting, JobsProcessing, TypeOK, JobTypeOK
        <4>2. \E r \in {"ok", "running"} : jobRun' = [jobRun EXCEPT ![j] = r]
          BY <3>6 DEF RunTransformer
        <4> QED BY <3>6, <4>1, <4>2 DEF RunTransformer, StartsCommands
      <3>7. ASSUME NEW deps, RunThrows(n, deps) PROVE Throws
        BY <1>0, <3>7, HandleErrorThrows DEF RunThrows
      <3> QED BY <2>5, <3>1, <3>2, <3>3, <3>4, <3>5, <3>6, <3>7 DEF ArtifactStep, ScanStep
    <2> QED BY <1>1, <2>1, <2>2, <2>3, <2>4, <2>5 DEF ScheduleStep
  <1>2. CASE LeaveRule
    <2>1. PICK v1, v2 : buildState' = MarkBuilt({currentRule}, Touch(v2, Touch(v1, buildState)))
      BY <1>2 DEF LeaveRule
    <2>2. \A n \in Nodes : buildState'[n] = "Building" => buildState[n] = "Building"
      <3> DEFINE bs1 == Touch(v1, buildState)
                 bs2 == Touch(v2, bs1)
      <3>1. \A n \in Nodes : bs1[n] = "Building" => buildState[n] = "Building"
        BY MarkStartsNothing
      <3>2. \A n \in Nodes : bs2[n] = "Building" => bs1[n] = "Building"
        BY MarkStartsNothing
      <3>3. \A n \in Nodes : buildState'[n] = "Building" => bs2[n] = "Building"
        BY <2>1, MarkStartsNothing
      <3> QED BY <3>1, <3>2, <3>3
    <2> QED BY <1>2, <2>2 DEF LeaveRule, KeepsReport
  <1>3. ASSUME NEW done, NEW last, RuleThrows(done, last) PROVE Throws
    BY <1>0, <1>3, HandleErrorThrows DEF RuleThrows
  <1>4. ASSUME NEW j \in Jobs, NEW written, OutputMissing(j, written) PROVE Throws
    <2> DEFINE run == [jobRun EXCEPT ![j] = "idle"]
    <2>1. /\ run \in [Jobs -> {"idle", "running", "canceled", "ok", "error"}]
          /\ \A i \in Jobs : run[i] = "error" <=> jobRun[i] = "error"
      BY <1>0, <1>4 DEF OutputMissing
    <2> HIDE DEF run
    <2>2. /\ HandleError(buildState, errors, JobsProcessing \ {j}, run)
          /\ UNCHANGED <<failed, opts>> /\ pc = "loop"
      BY <1>4 DEF OutputMissing, ReleaseJob, run
    <2> QED BY <2>1, <2>2, HandleErrorThrows
  <1>5. CASE RequestCancel \/ ReportResult \/ (\E s \in MayEdit : EditSource(s))
             \/ ChangeProperties
    BY <1>5 DEF RequestCancel, ReportResult, EditSource, ChangeProperties, KeepsReport
  <1>6. CASE UNCHANGED vars
    BY <1>6 DEF vars, KeepsReport
  <1> QED BY <1>1, <1>2, <1>3, <1>4, <1>5, <1>6
          DEF Next, ExecutorStep, RuleStep, JobFinishedStep, UserStep, Rest

\* Why a build may leave something unbuilt.
Excused == failed \/ canceled \/ "thrown" \in errors

\* A failure is noticed, jobs are canceled for a reason only, and nothing is reported as unbuilt
\* before the end.
FailInv ==
    /\ \A j \in Jobs : jobRun[j] = "error" => failed
    /\ state = "Canceling" => Excused
    /\ state # "Idle" => "unbuilt" \notin errors
    /\ failed /\ ~opts.keepGoing => "job" \in errors \/ \E j \in Jobs : jobRun[j] = "error"

\* What is being built has a job, or its job has failed.
BuildingInv ==
    state = "Running" => \A n \in Nodes : buildState[n] = "Building" =>
        failed \/ (n \in Generated /\ \E j \in Jobs : processingJobs[j] = TransformerOf[n])

\* doBuild() posts its call of finish() when the queue is empty.
FinishingInv == pc = "finishing" => leaves = NoLeaves

\* Canceling jobs changes no result.
LEMMA CanceledErrors ==
    ASSUME NEW run
    PROVE  \A j \in Jobs : Canceled(run)[j] = "error" <=> run[j] = "error"
  BY DEF Canceled

\* finish() adds at most the two errors it looks for.
LEMMA FinishErrors ==
    ASSUME NEW bs, NEW errs, NEW c, Finish(bs, errs, c)
    PROVE  /\ state' = "Idle" /\ pc' = "done" /\ errs \subseteq errors'
           /\ "unbuilt" \in errors' => \/ "unbuilt" \in errs
                                       \/ \E n \in Roots : bs[n] # "Built"
  BY DEF Finish

\* finishJob() for a job with the result ok.
LEMMA ContinueFacts ==
    ASSUME TypeOK, NEW j \in Jobs, NEW ok \in BOOLEAN, NEW bs, NEW errs,
           ContinueOrEnd(j, ok, bs, errs)
    PROVE  /\ errs \subseteq errors' /\ (state' # "Idle" => errors' = errs)
           /\ \A i \in Jobs \ {j} : jobRun'[i] = "error" <=> jobRun[i] = "error"
           /\ jobRun'[j] # "error"
           /\ state' # "Running" => state = "Canceling" \/ canceled \/ (~ok /\ ~opts.keepGoing)
           /\ state' = "Running" => state = "Running" /\ pc' = "schedule"
           /\ pc' # "finishing" /\ (pc' = "done" <=> state' = "Idle")
  <1> DEFINE run == [jobRun EXCEPT ![j] = "idle"]
  <1>1. /\ \A i \in Jobs \ {j} : run[i] = jobRun[i]
        /\ run[j] = "idle"
    BY DEF TypeOK, JobTypeOK
  <1>2. jobRun' = Canceled(run) \/ jobRun' = run
    BY DEF ContinueOrEnd
  <1> HIDE DEF run
  <1>3. /\ \A i \in Jobs \ {j} : jobRun'[i] = "error" <=> jobRun[i] = "error"
        /\ jobRun'[j] # "error"
    <2>1. \A i \in Jobs : jobRun'[i] = "error" <=> run[i] = "error"
      BY <1>2, CanceledErrors
    <2> QED BY <1>1, <2>1
  <1>4. \A c : Finish(bs, errs, c) => state' = "Idle" /\ pc' = "done" /\ errs \subseteq errors'
    BY FinishErrors
  <1> QED BY <1>3, <1>4 DEF ContinueOrEnd, TypeOK, ControlTypeOK

\* No step breaks these.
LEMMA FailStep ==
    ASSUME TypeOK, JobAccounting, NoJobOutlivesItsBuild, FailInv, [Next]_vars
    PROVE  FailInv'
  <1> USE DEF FailInv, Excused
  <1>1. CASE KeepsReport
    BY <1>1 DEF KeepsReport
  <1>2. CASE Throws
    BY <1>2 DEF Throws, NoJobOutlivesItsBuild, TypeOK, ControlTypeOK
  <1>3. ASSUME NEW n, NEW j, StartsCommands(n, j) PROVE FailInv'
    BY <1>3 DEF StartsCommands, TypeOK, JobTypeOK
  <1>4. ASSUME EndSchedule \/ PostedFinish PROVE FailInv'
    <2>1. UNCHANGED <<jobRun, failed, opts, canceled>>
      BY <1>4 DEF EndSchedule, PostedFinish, jobVars, ghostVars, worldVars
    <2>2. \/ UNCHANGED <<state, errors>>
          \/ state' = "Idle" /\ errors \subseteq errors'
      BY <1>4, FinishErrors DEF EndSchedule, PostedFinish, WaitForEvents
    <2> QED BY <2>1, <2>2
  <1>5. ASSUME NEW j \in Jobs, JobFailed(j) PROVE FailInv'
    <2> DEFINE errs == IF opts.keepGoing THEN errors ELSE errors \cup {"job"}
    <2>1. /\ jobRun[j] = "error" /\ UNCHANGED <<failed, opts, canceled>>
          /\ ContinueOrEnd(j, FALSE, buildState, errs) /\ pc = "loop"
      BY <1>5 DEF JobFailed, ReleaseJob, ghostVars, worldVars
    <2>2. /\ errs \subseteq errors' /\ (state' # "Idle" => errors' = errs)
          /\ \A i \in Jobs \ {j} : jobRun'[i] = "error" <=> jobRun[i] = "error"
          /\ jobRun'[j] # "error"
      BY <2>1, ContinueFacts
    <2>3. "unbuilt" \notin errors /\ failed
      BY <2>1 DEF NoJobOutlivesItsBuild
    <2> QED BY <2>1, <2>2, <2>3
  <1>6. ASSUME NEW j \in Jobs, NEW written, JobSucceeded(j, written) PROVE FailInv'
    <2> DEFINE bs == MarkBuilt(Outputs(processingJobs[j]), buildState)
    <2>1. /\ jobRun[j] = "ok" /\ UNCHANGED <<failed, opts, canceled>>
          /\ ContinueOrEnd(j, TRUE, bs, errors) /\ pc = "loop"
      BY <1>6 DEF JobSucceeded, ReleaseJob, TakeTimestamps
    <2>2. /\ errors \subseteq errors' /\ (state' # "Idle" => errors' = errors)
          /\ \A i \in Jobs \ {j} : jobRun'[i] = "error" <=> jobRun[i] = "error"
          /\ jobRun'[j] # "error"
          /\ state' # "Running" => state = "Canceling" \/ canceled
      BY <2>1, ContinueFacts
    <2>3. "unbuilt" \notin errors
      BY <2>1 DEF NoJobOutlivesItsBuild
    <2> QED BY <2>1, <2>2, <2>3
  <1>7. ASSUME NEW j \in Jobs, CommandStep(j) PROVE FailInv'
    <2>1. PICK result \in {"ok", "error"} : CommandsEnd(j, result)
      BY <1>7 DEF CommandStep
    <2>2. /\ jobRun' = [jobRun EXCEPT ![j] = result] /\ UNCHANGED <<state, errors, opts, canceled>>
          /\ failed' = (failed \/ result = "error")
          /\ jobRun[j] \in {"running", "canceled"}
      BY <2>1 DEF CommandsEnd, endVars, worldVars
    <2>3. /\ \A i \in Jobs \ {j} : jobRun'[i] = jobRun[i]
          /\ jobRun'[j] = result
      BY <2>2 DEF TypeOK, JobTypeOK
    <2>4. CASE result = "error"
      BY <2>2, <2>3, <2>4
    <2>5. CASE result = "ok"
      BY <2>2, <2>3, <2>5
    <2> QED BY <2>4, <2>5
  <1>8. CASE checkForCancellation
    <2>1. /\ jobRun' = Canceled(jobRun) /\ UNCHANGED <<errors, opts, failed, canceled>>
          /\ canceled /\ state = "Running"
      BY <1>8 DEF checkForCancellation, worldVars, ghostVars
    <2> QED BY <2>1, CanceledErrors
  <1>9. ASSUME NEW o \in BuildOptions, Build(o) PROVE FailInv'
    BY <1>9 DEF Build
  <1> QED BY <1>1, <1>2, <1>3, <1>4, <1>5, <1>6, <1>7, <1>8, <1>9, ReportStepCases

\* A node stays in state Building only as long as its job works, or after the job has failed.
LEMMA BuildingStep ==
    ASSUME TypeOK, JobAccounting, FailInv, OneJobPerTransformer, BuildingInv, [Next]_vars
    PROVE  BuildingInv'
  <1> USE DEF BuildingInv
  <1>1. CASE KeepsReport
    BY <1>1 DEF KeepsReport
  <1>2. CASE Throws
    BY <1>2 DEF Throws
  <1>3. ASSUME NEW n, NEW j, StartsCommands(n, j) PROVE BuildingInv'
    <2>1. /\ n \in Generated /\ j \in Jobs /\ jobRun[j] = "idle" /\ UNCHANGED <<state, failed>>
          /\ buildState' = MarkBuilding(n)
          /\ processingJobs' = [processingJobs EXCEPT ![j] = TransformerOf[n]]
      BY <1>3 DEF StartsCommands
    <2>2. /\ processingJobs[j] = NoTransformer /\ processingJobs'[j] = TransformerOf[n]
          /\ \A i \in Jobs \ {j} : processingJobs'[i] = processingJobs[i]
      BY <2>1 DEF TypeOK, JobTypeOK
    <2>3. \A m \in Generated : TransformerOf[m] # NoTransformer
      BY GraphAssumption
    <2>4. \A m \in Outputs(TransformerOf[n]) :
             m \in Generated /\ TransformerOf[m] = TransformerOf[n]
      BY <2>1, MakerType
    <2>5. \A m \in Nodes : buildState'[m] = "Building" =>
             buildState[m] = "Building" \/ m \in Outputs(TransformerOf[n])
      BY <2>1 DEF MarkBuilding
    <2>6. \A m \in Generated : (\E i \in Jobs : processingJobs[i] = TransformerOf[m])
             => \E i \in Jobs : processingJobs'[i] = TransformerOf[m]
      BY <2>2, <2>3
    <2> QED BY <2>1, <2>2, <2>4, <2>5, <2>6
  <1>4. CASE EndSchedule \/ PostedFinish
    BY <1>4 DEF EndSchedule, PostedFinish, WaitForEvents, Finish, jobVars, ghostVars, nodeVars
  <1>5. ASSUME NEW j \in Jobs, JobFailed(j) PROVE BuildingInv'
    BY <1>5 DEF JobFailed, ghostVars, FailInv
  <1>6. ASSUME NEW j \in Jobs, NEW written, JobSucceeded(j, written) PROVE BuildingInv'
    <2> DEFINE t == processingJobs[j]
               bs == MarkBuilt(Outputs(t), buildState)
    <2>1. /\ UNCHANGED failed /\ buildState' = bs /\ ContinueOrEnd(j, TRUE, bs, errors)
          /\ processingJobs' = [processingJobs EXCEPT ![j] = NoTransformer]
      BY <1>6 DEF JobSucceeded, ReleaseJob, FinishTransformer
    <2>2. state' = "Running" => state = "Running"
      BY <2>1, ContinueFacts
    <2>3. \A i \in Jobs \ {j} : processingJobs'[i] = processingJobs[i]
      BY <2>1 DEF TypeOK, JobTypeOK
    <2>4. \A m \in Nodes : buildState'[m] = "Building" =>
             buildState[m] = "Building" /\ m \notin Outputs(t)
      BY <2>1 DEF MarkBuilt
    <2>5. \A m \in Generated : m \notin Outputs(t) => TransformerOf[m] # t
      BY DEF Outputs
    <2> HIDE DEF t
    <2>6. \A m \in Generated : (\E i \in Jobs : processingJobs[i] = TransformerOf[m])
             /\ m \notin Outputs(t) => \E i \in Jobs : processingJobs'[i] = TransformerOf[m]
      BY <2>3, <2>5 DEF t
    <2> QED BY <2>1, <2>2, <2>4, <2>6
  <1>7. ASSUME NEW j \in Jobs, CommandStep(j) PROVE BuildingInv'
    BY <1>7 DEF CommandStep, CommandsEnd, endVars, nodeVars
  <1>8. CASE checkForCancellation
    BY <1>8 DEF checkForCancellation
  <1>9. ASSUME NEW o \in BuildOptions, Build(o) PROVE BuildingInv'
    <2>1. \A n \in Nodes : buildState'[n] # "Building"
      BY <1>9 DEF Build, PreparedStates
    <2> QED BY <2>1
  <1> QED BY <1>1, <1>2, <1>3, <1>4, <1>5, <1>6, <1>7, <1>8, <1>9, ReportStepCases

\* Nothing is queued between giving up and the posted call of finish().
LEMMA FinishingStep ==
    ASSUME TypeOK, JobAccounting, FinishingInv, [Next]_vars
    PROVE  FinishingInv'
  <1> USE DEF FinishingInv
  <1>1. CASE KeepsReport
    BY <1>1 DEF KeepsReport
  <1>2. CASE Throws
    BY <1>2 DEF Throws
  <1>3. CASE \E n, j : StartsCommands(n, j)
    BY <1>3 DEF StartsCommands
  <1>4. CASE EndSchedule
    BY <1>4 DEF EndSchedule, WaitForEvents, Finish
  <1>5. CASE PostedFinish
    BY <1>5 DEF PostedFinish, Finish
  <1>6. ASSUME NEW j \in Jobs, JobFailed(j) PROVE FinishingInv'
    BY <1>6, ContinueFacts DEF JobFailed
  <1>7. ASSUME NEW j \in Jobs, NEW written, JobSucceeded(j, written) PROVE FinishingInv'
    BY <1>7, ContinueFacts DEF JobSucceeded
  <1>8. CASE \E j \in Jobs : CommandStep(j)
    BY <1>8 DEF CommandStep, CommandsEnd
  <1>9. CASE checkForCancellation
    BY <1>9 DEF checkForCancellation, nodeVars
  <1>10. CASE \E o \in BuildOptions : Build(o)
    BY <1>10 DEF Build
  <1> QED BY <1>1, <1>2, <1>3, <1>4, <1>5, <1>6, <1>7, <1>8, <1>9, <1>10, ReportStepCases

\* Everything that the products consist of is built.
AllBuilt == \A n \in Closure(Roots, children) : buildState[n] = "Built"

\* A build that is over has built everything, unless it has an excuse.
EndInv == pc = "done" => Excused \/ (AllBuilt /\ "unbuilt" \notin errors)

\* If nothing is queued and no job is left, nothing is left to be built: among the nodes that
\* are not built there would be one that waits for none of the others, since there are no cycles.
LEMMA NothingLeft ==
    ASSUME TypeOK, Acyclic(children), RootsTouched, ChildrenTouched, ReadyInv, BuildingInv,
           state = "Running", pc # "rule", ~failed, JobsProcessing = {},
           \A n \in Nodes : ~Queued(n)
    PROVE  AllBuilt /\ \A n \in Roots : buildState[n] = "Built"
  <1> DEFINE S == {n \in Nodes : buildState[n] \notin {"Untouched", "Built"}}
             T == {n \in Nodes : buildState[n] # "Untouched"}
  <1>1. /\ children \in [Nodes -> SUBSET Nodes] /\ Roots \subseteq Nodes
        /\ \A n \in Nodes : buildState[n] \in {"Untouched", "Buildable", "Building", "Built"}
    BY DEF TypeOK, GraphTypeOK, NodeTypeOK, BuildStates, Roots, RootNodes
  <1>2. \A n \in Nodes : buildState[n] # "Building"
    <2>1. \A n \in Generated : TransformerOf[n] # NoTransformer
      BY GraphAssumption
    <2> QED BY <2>1 DEF BuildingInv, JobsProcessing
  <1>3. S = {}
    <2> SUFFICES ASSUME S # {} PROVE FALSE
      OBVIOUS
    <2>1. S \in SUBSET Nodes
      OBVIOUS
    <2>2. PICK n \in S : children[n] \cap S = {}
      <3> HIDE DEF S
      <3> QED BY <1>1, <2>1, SomeNodeIsFirst
    <2>3. n \in Nodes /\ buildState[n] = "Buildable"
      BY <1>1, <1>2
    <2>4. \A c \in children[n] : buildState[c] = "Built"
      BY <1>1, <2>2, <2>3 DEF ChildrenTouched
    <2>5. Ready(n)
      BY <2>3, <2>4 DEF Ready, allChildrenBuilt
    <2> QED BY <2>3, <2>5 DEF ReadyInv
  <1>4. \A n \in T : buildState[n] = "Built"
    BY <1>3
  <1>5. Roots \subseteq T
    BY <1>1 DEF RootsTouched
  <1>6. Closed(T, children)
    BY <1>1 DEF Closed, ChildrenTouched
  <1> HIDE DEF T, S
  <1>7. Closure(Roots, children) \subseteq T
    BY <1>1, <1>5, <1>6, ClosureIsReachability
  <1> QED BY <1>4, <1>5, <1>7 DEF AllBuilt

\* So the build may end.
LEMMA EndStep ==
    ASSUME TypeOK, JobAccounting, NoJobOutlivesItsBuild, Acyclic(children), RootsTouched,
           ChildrenTouched, ReadyInv, DelayedInv, BuildingInv, FinishingInv, FailInv, EndInv,
           [Next]_vars
    PROVE  EndInv'
  <1> USE DEF EndInv, Excused
  <1>1. CASE KeepsReport
    <2> SUFFICES ASSUME pc' = "done" PROVE EndInv'
      OBVIOUS
    <2>1. /\ UNCHANGED <<pc, graph, children, buildState, opts, errors, failed>>
          /\ canceled => canceled'
      BY <1>1 DEF KeepsReport
    <2>2. AllBuilt' <=> AllBuilt
      BY <2>1 DEF AllBuilt, Roots, RootNodes, ProductsToBuild
    <2> QED BY <2>1, <2>2
  <1>2. CASE Throws
    BY <1>2 DEF Throws
  <1>3. CASE \E n, j : StartsCommands(n, j)
    BY <1>3 DEF StartsCommands
  <1>4. ASSUME EndSchedule \/ PostedFinish, pc' = "done" PROVE EndInv'
    <2>1. /\ Finish(buildState, errors, explicitlyCanceled) /\ JobsProcessing = {}
          /\ pc \in {"schedule", "finishing"}
          /\ UNCHANGED <<graph, children, buildState, opts, failed, canceled>>
      BY <1>4 DEF EndSchedule, PostedFinish, WaitForEvents, graphVars, nodeVars, worldVars,
         ghostVars, NoJobOutlivesItsBuild
    <2>2. \A n \in Nodes : ~Queued(n)
      <3>1. CASE EndSchedule
        <4>1. WithDelayedLeaves = NoLeaves
          BY <1>4, <3>1 DEF EndSchedule, WaitForEvents
        <4>2. \A n \in Nodes : /\ WithDelayedLeaves[n] = leaves[n] + delayedLeaves[n]
                               /\ NoLeaves[n] = 0
          BY DEF WithDelayedLeaves, NoLeaves
        <4> QED BY <4>1, <4>2 DEF Queued
      <3>2. CASE PostedFinish
        <4>1. leaves = NoLeaves /\ delayedLeaves = NoLeaves
          BY <3>2 DEF PostedFinish, FinishingInv, DelayedInv
        <4> QED BY <4>1 DEF Queued, NoLeaves
      <3> QED BY <1>4, <3>1, <3>2
    <2>3. state \in {"Running", "Canceling"} /\ "unbuilt" \notin errors
      BY <2>1 DEF NoJobOutlivesItsBuild, FailInv, TypeOK, ControlTypeOK
    <2>4. /\ errors \subseteq errors'
          /\ "unbuilt" \in errors' => \/ "unbuilt" \in errors
                                      \/ \E n \in Roots : buildState[n] # "Built"
      BY <2>1, FinishErrors
    <2>5. CASE Excused
      BY <2>1, <2>4, <2>5
    <2>6. CASE ~Excused
      <3>1. state = "Running" /\ ~failed
        BY <2>3, <2>6 DEF FailInv
      <3>2. AllBuilt /\ \A n \in Roots : buildState[n] = "Built"
        BY <2>1, <2>2, <3>1, NothingLeft
      <3>3. AllBuilt'
        BY <2>1, <3>2 DEF AllBuilt, Roots, RootNodes, ProductsToBuild
      <3> QED BY <2>3, <2>4, <3>2, <3>3
    <2> QED BY <2>5, <2>6
  <1>5. ASSUME NEW j \in Jobs, JobFailed(j) PROVE EndInv'
    BY <1>5 DEF JobFailed, ghostVars, FailInv
  <1>6. ASSUME NEW j \in Jobs, NEW written, JobSucceeded(j, written) PROVE EndInv'
    <2> DEFINE bs == MarkBuilt(Outputs(processingJobs[j]), buildState)
    <2>1. UNCHANGED <<failed, canceled>> /\ ContinueOrEnd(j, TRUE, bs, errors)
      BY <1>6 DEF JobSucceeded, TakeTimestamps
    <2>2. /\ errors \subseteq errors' /\ (pc' = "done" <=> state' = "Idle")
          /\ state' # "Running" => state = "Canceling" \/ canceled
      BY <2>1, ContinueFacts
    <2> QED BY <2>1, <2>2 DEF FailInv
  <1>7. CASE \E j \in Jobs : CommandStep(j)
    BY <1>7 DEF CommandStep, CommandsEnd
  <1>8. CASE checkForCancellation
    BY <1>8 DEF checkForCancellation
  <1>9. CASE \E o \in BuildOptions : Build(o)
    BY <1>9 DEF Build
  <1> QED BY <1>1, <1>2, <1>3, <1>4, <1>5, <1>6, <1>7, <1>8, <1>9, ReportStepCases

\* What is known of a build at its end.
BuildEndInv ==
    /\ RootsTouched /\ ChildrenTouched
    /\ ReadyInv /\ DelayedInv /\ BuildingInv /\ FinishingInv
    /\ FailInv /\ EndInv

\* All of this holds throughout.
LEMMA BuildEndInvHolds ==
    ASSUME SingleOutputs, DepsFromChildRules
    PROVE  Spec => []BuildEndInv
  <1>1. Init => BuildEndInv
    BY DEF Init, BuildEndInv, RootsTouched, ChildrenTouched, ReadyInv, DelayedInv, BuildingInv,
       FinishingInv, FailInv, EndInv
  <1>2. TypeOK /\ TypeOK' /\ JobAccounting /\ NoJobOutlivesItsBuild /\ SiblingsTogether
           /\ OneJobPerTransformer /\ GraphInv /\ EdgesInv /\ Acyclic(children) /\ BuildEndInv
           /\ [Next]_vars => BuildEndInv'
    BY TouchStep, ReadyStep, DelayedStep, BuildingStep, FinishingStep, FailStep, EndStep
       DEF BuildEndInv
  <1> QED BY <1>1, <1>2, TypeCorrect, JobsAccounted, JobsEndWithTheirBuild, OutputsBuiltTogether,
             TransformersRunOnce, RulesComeFirst, GraphStaysAcyclic, PTL DEF Spec

\* Nothing is dropped: products remain unbuilt only if a job has failed, something was thrown or
\* the user has canceled, whatever the scanners find and in whatever order jobs and leaves are
\* handled, if every transformer has one output and explicit dependencies come from rules that
\* are applied before.
THEOREM NothingIsDropped ==
    ASSUME SingleOutputs, DepsFromChildRules
    PROVE  Spec => []UnbuiltForAReason
  <1>1. BuildEndInv => UnbuiltForAReason
    BY DEF BuildEndInv, EndInv, Excused, UnbuiltForAReason
  <1> QED BY <1>1, BuildEndInvHolds, PTL

\* A build that reports no error has built everything and no command has failed in it, if nobody
\* has asked it to stop and no command was allowed to fail.
THEOREM SuccessIsComplete ==
    ASSUME SingleOutputs, DepsFromChildRules
    PROVE  Spec => [](~canceled /\ (opts.keepGoing => ~failed) => SuccessMeansBuilt)
  <1>1. TypeOK /\ NoJobOutlivesItsBuild /\ BuildEndInv
           => (~canceled /\ (opts.keepGoing => ~failed) => SuccessMeansBuilt)
    <2> SUFFICES ASSUME TypeOK, NoJobOutlivesItsBuild, BuildEndInv, ~canceled,
                        opts.keepGoing => ~failed, pc = "done", errors = {}
                 PROVE  AllBuilt /\ ~failed
      BY DEF SuccessMeansBuilt, AllBuilt
    <2>1. \A j \in Jobs : jobRun[j] = "idle"
      BY DEF NoJobOutlivesItsBuild, JobsProcessing, TypeOK, JobTypeOK
    <2>2. ~failed
      BY <2>1 DEF BuildEndInv, FailInv
    <2> QED BY <2>2 DEF BuildEndInv, EndInv, Excused
  <1> QED BY <1>1, BuildEndInvHolds, TypeCorrect, JobsEndWithTheirBuild, PTL
===============================================================================
