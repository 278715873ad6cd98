------------------------------ MODULE ProductGraph ------------------------------
(***************************************************************************)
(* The products of a project, over many edits of the project file.           *)
(*                                                                           *)
(* A setup reads the project file anew: ModuleLoader sorts the products by    *)
(* their dependencies, ProjectResolver decides which of them are enabled and *)
(* refuses cycles, and BuildGraphLoader carries over the build data of the   *)
(* products that have not changed, sets up the others from scratch, and      *)
(* rescues what is known of their artifacts.  A build then orders the        *)
(* products.                                                                 *)
(*                                                                           *)
(* The build graph of a product is one node here, and an edge stands for the *)
(* edges of connectRulesToDependencies() between the rules of two products.  *)
(* Lists of products are kept in the order of their numbers.  What else can  *)
(* be wrong with a project file is the business of the module loader.        *)
(***************************************************************************)
EXTENDS Naturals, FiniteSets, Sequences, SequencesExt, TLC

CONSTANTS
    N,          \* the number of products
    Optional,   \* the products whose Depends items say "required: false"
    Edited,     \* the products whose files or rules change without an edit of their dependencies
    MaxEdits    \* bound on the edits of the project file

Products == 1 .. N

ASSUME ProductsAssumption == N \in Nat /\ Optional \cup Edited \subseteq Products /\ MaxEdits \in Nat

VARIABLES
    description,    \* the project file: its products, whether their condition holds, and what they use
    project,        \* the TopLevelProject
    result,         \* how the last setup has ended; "none" if the project file is newer
    priority,       \* the build priorities that the last build has set, 0 if none
    edits

vars == <<description, project, result, priority, edits>>

Description == [present : SUBSET Products, on : SUBSET Products, uses : [Products -> SUBSET Products]]

\* nodes: the products with a build graph.  results: those with anything known about generated
\* artifacts, in the graph or as rescuable data.  moved: those whose build data the last setup
\* has carried over.
Project == [present : SUBSET Products, enabled : SUBSET Products, deps : [Products -> SUBSET Products],
            sorted : Seq(Products), nodes : SUBSET Products, results : SUBSET Products,
            moved : SUBSET Products, edges : SUBSET (Products \X Products)]

NoProject == [present |-> {}, enabled |-> {}, deps |-> [p \in Products |-> {}], sorted |-> <<>>,
              nodes |-> {}, results |-> {}, moved |-> {}, edges |-> {}]

TypeOK ==
    /\ description \in Description
    /\ project.present \in SUBSET Products /\ project.enabled \subseteq project.present
    /\ project.deps \in [Products -> SUBSET project.present]
    /\ Range(project.sorted) = project.present /\ IsInjective(project.sorted)
    /\ {project.nodes, project.results, project.moved} \subseteq SUBSET project.present
    /\ project.edges \subseteq project.nodes \X project.nodes
    /\ result \in {"none", "ok", "error", "abort"}
    /\ priority \in [Products -> 0 .. N]
    /\ edits \in 0 .. MaxEdits

\* Any products that all exist and are enabled, whatever they use.
Init ==
    /\ \E uses \in [Products -> SUBSET Products] :
           /\ \A p \in Products : p \notin uses[p]
           /\ description = [present |-> Products, on |-> Products, uses |-> uses]
    /\ project = NoProject
    /\ result = "none"
    /\ priority = [p \in Products |-> 0]
    /\ edits = 0

\* Somebody changes the condition of a product, or what it uses, or adds or removes it, with
\* the uses of it.
Edit ==
    /\ edits < MaxEdits /\ edits' = edits + 1
    /\ \E p \in Products :
           \/ description' = [description EXCEPT !.on = SymDiff(@, {p})]
           \/ \E d \in Products \ {p} : description' = [description EXCEPT !.uses[p] = SymDiff(@, {d})]
           \/ description' = [description EXCEPT !.present = SymDiff(@, {p}),
                                                 !.uses = [q \in Products |-> @[q] \ {p}]]
    /\ result' = "none"
    /\ UNCHANGED <<project, priority>>

----------------------------------------------------------------------------
(* The order of products.                                                  *)

Ordered(S) == SetToSortSeq(S, <)

\* traverse() of ProductSortByDependencies and of ProductPrioritySetter: dependencies first.
RECURSIVE Traverse(_, _, _)
Traverse(deps, p, acc) ==
    IF p \in acc.seen THEN acc
    ELSE LET below == FoldLeft(LAMBDA a, d : Traverse(deps, d, a),
                               [acc EXCEPT !.seen = @ \cup {p}], Ordered(deps[p]))
         IN  [below EXCEPT !.sorted = Append(@, p)]

\* apply() of the two: they start with the products that no other one depends on.
SortByDependencies(deps, products) ==
    LET roots == products \ UNION {deps[p] : p \in products}
    IN  FoldLeft(LAMBDA a, p : Traverse(deps, p, a), [seen |-> {}, sorted |-> <<>>],
                 Ordered(roots)).sorted

\* ProductSortByDependencies::findCycle()
RECURSIVE FindCycle(_, _, _)
FindCycle(deps, p, path) ==
    p \in path \/ \E d \in deps[p] : FindCycle(deps, d, path \cup {p})

----------------------------------------------------------------------------
(* ProjectResolver::resolveProductDependencies()                           *)

\* What the products of the project file use.
Used(p) == IF p \in description.present THEN description.uses[p] \cap description.present ELSE {}

Enabled == description.present \cap description.on

\* getProductDependencies(): a disabled product is left out unless it is required.
Dependencies(p) ==
    IF p \in Enabled THEN {d \in Used(p) : d \in Enabled \/ p \notin Optional} ELSE {}

\* hasDependencyCycle().  acc: whether a cycle was found, and the products checked so far.
RECURSIVE HasDependencyCycle(_, _, _, _)
HasDependencyCycle(deps, p, branch, acc) ==
    IF p \in branch THEN [acc EXCEPT !.cycle = TRUE]
    ELSE IF p \in acc.checked THEN acc
    ELSE FoldLeft(LAMBDA a, d : IF a.cycle THEN a
                                ELSE HasDependencyCycle(deps, d, branch \cup {p}, a),
                  [acc EXCEPT !.checked = @ \cup {p}], Ordered(deps[p]))

\* Mutant: only products that depend on themselves are noticed.
CyclicRoots(deps) == \E p \in Products : p \in deps[p]

Cyclic(deps) ==
    FoldLeft(LAMBDA a, p : IF a.cycle THEN a ELSE HasDependencyCycle(deps, p, {}, a),
             [cycle |-> FALSE, checked |-> {}], Ordered(description.present)).cycle

\* gatherDependencies(): the dependencies of p and of everything below.
RECURSIVE GatherDependencies(_, _, _)
GatherDependencies(deps, p, map) ==
    IF p \in DOMAIN map THEN map
    ELSE FoldLeft(LAMBDA m, d : LET below == GatherDependencies(deps, d, m)
                                IN  [below EXCEPT ![p] = @ \cup {d} \cup below[d]],
                  map @@ (p :> {}), Ordered(deps[p]))

AllDependencies(deps) ==
    FoldLeft(LAMBDA m, p : GatherDependencies(deps, p, m), <<>>, Ordered(description.present))

\* Mutant: only direct dependencies count.
StillEnabledDirectly(deps) == {p \in Enabled : deps[p] \subseteq Enabled}

\* Mutant: dependencies count whether they are required or not.
StillEnabledStrictly(deps) ==
    LET all == AllDependencies([p \in Products |-> IF p \in Enabled THEN Used(p) ELSE {}])
    IN  {p \in Enabled : all[p] \subseteq Enabled}

\* The products that stay enabled: none of their dependencies is disabled.
StillEnabled(deps) ==
    LET all == AllDependencies(deps)
    IN  {p \in Enabled : all[p] \subseteq Enabled}

----------------------------------------------------------------------------
(* BuildGraphLoader::trackProjectChanges()                                 *)

\* checkProductForChangedDependency().  acc: the changed products, those seen to be unchanged,
\* and the result.
RECURSIVE CheckProductForChangedDependency(_, _)
CheckProductForChangedDependency(p, acc) ==
    IF p \in acc.seen THEN [acc EXCEPT !.found = FALSE]
    ELSE IF p \in acc.changed THEN [acc EXCEPT !.found = TRUE]
    ELSE LET below == FoldLeft(LAMBDA a, d : IF a.found THEN a
                                             ELSE CheckProductForChangedDependency(d, a),
                               [acc EXCEPT !.found = FALSE], Ordered(project.deps[p]))
         IN  IF below.found THEN [below EXCEPT !.changed = @ \cup {p}]
             ELSE [below EXCEPT !.seen = @ \cup {p}]

\* Mutant: the list is used as it is.
ChangedAsFound(changed) == changed

\* makeChangedProductsListComplete()
MakeComplete(changed) ==
    FoldLeft(LAMBDA a, p : CheckProductForChangedDependency(p, a),
             [changed |-> changed, seen |-> {}, found |-> FALSE], Ordered(project.present)).changed

\* hasProductFileChanged() and checkAllProductsForChanges().  touched: the products whose rules
\* or files differ.
ChangedProducts(enabled, deps, touched) ==
    MakeComplete({p \in project.present \cap description.present :
                      \/ (p \in enabled) # (p \in project.enabled)
                      \/ deps[p] # project.deps[p]
                      \/ p \in touched})

\* Mutant: the nodes stay connected to their children.
DisconnectedFromParents(edges, products) == {e \in edges : e[2] \notin products}

\* onProductRemoved(): the nodes of the products are disconnected.
Disconnected(edges, products) == {e \in edges : e[1] \notin products /\ e[2] \notin products}

\* Mutant: rescuable data that was not used yet is not passed on.
RescuedResultsOfNodes(changed) == project.results \cap project.nodes \cap changed \cap description.present

\* rescueOldBuildData(), also for products that are disabled now.
RescuedResults(changed) == project.results \cap changed \cap description.present

\* Mutant: only the dependents of fresh products are connected.
ConnectedDependents(enabled, deps, fresh) ==
    {e \in enabled \X enabled : e[2] \in deps[e[1]] /\ e[1] \notin fresh /\ e[2] \in fresh}

\* BuildDataResolver::resolveProductBuildDataForExistingProject(): the fresh products are
\* connected to their dependencies, and products that are not fresh to fresh ones.
Connected(enabled, deps, fresh) ==
    {e \in enabled \X enabled : e[2] \in deps[e[1]] /\ (e[1] \in fresh \/ e[2] \in fresh)}

\* The build data of unchanged products is moved to the new ones.  What is left of the new
\* products is resolved, what is left of the old ones does not exist any more.
TrackProjectChanges(enabled, deps, sorted, touched) ==
    LET changed == ChangedProducts(enabled, deps, touched)
        moved == (project.present \cap enabled) \ changed
        fresh == enabled \ (moved \cap (project.nodes \cup project.results))
        removed == project.present \ description.present
        kept == Disconnected(project.edges, (changed \cap description.present) \cup removed)
    IN  [present |-> description.present, enabled |-> enabled, deps |-> deps, sorted |-> sorted,
         nodes |-> (project.nodes \cap moved) \cup fresh,
         results |-> (project.results \cap moved) \cup RescuedResults(changed),
         moved |-> moved, edges |-> kept \cup Connected(enabled, deps, fresh)]

----------------------------------------------------------------------------
(* The jobs.                                                               *)

SetupEnds(how) == result' = how /\ UNCHANGED project

\* A project is set up, again if there is one.  relaxed: ErrorHandlingMode::Relaxed.
Setup(relaxed, touched) ==
    LET used == [p \in Products |-> Used(p)]
        sorted == SortByDependencies(used, description.present)
        unsorted == Len(sorted) < Cardinality(description.present)
        deps == [p \in Products |-> Dependencies(p)]
        cyclic == Cyclic(deps)
        enabled == StillEnabled(deps)
        new == TrackProjectChanges(enabled, deps, sorted, touched)
    IN  /\ result = "none" \/ touched # {}
        /\ UNCHANGED <<description, priority, edits>>
        /\ \/ /\ unsorted
              /\ SetupEnds(IF \E p \in description.present : FindCycle(used, p, {}) THEN "error" ELSE "abort")
           \/ /\ ~unsorted
              /\ cyclic \/ (~relaxed /\ \E p \in Products : ~(deps[p] \subseteq Enabled))
              /\ SetupEnds("error")
           \/ /\ ~unsorted /\ ~cyclic
              /\ relaxed \/ \A p \in Products : deps[p] \subseteq Enabled
              \* QBS_CHECK of resolveProductBuildData() and of the sanity checks
              /\ IF new.enabled \subseteq new.nodes /\ \A p \in new.enabled : deps[p] \subseteq new.enabled
                 THEN result' = "ok" /\ project' = new
                 ELSE SetupEnds("abort")

\* Mutant: the counter goes up.
PrioritiesUpwards(sorted) ==
    [p \in Products |-> IF p \in Range(sorted)
                        THEN CHOOSE i \in 1 .. Len(sorted) : sorted[i] = p ELSE 0]

\* ProductPrioritySetter: the counter goes down, for products with build data only.
Priorities(sorted) ==
    [p \in Products |-> IF p \in Range(sorted)
                        THEN N + 1 - CHOOSE i \in 1 .. Len(sorted) : sorted[i] = p ELSE 0]

\* A build of all products, as far as it is about products.
Build ==
    /\ project.enabled # {}
    /\ priority' = Priorities(SelectSeq(SortByDependencies(project.deps, project.present),
                                        LAMBDA p : p \in project.nodes \cup project.results))
    /\ project' = [project EXCEPT !.results = @ \cup project.enabled]
    /\ UNCHANGED <<description, result, edits>>

Touched == {{}} \cup {{p} : p \in Edited}

Next ==
    \/ Edit
    \/ \E relaxed \in BOOLEAN, touched \in Touched : Setup(relaxed, touched)
    \/ Build

Spec == Init /\ [][Next]_vars

----------------------------------------------------------------------------
(* Properties.                                                             *)

\* The QBS_CHECKs of the sorter, the build data resolver and the sanity checks never fail:
\* whatever is enabled, disabled, added, removed or used by what, an unsorted product is due to
\* a cycle that findCycle() finds, and an enabled product has build data and enabled
\* dependencies.
NeverAborts == result # "abort"

\* The build graph has the edges of the dependencies, no more and no fewer, after any number of
\* setups in which some products keep their nodes and others get new ones.
EdgesMatchDependencies ==
    project.edges = {e \in project.enabled \X project.enabled : e[2] \in project.deps[e[1]]}

\* Build data is only carried over together with that of all dependencies: otherwise the rules
\* that take their artifacts would be applied again, "and no rescue data being available".
MovedWithDependencies ==
    \A p \in project.moved : project.deps[p] \subseteq project.moved

\* The build graph agrees with the project it was made for, in what was carried over from the
\* last one and in what is new.
GraphMatchesProject == TypeOK /\ EdgesMatchDependencies /\ MovedWithDependencies

Reachable(deps, p) ==
    LET reach[n \in 1 .. N] == IF n = 1 THEN deps[p]
                               ELSE reach[n - 1] \cup UNION {deps[q] : q \in reach[n - 1]}
    IN  reach[N]

\* A project with cyclic dependencies between products that are enabled is never accepted: what
\* ProductSortByDependencies lets pass, hasDependencyCycle() finds.
NoCycles == \A p \in project.present : p \notin Reachable(project.deps, p)

\* The products that are not enabled although their condition holds depend on one whose
\* condition does not, however many products are in between; all others are enabled.
DisabledForAReason ==
    result = "ok" =>
        \A p \in project.present \cap description.on :
            p \in project.enabled <=> Reachable(project.deps, p) \subseteq description.on

\* A product is built with a higher priority than those that depend on it.
DependenciesHavePriority ==
    [][\A p \in project.enabled : \A d \in project.deps[p] :
           priority' # priority => priority'[d] > priority'[p]]_vars

\* What is known of a product's artifacts survives every setup after which the product is
\* enabled, also if it was disabled by the setup before.
ResultsAreKept ==
    [][project.results \cap project'.enabled \subseteq project'.results]_vars
=============================================================================
