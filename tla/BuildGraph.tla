------------------------------ MODULE BuildGraph ------------------------------
(***************************************************************************)
(* The build graph of a qbs project (buildgraph.cpp, buildgraphnode.h,      *)
(* artifact.h): source files, generated artifacts and rule nodes, joined by *)
(* edges p -> c that mean "c must be built before p".  This module holds    *)
(* the static description of a project, as CONSTANTS, and the operators on  *)
(* the graph that the executor is built from.                               *)
(*                                                                          *)
(* Edges are a function ch from nodes to sets of nodes, build states a      *)
(* function bs, and the executor's priority queue of leaves a function lv   *)
(* from nodes to the number of times the node is queued: the same node may  *)
(* be queued more than once.                                                *)
(***************************************************************************)
EXTENDS Naturals, FiniteSets

CONSTANTS
    Sources,        \* artifacts of type SourceFile
    Generated,      \* artifacts of type Generated that rules can create
    Rules,          \* rule nodes
    Transformers,   \* one per application of a rule to its inputs
    Products,
    NoRule, NoTransformer,
    TransformerOf,  \* Artifact::transformer, for generated artifacts
    RuleOf,         \* Transformer::rule, as the node of that rule
    Inputs,         \* Transformer::inputs
    ProductOf,      \* BuildGraphNode::product
    RuleChildren    \* edges between rule nodes, from the product's rule graph

Artifacts == Sources \cup Generated
Nodes == Artifacts \cup Rules

BuildStates == {"Untouched", "Buildable", "Building", "Built"}

ASSUME GraphAssumption ==
    /\ Sources \cap Generated = {}
    /\ Artifacts \cap Rules = {}
    /\ IsFiniteSet(Nodes) /\ IsFiniteSet(Transformers)
    /\ NoRule \notin Rules
    /\ NoTransformer \notin Transformers
    /\ TransformerOf \in [Generated -> Transformers]
    /\ RuleOf \in [Transformers -> Rules]
    /\ Inputs \in [Transformers -> SUBSET Artifacts]
    /\ ProductOf \in [Nodes -> Products]
    /\ RuleChildren \in [Rules -> SUBSET Rules]
    /\ \A a \in Generated : ProductOf[a] = ProductOf[RuleOf[TransformerOf[a]]]

Outputs(t) == {a \in Generated : TransformerOf[a] = t}
TransformersOf(r) == {t \in Transformers : RuleOf[t] = r}
OutputsOf(r) == {a \in Generated : RuleOf[TransformerOf[a]] = r}

\* The product of a transformer is the product of its outputs (Transformer::product()).
ProductOfTransformer(t) == ProductOf[RuleOf[t]]

(***************************************************************************)
(* The nodes that can be reached from the set from by following ch.         *)
(***************************************************************************)
Closure(from, ch) ==
    LET depth == Cardinality(Nodes)
        step[i \in 0..depth] ==
            IF i = 0 THEN from ELSE UNION {{n} \cup ch[n] : n \in step[i-1]}
    IN  step[depth]

existsPath(u, v, ch) == v \in Closure({u}, ch)

\* Mutant: edges are added without a look at the other ones.
ConnectableAnyway(u, vs, ch) == vs

\* safeConnect refuses an edge that would close a cycle.
SafelyConnectable(u, vs, ch) == {v \in vs : ~existsPath(v, u, ch)}

\* What CycleDetector looks for: a node that its own children lead to.
Acyclic(ch) == \A n \in Nodes : \A c \in ch[n] : ~existsPath(c, n, ch)

(***************************************************************************)
(* What applying rules relies on.  A transformer is only created for rule    *)
(* applications with outputs (doApply()).  Its inputs come from rules that  *)
(* its own rule waits for: RuleGraph::build() connects a rule to the rules  *)
(* that produce its inputs, connectRulesToDependencies() does so for other  *)
(* products; excludedInputs, which can take such an edge away, are not      *)
(* modelled.  CreateRuleNodes throws for rules that depend on each other.   *)
(***************************************************************************)
ASSUME RuleGraphAssumption ==
    /\ \A t \in Transformers : Outputs(t) # {}
    /\ \A t \in Transformers : \A i \in Inputs[t] \cap Generated :
          RuleOf[TransformerOf[i]] \in RuleChildren[RuleOf[t]]
    /\ Acyclic([n \in Nodes |-> IF n \in Rules THEN RuleChildren[n] ELSE {}])

allChildrenBuilt(n, bs, ch) == \A c \in ch[n] : bs[c] = "Built"

(***************************************************************************)
(* Executor::updateLeaves: a depth-first walk from a set of nodes through   *)
(* the children that are not built.  It makes untouched nodes buildable and *)
(* queues the visited nodes that have no unbuilt child.  Each visited node  *)
(* is queued at most once per walk.                                         *)
(***************************************************************************)
Visited(from, bs, ch) ==
    Closure(from, [n \in Nodes |-> {c \in ch[n] : bs[c] # "Built"}])

\* Mutant: nodes that appear during the build are not initialized.
TouchNothing(visited, bs) == bs

Touch(visited, bs) ==
    [n \in Nodes |-> IF n \in visited /\ bs[n] = "Untouched" THEN "Buildable" ELSE bs[n]]

Push(lv, nodes) == [n \in Nodes |-> IF n \in nodes THEN lv[n] + 1 ELSE lv[n]]

LeavesAmong(visited, bs, ch) == {n \in Nodes : n \in visited /\ allChildrenBuilt(n, bs, ch)}

(***************************************************************************)
(* Executor::finishNode, for the nodes of a set one after the other: they   *)
(* become built, and every buildable parent whose last unbuilt child was    *)
(* among them is queued.                                                    *)
(***************************************************************************)
MarkBuilt(nodes, bs) == [n \in Nodes |-> IF n \in nodes THEN "Built" ELSE bs[n]]

\* Mutant: parents are looked at before the nodes are marked.
ParentsReadyBefore(nodes, bs, ch) ==
    {p \in Nodes : /\ ch[p] \cap nodes # {}
                   /\ p \notin nodes
                   /\ bs[p] = "Buildable"
                   /\ allChildrenBuilt(p, bs, ch)}

ReadyParents(nodes, bs, ch) ==
    {p \in Nodes : /\ ch[p] \cap nodes # {}
                   /\ p \notin nodes
                   /\ bs[p] = "Buildable"
                   /\ allChildrenBuilt(p, MarkBuilt(nodes, bs), ch)}
===============================================================================
