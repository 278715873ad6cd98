------------------------------ MODULE GraphProofs ------------------------------
(***************************************************************************)
(* Reachability in the build graph, for every graph, and what it means for  *)
(* the executor.                                                            *)
(*                                                                          *)
(* Closure() walks as many steps as the graph has nodes.  That this finds   *)
(* everything, and that the walk is defined at all, are inductions on the   *)
(* number of steps.  They are done by a least counterexample: the set of    *)
(* numbers of steps for which the claim fails has no least element, and so  *)
(* is empty (LeastNumber).                                                  *)
(***************************************************************************)
EXTENDS ExecutorProofs, WellFoundedInduction

\* A set of numbers that is not empty has a least element.
LEMMA LeastNumber ==
    ASSUME NEW T, T \subseteq Nat, T # {}
    PROVE  \E m \in T : \A k \in T : m <= k
  <1>1. IsWellFoundedOn(OpToRel(<, Nat), Nat)
    BY NatLessThanWellFounded
  <1>2. PICK m \in T : \A k \in T : ~(<<k, m>> \in OpToRel(<, Nat))
    BY <1>1, WFMin
  <1>3. \A k \in T : ~(k < m)
    BY <1>2 DEF OpToRel
  <1> QED BY <1>3

\* f lists what can be reached in up to d steps.
Reaches(f, d, from, ch) ==
    f = [i \in 0..d |-> IF i = 0 THEN from ELSE UNION {{n} \cup ch[n] : n \in f[i-1]}]

\* The walk has a value for every number of steps: Closure() does define a function.
LEMMA StepsExist ==
    ASSUME NEW from, NEW ch, NEW d \in Nat
    PROVE  \E f : Reaches(f, d, from, ch)
  <1> DEFINE T == {k \in Nat : ~ \E f : Reaches(f, k, from, ch)}
  <1>1. SUFFICES ASSUME T # {} PROVE FALSE
    OBVIOUS
  <1>2. PICK m \in T : \A k \in T : m <= k
    BY <1>1, LeastNumber
  <1>3. CASE m = 0
    <2>1. Reaches([i \in 0..0 |-> from], 0, from, ch)
      BY DEF Reaches
    <2> QED BY <1>2, <1>3, <2>1
  <1>4. CASE m # 0
    <2>1. m - 1 \in Nat /\ m - 1 \notin T
      BY <1>2, <1>4
    <2>2. PICK f : Reaches(f, m - 1, from, ch)
      BY <2>1
    <2> DEFINE g == [i \in 0..m |-> IF i = 0 THEN from
                                    ELSE UNION {{n} \cup ch[n] : n \in f[i-1]}]
    <2>3. ASSUME NEW i \in 0..(m-1) PROVE g[i] = f[i]
      <3> DEFINE F(k) == IF k = 0 THEN from ELSE UNION {{n} \cup ch[n] : n \in f[k-1]}
      <3>1. f = [k \in 0..(m-1) |-> F(k)]
        BY <2>2 DEF Reaches
      <3>2. g = [k \in 0..m |-> F(k)]
        OBVIOUS
      <3>3. i \in 0..m
        BY <2>1
      <3> HIDE DEF F, g
      <3>4. f[i] = F(i)
        BY <3>1
      <3>5. g[i] = F(i)
        BY <3>2, <3>3
      <3> QED BY <3>4, <3>5
    <2>4. \A i \in 0..m : i # 0 => i - 1 \in 0..(m-1)
      BY <2>1
    <2>5. g = [i \in 0..m |-> IF i = 0 THEN from ELSE UNION {{n} \cup ch[n] : n \in g[i-1]}]
      <3>2. g = [i \in 0..m |-> IF i = 0 THEN from ELSE UNION {{n} \cup ch[n] : n \in f[i-1]}]
        OBVIOUS
      <3> HIDE DEF g
      <3>1. \A i \in 0..m : i # 0 => g[i-1] = f[i-1]
        BY <2>3, <2>4
      <3>3. \A i \in 0..m : (IF i = 0 THEN from ELSE UNION {{n} \cup ch[n] : n \in f[i-1]})
                          = (IF i = 0 THEN from ELSE UNION {{n} \cup ch[n] : n \in g[i-1]})
        BY <3>1
      <3> QED BY <3>2, <3>3
    <2> QED BY <1>2, <2>5 DEF Reaches
  <1> QED BY <1>3, <1>4

\* Closure() is where the walk has got to after as many steps as there are nodes.
LEMMA ClosureSteps ==
    ASSUME NEW from, NEW ch, Cardinality(Nodes) \in Nat
    PROVE  \E f : Reaches(f, Cardinality(Nodes), from, ch)
                  /\ Closure(from, ch) = f[Cardinality(Nodes)]
  <1> DEFINE d == Cardinality(Nodes)
             step[i \in 0..d] == IF i = 0 THEN from ELSE UNION {{n} \cup ch[n] : n \in step[i-1]}
  <1>1. Closure(from, ch) = step[d]
    BY DEF Closure
  <1>2. \E f : Reaches(f, d, from, ch)
    BY StepsExist
  <1>3. Reaches(step, d, from, ch)
    <2>1. step = CHOOSE f : Reaches(f, d, from, ch)
      BY DEF Reaches
    <2> HIDE DEF step
    <2> QED BY <1>2, <2>1
  <1> QED BY <1>1, <1>3

\* One step of the walk.
LEMMA StepFacts ==
    ASSUME NEW f, NEW d \in Nat, NEW from, NEW ch, Reaches(f, d, from, ch)
    PROVE  /\ f[0] = from
           /\ \A i \in 0..d : i # 0 =>
                 /\ i - 1 \in 0..d
                 /\ f[i] = UNION {{n} \cup ch[n] : n \in f[i-1]}
  <1> DEFINE F(k) == IF k = 0 THEN from ELSE UNION {{n} \cup ch[n] : n \in f[k-1]}
  <1>1. f = [k \in 0..d |-> F(k)]
    BY DEF Reaches
  <1>2. ASSUME NEW i \in 0..d PROVE f[i] = F(i)
    <2> HIDE DEF F
    <2> QED BY <1>1
  <1>3. 0 \in 0..d /\ \A i \in 0..d : i # 0 => i - 1 \in 0..d
    OBVIOUS
  <1>4. f[0] = from
    BY <1>2, <1>3
  <1>5. ASSUME NEW i \in 0..d, i # 0 PROVE f[i] = UNION {{n} \cup ch[n] : n \in f[i-1]}
    BY <1>2, <1>5
  <1> QED BY <1>3, <1>4, <1>5

\* A set of nodes that no edge leaves.
Closed(S, ch) == \A n \in S : ch[n] \subseteq S

\* The walk does not leave a closed set.
LEMMA StepsStay ==
    ASSUME NEW f, NEW d \in Nat, NEW from, NEW ch, Reaches(f, d, from, ch),
           NEW S, from \subseteq S, Closed(S, ch)
    PROVE  \A i \in 0..d : f[i] \subseteq S
  <1> DEFINE T == {i \in 0..d : ~(f[i] \subseteq S)}
  <1>1. SUFFICES ASSUME T # {} PROVE FALSE
    OBVIOUS
  <1>2. PICK m \in T : \A k \in T : m <= k
    <2>1. T \subseteq Nat OBVIOUS
    <2> QED BY <1>1, <2>1, LeastNumber
  <1>3. m # 0
    BY StepFacts
  <1>4. m - 1 \in 0..d /\ m - 1 \notin T
    BY <1>2, <1>3
  <1>5. f[m-1] \subseteq S
    BY <1>4
  <1>6. f[m] = UNION {{n} \cup ch[n] : n \in f[m-1]}
    BY <1>3, StepFacts
  <1>7. f[m] \subseteq S
    BY <1>5, <1>6 DEF Closed
  <1> QED BY <1>7

\* The walk only adds nodes.
LEMMA StepsGrow ==
    ASSUME NEW f, NEW d \in Nat, NEW from, NEW ch, Reaches(f, d, from, ch)
    PROVE  \A i \in 0..d : i # 0 => f[i-1] \subseteq f[i] /\ \A n \in f[i-1] : ch[n] \subseteq f[i]
  <1> SUFFICES ASSUME NEW i \in 0..d, i # 0
               PROVE  f[i-1] \subseteq f[i] /\ \A n \in f[i-1] : ch[n] \subseteq f[i]
    OBVIOUS
  <1>1. f[i] = UNION {{n} \cup ch[n] : n \in f[i-1]}
    BY StepFacts
  <1> QED BY <1>1

\* Once the walk has found a closed set it has ended.
LEMMA StepsEnd ==
    ASSUME NEW f, NEW d \in Nat, NEW from, NEW ch, Reaches(f, d, from, ch),
           NEW i \in 0..d, Closed(f[i], ch)
    PROVE  f[d] = f[i]
  <1> DEFINE T == {k \in 0..d : i <= k /\ f[k] # f[i]}
  <1>1. SUFFICES ASSUME T # {} PROVE FALSE
    OBVIOUS
  <1>2. PICK m \in T : \A k \in T : m <= k
    <2>1. T \subseteq Nat OBVIOUS
    <2> QED BY <1>1, <2>1, LeastNumber
  <1>3. m # i /\ m \in 0..d /\ i <= m /\ m # 0
    OBVIOUS
  <1>4. m - 1 \in 0..d /\ i <= m - 1 /\ m - 1 \notin T
    BY <1>2, <1>3
  <1>5. f[m-1] = f[i]
    BY <1>4
  <1>6. f[m] = UNION {{n} \cup ch[n] : n \in f[m-1]}
    BY <1>3, StepFacts
  <1>7. f[m] = f[i]
    BY <1>5, <1>6 DEF Closed
  <1> QED BY <1>7

\* Closure() is reachability: the least set of nodes that contains from and that no edge leaves.
\* Walking as many steps as there are nodes is enough, since every step that is not the last one
\* finds another node.
THEOREM ClosureIsReachability ==
    ASSUME NEW from \in SUBSET Nodes, NEW ch \in [Nodes -> SUBSET Nodes]
    PROVE  /\ from \subseteq Closure(from, ch)
           /\ Closure(from, ch) \subseteq Nodes
           /\ Closed(Closure(from, ch), ch)
           /\ \A S : from \subseteq S /\ Closed(S, ch) => Closure(from, ch) \subseteq S
  <1> DEFINE d == Cardinality(Nodes)
  <1>1. IsFiniteSet(Nodes) /\ d \in Nat
    BY GraphAssumption, FS_CardinalityType
  <1>2. PICK f : Reaches(f, d, from, ch) /\ Closure(from, ch) = f[d]
    BY <1>1, ClosureSteps
  <1> HIDE DEF d
  <1>3. \A S : from \subseteq S /\ Closed(S, ch) => f[d] \subseteq S
    BY <1>1, <1>2, StepsStay
  <1>4. \A i \in 0..d : f[i] \subseteq Nodes
    BY <1>1, <1>2, StepsStay DEF Closed
  <1>5. \E i \in 0..d : Closed(f[i], ch)
    <2> SUFFICES ASSUME \A i \in 0..d : ~Closed(f[i], ch) PROVE FALSE
      OBVIOUS
    <2> DEFINE T == {i \in 0..d : ~(Cardinality(f[i]) > i)}
    <2>1. \A i \in 0..d : IsFiniteSet(f[i]) /\ Cardinality(f[i]) \in Nat
                          /\ Cardinality(f[i]) <= d
      BY <1>1, <1>4, FS_Subset, FS_CardinalityType DEF d
    <2>2. T # {}
      BY <1>1, <2>1
    <2>3. PICK m \in T : \A k \in T : m <= k
      <3>1. T \subseteq Nat OBVIOUS
      <3> QED BY <2>2, <3>1, LeastNumber
    <2>4. CASE m = 0
      <3>1. f[0] # {}
        BY <1>1 DEF Closed
      <3>2. Cardinality(f[0]) # 0
        BY <1>1, <2>1, <3>1, FS_EmptySet
      <3> QED BY <2>1, <2>4, <3>2
    <2>5. CASE m # 0
      <3>1. m - 1 \in 0..d /\ m - 1 \notin T
        BY <1>1, <2>3, <2>5
      <3>2. Cardinality(f[m-1]) > m - 1
        BY <3>1
      <3>3. /\ f[m-1] \subseteq f[m]
            /\ \A n \in f[m-1] : ch[n] \subseteq f[m]
        BY <1>1, <1>2, <2>5, StepsGrow
      <3>4. f[m-1] # f[m]
        BY <3>1, <3>3 DEF Closed
      <3>5. Cardinality(f[m-1]) <= Cardinality(f[m]) /\ Cardinality(f[m-1]) # Cardinality(f[m])
        BY <2>1, <3>3, <3>4, FS_Subset
      <3> QED BY <2>1, <3>1, <3>2, <3>5
    <2> QED BY <2>4, <2>5
  <1>6. PICK i \in 0..d : Closed(f[i], ch)
    BY <1>5
  <1>7. f[d] = f[i]
    BY <1>1, <1>2, <1>6, StepsEnd
  <1>8. from \subseteq f[d]
    <2> DEFINE T == {k \in 0..d : ~(from \subseteq f[k])}
    <2> SUFFICES ASSUME T # {} PROVE FALSE
      BY <1>1
    <2>1. PICK m \in T : \A k \in T : m <= k
      <3>1. T \subseteq Nat OBVIOUS
      <3> QED BY <3>1, LeastNumber
    <2>2. m # 0
      BY <1>1, <1>2, StepFacts
    <2>3. m - 1 \in 0..d /\ m - 1 \notin T
      BY <1>1, <2>1, <2>2
    <2>4. f[m-1] \subseteq f[m]
      BY <1>1, <1>2, <2>2, StepsGrow
    <2> QED BY <2>3, <2>4
  <1> QED BY <1>1, <1>2, <1>3, <1>4, <1>6, <1>7, <1>8

-------------------------------------------------------------------------------
(***************************************************************************)
(* safeConnect().                                                           *)
(***************************************************************************)

\* What can be reached from a node that can be reached.
LEMMA ReachabilityIsTransitive ==
    ASSUME NEW ch \in [Nodes -> SUBSET Nodes], NEW a \in Nodes, NEW b \in Closure({a}, ch)
    PROVE  Closure({b}, ch) \subseteq Closure({a}, ch)
  <1>1. Closed(Closure({a}, ch), ch) /\ b \in Nodes
    BY ClosureIsReachability
  <1> QED BY <1>1, ClosureIsReachability

\* Fewer edges lead to fewer nodes: an edge that is taken away closes no cycle.
LEMMA FewerEdges ==
    ASSUME NEW ch \in [Nodes -> SUBSET Nodes], NEW fewer \in [Nodes -> SUBSET Nodes],
           \A n \in Nodes : fewer[n] \subseteq ch[n],
           NEW from \in SUBSET Nodes
    PROVE  Closure(from, fewer) \subseteq Closure(from, ch)
  <1>1. Closed(Closure(from, ch), fewer)
    BY ClosureIsReachability DEF Closed
  <1> QED BY <1>1, ClosureIsReachability

\* Taking edges away keeps a graph without cycles.
LEMMA FewerEdgesKeepAcyclic ==
    ASSUME NEW ch \in [Nodes -> SUBSET Nodes], NEW fewer \in [Nodes -> SUBSET Nodes],
           \A n \in Nodes : fewer[n] \subseteq ch[n], Acyclic(ch)
    PROVE  Acyclic(fewer)
  <1> SUFFICES ASSUME NEW n \in Nodes, NEW c \in fewer[n], n \in Closure({c}, fewer)
               PROVE  FALSE
    BY DEF Acyclic, existsPath
  <1>1. c \in Nodes /\ c \in ch[n]
    OBVIOUS
  <1>2. n \in Closure({c}, ch)
    BY <1>1, FewerEdges
  <1> QED BY <1>1, <1>2 DEF Acyclic, existsPath

\* safeConnect() is safe: of any set of nodes, the edges from u to those it accepts close no
\* cycle, even if all of them are added after they were checked against the same graph.
THEOREM SafeConnectKeepsAcyclic ==
    ASSUME NEW ch \in [Nodes -> SUBSET Nodes], Acyclic(ch), NEW u \in Nodes,
           NEW vs \in SUBSET Nodes
    PROVE  Acyclic([ch EXCEPT ![u] = @ \cup SafelyConnectable(u, vs, ch)])
  <1> DEFINE W == SafelyConnectable(u, vs, ch)
             new == [ch EXCEPT ![u] = @ \cup W]
  <1>1. W \subseteq Nodes /\ \A w \in W : u \notin Closure({w}, ch)
    BY DEF SafelyConnectable, existsPath
  <1>2. /\ new \in [Nodes -> SUBSET Nodes]
        /\ new[u] = ch[u] \cup W
        /\ \A n \in Nodes \ {u} : new[n] = ch[n]
    BY <1>1
  <1> HIDE DEF W, new
  <1> SUFFICES ASSUME NEW n \in Nodes, NEW c \in new[n], n \in Closure({c}, new)
               PROVE  FALSE
    BY DEF Acyclic, existsPath, new, W
  <1>3. c \in Nodes
    BY <1>2
  <1>4. /\ c \in Closure({c}, ch)
        /\ Closed(Closure({c}, ch), ch)
        /\ Closure({c}, ch) \subseteq Nodes
    BY <1>3, ClosureIsReachability
  <1>5. CASE u \notin Closure({c}, ch)
    <2>1. Closed(Closure({c}, ch), new)
      BY <1>2, <1>4, <1>5 DEF Closed
    <2>2. n \in Closure({c}, ch)
      BY <1>2, <1>3, <1>4, <2>1, ClosureIsReachability
    <2>3. c \notin ch[n]
      BY <2>2 DEF Acyclic, existsPath
    <2> QED BY <1>2, <1>5, <2>2, <2>3
  <1>6. CASE u \in Closure({c}, ch)
    <2> DEFINE S == Closure({c}, ch) \cup UNION {Closure({w}, ch) : w \in W}
    <2>1. ASSUME NEW w \in W
          PROVE  /\ w \in Closure({w}, ch)
                 /\ Closed(Closure({w}, ch), ch)
                 /\ Closure({w}, ch) \subseteq Nodes
      <3>1. {w} \in SUBSET Nodes
        BY <1>1
      <3> QED BY <3>1, ClosureIsReachability
    <2>2. Closed(S, ch) /\ W \subseteq S /\ S \subseteq Nodes /\ c \in S
      BY <1>4, <2>1 DEF Closed
    <2> HIDE DEF S
    <2>3. Closed(S, new)
      BY <1>2, <2>2 DEF Closed
    <2>4. n \in S
      BY <1>2, <1>3, <2>2, <2>3, ClosureIsReachability
    <2>5. c \notin W
      BY <1>1, <1>6
    <2>6. c \in ch[n]
      BY <1>2, <2>5
    <2>7. n \notin Closure({c}, ch)
      BY <2>6 DEF Acyclic, existsPath
    <2>8. PICK w \in W : n \in Closure({w}, ch)
      BY <2>4, <2>7 DEF S
    <2>9. c \in Closure({w}, ch)
      BY <2>1, <2>6, <2>8 DEF Closed
    <2>10. u \in Closure({w}, ch)
      BY <1>1, <1>6, <2>9, ReachabilityIsTransitive
    <2> QED BY <1>1, <2>10
  <1> QED BY <1>5, <1>6

-------------------------------------------------------------------------------
(***************************************************************************)
(* Scans and rescued data.                                                  *)
(***************************************************************************)

\* rescueOldBuildData() for one output.
LEMMA RescueClosesNoCycle ==
    ASSUME TypeOK, Acyclic(children), NEW n \in Generated, NEW os, os \subseteq {n}
    PROVE  /\ AfterRescue(os).children \in [Nodes -> SUBSET Nodes]
           /\ Acyclic(AfterRescue(os).children)
  <1> DEFINE vs == ChildrenToConnect(n)
             ch == AfterRescue(os).children
  <1>1. n \in Nodes /\ children \in [Nodes -> SUBSET Nodes] /\ vs \in SUBSET Nodes
    BY NodeKinds, ExecutorAssumption DEF ChildrenToConnect, TypeOK, GraphTypeOK, Nodes
  <1>2. ch = [m \in Nodes |-> IF m \in os THEN children[m] \cup RescueAdds(m)
                                          ELSE children[m]]
    BY DEF AfterRescue
  <1>3. RescueAdds(n) = SafelyConnectable(n, vs, children) /\ RescueAdds(n) \subseteq Nodes
    BY <1>1 DEF RescueAdds, SafelyConnectable
  <1> HIDE DEF ch, vs
  <1>4. CASE n \in os
    <2>1. ch = [children EXCEPT ![n] = @ \cup SafelyConnectable(n, vs, children)]
      BY <1>1, <1>2, <1>3, <1>4
    <2>2. ch \in [Nodes -> SUBSET Nodes]
      BY <1>1, <1>3, <2>1
    <2>3. Acyclic([children EXCEPT ![n] = @ \cup SafelyConnectable(n, vs, children)])
      BY <1>1, SafeConnectKeepsAcyclic
    <2>4. Acyclic(ch)
      BY <2>1, <2>3
    <2> QED BY <2>2, <2>4 DEF ch
  <1>5. CASE n \notin os
    <2>1. ch = children
      BY <1>1, <1>2, <1>5
    <2> QED BY <1>1, <2>1 DEF ch
  <1> QED BY <1>4, <1>5

\* scan() for one output: the edges of the last scan are taken away and those of the new one are
\* added.
LEMMA ScanClosesNoCycle ==
    ASSUME NEW t, NEW n \in Generated, NEW os, os \subseteq {n}, NEW deps \in SUBSET Artifacts,
           Graph(t).children \in [Nodes -> SUBSET Nodes], Acyclic(Graph(t).children)
    PROVE  Acyclic(AfterScan(os, deps, Graph(t)).children)
  <1> DEFINE g == Graph(t)
             fewer == [g.children EXCEPT ![n] = ScanKeeps(n, g)]
             vs == ScanFinds(n, deps, g)
             ch == AfterScan(os, deps, g).children
  <1>1. ch = [m \in Nodes |-> IF m \in os THEN ScanKeeps(m, g) \cup ScanAdds(m, deps, g)
                                          ELSE g.children[m]]
    BY DEF AfterScan, Graph, AfterRescue
  <1>2. n \in Nodes /\ ScanKeeps(n, g) \subseteq g.children[n] /\ vs \in SUBSET Nodes
    BY NodeKinds DEF ScanKeeps, ScanFinds, Nodes
  <1>3. ScanAdds(n, deps, g) = SafelyConnectable(n, vs, fewer)
    BY DEF ScanAdds
  <1> HIDE DEF g, vs, ch
  <1>4. g.children \in [Nodes -> SUBSET Nodes] /\ Acyclic(g.children)
    BY DEF g
  <1>5. /\ fewer \in [Nodes -> SUBSET Nodes] /\ fewer[n] = ScanKeeps(n, g)
        /\ \A m \in Nodes : fewer[m] \subseteq g.children[m]
        /\ \A m \in Nodes \ {n} : fewer[m] = g.children[m]
    BY <1>2, <1>4
  <1> HIDE DEF fewer
  <1>6. Acyclic(fewer)
    BY <1>4, <1>5, FewerEdgesKeepAcyclic
  <1>7. CASE n \in os
    <2>1. ch = [fewer EXCEPT ![n] = @ \cup SafelyConnectable(n, vs, fewer)]
      BY <1>1, <1>2, <1>3, <1>5, <1>7
    <2>2. Acyclic([fewer EXCEPT ![n] = @ \cup SafelyConnectable(n, vs, fewer)])
      BY <1>2, <1>5, <1>6, SafeConnectKeepsAcyclic
    <2>3. Acyclic(ch)
      BY <2>1, <2>2
    <2> QED BY <2>3 DEF ch, g
  <1>8. CASE n \notin os
    <2>1. ch = g.children
      BY <1>1, <1>4, <1>8
    <2> QED BY <1>4, <2>1 DEF ch, g
  <1> QED BY <1>7, <1>8

\* Every transformer has at most one output.
SingleOutputs == \A t \in Transformers : \A a, b \in Outputs(t) : a = b

\* What scanners find and what is rescued never closes a cycle, if every transformer has one
\* output.  With several outputs the model connects them at once, the code one after the other.
THEOREM ScansAreSafe ==
    ASSUME SingleOutputs
    PROVE  Spec => ScansCloseNoCycle
  <1>1. ASSUME TypeOK, [Next]_vars, pc = "schedule", Acyclic(children)
        PROVE  Acyclic(children')
    <2>1. ASSUME NEW n \in Generated, ArtifactStep(n) PROVE Acyclic(children')
      <3> DEFINE t == TransformerOf[n]
      <3>1. t \in Transformers /\ Outputs(t) \subseteq {n}
            /\ ScanResults[t] \subseteq SUBSET Artifacts
        BY GraphAssumption, ExecutorAssumption DEF SingleOutputs, Outputs
      <3>2. ToRescue(t) \subseteq {n} /\ ToScan(t) \subseteq {n}
        BY <3>1 DEF ToRescue, ToScan
      <3>3. /\ Graph(t).children \in [Nodes -> SUBSET Nodes]
            /\ Acyclic(Graph(t).children)
        BY <1>1, <3>2, RescueClosesNoCycle DEF Graph
      <3>4. ASSUME NEW x \in Outputs(t), NEW before \in SUBSET Outputs(t),
                   DelayedByRescue(n, x, before)
            PROVE  Acyclic(children')
        <4>1. children' = AfterRescue(before \cup {x}).children
          BY <3>4 DEF DelayedByRescue
        <4>2. before \cup {x} \subseteq {n}
          BY <3>1
        <4> QED BY <1>1, <4>1, <4>2, RescueClosesNoCycle
      <3>5. CASE CheckThrows(n) \/ FinishWithoutRunning(n)
        BY <3>3, <3>5 DEF CheckThrows, FinishWithoutRunning
      <3>6. ASSUME NEW deps \in ScanResults[t], NEW x \in Outputs(t),
                   NEW before \in SUBSET Outputs(t), DelayedByScan(n, x, before, deps)
            PROVE  Acyclic(children')
        <4>1. children' = AfterScan(before \cup {x}, deps, Graph(t)).children
          BY <3>6 DEF DelayedByScan
        <4>2. before \cup {x} \subseteq {n} /\ deps \in SUBSET Artifacts
          BY <3>1
        <4> QED BY <3>3, <4>1, <4>2, ScanClosesNoCycle
      <3>7. ASSUME NEW deps \in ScanResults[t], Scanned(n, deps) PROVE Acyclic(children')
        <4>1. children' = AfterScan(ToScan(t), deps, Graph(t)).children
          BY <3>7 DEF Scanned
        <4>2. deps \in SUBSET Artifacts
          BY <3>1
        <4> QED BY <3>2, <3>3, <4>1, <4>2, ScanClosesNoCycle
      <3> QED BY <2>1, <3>4, <3>5, <3>6, <3>7 DEF ArtifactStep, ScanStep,
                 FinishInsteadOfRunning, RunTransformer, RunThrows
    <2>2. CASE \E n \in Nodes : SkipLeaf(n) \/ DelayLeaf(n) \/ AbortOnUnknownLimits(n)
                                \/ FinishLeaf(n)
      BY <1>1, <2>2 DEF SkipLeaf, DelayLeaf, AbortOnUnknownLimits, FinishLeaf, graphVars
    <2>3. CASE \E r \in Rules : SkipRule(r) \/ EnterRule(r)
      BY <1>1, <2>3 DEF SkipRule, EnterRule
    <2>4. CASE EndSchedule
      BY <1>1, <2>4 DEF EndSchedule, graphVars
    <2>5. CASE RequestCancel
      BY <1>1, <2>5 DEF RequestCancel, graphVars
    <2>6. CASE UNCHANGED vars
      BY <1>1, <2>6 DEF vars, graphVars
    <2>7. /\ ~RuleStep /\ ~PostedFinish /\ ~checkForCancellation /\ ~ReportResult
          /\ ~ChangeProperties /\ \A s \in MayEdit : ~EditSource(s)
          /\ \A o \in BuildOptions : ~Build(o)
          /\ \A j \in Jobs : ~JobFinishedStep(j) /\ ~CommandStep(j)
      BY <1>1 DEF RuleStep, LeaveRule, RuleThrows, PostedFinish, checkForCancellation,
         ReportResult, ChangeProperties, EditSource, Build, JobFinishedStep, JobSucceeded,
         OutputMissing, JobFailed, ReleaseJob, CommandStep, CommandsEnd
    <2> QED BY <1>1, <2>1, <2>2, <2>3, <2>4, <2>5, <2>6, <2>7
            DEF Next, ExecutorStep, ScheduleStep, UserStep, Rest
  <1>2. TypeOK /\ [Next]_vars
           => [pc = "schedule" /\ Acyclic(children) => Acyclic(children')]_vars
    BY <1>1
  <1> QED BY <1>2, TypeCorrect, PTL DEF Spec, ScansCloseNoCycle

-------------------------------------------------------------------------------
(***************************************************************************)
(* The queue of leaves.                                                     *)
(***************************************************************************)

Queued(n) == leaves[n] + delayedLeaves[n] > 0

\* QueuedAreTouched without the types.
TouchedInv ==
    \A n \in Nodes : leaves[n] + delayedLeaves[n] > 0 => buildState[n] # "Untouched"

\* A step queues only nodes that are initialized, and takes no initialization back.
QueuesTouched ==
    \A n \in Nodes : leaves'[n] + delayedLeaves'[n] > 0 =>
        Queued(n) \/ buildState'[n] # "Untouched"

StayTouched == \A n \in Nodes : buildState'[n] = "Untouched" => buildState[n] = "Untouched"

\* Within a build no node becomes untouched again.
LEMMA TouchedStep ==
    ASSUME TypeOK, [Next]_vars, ~ \E o \in BuildOptions : Build(o)
    PROVE  StayTouched
  <1>1. CASE \E n \in Generated, deps \in SUBSET Artifacts, j \in availableJobs :
                RunTransformer(n, deps, j)
    BY <1>1, RunTransformerStates DEF StayTouched
  <1>2. CASE \E n \in Generated : FinishesTransformerOf(n)
    BY <1>2 DEF FinishesTransformerOf, MarkBuilt, StayTouched
  <1>3. CASE \E j \in Jobs : \E written : JobSucceeded(j, written)
    BY <1>3, JobSucceededStates DEF MarkBuilt, StayTouched
  <1>4. CASE KeepsOutputs
    BY <1>4 DEF KeepsOutputs, Advances, StayTouched
  <1> QED BY <1>1, <1>2, <1>3, <1>4, StateStepCases

\* A leaf is taken from the queue and none is added.
LEMMA PoppedQueues ==
    ASSUME TypeOK, NEW n \in Nodes, leaves[n] > 0, leaves' = Popped(n),
           delayedLeaves' = delayedLeaves \/ delayedLeaves' = NoLeaves
    PROVE  QueuesTouched
  BY DEF QueuesTouched, Queued, Popped, NoLeaves, TypeOK, NodeTypeOK

\* finishNode() queues parents that are buildable.
LEMMA FinishQueues ==
    ASSUME TypeOK, NEW nodes, NEW ch, NEW lv \in [Nodes -> Nat],
           \A n \in Nodes : lv[n] <= leaves[n],
           buildState' = MarkBuilt(nodes, buildState),
           leaves' = Push(lv, ReadyParents(nodes, buildState, ch)),
           UNCHANGED delayedLeaves
    PROVE  QueuesTouched
  BY DEF QueuesTouched, Queued, MarkBuilt, Push, ReadyParents, TypeOK, NodeTypeOK

\* updateLeaves() makes what it visits buildable before it queues it.
LEMMA DelayQueues ==
    ASSUME TypeOK, NEW n \in Nodes, leaves[n] > 0, NEW visited, NEW ch,
           buildState' = Touch(visited, buildState),
           leaves' = Push(Popped(n), LeavesAmong(visited, buildState', ch)),
           UNCHANGED delayedLeaves
    PROVE  QueuesTouched
  BY DEF QueuesTouched, Queued, Touch, Push, Popped, LeavesAmong, TypeOK, NodeTypeOK

\* Popping a leaf leaves a smaller queue.
LEMMA PoppedQueue ==
    ASSUME TypeOK, NEW n \in Nodes, leaves[n] > 0
    PROVE  /\ Popped(n) \in [Nodes -> Nat]
           /\ \A m \in Nodes : Popped(n)[m] <= leaves[m]
  BY DEF Popped, TypeOK, NodeTypeOK

\* A rule has been applied: its outputs are visited, and those that are ready are queued when
\* the rule node is finished.
LEMMA LeaveRuleQueues ==
    ASSUME TypeOK, LeaveRule
    PROVE  QueuesTouched
  <1>1. PICK v1, v2, ch :
            LET bs1 == Touch(v1, buildState)
                bs2 == Touch(v2, bs1)
            IN  /\ buildState' = MarkBuilt({currentRule}, bs2)
                /\ leaves' = Push(Push(Push(leaves, LeavesAmong(v1, bs1, ch)),
                                       LeavesAmong(v2, bs2, ch)),
                                  ReadyParents({currentRule}, bs2, ch))
    BY DEF LeaveRule
  <1>2. UNCHANGED delayedLeaves
    BY DEF LeaveRule
  <1> QED BY <1>1, <1>2 DEF QueuesTouched, Queued, Touch, MarkBuilt, Push, LeavesAmong,
             ReadyParents, TypeOK, NodeTypeOK

\* A step that leaves the queue alone, or forgets what was delayed.
LEMMA SameQueues ==
    ASSUME TypeOK, UNCHANGED leaves, delayedLeaves' = delayedLeaves \/ delayedLeaves' = NoLeaves
    PROVE  QueuesTouched
  BY DEF QueuesTouched, Queued, NoLeaves, TypeOK, NodeTypeOK

\* No step within a build queues a node that is not initialized.
LEMMA QueueStep ==
    ASSUME TypeOK, [Next]_vars, ~ \E o \in BuildOptions : Build(o)
    PROVE  QueuesTouched
  <1>1. CASE ScheduleStep
    <2> USE DEF Accept, PopLeaf
    <2>1. CASE \E n \in Nodes : SkipLeaf(n)
      BY <2>1, PoppedQueues DEF SkipLeaf
    <2>2. ASSUME NEW n \in Nodes, DelayLeaf(n) PROVE QueuesTouched
      <3>1. /\ leaves' = Popped(n)
            /\ delayedLeaves' = [delayedLeaves EXCEPT ![n] = @ + 1]
            /\ buildState'[n] = "Buildable"
        BY <2>2 DEF DelayLeaf
      <3> QED BY <3>1 DEF QueuesTouched, Queued, Popped, TypeOK, NodeTypeOK
    <2>3. CASE \E n \in Nodes : AbortOnUnknownLimits(n)
      BY <2>3, SameQueues DEF AbortOnUnknownLimits, nodeVars
    <2>4. ASSUME NEW n \in Nodes, FinishLeaf(n) PROVE QueuesTouched
      BY <2>4, PoppedQueue, FinishQueues DEF FinishLeaf
    <2>5. ASSUME NEW r \in Rules, SkipRule(r) \/ EnterRule(r) PROVE QueuesTouched
      <3>1. r \in Nodes
        BY NodeKinds
      <3> QED BY <2>5, <3>1, PoppedQueue, PoppedQueues, FinishQueues DEF SkipRule, EnterRule
    <2>6. ASSUME NEW n \in Generated, ArtifactStep(n) PROVE QueuesTouched
      <3> USE DEF Considered, VisitArtifact
      <3>1. n \in Nodes
        BY NodeKinds
      <3>2. ASSUME NEW x, NEW before, DelayedByRescue(n, x, before) PROVE QueuesTouched
        BY <3>1, <3>2, DelayQueues DEF DelayedByRescue
      <3>3. CASE CheckThrows(n)
        BY <3>1, <3>3, PoppedQueues DEF CheckThrows, HandleError
      <3>4. CASE FinishWithoutRunning(n)
        BY <3>1, <3>4, PoppedQueue, FinishQueues DEF FinishWithoutRunning, FinishTransformer
      <3> USE DEF MustRun, Scanned
      <3>5. ASSUME NEW x, NEW before, NEW deps, DelayedByScan(n, x, before, deps)
            PROVE  QueuesTouched
        BY <3>1, <3>5, DelayQueues DEF DelayedByScan
      <3>6. ASSUME NEW deps, FinishInsteadOfRunning(n, deps) PROVE QueuesTouched
        BY <3>1, <3>6, PoppedQueue, FinishQueues DEF FinishInsteadOfRunning, FinishTransformer
      <3>7. ASSUME NEW deps, NEW j, RunTransformer(n, deps, j) PROVE QueuesTouched
        BY <3>1, <3>7, PoppedQueues DEF RunTransformer
      <3>8. ASSUME NEW deps, RunThrows(n, deps) PROVE QueuesTouched
        BY <3>1, <3>8, PoppedQueues DEF RunThrows, HandleError
      <3> QED BY <2>6, <3>2, <3>3, <3>4, <3>5, <3>6, <3>7, <3>8 DEF ArtifactStep, ScanStep
    <2>7. CASE EndSchedule
      BY <2>7 DEF EndSchedule, WithDelayedLeaves, NoLeaves, QueuesTouched, Queued, TypeOK,
         NodeTypeOK
    <2> QED BY <1>1, <2>1, <2>2, <2>3, <2>4, <2>5, <2>6, <2>7 DEF ScheduleStep
  <1>2. CASE LeaveRule
    BY <1>2, LeaveRuleQueues
  <1>3. CASE \E done, last \in SUBSET Transformers : RuleThrows(done, last)
    BY <1>3, SameQueues DEF RuleThrows, HandleError, nodeVars
  <1>4. CASE PostedFinish
    BY <1>4, SameQueues DEF PostedFinish, nodeVars
  <1>5. ASSUME NEW j \in Jobs, JobFinishedStep(j) PROVE QueuesTouched
    <2>1. ASSUME NEW written, JobSucceeded(j, written) PROVE QueuesTouched
      <3>1. leaves \in [Nodes -> Nat] /\ \A n \in Nodes : leaves[n] <= leaves[n]
        BY DEF TypeOK, NodeTypeOK
      <3> QED BY <2>1, <3>1, FinishQueues DEF JobSucceeded, FinishTransformer
    <2>2. ASSUME NEW written, OutputMissing(j, written) PROVE QueuesTouched
      BY <2>2, SameQueues DEF OutputMissing, HandleError, nodeVars
    <2>3. CASE JobFailed(j)
      BY <2>3, SameQueues DEF JobFailed, nodeVars
    <2> QED BY <1>5, <2>1, <2>2, <2>3 DEF JobFinishedStep
  <1>6. CASE \E j \in Jobs : CommandStep(j)
    BY <1>6, SameQueues DEF CommandStep, CommandsEnd, nodeVars
  <1>7. CASE checkForCancellation
    BY <1>7, SameQueues DEF checkForCancellation, nodeVars
  <1>8. CASE RequestCancel \/ ReportResult \/ (\E s \in MayEdit : EditSource(s))
             \/ ChangeProperties
    BY <1>8, SameQueues DEF RequestCancel, ReportResult, EditSource, ChangeProperties, nodeVars
  <1>9. CASE UNCHANGED vars
    BY <1>9, SameQueues DEF vars, nodeVars
  <1> QED BY <1>1, <1>2, <1>3, <1>4, <1>5, <1>6, <1>7, <1>8, <1>9
          DEF Next, ExecutorStep, RuleStep, UserStep, Rest

\* doBuild() queues what updateLeaves() reaches from the root nodes, and prepareReachableNodes()
\* has made all of that buildable: the two walks are different, and that the first does not
\* leave the second is a fact about reachability.
LEMMA BuildQueues ==
    ASSUME TypeOK, NEW o \in BuildOptions, Build(o)
    PROVE  TouchedInv'
  <1> DEFINE roots == RootNodes(o.products)
             reachable == Closure(roots, children)
             states == PreparedStates(roots)
             unbuilt == [n \in Nodes |-> {c \in children[n] : states[c] # "Built"}]
             visited == Visited(roots, states, children)
  <1>1. /\ buildState' = states /\ delayedLeaves' = NoLeaves
        /\ leaves' = Push(NoLeaves, LeavesAmong(visited, states, children))
    BY DEF Build
  <1>2. /\ roots \in SUBSET Nodes /\ children \in [Nodes -> SUBSET Nodes]
        /\ unbuilt \in [Nodes -> SUBSET Nodes]
        /\ \A n \in Nodes : unbuilt[n] \subseteq children[n]
    BY DEF RootNodes, TypeOK, GraphTypeOK
  <1>3. visited = Closure(roots, unbuilt)
    BY DEF Visited
  <1> HIDE DEF unbuilt, roots
  <1>4. visited \subseteq reachable
    BY <1>2, <1>3, FewerEdges
  <1>5. \A n \in reachable \cap Nodes : states[n] = "Buildable"
    BY DEF PreparedStates
  <1> HIDE DEF visited, states, reachable
  <1>6. \A n \in Nodes : leaves'[n] + delayedLeaves'[n] > 0 => n \in visited
    BY <1>1 DEF Push, NoLeaves, LeavesAmong
  <1> QED BY <1>1, <1>4, <1>5, <1>6 DEF TouchedInv

\* The QBS_CHECKs on the build state in visit() never fail, for any project.
THEOREM OnlyTouchedNodesQueued == Spec => []QueuedAreTouched
  <1>1. Init => TouchedInv
    BY DEF Init, NoLeaves, TouchedInv
  <1>2. ASSUME TypeOK, TouchedInv, [Next]_vars PROVE TouchedInv'
    <2>1. CASE \E o \in BuildOptions : Build(o)
      BY <1>2, <2>1, BuildQueues
    <2>2. CASE ~ \E o \in BuildOptions : Build(o)
      BY <1>2, <2>2, QueueStep, TouchedStep DEF TouchedInv, QueuesTouched, Queued,
         StayTouched
    <2> QED BY <2>1, <2>2
  <1>3. TypeOK /\ TouchedInv => QueuedAreTouched
    BY DEF TouchedInv, QueuedAreTouched
  <1> QED BY <1>1, <1>2, <1>3, TypeCorrect, PTL DEF Spec
===============================================================================
