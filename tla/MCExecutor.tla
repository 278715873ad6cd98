------------------------------ MODULE MCExecutor ------------------------------
(***************************************************************************)
(* Small projects for model checking the Executor.  A .cfg chooses one of   *)
(* the projects and what may happen to it.                                  *)
(***************************************************************************)
EXTENDS ExecutorContract, TLC

CONSTANTS s1, s2, sg, h, o1, o2, app, rl, rc, rg, tg, t1, t2, ta, P, Q, pool

Normal == [products |-> {P}, keepGoing |-> FALSE, executeRulesOnly |-> FALSE,
           forceOutputCheck |-> FALSE]
Plain == {Normal}
CheckedOrKeepGoing == {[Normal EXCEPT !.forceOutputCheck = TRUE],
                       [Normal EXCEPT !.keepGoing = TRUE]}
RulesOnlyToo == {Normal, [Normal EXCEPT !.executeRulesOnly = TRUE]}

SamePriority == [x \in Products |-> 0]
NoArtifactDeps == [a \in Generated |-> {}]
NoRescuedChildren == [a \in Generated |-> {}]
OneJobInPool == [x \in Products |-> [p \in JobPools |-> 1]]

(***************************************************************************)
(* A program: o1 and o2 are compiled from s1 and s2, h is generated from    *)
(* sg, and app is linked from o1 and o2.  s1 may include h.                 *)
(***************************************************************************)
ProgramTransformer == (h :> tg) @@ (o1 :> t1) @@ (o2 :> t2) @@ (app :> ta)
ProgramRule == (tg :> rg) @@ (t1 :> rc) @@ (t2 :> rc) @@ (ta :> rl)
ProgramInputs == (tg :> {sg}) @@ (t1 :> {s1}) @@ (t2 :> {s2}) @@ (ta :> {o1, o2})
ProgramProduct == [n \in Nodes |-> P]
ProgramRuleChildren == (rl :> {rc}) @@ (rc :> {rg}) @@ (rg :> {})
ProgramPools == [t \in Transformers |-> IF t \in {t1, t2} THEN {pool} ELSE {}]
MayIncludeHeader == [t \in Transformers |-> IF t = t1 THEN {{}, {h}} ELSE {{}}]
IncludesHeader == [t \in Transformers |-> IF t = t1 THEN {{h}} ELSE {{}}]
\* The compiler does not wait for the generator, and finds h when it scans s1.
UnorderedRuleChildren == (rl :> {rc, rg}) @@ (rc :> {}) @@ (rg :> {})

(***************************************************************************)
(* A parser: like the program, but o1 and o2 come from one command.         *)
(***************************************************************************)
ParserTransformer == (h :> tg) @@ (o1 :> t1) @@ (o2 :> t1) @@ (app :> ta)
ParserRule == (tg :> rg) @@ (t1 :> rc) @@ (ta :> rl)
ParserInputs == (tg :> {sg}) @@ (t1 :> {s1}) @@ (ta :> {o1, o2})
HeaderWasIncluded == [a \in Generated |-> IF a \in {o1, o2} THEN {h} ELSE {}]

(***************************************************************************)
(* Two products.  P compiles o1 and o2 from s1 and s2; Q generates h from   *)
(* sg.  P does not depend on Q, but s1 may include h.                       *)
(***************************************************************************)
PairTransformer == (h :> tg) @@ (o1 :> t1) @@ (o2 :> t2)
PairRule == (tg :> rg) @@ (t1 :> rc) @@ (t2 :> rc)
PairInputs == (tg :> {sg}) @@ (t1 :> {s1}) @@ (t2 :> {s2})
PairProduct == [n \in Nodes |-> IF n \in {sg, h, rg} THEN Q ELSE P]
PairRuleChildren == (rc :> {}) @@ (rg :> {})
PairPools == [t \in Transformers |-> IF t = t1 THEN {} ELSE {pool}]
PairLimits == (P :> [p \in JobPools |-> 1]) @@ (Q :> [p \in JobPools |-> 2])
PairPriority == (P :> 1) @@ (Q :> 0)
\* The two files that are generated may include each other.
MayIncludeEachOther ==
    [t \in Transformers |-> IF t = t1 THEN {{}, {h}} ELSE IF t = tg THEN {{}, {o1}} ELSE {{}}]
AllOrSome == {[Normal EXCEPT !.products = {P, Q}], Normal}

(***************************************************************************)
(* A listing: h is generated from sg, and o1 is compiled from s1, together  *)
(* with the listing o2, which is not part of the product.                   *)
(***************************************************************************)
ListingTransformer == (h :> tg) @@ (o1 :> t1) @@ (o2 :> t1)
ListingRule == (tg :> rg) @@ (t1 :> rc)
ListingInputs == (tg :> {sg}) @@ (t1 :> {s1})
ListingRuleChildren == (rc :> {}) @@ (rg :> {})
NoPools == [t \in Transformers |-> {}]
===============================================================================
