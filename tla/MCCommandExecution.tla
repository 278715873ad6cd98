-------------------------- MODULE MCCommandExecution --------------------------
(***************************************************************************)
(* Small transformers for model checking CommandExecution.                   *)
(***************************************************************************)
EXTENDS CommandExecution

Compiler == [kind |-> "process", timeout |-> FALSE, dry |-> FALSE]
Autotest == [kind |-> "process", timeout |-> TRUE, dry |-> FALSE]
Script == [kind |-> "js", timeout |-> FALSE, dry |-> FALSE]
SlowScript == [kind |-> "js", timeout |-> TRUE, dry |-> FALSE]
Dry(c) == [c EXCEPT !.dry = TRUE]

Mixed == {<<>>, <<Autotest, Script>>, <<SlowScript, Compiler>>,
          <<Dry(Autotest), SlowScript>>}
===============================================================================
