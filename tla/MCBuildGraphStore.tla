--------------------------- MODULE MCBuildGraphStore ---------------------------
(* The jobs for model checking BuildGraphStore.                             *)
EXTENDS BuildGraphStore

Setup(restore, override, wait) ==
    [kind |-> "setup", dry |-> FALSE, override |-> override, wait |-> wait, restore |-> restore]
Build == [kind |-> "build", dry |-> FALSE]
DryBuild == [kind |-> "build", dry |-> TRUE]
Clean1 == [kind |-> "clean", dry |-> FALSE]

\* The setups of qbs resolve, of qbs build --wait-lock, of qbs clean, and of a session that asks
\* for "restore-only" or "resolve-only"; building, in earnest and as a dry run; cleaning.
Commands ==
    {Setup("RestoreAndTrackChanges", TRUE, FALSE), Setup("RestoreAndTrackChanges", FALSE, TRUE),
     Setup("RestoreOnly", FALSE, FALSE), Setup("RestoreOnly", TRUE, FALSE),
     Setup("ResolveOnly", TRUE, FALSE), Build, DryBuild, Clean1}
=============================================================================
