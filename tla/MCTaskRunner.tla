---------------------------- MODULE MCTaskRunner -----------------------------
(***************************************************************************)
(* Small instances of TaskRunner for TLC.  `reencrypt` and `purge` stand   *)
(* for two mutating tasks, the first resumable and not declared safe to    *)
(* replay; `report` for a task that only shares a declared resource.       *)
(***************************************************************************)
EXTENDS TaskRunner, TLC

CONSTANTS reencrypt, purge, report, keyset, w1, w2

ResourcesOf == [t \in Tasks |-> IF t = purge THEN {} ELSE {keyset}]

Symmetry == Permutations(Runners)
=============================================================================
