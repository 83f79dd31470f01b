------------------------------ MODULE MCSessions ------------------------------
(***************************************************************************)
(* Small instances of Sessions for TLC.  An access token lives two units of *)
(* time and a session three, so that tokens and sessions run out and are   *)
(* renewed within a run.                                                   *)
(***************************************************************************)
EXTENDS Sessions, TLC

CONSTANTS s1, s2, r1, r2

Symmetry == Permutations(Ids) \cup Permutations(Requests)
=============================================================================
