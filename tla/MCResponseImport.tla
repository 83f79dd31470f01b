--------------------------- MODULE MCResponseImport ---------------------------
(***************************************************************************)
(* Small instances of ResponseImport for TLC: two rows read in batches of  *)
(* one.                                                                    *)
(***************************************************************************)
EXTENDS ResponseImport

CONSTANTS i1, i2, w1, w2

\* Each kind of trouble once, deaths and failing statements twice.
TroublesOf ==
  [k \in TroubleKinds |-> CASE k \in {"crash", "db"} -> 2 [] k = "file" -> 0 [] OTHER -> 1]

\* Workers are alike: the second takes a job only while the first has one.
FirstFree == \A w \in Workers : pc[w] = "idle" /\ pc'[w] # "idle" => w = w1 \/ pc[w1] # "idle"

\* Only the delete of the upload after the end fails.
FileTrouble == [k \in TroubleKinds |-> IF k = "file" THEN 1 ELSE 0]
=============================================================================
