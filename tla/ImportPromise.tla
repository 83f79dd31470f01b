---------------------------- MODULE ImportPromise ----------------------------
(***************************************************************************)
(* What the responses page of a form shows of its imports                  *)
(* (docs/response-import.md), with no jobs, claims, retries, sweeps or     *)
(* requests that die: an import waits with its upload, one import of a     *)
(* form is busy at a time, it completes only with every row of its file    *)
(* (or fewer, when it was told to skip the invalid ones), and ends once;   *)
(* rows that are completed stay until somebody deletes one or asks for the *)
(* undo, which leaves none.                                                *)
(*                                                                         *)
(* `busy` is an import being checked, queued or run, `undoing` a completed *)
(* one whose undo was asked for, `gone` one whose form is deleted.         *)
(***************************************************************************)
EXTENDS Naturals

CONSTANTS Imports,
          RowCount   \* rows of a file

VARIABLES phase,   \* of each import
          rows,    \* responses marked with it
          lost,    \* and those deleted one by one since they were counted
          upload,  \* its file is due, there, or not (or no longer) to be had
          skips    \* told to skip invalid rows

vars == <<phase, rows, lost, upload, skips>>

Init ==
  /\ phase = [i \in Imports |-> "none"]
  /\ rows = [i \in Imports |-> 0] /\ lost = [i \in Imports |-> 0]
  /\ upload = [i \in Imports |-> "none"]
  /\ skips = [i \in Imports |-> FALSE]

Become(i, p) == phase' = [phase EXCEPT ![i] = p]

\* A new import waits, and its file is on the way ...
Offer(i) ==
  /\ phase[i] = "none" /\ upload[i] = "none"
  /\ Become(i, "waiting")
  /\ upload' = [upload EXCEPT ![i] = "due"]
  /\ UNCHANGED <<rows, lost, skips>>

\* ... arrives, or does not ...
Arrive(i) ==
  /\ upload[i] = "due"
  /\ \E u \in {"there", "none"} : upload' = [upload EXCEPT ![i] = u]
  /\ UNCHANGED <<phase, rows, lost, skips>>

\* ... in which case the import may be taken back, with nothing stored.
Retract(i) ==
  /\ upload[i] = "due" /\ rows[i] = 0
  /\ Become(i, "gone")
  /\ \E u \in {"there", "none"} : upload' = [upload EXCEPT ![i] = u]
  /\ UNCHANGED <<rows, lost, skips>>

Without(i) == [upload EXCEPT ![i] = IF @ = "there" THEN "none" ELSE @]

Withdraw(i) ==
  /\ phase[i] = "waiting"
  /\ \E p \in {"discarded", "expired"} : Become(i, p)
  /\ upload' \in {upload, Without(i)}
  /\ UNCHANGED <<rows, lost, skips>>

\* A check or an import, and no other import is busy.
Begin(i) ==
  /\ phase[i] = "waiting"
  /\ \A o \in Imports : phase[o] # "busy"
  /\ Become(i, "busy")
  /\ \E b \in BOOLEAN : skips' = [skips EXCEPT ![i] = b]
  /\ UNCHANGED <<rows, lost, upload>>

\* As many rows as the file has, or as many of them as are valid.
Whole(i, n) == n = RowCount \/ (skips[i] /\ n \in 1 .. RowCount)

\* A run that was failed meanwhile may be in the middle of a batch.
AtWork(i) == phase[i] \in {"busy", "failed", "gone"}

Store(i) ==
  /\ AtWork(i)
  /\ rows' = [rows EXCEPT ![i] = @ + 1]
  /\ UNCHANGED <<phase, lost, upload, skips>>

Recount(i) ==
  /\ AtWork(i) /\ Whole(i, rows[i])
  /\ lost' = [lost EXCEPT ![i] = 0]
  /\ UNCHANGED <<phase, rows, upload, skips>>

\* Nothing undoes what is completed unless somebody asks for it.
Undo(i) ==
  /\ AtWork(i) \/ phase[i] = "cancelled"
  /\ rows' = [rows EXCEPT ![i] = 0]
  /\ UNCHANGED <<phase, lost, upload, skips>>

LoseOne(i) ==
  /\ rows[i] > 0
  /\ rows' = [rows EXCEPT ![i] = @ - 1]
  /\ lost' = [lost EXCEPT ![i] = @ + 1]
  /\ UNCHANGED <<phase, upload, skips>>

\* A check leaves the import waiting, with nothing stored; neither a check nor an
\* import goes through without the file.
Finish(i, p) ==
  /\ phase[i] = "busy"
  /\ p \in {"waiting", "completed"} => upload[i] = "there"
  /\ p = "waiting" => rows[i] = 0
  /\ p = "completed" => Whole(i, rows[i] + lost[i])
  /\ Become(i, p)
  /\ UNCHANGED <<rows, lost, upload, skips>>

Outcomes == {"waiting", "completed", "failed", "cancelled"}

AskUndo(i) ==
  /\ phase[i] = "completed"
  /\ Become(i, "undoing")
  /\ rows' = [rows EXCEPT ![i] = 0]
  /\ UNCHANGED <<lost, upload, skips>>

RollBack(i) ==
  /\ phase[i] = "undoing" /\ rows[i] = 0
  /\ Become(i, "rolled_back")
  /\ UNCHANGED <<rows, lost, upload, skips>>

DropUpload(i) ==
  /\ phase[i] \notin {"waiting", "busy"}
  /\ upload' = Without(i)
  /\ UNCHANGED <<phase, rows, lost, skips>>

\* The form is deleted: its imports and uploads first, then the responses.
ForgetImports ==
  /\ phase' = [i \in Imports |-> "gone"]
  /\ upload' = [i \in Imports |-> IF upload[i] = "there" THEN "none" ELSE upload[i]]
  /\ UNCHANGED <<rows, lost, skips>>

ForgetRows ==
  /\ \A i \in Imports : phase[i] = "gone"
  /\ rows' = [i \in Imports |-> 0]
  /\ UNCHANGED <<phase, lost, upload, skips>>

Next ==
  \/ \E i \in Imports :
       \/ Offer(i) \/ Arrive(i) \/ Retract(i) \/ Withdraw(i) \/ Begin(i) \/ Store(i)
       \/ Recount(i) \/ Undo(i)
       \/ LoseOne(i) \/ AskUndo(i) \/ RollBack(i) \/ DropUpload(i)
       \/ \E p \in Outcomes : Finish(i, p)
  \/ ForgetImports \/ ForgetRows

Spec == Init /\ [][Next]_vars
=============================================================================
