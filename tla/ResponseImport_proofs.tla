------------------------ MODULE ResponseImport_proofs ------------------------
(***************************************************************************)
(* Proofs about ResponseImport, for any imports, workers, file and batch   *)
(* sizes, attempts and troubles.  ImportInv is inductive; the history of   *)
(* an import (EndedStays), the rows of a completed one (CompletionInv) and *)
(* those of a failed one (RowsInv) follow from it, each with a             *)
(* strengthening of its own.                                               *)
(***************************************************************************)
EXTENDS ResponseImport, TLAPS

USE ImportAssumption DEF claimed, claims, history, jobs, record, trouble, world

-----------------------------------------------------------------------------
(* The types.                                                              *)

\* The moves of a run keep its types: to another step ...
LEMMA GotoTypes ==
  ASSUME JobTypes, NEW w \in Workers, NEW l \in Pcs, Goto(w, l),
         UNCHANGED <<job, attempt, kind, at, saved, verdict, failing>>
  PROVE  JobTypes'
BY DEF JobTypes, Goto

\* ... to the end of the job ...
LEMMA ReleaseTypes ==
  ASSUME JobTypes, NEW w \in Workers, Release(w)
  PROVE  JobTypes'
BY DEF JobTypes, Release, Goto, Pcs, Modes, Verdicts

\* ... to a failure ...
LEMMA FailTypes ==
  ASSUME JobTypes, NEW w \in Workers, Fail(w)
  PROVE  JobTypes'
BY DEF JobTypes, Fail, Goto, claimed, Pcs, Verdicts

\* ... by an exception ...
LEMMA RaiseTypes ==
  ASSUME JobTypes, NEW w \in Workers, Raise(w)
  PROVE  JobTypes'
BY ReleaseTypes, FailTypes DEF Raise

\* ... to the undo before the end ...
LEMMA UndoAndEndTypes ==
  ASSUME JobTypes, NEW w \in Workers, NEW how \in Verdicts, UndoAndEnd(w, how)
  PROVE  JobTypes'
BY DEF JobTypes, UndoAndEnd, Goto, claimed, Pcs

\* ... and on from it.
LEMMA AfterUndoTypes ==
  ASSUME JobTypes, NEW w \in Workers, AfterUndo(w)
  PROVE  JobTypes'
<1>1. CASE verdict[w] = "stopped"
  BY <1>1, FailTypes DEF AfterUndo
<1>2. CASE verdict[w] # "stopped"
  BY <1>2, GotoTypes DEF AfterUndo, claimed, Pcs
<1> QED
  BY <1>1, <1>2

\* What the second half of an upload changes.
Delivers(i) ==
  /\ upload[i] = "arriving"
  /\ \E b \in BOOLEAN : file' = [file EXCEPT ![i] = b]
  /\ \/ upload' = [upload EXCEPT ![i] = "saved"] /\ file'[i] /\ UNCHANGED status
     \/ upload' = [upload EXCEPT ![i] = "lost"] /\ UNCHANGED <<status, file>>
     \/ /\ upload' = [upload EXCEPT ![i] = "lost"]
        /\ status' = [status EXCEPT ![i] = "gone"]
  /\ UNCHANGED <<on, form, allowed, past, skips, mode, claims, stopped, undo, stored,
                 silent, todo, jobs, sweep, rollback, history>>

\* start does this after the row is saved.
LEMMA SaveFileEffect ==
  ASSUME TypeOK, NEW i \in Imports, SaveFile(i)
  PROVE  Delivers(i)
<1>1. file \in [Imports -> BOOLEAN]
  BY DEF TypeOK, DataTypes
<1>2. UNCHANGED <<on, form, allowed, past, skips, mode, claims, stopped, undo, stored,
                  silent, todo, jobs, sweep, rollback, history>>
  BY Zenon DEF SaveFile
<1>3. CASE Arrived(i, "saved") /\ file' = [file EXCEPT ![i] = TRUE] /\ UNCHANGED status
  BY <1>1, <1>2, <1>3 DEF Delivers, Arrived
<1>4. ASSUME NEW landed \in BOOLEAN, Arrived(i, "lost"),
             file' = [file EXCEPT ![i] = landed], status' = [status EXCEPT ![i] = "gone"]
      PROVE  Delivers(i)
  BY <1>2, <1>4 DEF Delivers, Arrived
<1>5. CASE Arrived(i, "lost") /\ UNCHANGED <<status, file>>
  <2>1. file' = [file EXCEPT ![i] = file[i]] /\ file[i] \in BOOLEAN
    BY <1>1, <1>5
  <2> QED
    BY <1>2, <1>5, <2>1 DEF Delivers, Arrived
<1> QED
  BY <1>3, <1>4, <1>5, Zenon DEF SaveFile

\* What the end of a waiting import changes.
Withdraws(i) ==
  /\ status[i] \in Waits
  /\ \E how \in {"discarded", "expired"} : status' = [status EXCEPT ![i] = how]
  /\ file' = file \/ file' = [file EXCEPT ![i] = FALSE]
  /\ UNCHANGED <<world, mode, claims, stopped, undo, stored, silent, todo, jobs, sweep,
                 rollback, history>>

\* Its user, the upload that replaces it and time end it.
LEMMA WithdrawEffect ==
  ASSUME NEW i \in Imports, Discard(i) \/ Replace(i) \/ Expire(i)
  PROVE  Withdraws(i)
<1>1. /\ status[i] \in Waits
      /\ EndWaiting(i, "discarded") \/ EndWaiting(i, "expired")
      /\ UNCHANGED <<world, mode, claims, stopped, undo, stored, silent, todo, jobs, sweep,
                     rollback, history>>
  BY Zenon DEF Discard, Replace, Expire, MayWait
<1>2. /\ \E how \in {"discarded", "expired"} : status' = [status EXCEPT ![i] = how]
      /\ file' = file \/ file' = [file EXCEPT ![i] = FALSE]
  BY <1>1, Zenon DEF EndWaiting
<1> QED
  BY <1>1, <1>2, Zenon DEF Withdraws

\* The switch, the form, its people and the clock keep their types.
LEMMA WorldStep ==
  ASSUME TypeOK, Next
  PROVE  WorldTypes'
<1>1. ASSUME NEW i \in Imports, NEW what \in {"check", "import"}, Start(i, what)
      PROVE  WorldTypes'
  BY <1>1 DEF Start, TypeOK, WorldTypes, Queue, Trouble
<1>2. ASSUME NEW i \in Imports, Discard(i) \/ Replace(i)
      PROVE  WorldTypes'
  BY <1>2 DEF Discard, Replace, TypeOK, WorldTypes, EndWaiting, Trouble
<1>3. ASSUME NEW i \in Imports, RollbackDelete(i)
      PROVE  WorldTypes'
  BY <1>3 DEF RollbackDelete, TypeOK, WorldTypes, Stray, Trouble, Forms, TroubleKinds
<1>4. ASSUME NEW i \in Imports, RollbackEnd(i)
      PROVE  WorldTypes'
  BY <1>4 DEF RollbackEnd, TypeOK, WorldTypes, Stray, DropsMark, Trouble, Forms,
       TroubleKinds
<1>5. ASSUME NEW w \in Workers, Undo(w)
      PROVE  WorldTypes'
  BY <1>5 DEF Undo, TypeOK, WorldTypes, Trouble
<1>6. ASSUME NEW w \in Workers, MarkUndo(w)
      PROVE  WorldTypes'
  BY <1>6 DEF MarkUndo, TypeOK, WorldTypes, Trouble
<1>7. ASSUME NEW w \in Workers, Read(w)
      PROVE  WorldTypes'
  BY <1>7 DEF Read, TypeOK, WorldTypes, Trouble
<1>8. ASSUME NEW w \in Workers, Budget(w)
      PROVE  WorldTypes'
  BY <1>8 DEF Budget, TypeOK, WorldTypes, Trouble
<1>9. ASSUME NEW w \in Workers, FinishFile(w)
      PROVE  WorldTypes'
  BY <1>9 DEF FinishFile, TypeOK, WorldTypes, Trouble
<1>10. ASSUME NEW w \in Workers, StatementFails(w)
      PROVE  WorldTypes'
  BY <1>10 DEF StatementFails, TypeOK, WorldTypes, Trouble, TroubleKinds
<1>11. ASSUME NEW w \in Workers, WorkerDies(w)
      PROVE  WorldTypes'
  BY <1>11 DEF WorkerDies, TypeOK, WorldTypes, Trouble, TroubleKinds
<1>12. ASSUME NEW i \in Imports, SweepQueues(i)
      PROVE  WorldTypes'
  BY <1>12 DEF SweepQueues, TypeOK, WorldTypes, Queue, Trouble
<1>13. ASSUME NEW i \in Imports, SweepUndoes(i)
      PROVE  WorldTypes'
  BY <1>13 DEF SweepUndoes, TypeOK, WorldTypes, Trouble, Forms, TroubleKinds
<1>14. ASSUME NEW i \in Imports, SweepMarks(i)
      PROVE  WorldTypes'
  BY <1>14 DEF SweepMarks, TypeOK, WorldTypes, Marked, Trouble, Forms, TroubleKinds
<1>15. ASSUME NEW i \in Imports, Expire(i)
      PROVE  WorldTypes'
  BY <1>15 DEF Expire, TypeOK, WorldTypes, EndWaiting, Trouble
<1>16. ASSUME NEW i \in Imports, SweepDies(i)
      PROVE  WorldTypes'
  BY <1>16 DEF SweepDies, TypeOK, WorldTypes, Trouble, Forms, TroubleKinds
<1>17. ASSUME NEW i \in Imports, HourEnds(i)
      PROVE  WorldTypes'
  BY <1>17 DEF HourEnds, TypeOK, WorldTypes, Forms, TroubleKinds
<1>18. ASSUME NEW i \in Imports, LoseRole(i)
      PROVE  WorldTypes'
  BY <1>18 DEF LoseRole, TypeOK, WorldTypes, Trouble, Forms, TroubleKinds
<1>19. ASSUME NEW i \in Imports, ForgetActor(i)
      PROVE  WorldTypes'
  <2>1. allowed' = allowed \/ allowed' = [allowed EXCEPT ![i] = FALSE]
    BY <1>19, Zenon DEF ForgetActor
  <2>2. allowed' \in [Imports -> BOOLEAN]
    BY <2>1 DEF TypeOK, WorldTypes
  <2>3. UNCHANGED <<on, form, past, upload, skips>> /\ Trouble("account")
    BY <1>19, Zenon DEF ForgetActor
  <2> QED
    BY <2>2, <2>3 DEF TypeOK, WorldTypes, Trouble, TroubleKinds
<1>20. ASSUME NEW i \in Imports, EraseOne(i)
      PROVE  WorldTypes'
  BY <1>20 DEF EraseOne, TypeOK, WorldTypes, Trouble, Forms, TroubleKinds
<1>21. ASSUME Switch
      PROVE  WorldTypes'
  BY <1>21 DEF Switch, TypeOK, WorldTypes, Trouble, Forms, TroubleKinds
<1>22. ASSUME DeleteForm
      PROVE  WorldTypes'
  BY <1>22 DEF DeleteForm, TypeOK, WorldTypes, Trouble, Forms, TroubleKinds
<1>23. ASSUME
        \/ \E w \in Workers, i \in Imports : Claim(w, i)
        \/ \E w \in Workers : Proceed(w) \/ Beat(w) \/ Save(w) \/ Skip(w) \/ Count(w)
             \/ End(w)
        \/ \E i \in Imports : SweepLists(i) \/ SweepFails(i) \/
             SweepFinishesFile(i) \/ RetryDeletes(i) \/ RetryClears(i) \/ PurgeFile(i)
             \/ FallsSilent(i)
      PROVE  WorldTypes'
  <2>1. UNCHANGED <<on, form, past, allowed, upload, skips, spent, total>>
    BY <1>23, ZenonT(60)
       DEF Claim, Proceed, Beat, Save, Skip, Count, End, SweepLists, SweepFails,
           SweepFinishesFile, RetryDeletes, RetryClears, PurgeFile, FallsSilent
  <2>2. QED
    BY <2>1 DEF TypeOK, WorldTypes, Forms, TroubleKinds
<1>24. ASSUME NEW i \in Imports, Upload(i)
      PROVE  WorldTypes'
  BY <1>24 DEF Upload, TypeOK, WorldTypes, Uploads
<1>25. ASSUME NEW i \in Imports, SaveFile(i)
      PROVE  WorldTypes'
  <2>1. upload' \in [Imports -> Uploads]
    BY <1>25 DEF SaveFile, Arrived, TypeOK, WorldTypes, Uploads
  <2>2. trouble' = trouble \/ Trouble("db") \/ Trouble("crash")
    BY <1>25, Zenon DEF SaveFile
  <2>3. UNCHANGED <<on, form, past, allowed, skips>>
    BY <1>25, Zenon DEF SaveFile
  <2> QED
    BY <2>1, <2>2, <2>3 DEF TypeOK, WorldTypes, Trouble, TroubleKinds
<1> QED
  BY <1>1, <1>2, <1>3, <1>4, <1>5, <1>6, <1>7, <1>8, <1>9, <1>10, <1>11, <1>12, <1>13,
       <1>14, <1>15, <1>16, <1>17, <1>18, <1>19, <1>20, <1>21, <1>22, <1>23, <1>24, <1>25
       DEF Next, Request, Sweep, Step

\* What the start of a dry run or an import does to its record.
Starts(i, what) ==
  /\ status[i] \in Waits /\ stored[i] = 0
  /\ status' = [status EXCEPT ![i] = IF what = "check" THEN "checking" ELSE "queued"]
  /\ mode' = [mode EXCEPT ![i] = what]
  /\ attempts' = [attempts EXCEPT ![i] = 0]
  /\ started' = [started EXCEPT ![i] = FALSE]
  /\ silent' = [silent EXCEPT ![i] = FALSE]
  /\ todo' = Defer(todo, i) \/ todo' = todo
  /\ \E b \in BOOLEAN : skips' = [skips EXCEPT ![i] = b]
  /\ UNCHANGED <<form, past, upload, sweep, stored, file, jobs, rollback, history>>

\* check and run do this.
LEMMA StartEffect ==
  ASSUME ImportInv, NEW i \in Imports, NEW what \in {"check", "import"}, Start(i, what)
  PROVE  Starts(i, what)
<1>1. status[i] \in Waits
  BY Zenon DEF Start, Admit, MayWait
<1>2. /\ mode' = [mode EXCEPT ![i] = what]
      /\ attempts' = [attempts EXCEPT ![i] = 0]
      /\ started' = [started EXCEPT ![i] = FALSE]
      /\ silent' = [silent EXCEPT ![i] = FALSE]
      /\ todo' = Defer(todo, i) \/ todo' = todo
      /\ \E b \in BOOLEAN : skips' = [skips EXCEPT ![i] = b]
  <2>1. /\ mode' = [mode EXCEPT ![i] = what]
        /\ attempts' = [attempts EXCEPT ![i] = 0]
        /\ started' = [started EXCEPT ![i] = FALSE]
        /\ silent' = [silent EXCEPT ![i] = FALSE]
        /\ todo' = Defer(todo, i) \/ todo' = todo
    BY Zenon DEF Start, Queue
  <2>2. PICK b \in BOOLEAN : skips' = [skips EXCEPT ![i] = b /\ what = "import"]
    BY Zenon DEF Start
  <2>3. (b /\ what = "import") \in BOOLEAN
    BY Zenon
  <2> QED
    BY <2>1, <2>2, <2>3, Zenon
<1>3. status' = [status EXCEPT ![i] = IF what = "check" THEN "checking" ELSE "queued"]
  BY DEF Start
<1>4. stored[i] = 0
  BY <1>1 DEF ImportInv, RecordShape
<1>5. UNCHANGED <<form, past, upload, sweep, stored, file, jobs, rollback, history>>
  BY Zenon DEF Start
<1> QED
  BY <1>1, <1>2, <1>3, <1>4, <1>5, Zenon DEF Starts

\* What a worker changes when it claims an import.
Claims(w, i) ==
  /\ status' = [status EXCEPT ![i] = IF @ = "queued" THEN "running" ELSE @]
  /\ attempts' = [attempts EXCEPT ![i] = @ + 1]
  /\ started' = [started EXCEPT ![i] = TRUE]
  /\ silent' = [silent EXCEPT ![i] = FALSE]
  /\ todo' = [todo EXCEPT ![i] = 0]
  /\ job' = [job EXCEPT ![w] = i]
  /\ attempt' = [attempt EXCEPT ![w] = attempts[i] + 1]
  /\ kind' = [kind EXCEPT ![w] = mode[i]]
  /\ \E l \in {"undo", "admit"} : pc' = [pc EXCEPT ![w] = l]
  /\ pc[w] = "idle" /\ todo[i] # 0
  /\ UNCHANGED <<mode, stopped, undo, sweep, past, form, upload, skips, stored, at,
                 saved, verdict, failing, file, gaveUp>>

\* _claim does this.
LEMMA ClaimEffect ==
  ASSUME NEW w \in Workers, NEW i \in Imports, Claim(w, i), Claimable(i)
  PROVE  Claims(w, i)
<1>1. /\ status' = [status EXCEPT ![i] = IF @ = "queued" THEN "running" ELSE @]
      /\ attempts' = [attempts EXCEPT ![i] = @ + 1]
      /\ started' = [started EXCEPT ![i] = TRUE]
      /\ silent' = [silent EXCEPT ![i] = FALSE]
  BY DEF Claim
<1>2. /\ job' = [job EXCEPT ![w] = i]
      /\ attempt' = [attempt EXCEPT ![w] = attempts[i] + 1]
      /\ kind' = [kind EXCEPT ![w] = mode[i]]
  BY DEF Claim
<1>3. \E l \in {"undo", "admit"} : pc' = [pc EXCEPT ![w] = l]
  <2>1. Goto(w, IF mode[i] = "import" /\ attempts[i] > 0 THEN "undo" ELSE "admit")
    BY DEF Claim
  <2> QED
    BY <2>1 DEF Goto
<1>4. todo' = [todo EXCEPT ![i] = 0] /\ pc[w] = "idle" /\ todo[i] # 0
  BY DEF Claim, Fetched, Waiting, NoJob
<1>5. UNCHANGED <<mode, stopped, undo, sweep, past, form, upload, skips, stored, at,
                  saved, verdict, failing, file, gaveUp>>
  BY DEF Claim, world, history
<1> QED
  BY <1>1, <1>2, <1>3, <1>4, <1>5, Zenon DEF Claims

\* So do the import rows ...
LEMMA RecordTypesStep ==
  ASSUME ImportInv, Next
  PROVE  RecordTypes'
<1> USE DEF ImportInv
<1>1. ASSUME NEW i \in Imports, Upload(i)
      PROVE  RecordTypes'
  BY <1>1 DEF Upload, TypeOK, RecordTypes, Statuses, Waits, Ended
<1>2. ASSUME NEW i \in Imports, NEW what \in {"check", "import"}, Start(i, what)
      PROVE  RecordTypes'
  BY <1>2 DEF Start, TypeOK, RecordTypes, Statuses, Modes, Busy
<1>3. ASSUME NEW i \in Imports, Discard(i) \/ Replace(i)
      PROVE  RecordTypes'
  <2>1. Withdraws(i)
    BY <1>3, WithdrawEffect, Zenon
  <2> QED
    BY <2>1 DEF Withdraws, TypeOK, RecordTypes, Statuses, Ended
<1>4. ASSUME NEW i \in Imports, RollbackEnd(i)
      PROVE  RecordTypes'
  BY <1>4 DEF RollbackEnd, TypeOK, WorldTypes, RecordTypes, JobTypes, RunShape, Stray,
       DropsMark, Trouble, Forms, TroubleKinds, Statuses, Modes, Pcs, Verdicts, Waits,
       Busy, Ended
<1>5. ASSUME NEW w \in Workers, NEW i \in Imports, Claim(w, i)
      PROVE  RecordTypes'
  <2>1. CASE ~Claimable(i)
    BY <1>5, <2>1 DEF Claim, TypeOK, RecordTypes
  <2>2. CASE Claimable(i)
    <3>1. Claims(w, i)
      BY <1>5, <2>2, ClaimEffect, Zenon
    <3>2. attempts[i] \in 0 .. MaxAttempts /\ MaxAttempts \in Nat \ {0}
      BY DEF TypeOK, RecordTypes
    <3>3. IsBusy(i) /\ Waiting(todo, i)
      BY <1>5, <2>2 DEF Claim, Claimable, IsBusy, Busy
    <3>4. attempts[i] < MaxAttempts
      BY <3>2, <3>3 DEF SweepShape, RecordShape
    <3>5. attempts' \in [Imports -> 0 .. MaxAttempts]
      BY <3>1, <3>2, <3>4 DEF Claims, TypeOK, RecordTypes
    <3> QED
      BY <3>1, <3>5 DEF Claims, TypeOK, RecordTypes, Statuses, Busy
  <2> QED
    BY <2>1, <2>2
<1>6. ASSUME NEW w \in Workers, MarkUndo(w)
      PROVE  RecordTypes'
  BY <1>6 DEF MarkUndo, TypeOK, WorldTypes, RecordTypes, JobTypes, RunShape, AfterUndo,
       Marked, Trouble, Forms, TroubleKinds, Statuses, Modes, Pcs, Verdicts, Fail, Goto,
       Waits, Busy, Ended
<1>7. ASSUME NEW w \in Workers, End(w)
      PROVE  RecordTypes'
  BY <1>7 DEF End, TypeOK, RecordTypes, RunShape, Statuses, Waits, Ended
<1>8. ASSUME NEW i \in Imports, SweepFails(i)
      PROVE  RecordTypes'
  BY <1>8 DEF SweepFails, TypeOK, RecordTypes, Statuses, Ended
<1>9. ASSUME NEW i \in Imports, SweepMarks(i)
      PROVE  RecordTypes'
  BY <1>9 DEF SweepMarks, TypeOK, WorldTypes, RecordTypes, JobTypes, RunShape, Marked,
       Trouble, Forms, TroubleKinds, Statuses, Modes, Pcs, Verdicts, Waits, Busy, Ended
<1>10. ASSUME NEW i \in Imports, RetryClears(i)
      PROVE  RecordTypes'
  BY <1>10 DEF RetryClears, TypeOK, RecordTypes
<1>11. ASSUME NEW i \in Imports, Expire(i)
      PROVE  RecordTypes'
  BY <1>11 DEF Expire, TypeOK, RecordTypes, EndWaiting, Statuses, Ended
<1>12. ASSUME NEW i \in Imports, ForgetActor(i)
      PROVE  RecordTypes'
  BY <1>12 DEF ForgetActor, TypeOK, RecordTypes, Statuses, Ended
<1>13. ASSUME DeleteForm
      PROVE  RecordTypes'
  BY <1>13 DEF DeleteForm, TypeOK, RecordTypes, Statuses
<1>14. ASSUME
        \/ \E w \in Workers : Undo(w) \/ Proceed(w) \/ Read(w) \/ Budget(w) \/ Beat(w)
             \/ Save(w) \/ Skip(w) \/ Count(w) \/ FinishFile(w) \/ StatementFails(w) \/
             WorkerDies(w)
        \/ \E i \in Imports : RollbackDelete(i) \/ SweepLists(i) \/ SweepQueues(i) \/
             SweepUndoes(i) \/ SweepFinishesFile(i) \/ RetryDeletes(i) \/ PurgeFile(i)
             \/ SweepDies(i) \/ HourEnds(i) \/ FallsSilent(i) \/ LoseRole(i) \/
             EraseOne(i)
        \/ Switch
      PROVE  RecordTypes'
  <2>1. UNCHANGED <<status, mode, attempts, started, stopped, undo>>
    BY <1>14, ZenonT(60)
       DEF RollbackDelete, Undo, Proceed, Read, Budget, Beat, Save, Skip, Count, FinishFile,
           StatementFails, WorkerDies, SweepLists, SweepQueues, SweepUndoes, SweepFinishesFile,
           RetryDeletes, PurgeFile, SweepDies, HourEnds, FallsSilent, LoseRole, EraseOne, Switch
  <2>2. QED
    BY <2>1 DEF TypeOK, RecordTypes
<1>15. ASSUME NEW i \in Imports, SaveFile(i)
      PROVE  RecordTypes'
  BY <1>15, SaveFileEffect DEF Delivers, TypeOK, RecordTypes, Statuses
<1> QED
  BY <1>1, <1>2, <1>3, <1>4, <1>5, <1>6, <1>7, <1>8, <1>9, <1>10, <1>11, <1>12, <1>13,
       <1>14, <1>15 DEF Next, Request, Sweep, Step

\* ... their uploads, responses and jobs, the sweep and the rollbacks ...
LEMMA DataStep ==
  ASSUME TypeOK, \A x \in Workers : RunShape(x), Next
  PROVE  DataTypes'
<1>1. ASSUME NEW i \in Imports, Upload(i)
      PROVE  DataTypes'
  BY <1>1 DEF Upload, TypeOK, DataTypes
<1>2. ASSUME NEW i \in Imports, NEW what \in {"check", "import"}, Start(i, what)
      PROVE  DataTypes'
  BY <1>2 DEF Start, TypeOK, DataTypes, Queue, Defer
<1>3. ASSUME NEW i \in Imports, Discard(i) \/ Replace(i)
      PROVE  DataTypes'
  BY <1>3 DEF Discard, Replace, TypeOK, DataTypes, EndWaiting
<1>4. ASSUME NEW i \in Imports, RollbackDelete(i)
      PROVE  DataTypes'
  BY <1>4 DEF RollbackDelete, TypeOK, DataTypes
<1>5. ASSUME NEW i \in Imports, RollbackEnd(i)
      PROVE  DataTypes'
  BY <1>5 DEF RollbackEnd, TypeOK, DataTypes
<1>6. ASSUME NEW w \in Workers, NEW i \in Imports, Claim(w, i)
      PROVE  DataTypes'
  <2>1. todo' \in [Imports -> Nat]
    BY <1>6 DEF Claim, Fetched, NoJob, TypeOK, DataTypes
  <2>2. silent' \in [Imports -> BOOLEAN]
    <3>1. silent' = silent \/ silent' = [silent EXCEPT ![i] = FALSE]
      BY <1>6, Zenon DEF Claim
    <3> QED
      BY <3>1 DEF TypeOK, DataTypes
  <2>3. UNCHANGED <<file, stored, sweep, rollback>>
    BY <1>6, Zenon DEF Claim
  <2> QED
    BY <2>1, <2>2, <2>3 DEF TypeOK, DataTypes
<1>7. ASSUME NEW w \in Workers, Undo(w)
      PROVE  DataTypes'
  BY <1>7 DEF Undo, TypeOK, DataTypes
<1>8. ASSUME NEW w \in Workers, Save(w) \/ Skip(w)
      PROVE  DataTypes'
  BY <1>8 DEF Save, Skip, TypeOK, DataTypes
<1>9. ASSUME NEW w \in Workers, FinishFile(w)
      PROVE  DataTypes'
  BY <1>9 DEF FinishFile, TypeOK, DataTypes
<1>10. ASSUME NEW i \in Imports, SweepLists(i)
      PROVE  DataTypes'
  BY <1>10 DEF SweepLists, TypeOK, DataTypes, Plans
<1>11. ASSUME NEW i \in Imports, SweepQueues(i)
      PROVE  DataTypes'
  BY <1>11 DEF SweepQueues, TypeOK, DataTypes, Queue, Plans, Defer
<1>12. ASSUME NEW i \in Imports, SweepFails(i)
      PROVE  DataTypes'
  BY <1>12 DEF SweepFails, TypeOK, DataTypes, Plans
<1>13. ASSUME NEW i \in Imports, SweepUndoes(i)
      PROVE  DataTypes'
  BY <1>13 DEF SweepUndoes, TypeOK, DataTypes, Plans
<1>14. ASSUME NEW i \in Imports, SweepMarks(i)
      PROVE  DataTypes'
  BY <1>14 DEF SweepMarks, TypeOK, DataTypes, Plans
<1>15. ASSUME NEW i \in Imports, SweepFinishesFile(i)
      PROVE  DataTypes'
  BY <1>15 DEF SweepFinishesFile, TypeOK, DataTypes, Plans
<1>16. ASSUME NEW i \in Imports, RetryDeletes(i)
      PROVE  DataTypes'
  BY <1>16 DEF RetryDeletes, TypeOK, DataTypes, Plans
<1>17. ASSUME NEW i \in Imports, RetryClears(i)
      PROVE  DataTypes'
  BY <1>17 DEF RetryClears, TypeOK, DataTypes, Plans
<1>18. ASSUME NEW i \in Imports, Expire(i)
      PROVE  DataTypes'
  BY <1>18 DEF Expire, TypeOK, DataTypes, EndWaiting
<1>19. ASSUME NEW i \in Imports, PurgeFile(i)
      PROVE  DataTypes'
  BY <1>19 DEF PurgeFile, TypeOK, DataTypes
<1>20. ASSUME NEW i \in Imports, SweepDies(i)
      PROVE  DataTypes'
  BY <1>20 DEF SweepDies, TypeOK, DataTypes, Plans
<1>21. ASSUME NEW i \in Imports, FallsSilent(i)
      PROVE  DataTypes'
  BY <1>21 DEF FallsSilent, TypeOK, DataTypes
<1>22. ASSUME NEW i \in Imports, ForgetActor(i)
      PROVE  DataTypes'
  BY <1>22 DEF ForgetActor, TypeOK, DataTypes
<1>23. ASSUME NEW i \in Imports, EraseOne(i)
      PROVE  DataTypes'
  BY <1>23 DEF EraseOne, TypeOK, DataTypes
<1>24. ASSUME DeleteForm
      PROVE  DataTypes'
  <2>1. UNCHANGED <<silent, todo, sweep, rollback>>
    BY <1>24, Zenon DEF DeleteForm
  <2>2. file' = file \/ file' = [i \in Imports |-> FALSE]
    BY <1>24, Zenon DEF DeleteForm
  <2>3. stored' = stored \/ stored' = [i \in Imports |-> 0]
    BY <1>24, Zenon DEF DeleteForm
  <2>4. file' \in [Imports -> BOOLEAN]
    BY <2>2 DEF TypeOK, DataTypes
  <2>5. stored' \in [Imports -> Nat]
    BY <2>3 DEF TypeOK, DataTypes
  <2> QED
    BY <2>1, <2>4, <2>5 DEF TypeOK, DataTypes
<1>25. ASSUME
        \/ \E w \in Workers : MarkUndo(w) \/ Proceed(w) \/ Read(w) \/ Budget(w) \/
             Beat(w) \/ Count(w) \/ End(w) \/ StatementFails(w) \/ WorkerDies(w)
        \/ \E i \in Imports : HourEnds(i) \/ LoseRole(i)
        \/ Switch
      PROVE  DataTypes'
  <2>1. UNCHANGED <<file, stored, silent, todo, sweep, rollback>>
    BY <1>25, ZenonT(60)
       DEF MarkUndo, Proceed, Read, Budget, Beat, Count, End, StatementFails, WorkerDies,
           HourEnds, LoseRole, Switch
  <2>2. QED
    BY <2>1 DEF TypeOK, DataTypes, JobTypes, RunShape, Plans, Pcs, Modes, Verdicts
<1>26. ASSUME NEW i \in Imports, SaveFile(i)
      PROVE  DataTypes'
  BY <1>26, SaveFileEffect DEF Delivers, TypeOK, DataTypes
<1> QED
  BY <1>1, <1>2, <1>3, <1>4, <1>5, <1>6, <1>7, <1>8, <1>9, <1>10, <1>11, <1>12, <1>13,
       <1>14, <1>15, <1>16, <1>17, <1>18, <1>19, <1>20, <1>21, <1>22, <1>23, <1>24, <1>25,
       <1>26 DEF Next, Request, Sweep, Step

\* ... the workers ...
LEMMA JobStep ==
  ASSUME TypeOK, \A x \in Workers : RunShape(x), Next
  PROVE  JobTypes'
<1>1. ASSUME NEW w \in Workers, NEW i \in Imports, Claim(w, i)
      PROVE  JobTypes'
  <2>1. CASE ~Claimable(i)
    <3>1. UNCHANGED <<pc, job, attempt, kind, at, saved, verdict, failing>>
      BY <1>1, <2>1, Zenon DEF Claim
    <3> QED
      BY <3>1 DEF TypeOK, JobTypes
  <2>2. CASE Claimable(i)
    <3>1. Claims(w, i)
      BY <1>1, <2>2, ClaimEffect, Zenon
    <3>2. attempts[i] \in Nat /\ mode[i] \in Modes
      BY DEF TypeOK, RecordTypes
    <3> QED
      BY <3>1, <3>2 DEF Claims, TypeOK, JobTypes, Pcs
  <2> QED
    BY <2>1, <2>2
<1>2. ASSUME NEW w \in Workers, Undo(w)
      PROVE  JobTypes'
  BY <1>2, AfterUndoTypes, GotoTypes DEF Undo, TypeOK, Pcs
<1>3. ASSUME NEW w \in Workers, MarkUndo(w)
      PROVE  JobTypes'
  BY <1>3, AfterUndoTypes DEF MarkUndo, TypeOK
<1>4. ASSUME NEW w \in Workers, Proceed(w)
      PROVE  JobTypes'
  BY <1>4 DEF Proceed, TypeOK, JobTypes, EndAs, Goto, Pcs, Verdicts
<1>5. ASSUME NEW w \in Workers, Read(w)
      PROVE  JobTypes'
  <2>1. CASE Release(w) \/ Fail(w)
    BY <2>1, ReleaseTypes, FailTypes DEF TypeOK
  <2>2. CASE EndAs(w, "checked") \/ EndAs(w, "failed")
    BY <2>2 DEF EndAs, TypeOK, JobTypes, Goto, Pcs, Verdicts
  <2>3. CASE Goto(w, "budget") /\ UNCHANGED <<claimed, at, saved, verdict, failing>>
    BY <2>3, GotoTypes DEF TypeOK, Pcs
  <2> QED
    BY <1>5, <2>1, <2>2, <2>3, Zenon DEF Read
<1>6. ASSUME NEW w \in Workers, Budget(w)
      PROVE  JobTypes'
  <2>1. CASE Fail(w)
    BY <2>1, FailTypes DEF TypeOK
  <2>2. CASE Goto(w, "beat") /\ UNCHANGED <<claimed, at, saved, verdict, failing>>
    BY <2>2, GotoTypes DEF TypeOK, Pcs
  <2> QED
    BY <1>6, <2>1, <2>2, Zenon DEF Budget
<1>7. ASSUME NEW w \in Workers, Beat(w)
      PROVE  JobTypes'
  <2>1. CASE Release(w)
    BY <2>1, ReleaseTypes DEF TypeOK
  <2>2. CASE UndoAndEnd(w, "stopped")
    BY <2>2, UndoAndEndTypes DEF TypeOK, Verdicts
  <2>3. CASE Goto(w, "save") /\ UNCHANGED <<claimed, at, saved, verdict, failing>>
    BY <2>3, GotoTypes DEF TypeOK, Pcs
  <2> QED
    BY <1>7, <2>1, <2>2, <2>3, Zenon DEF Beat
<1>8. ASSUME NEW w \in Workers, Save(w) \/ Skip(w)
      PROVE  JobTypes'
  BY <1>8 DEF Save, Skip, TypeOK, JobTypes, Goto, AfterRow, UndoAndEnd, Pcs, Verdicts
<1>9. ASSUME NEW w \in Workers, Count(w)
      PROVE  JobTypes'
  BY <1>9 DEF Count, TypeOK, JobTypes, EndAs, UndoAndEnd, Pcs, Verdicts, Goto
<1>10. ASSUME NEW w \in Workers, End(w)
      PROVE  JobTypes'
  <2>1. CASE Release(w)
    BY <2>1, ReleaseTypes DEF TypeOK
  <2>2. CASE Goto(w, "file") /\ UNCHANGED <<claimed, at, saved, verdict, failing>>
    BY <2>2, GotoTypes DEF TypeOK, Pcs
  <2> QED
    BY <1>10, <2>1, <2>2, Zenon DEF End
<1>11. ASSUME NEW w \in Workers, FinishFile(w)
      PROVE  JobTypes'
  <2>1. Release(w) \/ Raise(w)
    BY <1>11, Zenon DEF FinishFile
  <2> QED
    BY <2>1, ReleaseTypes, RaiseTypes DEF TypeOK
<1>12. ASSUME NEW w \in Workers, StatementFails(w)
      PROVE  JobTypes'
  BY <1>12, RaiseTypes DEF StatementFails, TypeOK
<1>13. ASSUME NEW w \in Workers, WorkerDies(w)
      PROVE  JobTypes'
  BY <1>13 DEF WorkerDies, TypeOK, JobTypes, Release, Modes, Pcs, Verdicts, Goto
<1>14. ASSUME
        \/ \E i \in Imports, what \in {"check", "import"} : Start(i, what)
        \/ \E i \in Imports : Upload(i) \/ SaveFile(i) \/ Discard(i) \/ Replace(i)
             \/ RollbackDelete(i) \/ RollbackEnd(i) \/ SweepLists(i) \/ SweepQueues(i) \/ SweepFails(i) \/
             SweepUndoes(i) \/ SweepMarks(i) \/ SweepFinishesFile(i) \/ RetryDeletes(i)
             \/ RetryClears(i) \/ Expire(i) \/ PurgeFile(i) \/ SweepDies(i) \/
             HourEnds(i) \/ FallsSilent(i) \/ LoseRole(i) \/ ForgetActor(i) \/
             EraseOne(i)
        \/ Switch
        \/ DeleteForm
      PROVE  JobTypes'
  <2>1. UNCHANGED <<pc, job, attempt, kind, at, saved, verdict, failing>>
    BY <1>14, ZenonT(60)
       DEF Upload, SaveFile, Start, Discard, Replace, RollbackDelete, RollbackEnd, SweepLists,
           SweepQueues, SweepFails, SweepUndoes, SweepMarks, SweepFinishesFile,
           RetryDeletes, RetryClears, Expire, PurgeFile, SweepDies, HourEnds, FallsSilent,
           LoseRole, ForgetActor, EraseOne, Switch, DeleteForm
  <2>2. QED
    BY <2>1 DEF TypeOK, JobTypes
<1> QED
  BY <1>1, <1>2, <1>3, <1>4, <1>5, <1>6, <1>7, <1>8, <1>9, <1>10, <1>11, <1>12, <1>13,
       <1>14 DEF Next, Request, Sweep, Step

\* ... and the history.
LEMMA HistoryStep ==
  ASSUME TypeOK, \A x \in Workers : RunShape(x), Next
  PROVE  HistoryTypes'
<1>1. ASSUME NEW i \in Imports, RollbackEnd(i)
      PROVE  HistoryTypes'
  BY <1>1 DEF RollbackEnd, TypeOK, HistoryTypes
<1>2. ASSUME NEW w \in Workers, MarkUndo(w)
      PROVE  HistoryTypes'
  BY <1>2 DEF MarkUndo, TypeOK, HistoryTypes
<1>3. ASSUME NEW w \in Workers, Count(w)
      PROVE  HistoryTypes'
  BY <1>3 DEF Count, TypeOK, HistoryTypes
<1>4. ASSUME NEW w \in Workers, End(w)
      PROVE  HistoryTypes'
  BY <1>4 DEF End, TypeOK, HistoryTypes, JobTypes
<1>5. ASSUME NEW w \in Workers, WorkerDies(w)
      PROVE  HistoryTypes'
  BY <1>5 DEF WorkerDies, TypeOK, HistoryTypes
<1>6. ASSUME NEW i \in Imports, SweepMarks(i)
      PROVE  HistoryTypes'
  BY <1>6 DEF SweepMarks, TypeOK, HistoryTypes
<1>7. ASSUME NEW i \in Imports, RetryClears(i)
      PROVE  HistoryTypes'
  BY <1>7 DEF RetryClears, TypeOK, HistoryTypes
<1>8. ASSUME NEW i \in Imports, SweepDies(i)
      PROVE  HistoryTypes'
  BY <1>8 DEF SweepDies, TypeOK, HistoryTypes
<1>9. ASSUME NEW i \in Imports, EraseOne(i)
      PROVE  HistoryTypes'
  BY <1>9 DEF EraseOne, TypeOK, HistoryTypes
<1>10. ASSUME
        \/ \E w \in Workers, i \in Imports : Claim(w, i)
        \/ \E i \in Imports, what \in {"check", "import"} : Start(i, what)
        \/ \E w \in Workers : Undo(w) \/ Proceed(w) \/ Read(w) \/ Budget(w) \/ Beat(w)
             \/ Save(w) \/ Skip(w) \/ FinishFile(w) \/ StatementFails(w)
        \/ \E i \in Imports : Upload(i) \/ SaveFile(i) \/ Discard(i) \/ Replace(i)
             \/ RollbackDelete(i) \/ SweepLists(i) \/ SweepQueues(i) \/ SweepFails(i) \/ SweepUndoes(i) \/
             SweepFinishesFile(i) \/ RetryDeletes(i) \/ Expire(i) \/ PurgeFile(i) \/
             HourEnds(i) \/ FallsSilent(i) \/ LoseRole(i) \/ ForgetActor(i)
        \/ Switch
        \/ DeleteForm
      PROVE  HistoryTypes'
  <2>1. UNCHANGED <<imported, erased, gaveUp>>
    BY <1>10, ZenonT(60)
       DEF Upload, SaveFile, Start, Discard, Replace, RollbackDelete, Claim, Undo, Proceed,
           Read, Budget, Beat, Save, Skip, FinishFile, StatementFails, SweepLists, SweepQueues,
           SweepFails, SweepUndoes, SweepFinishesFile, RetryDeletes, Expire, PurgeFile,
           HourEnds, FallsSilent, LoseRole, ForgetActor, Switch, DeleteForm
  <2>2. QED
    BY <2>1 DEF TypeOK, HistoryTypes, JobTypes, RunShape, Pcs, Modes, Verdicts
<1> QED
  BY <1>1, <1>2, <1>3, <1>4, <1>5, <1>6, <1>7, <1>8, <1>9, <1>10 DEF Next, Request, Sweep,
       Step

-----------------------------------------------------------------------------
(* The inductive invariant.                                                *)

\* Where a run is goes on telling what it decided and stored.
LEMMA ShapeStep ==
  ASSUME ImportInv, Next
  PROVE  \A x \in Workers : RunShape(x)'
<1>1. ASSUME NEW w \in Workers, NEW i \in Imports, Claim(w, i)
      PROVE  \A x \in Workers : RunShape(x)'
  <2>1. CASE ~Claimable(i)
    <3>1. UNCHANGED <<pc, job, kind, at, saved, verdict, failing, skips>>
      BY <1>1, <2>1, Zenon DEF Claim
    <3> QED
      BY <3>1 DEF ImportInv, RunShape
  <2>2. CASE Claimable(i)
    <3>1. Claims(w, i)
      BY <1>1, <2>2, ClaimEffect, Zenon
    <3>2. mode[i] \in {"check", "import"}
      BY <2>2 DEF Claimable, ImportInv, RecordShape
    <3>3. mode[i] = "import" \/ Goto(w, "admit")
      BY <1>1, <2>2 DEF Claim
    <3>4. saved[w] = 0 /\ verdict[w] = "none"
      BY <3>1 DEF Claims, ImportInv, RunShape
    <3> QED
      BY <3>1, <3>2, <3>3, <3>4 DEF Claims, Goto, ImportInv, TypeOK, JobTypes, RunShape
  <2> QED
    BY <2>1, <2>2
<1>2. ASSUME NEW w \in Workers, Undo(w)
      PROVE  \A x \in Workers : RunShape(x)'
  BY <1>2 DEF Undo, ImportInv, TypeOK, JobTypes, RunShape, AfterUndo, Goto, Fail
<1>3. ASSUME NEW w \in Workers, MarkUndo(w)
      PROVE  \A x \in Workers : RunShape(x)'
  BY <1>3 DEF MarkUndo, ImportInv, TypeOK, JobTypes, RunShape, AfterUndo, Fail, Goto
<1>4. ASSUME NEW w \in Workers, Proceed(w)
      PROVE  \A x \in Workers : RunShape(x)'
  BY <1>4 DEF Proceed, ImportInv, TypeOK, JobTypes, RunShape, EndAs, Goto
<1>5. ASSUME NEW w \in Workers, Read(w)
      PROVE  \A x \in Workers : RunShape(x)'
  <2>1. CASE Release(w) /\ UNCHANGED skips
    BY <2>1 DEF ImportInv, RunShape, TypeOK, JobTypes, Release, Goto
  <2>2. CASE Fail(w)
    BY <1>5, <2>2 DEF ImportInv, RunShape, TypeOK, JobTypes, Fail, Goto, Read, Modes
  <2>3. CASE kind[w] = "check" /\ EndAs(w, "checked")
    BY <1>5, <2>3 DEF ImportInv, RunShape, TypeOK, JobTypes, EndAs, Goto, Read
  <2>4. CASE EndAs(w, "failed")
    BY <1>5, <2>4 DEF ImportInv, RunShape, TypeOK, JobTypes, EndAs, Goto, Read
  <2>5. CASE /\ kind[w] # "check" /\ Goto(w, "budget")
             /\ UNCHANGED <<claimed, at, saved, verdict, failing>>
    BY <1>5, <2>5 DEF ImportInv, RunShape, Goto, Read
  <2>6. UNCHANGED skips
    BY <1>5, Zenon DEF Read, world
  <2> QED
    BY <1>5, <2>1, <2>2, <2>3, <2>4, <2>5, <2>6, Zenon DEF Read
<1>6. ASSUME NEW w \in Workers, Budget(w)
      PROVE  \A x \in Workers : RunShape(x)'
  BY <1>6 DEF Budget, ImportInv, TypeOK, JobTypes, RunShape, Goto, Fail
<1>7. ASSUME NEW w \in Workers, Beat(w)
      PROVE  \A x \in Workers : RunShape(x)'
  BY <1>7 DEF Beat, ImportInv, TypeOK, JobTypes, RunShape, Release, UndoAndEnd, Goto
<1>8. ASSUME NEW w \in Workers, Save(w) \/ Skip(w)
      PROVE  \A x \in Workers : RunShape(x)'
  BY <1>8 DEF Save, Skip, ImportInv, TypeOK, JobTypes, RunShape, Goto, AfterRow, UndoAndEnd
<1>9. ASSUME NEW w \in Workers, Count(w)
      PROVE  \A x \in Workers : RunShape(x)'
  BY <1>9 DEF Count, ImportInv, TypeOK, JobTypes, RunShape, EndAs, UndoAndEnd, Goto
<1>10. ASSUME NEW w \in Workers, End(w)
      PROVE  \A x \in Workers : RunShape(x)'
  BY <1>10 DEF End, ImportInv, TypeOK, JobTypes, RunShape, Release, Goto
<1>11. ASSUME NEW w \in Workers, FinishFile(w)
      PROVE  \A x \in Workers : RunShape(x)'
  BY <1>11 DEF FinishFile, ImportInv, TypeOK, JobTypes, RunShape, Release, Raise, Goto, Fail
<1>12. ASSUME NEW w \in Workers, StatementFails(w)
      PROVE  \A x \in Workers : RunShape(x)'
  BY <1>12 DEF StatementFails, ImportInv, TypeOK, JobTypes, RunShape, Raise, Release, Fail, Goto
<1>13. ASSUME NEW w \in Workers, WorkerDies(w)
      PROVE  \A x \in Workers : RunShape(x)'
  BY <1>13 DEF WorkerDies, ImportInv, TypeOK, JobTypes, RunShape, Release, Goto
<1>14. ASSUME
        \/ \E i \in Imports : Upload(i) \/ SaveFile(i) \/ Discard(i) \/ Replace(i)
             \/ RollbackDelete(i) \/ RollbackEnd(i) \/ SweepLists(i) \/ SweepQueues(i) \/ SweepFails(i) \/
             SweepUndoes(i) \/ SweepMarks(i) \/ SweepFinishesFile(i) \/ RetryDeletes(i)
             \/ RetryClears(i) \/ Expire(i) \/ PurgeFile(i) \/ SweepDies(i) \/
             HourEnds(i) \/ FallsSilent(i) \/ LoseRole(i) \/ ForgetActor(i) \/
             EraseOne(i)
        \/ Switch
        \/ DeleteForm
      PROVE  \A x \in Workers : RunShape(x)'
  <2>1. UNCHANGED <<pc, job, kind, at, saved, verdict, failing, skips>>
    BY <1>14, ZenonT(60)
       DEF Upload, SaveFile, Discard, Replace, RollbackDelete, RollbackEnd, SweepLists,
           SweepQueues, SweepFails, SweepUndoes, SweepMarks, SweepFinishesFile,
           RetryDeletes, RetryClears, Expire, PurgeFile, SweepDies, HourEnds, FallsSilent,
           LoseRole, ForgetActor, EraseOne, Switch, DeleteForm
  <2>2. QED
    BY <2>1 DEF ImportInv, RunShape
<1>15. ASSUME NEW i \in Imports, NEW what \in {"check", "import"}, Start(i, what)
       PROVE  \A x \in Workers : RunShape(x)'
  <2>1. Starts(i, what)
    BY <1>15, StartEffect
  <2>2. status[i] \in HasFile /\ status[i] \notin {"checking", "running"}
    BY <2>1 DEF Starts, HasFile, Waits
  <2>3. \A x \in Workers : ~On(x, i)
    BY <2>2 DEF ImportInv, OneRun, Live
  <2>4. ASSUME NEW x \in Workers PROVE RunShape(x)'
    <3>1. pc[x] # "idle" => job[x] # i
      BY <2>3 DEF On
    <3>2. pc[x] # "idle" => job[x] \in Imports /\ skips'[job[x]] = skips[job[x]]
      BY <2>1, <3>1 DEF Starts, ImportInv, TypeOK, JobTypes, WorldTypes, RunShape
    <3>3. RunShape(x) /\ UNCHANGED <<pc, job, kind, at, saved, verdict, failing>>
      BY <2>1 DEF Starts, ImportInv
    <3> QED
      BY <3>2, <3>3 DEF RunShape
  <2> QED
    BY <2>4
<1> QED
  BY <1>1, <1>2, <1>3, <1>4, <1>5, <1>6, <1>7, <1>8, <1>9, <1>10, <1>11, <1>12, <1>13,
       <1>14, <1>15 DEF Next, Request, Sweep, Step

\* No step lets a second worker work on an import, or takes the claim of a run
\* away before the import is over.
LEMMA OneRunStep ==
  ASSUME ImportInv, Next
  PROVE  OneRun'
<1>1. ASSUME NEW i \in Imports, Upload(i)
      PROVE  OneRun'
  BY <1>1 DEF Upload, ImportInv, OneRun, MayWait, On, HasFile, Live, Waits
<1>2. ASSUME NEW i \in Imports, NEW what \in {"check", "import"}, Start(i, what)
      PROVE  OneRun'
  BY <1>2 DEF Start, ImportInv, OneRun, Admit, On, HasFile, Live, Waits, MayWait
<1>3. ASSUME NEW i \in Imports, Discard(i) \/ Replace(i)
      PROVE  OneRun'
  <2>1. Withdraws(i)
    BY <1>3, WithdrawEffect, Zenon
  <2> QED
    BY <2>1
       DEF Withdraws, ImportInv, TypeOK, RecordTypes, OneRun, On, HasFile, Live, Waits, Busy
<1>4. ASSUME NEW i \in Imports, RollbackEnd(i)
      PROVE  OneRun'
  BY <1>4
     DEF RollbackEnd, ImportInv, TypeOK, RecordTypes, OneRun, On, HasFile, Live, Waits, Busy
<1>5. ASSUME NEW w \in Workers, NEW i \in Imports, Claim(w, i)
      PROVE  OneRun'
  <2>1. CASE ~Claimable(i)
    <3>1. UNCHANGED <<status, attempts, started, silent, mode, pc, job, attempt, kind>>
      BY <1>5, <2>1, Zenon DEF Claim
    <3> QED
      BY <3>1 DEF ImportInv, OneRun, On, Live
  <2>2. CASE Claimable(i)
    <3>1. \A x \in Workers : ~On(x, i)
      BY <1>5, <2>2 DEF Claimable, ImportInv, OneRun, Live, HasFile, Busy
    <3>2. Claims(w, i)
      BY <1>5, <2>2, ClaimEffect, Zenon
    <3>3. \A x \in Workers : job[x] # i
      BY <3>1, <1>5 DEF ImportInv, RunShape, On, Claim, TypeOK, JobTypes
    <3>4. \A u, v \in Workers : job'[u] = job'[v] /\ job'[u] # NoImport => u = v
      BY <3>2, <3>3 DEF Claims, ImportInv, TypeOK, JobTypes, OneRun
    <3>5. On(w, i)' /\ kind'[w] = mode'[i] /\ Live(w, i)'
      BY <1>5, <2>2, <3>2
         DEF Claims, ImportInv, TypeOK, JobTypes, RecordTypes, DataTypes, On, Live, Claimable
    <3>6. ASSUME NEW x \in Workers, NEW j \in Imports, On(x, j)', x # w
          PROVE  /\ On(x, j) /\ j # i /\ kind'[x] = kind[x]
                 /\ attempt'[x] = attempt[x] /\ pc'[x] = pc[x]
      BY <3>2, <3>3, <3>6 DEF Claims, ImportInv, TypeOK, JobTypes, On
    <3>7. ASSUME NEW x \in Workers, NEW j \in Imports, On(x, j)', x # w
          PROVE  kind'[x] = mode'[j] /\ (status'[j] \in HasFile \cup {"none"} => Live(x, j)')
      <4>1. /\ status'[j] = status[j] /\ started'[j] = started[j] /\ silent'[j] = silent[j]
            /\ attempts'[j] = attempts[j] /\ mode'[j] = mode[j]
        BY <3>2, <3>6, <3>7 DEF Claims, ImportInv, TypeOK, RecordTypes, DataTypes
      <4> QED
        BY <4>1, <3>6, <3>7 DEF ImportInv, OneRun, Live
    <3>8. \A x \in Workers, j \in Imports : On(x, j)' =>
             kind'[x] = mode'[j] /\ (status'[j] \in HasFile \cup {"none"} => Live(x, j)')
      <4>1. TAKE x \in Workers, j \in Imports
      <4>2. CASE x # w
        BY <4>2, <3>7
      <4>3. CASE x = w /\ j = i
        BY <4>3, <3>5
      <4>4. CASE x = w /\ j # i
        BY <4>4, <3>2 DEF Claims, On, ImportInv, TypeOK, JobTypes
      <4> QED
        BY <4>2, <4>3, <4>4
    <3> QED
      BY <3>4, <3>8 DEF OneRun
  <2> QED
    BY <2>1, <2>2
<1>6. ASSUME NEW w \in Workers, Undo(w)
      PROVE  OneRun'
  BY <1>6 DEF Undo, ImportInv, TypeOK, JobTypes, OneRun, AfterUndo, Goto, On, Live, Fail
<1>7. ASSUME NEW w \in Workers, MarkUndo(w)
      PROVE  OneRun'
  BY <1>7 DEF MarkUndo, ImportInv, TypeOK, JobTypes, OneRun, AfterUndo, On, Live, Fail, Goto
<1>8. ASSUME NEW w \in Workers, Proceed(w)
      PROVE  OneRun'
  BY <1>8 DEF Proceed, ImportInv, TypeOK, JobTypes, OneRun, EndAs, Goto, On, Live
<1>9. ASSUME NEW w \in Workers, Read(w)
      PROVE  OneRun'
  <2>1. UNCHANGED <<status, attempts, started, silent, mode>>
    BY <1>9, Zenon DEF Read
  <2>2. pc[w] = "read"
    BY <1>9 DEF Read
  <2>3. /\ job' = job /\ attempt' = attempt /\ kind' = kind
        /\ \E l \in {"undo", "end", "budget"} : pc' = [pc EXCEPT ![w] = l]
     \/ Release(w)
    BY <1>9 DEF Read, Fail, EndAs, Goto
  <2> QED
    BY <2>1, <2>2, <2>3 DEF ImportInv, TypeOK, JobTypes, OneRun, On, Live, Release, Goto
<1>10. ASSUME NEW w \in Workers, Budget(w)
      PROVE  OneRun'
  BY <1>10 DEF Budget, ImportInv, TypeOK, JobTypes, OneRun, Goto, Fail, On, Live
<1>11. ASSUME NEW w \in Workers, Beat(w)
      PROVE  OneRun'
  <2>1. UNCHANGED <<status, attempts, started, silent, mode>> /\ pc[w] = "beat"
    BY <1>11, Zenon DEF Beat
  <2>2. CASE Release(w)
    BY <2>1, <2>2 DEF ImportInv, TypeOK, JobTypes, OneRun, On, Live, Release, Goto
  <2>3. CASE UndoAndEnd(w, "stopped")
    BY <2>1, <2>3 DEF ImportInv, TypeOK, JobTypes, OneRun, On, Live, UndoAndEnd, Goto
  <2>4. CASE Goto(w, "save") /\ UNCHANGED <<claimed, at, saved, verdict, failing>>
    BY <2>1, <2>4 DEF ImportInv, TypeOK, JobTypes, OneRun, On, Live, Goto
  <2> QED
    BY <1>11, <2>2, <2>3, <2>4, Zenon DEF Beat
<1>12. ASSUME NEW w \in Workers, Save(w) \/ Skip(w)
      PROVE  OneRun'
  BY <1>12
     DEF Save, Skip, ImportInv, TypeOK, JobTypes, OneRun, Goto, AfterRow, UndoAndEnd, On, Live
<1>13. ASSUME NEW w \in Workers, Count(w)
      PROVE  OneRun'
  BY <1>13 DEF Count, ImportInv, TypeOK, JobTypes, OneRun, EndAs, UndoAndEnd, On, Live, Goto
<1>14. ASSUME NEW w \in Workers, End(w)
      PROVE  OneRun'
  <2>1. UNCHANGED <<attempts, started, silent, mode>> /\ pc[w] = "end"
    BY <1>14, Zenon DEF End
  <2>2. CASE Release(w)
    <3>1. status' = status \/ status' = [status EXCEPT ![job[w]] = verdict[w]]
      BY <1>14, Zenon DEF End
    <3> QED
      BY <2>1, <2>2, <3>1
         DEF Release, Goto, ImportInv, TypeOK, JobTypes, RecordTypes, OneRun, On, Live
  <2>3. CASE ~Lost(w) /\ verdict[w] # "checked"
    <3>1. /\ status' = [status EXCEPT ![job[w]] = verdict[w]]
          /\ Goto(w, "file") /\ UNCHANGED <<job, attempt, kind>>
      BY <1>14, <2>3, Zenon DEF End, claimed
    <3> QED
      BY <2>1, <2>3, <3>1
         DEF Goto, ImportInv, TypeOK, RecordTypes, OneRun, On, Live, RunShape, Waits, Busy,
             HasFile
  <2> QED
    BY <1>14, <2>2, <2>3, Zenon DEF End
<1>15. ASSUME NEW w \in Workers, FinishFile(w)
      PROVE  OneRun'
  <2>1. UNCHANGED <<status, attempts, started, silent, mode>> /\ pc[w] = "file"
    BY <1>15, Zenon DEF FinishFile
  <2>2. \A i \in Imports : On(w, i) => status[i] \notin HasFile \cup {"none"}
    BY <2>1 DEF ImportInv, OneRun, Live
  <2>3. CASE Release(w)
    BY <2>1, <2>3 DEF ImportInv, TypeOK, JobTypes, OneRun, On, Live, Release, Goto
  <2>4. CASE Fail(w)
    BY <2>1, <2>2, <2>4 DEF ImportInv, TypeOK, JobTypes, OneRun, On, Live, Fail, Goto
  <2> QED
    BY <1>15, <2>3, <2>4, Zenon DEF FinishFile, Raise
<1>16. ASSUME NEW w \in Workers, StatementFails(w)
      PROVE  OneRun'
  <2>1. UNCHANGED <<status, attempts, started, silent, mode>>
    BY <1>16, Zenon DEF StatementFails
  <2>2. pc[w] # "idle" /\ pc[w] # "file"
    BY <1>16 DEF StatementFails
  <2>3. CASE Release(w)
    BY <2>1, <2>2, <2>3 DEF ImportInv, TypeOK, JobTypes, OneRun, On, Live, Release, Goto
  <2>4. CASE Fail(w)
    BY <2>1, <2>2, <2>4 DEF ImportInv, TypeOK, JobTypes, OneRun, On, Live, Fail, Goto
  <2> QED
    BY <1>16, <2>3, <2>4, Zenon DEF StatementFails, Raise
<1>17. ASSUME NEW w \in Workers, WorkerDies(w)
      PROVE  OneRun'
  BY <1>17 DEF WorkerDies, ImportInv, TypeOK, JobTypes, OneRun, Release, On, Live, Goto
<1>18. ASSUME NEW i \in Imports, SweepFails(i)
      PROVE  OneRun'
  BY <1>18
     DEF SweepFails, ImportInv, TypeOK, RecordTypes, OneRun, On, HasFile, Live, Waits, Busy
<1>19. ASSUME NEW i \in Imports, Expire(i)
      PROVE  OneRun'
  BY <1>19 DEF Expire, ImportInv, OneRun, MayWait, EndWaiting, On, HasFile, Live, Waits
<1>20. ASSUME NEW i \in Imports, FallsSilent(i)
      PROVE  OneRun'
  BY <1>20 DEF FallsSilent, ImportInv, OneRun, Owns, On, Live
<1>21. ASSUME NEW i \in Imports, ForgetActor(i)
      PROVE  OneRun'
  BY <1>21 DEF ForgetActor, ImportInv, OneRun, MayWait, On, HasFile, Live, Waits
<1>22. ASSUME DeleteForm
      PROVE  OneRun'
  BY <1>22 DEF DeleteForm, ImportInv, OneRun, On, HasFile, Live, Waits, Busy
<1>23. ASSUME
        \/ \E i \in Imports : RollbackDelete(i) \/ SweepLists(i) \/ SweepQueues(i) \/
             SweepUndoes(i) \/ SweepMarks(i) \/ SweepFinishesFile(i) \/ RetryDeletes(i)
             \/ RetryClears(i) \/ PurgeFile(i) \/ SweepDies(i) \/ HourEnds(i) \/
             LoseRole(i) \/ EraseOne(i)
        \/ Switch
      PROVE  OneRun'
  <2>1. UNCHANGED <<status, mode, attempts, started, silent, pc, job, attempt, kind>>
    BY <1>23, ZenonT(60)
       DEF RollbackDelete, SweepLists, SweepQueues, SweepUndoes, SweepMarks, SweepFinishesFile,
           RetryDeletes, RetryClears, PurgeFile, SweepDies, HourEnds, LoseRole, EraseOne, Switch
  <2>2. QED
    BY <2>1 DEF ImportInv, OneRun, On, Live
<1>24. ASSUME NEW i \in Imports, SaveFile(i)
      PROVE  OneRun'
  <2>1. Delivers(i)
    BY <1>24, SaveFileEffect, Zenon DEF ImportInv
  <2> QED
    BY <2>1
       DEF Delivers, ImportInv, TypeOK, RecordTypes, OneRun, On, HasFile, Live, Waits, Busy
<1> QED
  BY <1>1, <1>2, <1>3, <1>4, <1>5, <1>6, <1>7, <1>8, <1>9, <1>10, <1>11, <1>12, <1>13,
       <1>14, <1>15, <1>16, <1>17, <1>18, <1>19, <1>20, <1>21, <1>22, <1>23, <1>24 DEF Next,
       Request, Sweep, Step

\* A record goes on describing its import.
LEMMA RecordStep ==
  ASSUME ImportInv, Next
  PROVE  \A x \in Imports : RecordShape(x)'
<1>1. ASSUME NEW i \in Imports, Upload(i)
      PROVE  \A x \in Imports : RecordShape(x)'
  BY <1>1 DEF Upload, ImportInv, RecordShape, IsBusy, Busy, MayWait
<1>2. ASSUME NEW i \in Imports, NEW what \in {"check", "import"}, Start(i, what)
      PROVE  \A x \in Imports : RecordShape(x)'
  <2>1. Starts(i, what)
    BY <1>2, StartEffect, Zenon
  <2>2. CASE what = "check"
    BY <2>1, <2>2 DEF Starts, ImportInv, TypeOK, RecordTypes, RecordShape, IsBusy, Busy, Waits
  <2>3. CASE what = "import"
    BY <2>1, <2>3 DEF Starts, ImportInv, TypeOK, RecordTypes, RecordShape, IsBusy, Busy, Waits
  <2> QED
    BY <2>2, <2>3
<1>3. ASSUME NEW i \in Imports, Discard(i) \/ Replace(i)
      PROVE  \A x \in Imports : RecordShape(x)'
  <2>1. Withdraws(i)
    BY <1>3, WithdrawEffect, Zenon
  <2> QED
    BY <2>1
       DEF Withdraws, ImportInv, TypeOK, RecordTypes, RecordShape, IsBusy, Busy, Waits
<1>4. ASSUME NEW i \in Imports, RollbackDelete(i)
      PROVE  \A x \in Imports : RecordShape(x)'
  BY <1>4 DEF RollbackDelete, ImportInv, RecordShape, IsBusy, Busy
<1>5. ASSUME NEW i \in Imports, RollbackEnd(i)
      PROVE  \A x \in Imports : RecordShape(x)'
  BY <1>5 DEF RollbackEnd, ImportInv, TypeOK, RecordTypes, RecordShape, IsBusy, Busy, Waits
<1>6. ASSUME NEW w \in Workers, NEW i \in Imports, Claim(w, i)
      PROVE  \A x \in Imports : RecordShape(x)'
  BY <1>6 DEF Claim, ImportInv, TypeOK, RecordTypes, RecordShape, IsBusy, Busy
<1>7. ASSUME NEW w \in Workers, Undo(w)
      PROVE  \A x \in Imports : RecordShape(x)'
  BY <1>7 DEF Undo, ImportInv, TypeOK, DataTypes, RecordShape, IsBusy, Busy
<1>8. ASSUME NEW w \in Workers, Save(w) \/ Skip(w)
      PROVE  \A x \in Imports : RecordShape(x)'
  BY <1>8
     DEF Save, Skip, ImportInv, TypeOK, DataTypes, OneRun, RecordShape, IsBusy, Busy,
         RunShape, On, HasFile, Live, Waits
<1>9. ASSUME NEW w \in Workers, End(w)
      PROVE  \A x \in Imports : RecordShape(x)'
  BY <1>9
     DEF End, ImportInv, TypeOK, RecordTypes, OneRun, RecordShape, IsBusy, Busy, RunShape,
         Lost, TroubleKinds, On, HasFile, Waits, Owned
<1>10. ASSUME NEW i \in Imports, SweepFails(i)
      PROVE  \A x \in Imports : RecordShape(x)'
  BY <1>10
     DEF SweepFails, ImportInv, TypeOK, RecordTypes, RecordShape, IsBusy, Busy, MayExpire, Waits
<1>11. ASSUME NEW i \in Imports, SweepUndoes(i)
      PROVE  \A x \in Imports : RecordShape(x)'
  BY <1>11 DEF SweepUndoes, ImportInv, TypeOK, DataTypes, RecordShape, IsBusy, Busy
<1>12. ASSUME NEW i \in Imports, RetryDeletes(i)
      PROVE  \A x \in Imports : RecordShape(x)'
  BY <1>12 DEF RetryDeletes, ImportInv, RecordShape, IsBusy, Busy
<1>13. ASSUME NEW i \in Imports, Expire(i)
      PROVE  \A x \in Imports : RecordShape(x)'
  BY <1>13 DEF Expire, ImportInv, RecordShape, IsBusy, Busy, MayWait, EndWaiting, Waits
<1>14. ASSUME NEW i \in Imports, ForgetActor(i)
      PROVE  \A x \in Imports : RecordShape(x)'
  BY <1>14 DEF ForgetActor, ImportInv, RecordShape, IsBusy, Busy, MayWait
<1>15. ASSUME NEW i \in Imports, EraseOne(i)
      PROVE  \A x \in Imports : RecordShape(x)'
  BY <1>15 DEF EraseOne, ImportInv, RecordShape, IsBusy, Busy
<1>16. ASSUME DeleteForm
      PROVE  \A x \in Imports : RecordShape(x)'
  BY <1>16 DEF DeleteForm, ImportInv, RecordShape, IsBusy, Busy, Waits
<1>17. ASSUME
        \/ \E w \in Workers : MarkUndo(w) \/ Proceed(w) \/ Read(w) \/ Budget(w) \/
             Beat(w) \/ Count(w) \/ FinishFile(w) \/ StatementFails(w) \/ WorkerDies(w)
        \/ \E i \in Imports : SweepLists(i) \/ SweepQueues(i) \/ SweepMarks(i) \/
             SweepFinishesFile(i) \/ RetryClears(i) \/ PurgeFile(i) \/ SweepDies(i) \/
             HourEnds(i) \/ FallsSilent(i) \/ LoseRole(i)
        \/ Switch
      PROVE  \A x \in Imports : RecordShape(x)'
  <2>1. UNCHANGED <<form, status, mode, attempts, started, stored>>
    BY <1>17, ZenonT(60)
       DEF MarkUndo, Proceed, Read, Budget, Beat, Count, FinishFile, StatementFails, WorkerDies,
           SweepLists, SweepQueues, SweepMarks, SweepFinishesFile, RetryClears, PurgeFile,
           SweepDies, HourEnds, FallsSilent, LoseRole, Switch
  <2>2. QED
    BY <2>1 DEF ImportInv, RecordShape, IsBusy, Busy
<1>18. ASSUME NEW i \in Imports, SaveFile(i)
      PROVE  \A x \in Imports : RecordShape(x)'
  BY <1>18, SaveFileEffect
     DEF Delivers, ImportInv, TypeOK, RecordTypes, WorldTypes, RecordShape, IsBusy, Busy,
         UploadShape, Waits
<1> QED
  BY <1>1, <1>2, <1>3, <1>4, <1>5, <1>6, <1>7, <1>8, <1>9, <1>10, <1>11, <1>12, <1>13,
       <1>14, <1>15, <1>16, <1>17, <1>18 DEF Next, Request, Sweep, Step

\* The sweep keeps to what it found.
LEMMA SweepStep ==
  ASSUME ImportInv, Next
  PROVE  \A x \in Imports : SweepShape(x)'
<1>1. ASSUME NEW i \in Imports, Upload(i)
      PROVE  \A x \in Imports : SweepShape(x)'
  BY <1>1 DEF Upload, ImportInv, SweepShape, MayWait, On, Waits, Nobody, IsBusy, Busy
<1>2. ASSUME NEW i \in Imports, NEW what \in {"check", "import"}, Start(i, what)
      PROVE  \A x \in Imports : SweepShape(x)'
  <2>1. Starts(i, what)
    BY <1>2, StartEffect, Zenon
  <2>2. SweepShape(i)'
    BY <2>1 DEF Starts, Waits, ImportInv, TypeOK, RecordTypes, SweepShape
  <2>3. ASSUME NEW x \in Imports, x # i
        PROVE  /\ status'[x] = status[x] /\ silent'[x] = silent[x] /\ started'[x] = started[x]
               /\ attempts'[x] = attempts[x] /\ todo'[x] = todo[x]
    BY <2>1, <2>3 DEF Starts, Defer, ImportInv, TypeOK, RecordTypes, DataTypes
  <2>4. UNCHANGED <<sweep, past, pc, job>>
    BY <2>1 DEF Starts
  <2> QED
    BY <2>2, <2>3, <2>4 DEF ImportInv, SweepShape, Nobody, On, Waiting, IsBusy
<1>3. ASSUME NEW i \in Imports, Discard(i) \/ Replace(i)
      PROVE  \A x \in Imports : SweepShape(x)'
  <2>1. Withdraws(i)
    BY <1>3, WithdrawEffect, Zenon
  <2> QED
    BY <2>1
       DEF Withdraws, ImportInv, TypeOK, RecordTypes, SweepShape, On, Waits, Nobody, IsBusy,
           Busy
<1>4. ASSUME NEW i \in Imports, RollbackEnd(i)
      PROVE  \A x \in Imports : SweepShape(x)'
  BY <1>4 DEF RollbackEnd, ImportInv, TypeOK, RecordTypes, SweepShape, On, Nobody, IsBusy, Busy
<1>5. ASSUME NEW w \in Workers, NEW i \in Imports, Claim(w, i)
      PROVE  \A x \in Imports : SweepShape(x)'
  <2>1. CASE ~Claimable(i)
    <3>1. UNCHANGED <<status, attempts, started, silent, past, sweep, pc, job>>
      BY <1>5, <2>1, Zenon DEF Claim
    <3>2. todo' = [todo EXCEPT ![i] = 0]
      BY <1>5 DEF Claim, Fetched, NoJob
    <3> QED
      BY <3>1, <3>2 DEF ImportInv, SweepShape, Nobody, On, Waiting, NoJob, IsBusy
  <2>2. CASE Claimable(i)
    <3>1. Claims(w, i)
      BY <1>5, <2>2, ClaimEffect, Zenon
    <3>2. SweepShape(i)'
      BY <2>2, <3>1 DEF Claims, ImportInv, TypeOK, DataTypes, SweepShape, Waiting, NoJob
    <3>3. ASSUME NEW x \in Imports, x # i
          PROVE  /\ status'[x] = status[x] /\ silent'[x] = silent[x] /\ started'[x] = started[x]
                 /\ attempts'[x] = attempts[x] /\ todo'[x] = todo[x] /\ (Nobody(x) => Nobody(x)')
      BY <3>1, <3>3 DEF Claims, ImportInv, TypeOK, RecordTypes, DataTypes, JobTypes, Nobody, On
    <3>4. UNCHANGED <<sweep, past>>
      BY <3>1 DEF Claims
    <3> QED
      BY <3>2, <3>3, <3>4 DEF ImportInv, SweepShape, Waiting, IsBusy
  <2> QED
    BY <2>1, <2>2
<1>6. ASSUME NEW w \in Workers, Undo(w)
      PROVE  \A x \in Imports : SweepShape(x)'
  BY <1>6 DEF Undo, ImportInv, RunShape, SweepShape, AfterUndo, On, Nobody, IsBusy, Fail
<1>7. ASSUME NEW w \in Workers, MarkUndo(w)
      PROVE  \A x \in Imports : SweepShape(x)'
  BY <1>7 DEF MarkUndo, ImportInv, RunShape, SweepShape, AfterUndo, On, Nobody, IsBusy, Fail
<1>8. ASSUME NEW w \in Workers, Proceed(w)
      PROVE  \A x \in Imports : SweepShape(x)'
  BY <1>8 DEF Proceed, ImportInv, RunShape, SweepShape, EndAs, On, Nobody, IsBusy
<1>9. ASSUME NEW w \in Workers, Read(w)
      PROVE  \A x \in Imports : SweepShape(x)'
  BY <1>9
     DEF Read, ImportInv, TypeOK, JobTypes, RunShape, SweepShape, Release, Fail, EndAs, On,
         Nobody, IsBusy
<1>10. ASSUME NEW w \in Workers, Budget(w)
      PROVE  \A x \in Imports : SweepShape(x)'
  BY <1>10 DEF Budget, ImportInv, TypeOK, JobTypes, SweepShape, Goto, Fail, On, Nobody, IsBusy
<1>11. ASSUME NEW w \in Workers, Beat(w)
      PROVE  \A x \in Imports : SweepShape(x)'
  BY <1>11
     DEF Beat, ImportInv, TypeOK, JobTypes, SweepShape, Release, UndoAndEnd, Goto, On, Nobody,
         IsBusy
<1>12. ASSUME NEW w \in Workers, Save(w) \/ Skip(w)
      PROVE  \A x \in Imports : SweepShape(x)'
  BY <1>12
     DEF Save, Skip, ImportInv, TypeOK, JobTypes, SweepShape, Goto, UndoAndEnd, On, Nobody,
         IsBusy
<1>13. ASSUME NEW w \in Workers, Count(w)
      PROVE  \A x \in Imports : SweepShape(x)'
  BY <1>13
     DEF Count, ImportInv, TypeOK, JobTypes, SweepShape, EndAs, UndoAndEnd, On, Nobody, IsBusy,
         Goto
<1>14. ASSUME NEW w \in Workers, End(w)
      PROVE  \A x \in Imports : SweepShape(x)'
  <2>1. \/ UNCHANGED status
        \/ status' = [status EXCEPT ![job[w]] = verdict[w]] /\ Owned(w) /\ pc[w] = "end"
    BY <1>14, Zenon DEF End, Lost
  <2>2. UNCHANGED <<sweep, past, todo, silent, started, attempts>>
    BY <1>14, Zenon DEF End
  <2>3. \A x \in Imports : Nobody(x) => Nobody(x)'
    BY <1>14 DEF End, Release, Goto, Nobody, On, ImportInv, TypeOK, JobTypes
  <2>4. CASE UNCHANGED status
    BY <2>2, <2>3, <2>4 DEF ImportInv, SweepShape, Waiting, IsBusy
  <2>5. CASE status' = [status EXCEPT ![job[w]] = verdict[w]] /\ Owned(w) /\ pc[w] = "end"
    <3>1. PICK i \in Imports : i = job[w] /\ On(w, i) /\ status[i] \in {"running", "checking"}
      BY <2>5 DEF ImportInv, RunShape, TypeOK, JobTypes, On, Owned
    <3>2. /\ SweepShape(i) /\ Live(w, i)
          /\ verdict[w] \in {"checked", "failed", "cancelled", "completed"}
      BY <2>5, <3>1 DEF ImportInv, OneRun, RunShape, HasFile, Busy
    <3>3. /\ sweep[i] \notin {"undo", "mark", "file", "clear", "queue"}
          /\ sweep[i] \in {"fail", "failUndo"} => past[i]
      BY <3>1, <3>2 DEF SweepShape, Live, Nobody
    <3>4. status'[i] = verdict[w]
      BY <2>5, <3>1 DEF ImportInv, TypeOK, RecordTypes
    <3>5. SweepShape(i)'
      BY <2>2, <3>2, <3>3, <3>4 DEF SweepShape, IsBusy, Busy
    <3>6. ASSUME NEW x \in Imports, x # i
          PROVE  SweepShape(x)'
      <4>1. status'[x] = status[x]
        BY <2>5, <3>1, <3>6 DEF ImportInv, TypeOK, RecordTypes
      <4> QED
        BY <2>2, <2>3, <4>1 DEF ImportInv, SweepShape, Waiting, IsBusy
    <3> QED
      BY <3>5, <3>6
  <2> QED
    BY <2>1, <2>4, <2>5
<1>15. ASSUME NEW w \in Workers, FinishFile(w)
      PROVE  \A x \in Imports : SweepShape(x)'
  BY <1>15
     DEF FinishFile, ImportInv, TypeOK, JobTypes, RunShape, SweepShape, Release, Raise, On,
         Nobody, IsBusy, Fail
<1>16. ASSUME NEW w \in Workers, StatementFails(w)
      PROVE  \A x \in Imports : SweepShape(x)'
  BY <1>16
     DEF StatementFails, ImportInv, TypeOK, JobTypes, RunShape, SweepShape, Raise, On, Nobody,
         IsBusy, Release, Fail
<1>17. ASSUME NEW w \in Workers, WorkerDies(w)
      PROVE  \A x \in Imports : SweepShape(x)'
  BY <1>17 DEF WorkerDies, ImportInv, RunShape, SweepShape, Release, On, Nobody, IsBusy
<1>18. ASSUME NEW i \in Imports, SweepLists(i)
      PROVE  \A x \in Imports : SweepShape(x)'
  <2>1. UNCHANGED <<status, past, todo, silent, started, attempts, pc, job>>
    BY <1>18, Zenon DEF SweepLists
  <2>2. status[i] \in Busy /\ sweep[i] = "none"
    BY <1>18 DEF SweepLists, IsBusy
  <2>3. CASE sweep' = [sweep EXCEPT ![i] = "queue"] /\ todo[i] = 0
               /\ (started[i] => silent[i] /\ attempts[i] < MaxAttempts)
    BY <2>1, <2>2, <2>3 DEF ImportInv, SweepShape, Nobody, On, Waiting, NoJob, IsBusy, Busy
  <2>4. CASE /\ past[i] \/ (started[i] /\ silent[i] /\ attempts[i] >= MaxAttempts)
             /\ sweep' = [sweep EXCEPT ![i] = "fail"] \/ sweep' = [sweep EXCEPT ![i] = "failUndo"]
    <3>1. Nobody(i) \/ past[i]
      BY <2>2, <2>4 DEF ImportInv, OneRun, Nobody, Live, HasFile
    <3>2. todo[i] = 0 \/ past[i]
      BY <2>2, <2>4 DEF ImportInv, TypeOK, RecordTypes, SweepShape, Waiting, NoJob, IsBusy
    <3>3. past[i] \/ status[i] \in {"checking", "running"}
      BY <2>2, <2>4 DEF ImportInv, RecordShape, Busy
    <3> QED
      BY <2>1, <2>2, <2>4, <3>1, <3>2, <3>3
         DEF ImportInv, TypeOK, RecordTypes, DataTypes, SweepShape, Nobody, On, IsBusy
  <2>5. attempts[i] \in Nat /\ MaxAttempts \in Nat
    BY DEF ImportInv, TypeOK, RecordTypes
  <2>6. OutOfAttempts(i) <=> ~(attempts[i] < MaxAttempts)
    BY <2>5 DEF OutOfAttempts
  <2>7. \/ /\ past[i] \/ (started[i] /\ silent[i] /\ OutOfAttempts(i))
           /\ \/ sweep' = [sweep EXCEPT ![i] = "fail"]
              \/ sweep' = [sweep EXCEPT ![i] = "failUndo"]
        \/ /\ sweep' = [sweep EXCEPT ![i] = "queue"] /\ ~Waiting(todo, i)
           /\ ~started[i] \/ (silent[i] /\ ~OutOfAttempts(i))
    BY <1>18 DEF SweepLists
  <2> QED
    BY <2>3, <2>4, <2>5, <2>6, <2>7, Zenon DEF Waiting, NoJob, OutOfAttempts
<1>19. ASSUME NEW i \in Imports, SweepQueues(i)
      PROVE  \A x \in Imports : SweepShape(x)'
  BY <1>19
     DEF SweepQueues, ImportInv, TypeOK, DataTypes, SweepShape, Queue, On, Nobody, Waiting,
         IsBusy, Defer
<1>20. ASSUME NEW i \in Imports, SweepFails(i)
      PROVE  \A x \in Imports : SweepShape(x)'
  BY <1>20
     DEF SweepFails, ImportInv, TypeOK, RecordTypes, DataTypes, SweepShape, MayExpire, On,
         Nobody, IsBusy
<1>21. ASSUME NEW i \in Imports, SweepUndoes(i)
      PROVE  \A x \in Imports : SweepShape(x)'
  BY <1>21 DEF SweepUndoes, ImportInv, TypeOK, DataTypes, SweepShape, On, Nobody, IsBusy
<1>22. ASSUME NEW i \in Imports, SweepMarks(i)
      PROVE  \A x \in Imports : SweepShape(x)'
  BY <1>22 DEF SweepMarks, ImportInv, SweepShape, On, Nobody, IsBusy
<1>23. ASSUME NEW i \in Imports, SweepFinishesFile(i)
      PROVE  \A x \in Imports : SweepShape(x)'
  BY <1>23 DEF SweepFinishesFile, ImportInv, SweepShape, On, Nobody, IsBusy
<1>24. ASSUME NEW i \in Imports, RetryDeletes(i)
      PROVE  \A x \in Imports : SweepShape(x)'
  BY <1>24 DEF RetryDeletes, ImportInv, SweepShape, Stray, On, Nobody, IsBusy
<1>25. ASSUME NEW i \in Imports, RetryClears(i)
      PROVE  \A x \in Imports : SweepShape(x)'
  BY <1>25 DEF RetryClears, ImportInv, SweepShape, On, Nobody, IsBusy
<1>26. ASSUME NEW i \in Imports, Expire(i)
      PROVE  \A x \in Imports : SweepShape(x)'
  BY <1>26
     DEF Expire, ImportInv, SweepShape, MayWait, EndWaiting, On, Waits, Nobody, IsBusy, Busy
<1>27. ASSUME NEW i \in Imports, SweepDies(i)
      PROVE  \A x \in Imports : SweepShape(x)'
  BY <1>27 DEF SweepDies, ImportInv, SweepShape, On, Nobody, IsBusy
<1>28. ASSUME NEW i \in Imports, HourEnds(i)
      PROVE  \A x \in Imports : SweepShape(x)'
  BY <1>28 DEF HourEnds, ImportInv, SweepShape, On, Nobody, IsBusy
<1>29. ASSUME NEW i \in Imports, FallsSilent(i)
      PROVE  \A x \in Imports : SweepShape(x)'
  BY <1>29 DEF FallsSilent, ImportInv, SweepShape, On, Nobody, IsBusy
<1>30. ASSUME NEW i \in Imports, ForgetActor(i)
      PROVE  \A x \in Imports : SweepShape(x)'
  BY <1>30 DEF ForgetActor, ImportInv, SweepShape, MayWait, On, Waits, Nobody, IsBusy, Busy
<1>31. ASSUME DeleteForm
      PROVE  \A x \in Imports : SweepShape(x)'
  BY <1>31 DEF DeleteForm, ImportInv, SweepShape, On, Nobody, IsBusy, Busy
<1>32. ASSUME
        \/ \E i \in Imports : RollbackDelete(i) \/ PurgeFile(i) \/ LoseRole(i) \/
             EraseOne(i)
        \/ Switch
      PROVE  \A x \in Imports : SweepShape(x)'
  <2>1. UNCHANGED <<status, attempts, started, past, silent, todo, pc, job, sweep>>
    BY <1>32, ZenonT(60) DEF RollbackDelete, PurgeFile, LoseRole, EraseOne, Switch
  <2>2. QED
    BY <2>1 DEF ImportInv, SweepShape, On, Nobody, IsBusy
<1>33. ASSUME NEW i \in Imports, SaveFile(i)
      PROVE  \A x \in Imports : SweepShape(x)'
  <2>1. Delivers(i)
    BY <1>33, SaveFileEffect, Zenon DEF ImportInv
  <2> QED
    BY <2>1
       DEF Delivers, ImportInv, TypeOK, RecordTypes, SweepShape, On, Nobody, IsBusy, Busy
<1> QED
  BY <1>1, <1>2, <1>3, <1>4, <1>5, <1>6, <1>7, <1>8, <1>9, <1>10, <1>11, <1>12, <1>13,
       <1>14, <1>15, <1>16, <1>17, <1>18, <1>19, <1>20, <1>21, <1>22, <1>23, <1>24, <1>25,
       <1>26, <1>27, <1>28, <1>29, <1>30, <1>31, <1>32, <1>33
       DEF Next, Request, Sweep, Step

\* The upload stays for as long as it may be read.
LEMMA FileStep ==
  ASSUME ImportInv, Next
  PROVE  FileWaits'
<1>1. ASSUME NEW i \in Imports, Upload(i)
      PROVE  FileWaits'
  BY <1>1 DEF Upload, ImportInv, TypeOK, RecordTypes, WorldTypes, FileWaits
<1>2. ASSUME NEW i \in Imports, NEW what \in {"check", "import"}, Start(i, what)
      PROVE  FileWaits'
  BY <1>2 DEF Start, ImportInv, FileWaits, Admit, HasFile, MayWait
<1>3. ASSUME NEW i \in Imports, Discard(i) \/ Replace(i)
      PROVE  FileWaits'
  <2>1. Withdraws(i)
    BY <1>3, WithdrawEffect, Zenon
  <2> QED
    BY <2>1
       DEF Withdraws, ImportInv, TypeOK, RecordTypes, DataTypes, FileWaits, HasFile, Waits,
           Busy
<1>4. ASSUME NEW i \in Imports, RollbackEnd(i)
      PROVE  FileWaits'
  BY <1>4 DEF RollbackEnd, ImportInv, TypeOK, RecordTypes, FileWaits, HasFile, Waits, Busy
<1>5. ASSUME NEW w \in Workers, NEW i \in Imports, Claim(w, i)
      PROVE  FileWaits'
  BY <1>5 DEF Claim, ImportInv, TypeOK, RecordTypes, FileWaits, HasFile, Busy
<1>6. ASSUME NEW w \in Workers, End(w)
      PROVE  FileWaits'
  BY <1>6 DEF End, ImportInv, TypeOK, RecordTypes, FileWaits, Lost, HasFile, Waits, Owned, Busy
<1>7. ASSUME NEW w \in Workers, FinishFile(w)
      PROVE  FileWaits'
  <2>1. /\ UNCHANGED <<status, upload>> /\ pc[w] = "file"
        /\ file' = file \/ file' = [file EXCEPT ![job[w]] = FALSE]
    BY <1>7, Zenon DEF FinishFile
  <2>2. \A i \in Imports : On(w, i) => status[i] \notin HasFile
    BY <2>1 DEF ImportInv, OneRun, Live
  <2> QED
    BY <2>1, <2>2 DEF ImportInv, FileWaits, On, TypeOK, DataTypes
<1>8. ASSUME NEW i \in Imports, SweepFails(i)
      PROVE  FileWaits'
  BY <1>8 DEF SweepFails, ImportInv, TypeOK, RecordTypes, FileWaits, HasFile, Waits, Busy
<1>9. ASSUME NEW i \in Imports, SweepFinishesFile(i)
      PROVE  FileWaits'
  BY <1>9 DEF SweepFinishesFile, ImportInv, FileWaits, SweepShape, HasFile, Waits, Busy
<1>10. ASSUME NEW i \in Imports, Expire(i)
      PROVE  FileWaits'
  BY <1>10
     DEF Expire, ImportInv, TypeOK, RecordTypes, DataTypes, FileWaits, EndWaiting, HasFile,
         Waits, Busy
<1>11. ASSUME NEW i \in Imports, PurgeFile(i)
      PROVE  FileWaits'
  BY <1>11 DEF PurgeFile, ImportInv, FileWaits, Purgeable
<1>12. ASSUME NEW i \in Imports, ForgetActor(i)
      PROVE  FileWaits'
  BY <1>12 DEF ForgetActor, ImportInv, TypeOK, RecordTypes, FileWaits, HasFile, Waits, Busy
<1>13. ASSUME DeleteForm
      PROVE  FileWaits'
  BY <1>13 DEF DeleteForm, ImportInv, FileWaits, HasFile, Waits, Busy
<1>14. ASSUME
        \/ \E w \in Workers : Undo(w) \/ MarkUndo(w) \/ Proceed(w) \/ Read(w) \/
             Budget(w) \/ Beat(w) \/ Save(w) \/ Skip(w) \/ Count(w) \/ StatementFails(w) \/
             WorkerDies(w)
        \/ \E i \in Imports : RollbackDelete(i) \/ SweepLists(i) \/ SweepQueues(i) \/
             SweepUndoes(i) \/ SweepMarks(i) \/ RetryDeletes(i) \/ RetryClears(i) \/
             SweepDies(i) \/ HourEnds(i) \/ FallsSilent(i) \/ LoseRole(i) \/
             EraseOne(i)
        \/ Switch
      PROVE  FileWaits'
  <2>1. UNCHANGED <<status, file, upload>>
    BY <1>14, ZenonT(60)
       DEF RollbackDelete, Undo, MarkUndo, Proceed, Read, Budget, Beat, Save, Skip, Count,
           StatementFails, WorkerDies, SweepLists, SweepQueues, SweepUndoes, SweepMarks,
           RetryDeletes, RetryClears, SweepDies, HourEnds, FallsSilent, LoseRole, EraseOne,
           Switch
  <2>2. QED
    BY <2>1 DEF ImportInv, FileWaits
<1>15. ASSUME NEW i \in Imports, SaveFile(i)
      PROVE  FileWaits'
  <2>1. Delivers(i)
    BY <1>15, SaveFileEffect, Zenon DEF ImportInv
  <2> QED
    BY <2>1
       DEF Delivers, ImportInv, TypeOK, RecordTypes, WorldTypes, DataTypes, FileWaits, HasFile,
           Waits, Busy
<1> QED
  BY <1>1, <1>2, <1>3, <1>4, <1>5, <1>6, <1>7, <1>8, <1>9, <1>10, <1>11, <1>12, <1>13,
       <1>14, <1>15 DEF Next, Request, Sweep, Step

\* Until its file is there nobody reads an import: it has no rows, and its runs end
\* before they look.
LEMMA UploadStep ==
  ASSUME ImportInv, Next
  PROVE  \A x \in Imports : UploadShape(x)'
<1> USE DEF UploadShape, Unread, On
<1>0. /\ upload \in [Imports -> Uploads] /\ skips \in [Imports -> BOOLEAN]
      /\ status \in [Imports -> Statuses] /\ file \in [Imports -> BOOLEAN]
      /\ stored \in [Imports -> Nat] /\ pc \in [Workers -> Pcs]
      /\ job \in [Workers -> Imports \cup {NoImport}] /\ verdict \in [Workers -> Verdicts]
      /\ \A i \in Imports : UploadShape(i)
      /\ \A w \in Workers : RunShape(w)
  BY DEF ImportInv, TypeOK, WorldTypes, RecordTypes, DataTypes, JobTypes
<1>1. ASSUME NEW i \in Imports, Upload(i)
      PROVE  \A x \in Imports : UploadShape(x)'
  <2>1. stored[i] = 0 /\ ~file[i]
    BY <1>1 DEF Upload, ImportInv, UploadShape, RecordShape
  <2>2. \A w \in Workers : ~On(w, i)
    BY <1>1 DEF Upload, ImportInv, OneRun, RecordShape, RunShape, On, Live
  <2> QED
    BY <1>0, <1>1, <2>1, <2>2 DEF Upload
<1>2. ASSUME NEW i \in Imports, SaveFile(i)
      PROVE  \A x \in Imports : UploadShape(x)'
  <2>1. Delivers(i)
    BY <1>2, SaveFileEffect, Zenon DEF ImportInv
  <2> QED
    BY <1>0, <2>1 DEF Delivers
<1>3. ASSUME NEW i \in Imports, NEW what \in {"check", "import"}, Start(i, what)
      PROVE  \A x \in Imports : UploadShape(x)'
  <2>1. Starts(i, what)
    BY <1>3, StartEffect, Zenon
  <2> QED
    BY <1>0, <2>1 DEF Starts, Waits
<1>4. ASSUME NEW i \in Imports, Discard(i) \/ Replace(i) \/ Expire(i)
      PROVE  \A x \in Imports : UploadShape(x)'
  <2>1. Withdraws(i)
    BY <1>4, WithdrawEffect, Zenon
  <2> QED
    BY <1>0, <2>1 DEF Withdraws, Waits
<1>5. ASSUME NEW w \in Workers, NEW i \in Imports, Claim(w, i)
      PROVE  \A x \in Imports : UploadShape(x)'
  <2>1. CASE ~Claimable(i)
    <3>1. UNCHANGED <<status, upload, file, stored, pc, job, verdict>>
      BY <1>5, <2>1, Zenon DEF Claim, world
    <3> QED
      BY <3>1 DEF ImportInv
  <2>2. CASE Claimable(i)
    <3>1. Claims(w, i) /\ status[i] \in Busy
      BY <1>5, <2>2, ClaimEffect DEF Claimable, Busy
    <3>2. verdict[w] = "none"
      BY <3>1 DEF Claims, ImportInv, RunShape
    <3> QED
      BY <1>0, <3>1, <3>2 DEF Claims, Busy
  <2> QED
    BY <2>1, <2>2
<1>6. ASSUME NEW i \in Imports, RollbackDelete(i)
      PROVE  \A x \in Imports : UploadShape(x)'
  BY <1>0, <1>6 DEF RollbackDelete
<1>7. ASSUME NEW i \in Imports, RollbackEnd(i)
      PROVE  \A x \in Imports : UploadShape(x)'
  BY <1>0, <1>7 DEF RollbackEnd
<1>8. ASSUME NEW w \in Workers, Undo(w)
      PROVE  \A x \in Imports : UploadShape(x)'
  BY <1>0, <1>8 DEF Undo, AfterUndo, Goto, Fail, RunShape
<1>9. ASSUME NEW w \in Workers, MarkUndo(w)
      PROVE  \A x \in Imports : UploadShape(x)'
  BY <1>0, <1>9 DEF MarkUndo, AfterUndo, Goto, Fail, RunShape
<1>10. ASSUME NEW w \in Workers, Proceed(w)
      PROVE  \A x \in Imports : UploadShape(x)'
  BY <1>0, <1>10 DEF Proceed, EndAs, Goto
<1>11. ASSUME NEW w \in Workers, Read(w)
      PROVE  \A x \in Imports : UploadShape(x)'
  BY <1>0, <1>11 DEF Read, Fail, EndAs, Release, Goto
<1>12. ASSUME NEW w \in Workers, Budget(w)
      PROVE  \A x \in Imports : UploadShape(x)'
  BY <1>0, <1>12 DEF Budget, Fail, Goto
<1>13. ASSUME NEW w \in Workers, Beat(w)
      PROVE  \A x \in Imports : UploadShape(x)'
  BY <1>0, <1>13 DEF Beat, UndoAndEnd, Release, Goto
<1>14. ASSUME NEW w \in Workers, Save(w)
      PROVE  \A x \in Imports : UploadShape(x)'
  BY <1>0, <1>14 DEF Save, UndoAndEnd, Goto
<1>15. ASSUME NEW w \in Workers, Skip(w)
      PROVE  \A x \in Imports : UploadShape(x)'
  BY <1>0, <1>15 DEF Skip, Goto
<1>16. ASSUME NEW w \in Workers, Count(w)
      PROVE  \A x \in Imports : UploadShape(x)'
  BY <1>0, <1>16 DEF Count, EndAs, UndoAndEnd, Goto
<1>17. ASSUME NEW w \in Workers, End(w)
      PROVE  \A x \in Imports : UploadShape(x)'
  <2>1. /\ UNCHANGED <<upload, file, stored>> /\ pc[w] = "end"
        /\ \/ UNCHANGED status
           \/ /\ status' = [status EXCEPT ![job[w]] = verdict[w]] /\ Owned(w)
              /\ verdict[w] \in {"checked", "failed", "cancelled", "completed"}
    BY <1>17 DEF End, Lost, ImportInv, RunShape
  <2>2. \A v \in Workers, x \in Imports : On(v, x)' =>
           /\ On(v, x) /\ verdict'[v] = verdict[v]
           /\ pc'[v] = pc[v] \/ pc'[v] = "file"
    <3>1. CASE Release(w)
      BY <3>1 DEF Release, Goto, On, ImportInv, TypeOK, JobTypes
    <3>2. CASE Goto(w, "file") /\ UNCHANGED <<claimed, at, saved, verdict, failing>>
      BY <3>2, <2>1 DEF Goto, On, ImportInv, TypeOK, JobTypes
    <3> QED
      BY <1>17, <3>1, <3>2, Zenon DEF End
  <2>3. ASSUME NEW x \in Imports
        PROVE  /\ status'[x] = "none" <=> status[x] = "none"
               /\ status'[x] # "gone" => status[x] # "gone"
    BY <2>1 DEF Owned, ImportInv, TypeOK, RecordTypes
  <2> QED
    BY <2>1, <2>2, <2>3 DEF ImportInv
<1>18. ASSUME NEW w \in Workers, FinishFile(w)
      PROVE  \A x \in Imports : UploadShape(x)'
  <2>1. /\ UNCHANGED <<upload, status, stored>> /\ pc[w] = "file"
        /\ file' = file \/ file' = [file EXCEPT ![job[w]] = FALSE]
    BY <1>18, Zenon DEF FinishFile
  <2>2. \A v \in Workers, x \in Imports : On(v, x)' =>
           /\ On(v, x)
           /\ \/ pc'[v] = pc[v] /\ verdict'[v] = verdict[v]
              \/ pc'[v] \in {"undo", "end"} /\ verdict'[v] = "failed"
    <3>1. CASE Release(w)
      BY <3>1 DEF Release, Goto, On, ImportInv, TypeOK, JobTypes
    <3>2. CASE Fail(w)
      BY <3>2, <2>1 DEF Fail, Goto, On, ImportInv, TypeOK, JobTypes
    <3> QED
      BY <1>18, <3>1, <3>2, Zenon DEF FinishFile, Raise
  <2>3. \A x \in Imports : file'[x] => file[x]
    BY <2>1 DEF ImportInv, TypeOK, DataTypes
  <2> QED
    BY <2>1, <2>2, <2>3 DEF ImportInv
<1>19. ASSUME NEW w \in Workers, StatementFails(w)
      PROVE  \A x \in Imports : UploadShape(x)'
  BY <1>0, <1>19 DEF StatementFails, Release, Raise, Fail, Goto
<1>20. ASSUME NEW w \in Workers, WorkerDies(w)
      PROVE  \A x \in Imports : UploadShape(x)'
  BY <1>0, <1>20 DEF WorkerDies, Release, Goto
<1>21. ASSUME NEW i \in Imports, SweepFails(i)
      PROVE  \A x \in Imports : UploadShape(x)'
  BY <1>0, <1>21 DEF SweepFails, MayExpire, IsBusy, Busy
<1>22. ASSUME NEW i \in Imports, SweepUndoes(i)
      PROVE  \A x \in Imports : UploadShape(x)'
  BY <1>0, <1>22 DEF SweepUndoes
<1>23. ASSUME NEW i \in Imports, SweepFinishesFile(i)
      PROVE  \A x \in Imports : UploadShape(x)'
  BY <1>0, <1>23 DEF SweepFinishesFile
<1>24. ASSUME NEW i \in Imports, RetryDeletes(i)
      PROVE  \A x \in Imports : UploadShape(x)'
  BY <1>0, <1>24 DEF RetryDeletes
<1>25. ASSUME NEW i \in Imports, PurgeFile(i)
      PROVE  \A x \in Imports : UploadShape(x)'
  BY <1>0, <1>25 DEF PurgeFile
<1>26. ASSUME NEW i \in Imports, ForgetActor(i)
      PROVE  \A x \in Imports : UploadShape(x)'
  BY <1>0, <1>26 DEF ForgetActor, MayWait, Waits
<1>27. ASSUME NEW i \in Imports, EraseOne(i)
      PROVE  \A x \in Imports : UploadShape(x)'
  BY <1>0, <1>27 DEF EraseOne
<1>28. ASSUME DeleteForm
      PROVE  \A x \in Imports : UploadShape(x)'
  BY <1>0, <1>28 DEF DeleteForm, ImportInv, UploadShape, Unread, On
<1>29. ASSUME
        \/ \E i \in Imports : SweepLists(i) \/ SweepQueues(i) \/ SweepMarks(i)
             \/ RetryClears(i) \/ SweepDies(i) \/ HourEnds(i) \/ FallsSilent(i) \/ LoseRole(i)
        \/ Switch
      PROVE  \A x \in Imports : UploadShape(x)'
  <2>1. UNCHANGED <<status, upload, file, stored, pc, job, verdict>>
    BY <1>29, ZenonT(60)
       DEF SweepLists, SweepQueues, SweepMarks, RetryClears, SweepDies, HourEnds, FallsSilent,
           LoseRole, Switch
  <2> QED
    BY <2>1 DEF ImportInv
<1> QED
  BY <1>1, <1>2, <1>3, <1>4, <1>5, <1>6, <1>7, <1>8, <1>9, <1>10, <1>11, <1>12, <1>13,
       <1>14, <1>15, <1>16, <1>17, <1>18, <1>19, <1>20, <1>21, <1>22, <1>23, <1>24, <1>25,
       <1>26, <1>27, <1>28, <1>29
       DEF Next, Request, Sweep, Step

\* Every step keeps the invariant.
LEMMA ImportStep ==
  ASSUME ImportInv, [Next]_vars
  PROVE  ImportInv'
<1>1. CASE Next
  <2>1. TypeOK /\ \A x \in Workers : RunShape(x)
    BY Zenon DEF ImportInv
  <2>2. TypeOK'
    BY <1>1, <2>1, WorldStep, RecordTypesStep, DataStep, JobStep, HistoryStep, Zenon DEF TypeOK
  <2> QED
    BY <1>1, <2>2, ShapeStep, OneRunStep, RecordStep, SweepStep, FileStep, UploadStep, Zenon
       DEF ImportInv
<1>2. CASE UNCHANGED vars
  <2>1. TypeOK'
    BY <1>2 DEF ImportInv, vars, TypeOK, WorldTypes, RecordTypes, DataTypes, JobTypes,
         HistoryTypes
  <2>2. OneRun' /\ FileWaits'
    BY <1>2 DEF ImportInv, vars, OneRun, On, Live, FileWaits
  <2>3. \A x \in Workers : RunShape(x)'
    BY <1>2 DEF ImportInv, vars, RunShape
  <2>4. \A x \in Imports : RecordShape(x)' /\ SweepShape(x)' /\ UploadShape(x)'
    BY <1>2 DEF ImportInv, vars, RecordShape, SweepShape, UploadShape, Unread, Nobody, On,
         Waiting, IsBusy
  <2> QED
    BY <2>1, <2>2, <2>3, <2>4, Zenon DEF ImportInv
<1> QED
  BY <1>1, <1>2

\* It holds before the first upload.
LEMMA ImportInit ==
  ASSUME Init
  PROVE  ImportInv
<1>1. TypeOK
  BY
     DEF Init, TypeOK, WorldTypes, RecordTypes, DataTypes, JobTypes, HistoryTypes, Forms,
         Statuses, Modes, Plans, Pcs, Verdicts, Uploads, NoJob
<1>2. OneRun /\ FileWaits
  BY DEF Init, OneRun, On, FileWaits, HasFile, Waits, Busy
<1>3. \A w \in Workers : RunShape(w)
  BY DEF Init, RunShape
<1>4. \A i \in Imports : RecordShape(i) /\ SweepShape(i) /\ UploadShape(i)
  BY DEF Init, RecordShape, SweepShape, UploadShape, Waits, Waiting, IsBusy, Busy, NoJob
<1> QED
  BY <1>1, <1>2, <1>3, <1>4 DEF ImportInv

\* Every variable keeps its type, no import is worked on by two workers at once
\* (redefer_pending queues it again only when its worker is dead, _claim takes it
\* over), its upload, once saved, is there as long as it waits or is worked on
\* (file_ids_older_than, _finish_file), nobody reads it before (start saves the row
\* first), and where a run and the sweep are agrees with the row.
THEOREM ImportInduction == Spec => []ImportInv
<1>1. Init => ImportInv
  BY ImportInit
<1>2. ImportInv /\ [Next]_vars => ImportInv'
  BY ImportStep
<1> QED
  BY <1>1, <1>2, PTL DEF Spec

\* The variables keep their types.
THEOREM TypesKept == Spec => []TypeOK
<1>1. ImportInv => TypeOK
  BY Zenon DEF ImportInv
<1> QED
  BY <1>1, ImportInduction, PTL

\* Once saved, the upload of an import that waits or is being worked on is never taken
\* away, neither by the hourly purge nor at the end of another run.
THEOREM UploadStays == Spec => []FileWaits
<1>1. ImportInv => FileWaits
  BY Zenon DEF ImportInv
<1> QED
  BY <1>1, ImportInduction, PTL

-----------------------------------------------------------------------------
(* What ended stays ended.                                                 *)

\* No step gives an ended import another status, but the undo of a completed one.
LEMMA EndedStep ==
  ASSUME ImportInv, Next
  PROVE  \A x \in Imports : StaysEnded(x)
<1>1. ASSUME NEW i \in Imports, Upload(i)
      PROVE  \A x \in Imports : StaysEnded(x)
  BY <1>1 DEF Upload, StaysEnded, MayWait, Ended, Waits
<1>2. ASSUME NEW i \in Imports, NEW what \in {"check", "import"}, Start(i, what)
      PROVE  \A x \in Imports : StaysEnded(x)
  <2>1. Starts(i, what)
    BY <1>2, StartEffect, Zenon
  <2> QED
    BY <2>1 DEF Starts, ImportInv, TypeOK, RecordTypes, StaysEnded, Waits, Ended
<1>3. ASSUME NEW i \in Imports, Discard(i) \/ Replace(i)
      PROVE  \A x \in Imports : StaysEnded(x)
  <2>1. Withdraws(i)
    BY <1>3, WithdrawEffect, Zenon
  <2> QED
    BY <2>1 DEF Withdraws, ImportInv, TypeOK, RecordTypes, StaysEnded, Ended, Waits
<1>4. ASSUME NEW i \in Imports, RollbackEnd(i)
      PROVE  \A x \in Imports : StaysEnded(x)
  BY <1>4 DEF RollbackEnd, ImportInv, TypeOK, RecordTypes, StaysEnded
<1>5. ASSUME NEW w \in Workers, NEW i \in Imports, Claim(w, i)
      PROVE  \A x \in Imports : StaysEnded(x)
  BY <1>5 DEF Claim, ImportInv, TypeOK, RecordTypes, StaysEnded, Ended
<1>6. ASSUME NEW w \in Workers, End(w)
      PROVE  \A x \in Imports : StaysEnded(x)
  BY <1>6 DEF End, ImportInv, TypeOK, RecordTypes, StaysEnded, Lost, Ended, Owned
<1>7. ASSUME NEW i \in Imports, SweepFails(i)
      PROVE  \A x \in Imports : StaysEnded(x)
  BY <1>7
     DEF SweepFails, ImportInv, TypeOK, RecordTypes, StaysEnded, MayExpire, Ended, IsBusy, Busy
<1>8. ASSUME NEW i \in Imports, Expire(i)
      PROVE  \A x \in Imports : StaysEnded(x)
  BY <1>8 DEF Expire, StaysEnded, MayWait, EndWaiting, Ended, Waits
<1>9. ASSUME NEW i \in Imports, ForgetActor(i)
      PROVE  \A x \in Imports : StaysEnded(x)
  BY <1>9 DEF ForgetActor, StaysEnded, MayWait, Ended, Waits
<1>10. ASSUME DeleteForm
      PROVE  \A x \in Imports : StaysEnded(x)
  BY <1>10 DEF DeleteForm, StaysEnded
<1>11. ASSUME
        \/ \E w \in Workers : Undo(w) \/ MarkUndo(w) \/ Proceed(w) \/ Read(w) \/
             Budget(w) \/ Beat(w) \/ Save(w) \/ Skip(w) \/ Count(w) \/ FinishFile(w) \/
             StatementFails(w) \/ WorkerDies(w)
        \/ \E i \in Imports : RollbackDelete(i) \/ SweepLists(i) \/ SweepQueues(i) \/
             SweepUndoes(i) \/ SweepMarks(i) \/ SweepFinishesFile(i) \/ RetryDeletes(i)
             \/ RetryClears(i) \/ PurgeFile(i) \/ SweepDies(i) \/ HourEnds(i) \/
             FallsSilent(i) \/ LoseRole(i) \/ EraseOne(i)
        \/ Switch
      PROVE  \A x \in Imports : StaysEnded(x)
  <2>1. UNCHANGED <<status>>
    BY <1>11, ZenonT(60)
       DEF RollbackDelete, Undo, MarkUndo, Proceed, Read, Budget, Beat, Save, Skip, Count,
           FinishFile, StatementFails, WorkerDies, SweepLists, SweepQueues, SweepUndoes,
           SweepMarks, SweepFinishesFile, RetryDeletes, RetryClears, PurgeFile, SweepDies,
           HourEnds, FallsSilent, LoseRole, EraseOne, Switch
  <2>2. QED
    BY <2>1 DEF StaysEnded
<1>12. ASSUME NEW i \in Imports, SaveFile(i)
      PROVE  \A x \in Imports : StaysEnded(x)
  <2>1. Delivers(i)
    BY <1>12, SaveFileEffect, Zenon DEF ImportInv
  <2> QED
    BY <2>1 DEF Delivers, ImportInv, TypeOK, RecordTypes, StaysEnded
<1> QED
  BY <1>1, <1>2, <1>3, <1>4, <1>5, <1>6, <1>7, <1>8, <1>9, <1>10, <1>11, <1>12
       DEF Next, Request, Sweep, Step

\* An import ends once: _end and _expire_job look at the locked row, so neither a
\* run that lost its claim nor a sweep that listed the import earlier ends it again.
THEOREM EndsOnce == Spec => EndedStays
<1>1. ImportInv /\ [Next]_vars => [\A i \in Imports : StaysEnded(i)]_vars
  BY EndedStep
<1> QED
  BY <1>1, ImportInduction, PTL DEF Spec, EndedStays

-----------------------------------------------------------------------------
(* The troubles that are counted.                                          *)

\* A step meets one trouble or none ...
LEMMA OneTrouble ==
  ASSUME [Next]_vars
  PROVE  UNCHANGED spent \/ \E k \in TroubleKinds : Trouble(k)
<1> DEFINE Some == \E k \in TroubleKinds : Trouble(k)
<1>0. \A k \in {"crash", "db", "file", "queue", "slow", "role", "account", "switch", "form",
                "erase", "rollback"} : Trouble(k) => Some
  BY DEF TroubleKinds
<1> HIDE DEF Some
<1>1. ASSUME NEW i \in Imports, Request(i) PROVE UNCHANGED spent \/ Some
  <2>1. ASSUME Discard(i) \/ Replace(i) PROVE UNCHANGED spent \/ Some
    BY <1>0, <2>1 DEF Discard, Replace, EndWaiting
  <2>2. ASSUME SaveFile(i) PROVE UNCHANGED spent \/ Some
    BY <1>0, <2>2, Zenon DEF SaveFile
  <2>3. ASSUME Upload(i) \/ RollbackDelete(i) \/ RollbackEnd(i)
        PROVE  UNCHANGED spent \/ Some
    BY <1>0, <2>3 DEF Upload, RollbackDelete, RollbackEnd
  <2>4. ASSUME NEW what \in {"check", "import"}, Start(i, what)
        PROVE  UNCHANGED spent \/ Some
    BY <1>0, <2>4, Zenon DEF Start, Queue
  <2> QED
    BY <1>1, <2>1, <2>2, <2>3, <2>4, Zenon DEF Request
<1>2. ASSUME NEW i \in Imports, Sweep(i) PROVE UNCHANGED spent \/ Some
  BY <1>0, <1>2
     DEF Sweep, SweepLists, SweepQueues, Queue, SweepFails, SweepUndoes, SweepMarks,
         SweepFinishesFile, RetryDeletes, RetryClears
<1>3. ASSUME NEW i \in Imports,
             \/ Expire(i) \/ PurgeFile(i) \/ SweepDies(i) \/ HourEnds(i) \/ FallsSilent(i)
             \/ LoseRole(i) \/ ForgetActor(i) \/ EraseOne(i)
      PROVE  UNCHANGED spent \/ Some
  BY <1>0, <1>3
     DEF Expire, EndWaiting, PurgeFile, SweepDies, HourEnds, FallsSilent, LoseRole, ForgetActor,
         EraseOne
<1>4. ASSUME NEW w \in Workers, Step(w) PROVE UNCHANGED spent \/ Some
  BY <1>0, <1>4, ZenonT(30)
     DEF Step, Undo, MarkUndo, Proceed, Read, Budget, Beat, Save, Skip, Count, End, FinishFile
<1>5. ASSUME NEW w \in Workers,
             StatementFails(w) \/ WorkerDies(w) \/ \E i \in Imports : Claim(w, i)
      PROVE  UNCHANGED spent \/ Some
  BY <1>0, <1>5 DEF StatementFails, WorkerDies, Claim
<1>6. ASSUME Switch \/ DeleteForm PROVE UNCHANGED spent \/ Some
  BY <1>0, <1>6 DEF Switch, DeleteForm
<1>7. CASE UNCHANGED vars
  BY <1>7 DEF vars
<1> QED
  BY <1>1, <1>2, <1>3, <1>4, <1>5, <1>6, <1>7 DEF Next, Some

\* ... so what was not met by now was not met before, and nothing more often than it may.
LEMMA TroublesCount ==
  ASSUME ImportInv, [Next]_vars, NEW k \in TroubleKinds
  PROVE  /\ spent'[k] = 0 => spent[k] = 0
         /\ spent[k] <= Troubles[k] => spent'[k] <= Troubles[k]
<1>1. spent \in [TroubleKinds -> Nat]
  BY DEF ImportInv, TypeOK, WorldTypes
<1>2. ASSUME NEW j \in TroubleKinds, Trouble(j)
      PROVE  spent[j] < Troubles[j] /\ spent' = [spent EXCEPT ![j] = @ + 1]
  BY <1>2 DEF Trouble
<1> QED
  BY <1>1, <1>2, OneTrouble

-----------------------------------------------------------------------------
(* A completed import is complete.                                         *)

\* A run that counted its rows ends with them, unless the delete of the upload
\* fails after the end.
LEMMA CompletionStep ==
  ASSUME ImportInv, CompletionInv, spent'["file"] = 0, Next
  PROVE  CompletionInv'
<1>1. ASSUME NEW i \in Imports, Upload(i)
      PROVE  CompletionInv'
  BY <1>1 DEF Upload, CompletionInv, On
<1>2. ASSUME NEW i \in Imports, NEW what \in {"check", "import"}, Start(i, what)
      PROVE  CompletionInv'
  BY <1>2 DEF Start, CompletionInv, On
<1>3. ASSUME NEW i \in Imports, Discard(i) \/ Replace(i)
      PROVE  CompletionInv'
  <2>1. Withdraws(i)
    BY <1>3, WithdrawEffect, Zenon
  <2> QED
    BY <2>1 DEF Withdraws, ImportInv, TypeOK, RecordTypes, CompletionInv, On
<1>4. ASSUME NEW i \in Imports, RollbackDelete(i)
      PROVE  CompletionInv'
  BY <1>4 DEF RollbackDelete, CompletionInv, Stray, On
<1>5. ASSUME NEW i \in Imports, RollbackEnd(i)
      PROVE  CompletionInv'
  BY <1>5 DEF RollbackEnd, ImportInv, CompletionInv, TypeOK, RecordTypes, On
<1>6. ASSUME NEW w \in Workers, NEW i \in Imports, Claim(w, i)
      PROVE  CompletionInv'
  BY <1>6
     DEF Claim, ImportInv, CompletionInv, TypeOK, JobTypes, RecordTypes, OneRun, SweepShape,
         Claimable, Goto, On, HasFile, Live, Busy
<1>7. ASSUME NEW w \in Workers, Undo(w)
      PROVE  CompletionInv'
  BY <1>7
     DEF Undo, ImportInv, CompletionInv, TypeOK, JobTypes, DataTypes, OneRun, RecordShape,
         RunShape, SweepShape, AfterUndo, Goto, On, Nobody, Fail
<1>8. ASSUME NEW w \in Workers, MarkUndo(w)
      PROVE  CompletionInv'
  BY <1>8 DEF MarkUndo, ImportInv, HistoryTypes, CompletionInv, TypeOK, JobTypes,
       RecordTypes, DataTypes, WorldTypes, OneRun, RecordShape, RunShape, SweepShape,
       AfterUndo, Marked, Trouble, On, Pcs, Modes, Verdicts, Statuses, Plans, Forms,
       TroubleKinds, HasFile, Live, Waits, Nobody, Waiting, IsBusy, Fail, Goto, Busy,
       Ended, NoJob
<1>9. ASSUME NEW w \in Workers, Proceed(w)
      PROVE  CompletionInv'
  BY <1>9 DEF Proceed, ImportInv, CompletionInv, TypeOK, JobTypes, EndAs, Goto, On
<1>10. ASSUME NEW w \in Workers, Read(w)
      PROVE  CompletionInv'
  BY <1>10 DEF Read, ImportInv, CompletionInv, TypeOK, JobTypes, Release, Fail, EndAs, Goto, On
<1>11. ASSUME NEW w \in Workers, Budget(w)
      PROVE  CompletionInv'
  <2>1. UNCHANGED <<status, stored, erased, saved, job>> /\ pc[w] = "budget"
    BY <1>11, Zenon DEF Budget, Fail, claimed
  <2>2. \/ Goto(w, "beat") /\ UNCHANGED verdict
        \/ Fail(w)
    BY <1>11, Zenon DEF Budget
  <2> QED
    BY <2>1, <2>2 DEF CompletionInv, On, Goto, Fail, ImportInv, TypeOK, JobTypes
<1>12. ASSUME NEW w \in Workers, Beat(w)
      PROVE  CompletionInv'
  BY <1>12 DEF Beat, ImportInv, CompletionInv, TypeOK, JobTypes, Release, UndoAndEnd, Goto, On
<1>13. ASSUME NEW w \in Workers, Save(w) \/ Skip(w)
      PROVE  CompletionInv'
  BY <1>13
     DEF Save, Skip, ImportInv, CompletionInv, TypeOK, JobTypes, DataTypes, OneRun, Goto,
         AfterRow, UndoAndEnd, On
<1>14. ASSUME NEW w \in Workers, Count(w)
      PROVE  CompletionInv'
  BY <1>14
     DEF Count, ImportInv, HistoryTypes, CompletionInv, TypeOK, JobTypes, OneRun, EndAs,
         UndoAndEnd, On, Goto
<1>15. ASSUME NEW w \in Workers, End(w)
      PROVE  CompletionInv'
  BY <1>15
     DEF End, ImportInv, CompletionInv, TypeOK, JobTypes, RecordTypes, OneRun, Release, Goto, On
<1>16. ASSUME NEW w \in Workers, FinishFile(w)
      PROVE  CompletionInv'
  <2>1. ~Trouble("file")
    BY DEF Trouble, TroubleKinds, ImportInv, TypeOK, WorldTypes
  <2>2. Release(w)
    BY <1>16, <2>1, Zenon DEF FinishFile
  <2>3. UNCHANGED <<status, stored, erased>>
    BY <1>16, Zenon DEF FinishFile
  <2> QED
    BY <2>2, <2>3 DEF Release, Goto, CompletionInv, On, ImportInv, TypeOK, JobTypes
<1>17. ASSUME NEW w \in Workers, StatementFails(w)
      PROVE  CompletionInv'
  BY <1>17 DEF StatementFails, ImportInv, HistoryTypes, CompletionInv, TypeOK, JobTypes,
       RecordTypes, DataTypes, WorldTypes, OneRun, RecordShape, RunShape, SweepShape,
       Trouble, Raise, On, Pcs, Modes, Verdicts, Statuses, Plans, Forms, TroubleKinds,
       HasFile, Live, Waits, Nobody, Waiting, IsBusy, Release, Fail, Busy, Ended, NoJob,
       Goto
<1>18. ASSUME NEW w \in Workers, WorkerDies(w)
      PROVE  CompletionInv'
  BY <1>18 DEF WorkerDies, ImportInv, CompletionInv, TypeOK, JobTypes, Release, On, Goto
<1>19. ASSUME NEW i \in Imports, SweepFails(i)
      PROVE  CompletionInv'
  BY <1>19 DEF SweepFails, ImportInv, CompletionInv, TypeOK, RecordTypes, On
<1>20. ASSUME NEW i \in Imports, SweepUndoes(i)
      PROVE  CompletionInv'
  <2>1. status[i] \in {"failed", "gone"}
    BY <1>20 DEF SweepUndoes, ImportInv, SweepShape
  <2>2. /\ UNCHANGED <<status, pc, job, verdict, erased, saved>>
        /\ stored' = stored \/ stored' = [stored EXCEPT ![i] = 0]
    BY <1>20, Zenon DEF SweepUndoes
  <2> QED
    BY <2>1, <2>2 DEF ImportInv, TypeOK, DataTypes, CompletionInv, On
<1>21. ASSUME NEW i \in Imports, RetryDeletes(i)
      PROVE  CompletionInv'
  BY <1>21 DEF RetryDeletes, CompletionInv, Stray, On
<1>22. ASSUME NEW i \in Imports, Expire(i)
      PROVE  CompletionInv'
  BY <1>22 DEF Expire, CompletionInv, EndWaiting, On
<1>23. ASSUME NEW i \in Imports, ForgetActor(i)
      PROVE  CompletionInv'
  BY <1>23 DEF ForgetActor, CompletionInv, On
<1>24. ASSUME NEW i \in Imports, EraseOne(i)
      PROVE  CompletionInv'
  BY <1>24 DEF EraseOne, ImportInv, HistoryTypes, CompletionInv, TypeOK, DataTypes, On
<1>25. ASSUME DeleteForm
      PROVE  CompletionInv'
  BY <1>25 DEF DeleteForm, ImportInv, CompletionInv, RecordShape, On
<1>26. ASSUME
        \/ \E i \in Imports : SweepLists(i) \/ SweepQueues(i) \/ SweepMarks(i) \/
             SweepFinishesFile(i) \/ RetryClears(i) \/ PurgeFile(i) \/ SweepDies(i) \/
             HourEnds(i) \/ FallsSilent(i) \/ LoseRole(i)
        \/ Switch
      PROVE  CompletionInv'
  <2>1. UNCHANGED <<status, stored, pc, job, at, saved, verdict, erased>>
    BY <1>26, ZenonT(60)
       DEF SweepLists, SweepQueues, SweepMarks, SweepFinishesFile, RetryClears, PurgeFile,
           SweepDies, HourEnds, FallsSilent, LoseRole, Switch
  <2>2. QED
    BY <2>1 DEF CompletionInv, On
<1>27. ASSUME NEW i \in Imports, SaveFile(i)
      PROVE  CompletionInv'
  <2>1. Delivers(i)
    BY <1>27, SaveFileEffect, Zenon DEF ImportInv
  <2> QED
    BY <2>1 DEF Delivers, ImportInv, TypeOK, RecordTypes, CompletionInv, On
<1> QED
  BY <1>1, <1>2, <1>3, <1>4, <1>5, <1>6, <1>7, <1>8, <1>9, <1>10, <1>11, <1>12, <1>13,
       <1>14, <1>15, <1>16, <1>17, <1>18, <1>19, <1>20, <1>21, <1>22, <1>23, <1>24, <1>25,
       <1>26, <1>27 DEF Next, Request, Sweep, Step

\* The rows of a completed import are those its record counts.
LEMMA CompleteStep ==
  ASSUME ImportInv, CompletionInv, spent'["file"] = 0, CompletedIsComplete, Next
  PROVE  CompletedIsComplete'
<1>1. ASSUME NEW i \in Imports, Upload(i)
      PROVE  CompletedIsComplete'
  BY <1>1 DEF Upload, CompletedIsComplete
<1>2. ASSUME NEW i \in Imports, NEW what \in {"check", "import"}, Start(i, what)
      PROVE  CompletedIsComplete'
  BY <1>2 DEF Start, CompletedIsComplete
<1>3. ASSUME NEW i \in Imports, Discard(i) \/ Replace(i)
      PROVE  CompletedIsComplete'
  <2>1. Withdraws(i)
    BY <1>3, WithdrawEffect, Zenon
  <2> QED
    BY <2>1 DEF Withdraws, ImportInv, TypeOK, RecordTypes, CompletedIsComplete
<1>4. ASSUME NEW i \in Imports, RollbackDelete(i)
      PROVE  CompletedIsComplete'
  BY <1>4 DEF RollbackDelete, ImportInv, CompletedIsComplete, TypeOK, DataTypes
<1>5. ASSUME NEW i \in Imports, RollbackEnd(i)
      PROVE  CompletedIsComplete'
  BY <1>5 DEF RollbackEnd, ImportInv, CompletedIsComplete, TypeOK, RecordTypes, DataTypes
<1>6. ASSUME NEW w \in Workers, NEW i \in Imports, Claim(w, i)
      PROVE  CompletedIsComplete'
  BY <1>6 DEF Claim, ImportInv, CompletedIsComplete, TypeOK, RecordTypes
<1>7. ASSUME NEW w \in Workers, Undo(w)
      PROVE  CompletedIsComplete'
  <2>1. /\ UNCHANGED <<status, erased, imported, rollback>> /\ pc[w] = "undo"
        /\ stored' = stored \/ stored' = [stored EXCEPT ![job[w]] = 0]
    BY <1>7, Zenon DEF Undo
  <2>2. job[w] \in Imports => status[job[w]] # "completed"
    BY <2>1 DEF CompletionInv, On
  <2> QED
    BY <2>1, <2>2 DEF CompletedIsComplete, ImportInv, TypeOK, DataTypes
<1>8. ASSUME NEW w \in Workers, Save(w) \/ Skip(w)
      PROVE  CompletedIsComplete'
  <2>1. /\ UNCHANGED <<status, erased, imported, rollback>> /\ pc[w] = "save"
        /\ stored' = stored \/ stored' = [stored EXCEPT ![job[w]] = stored[job[w]] + 1]
    BY <1>8, Zenon DEF Save, Skip
  <2>2. job[w] \in Imports => status[job[w]] # "completed"
    BY <2>1 DEF CompletionInv, On
  <2> QED
    BY <2>1, <2>2 DEF CompletedIsComplete, ImportInv, TypeOK, DataTypes
<1>9. ASSUME NEW w \in Workers, Count(w)
      PROVE  CompletedIsComplete'
  <2>1. /\ UNCHANGED <<status, stored, imported, rollback>> /\ pc[w] = "count"
        /\ erased' = erased \/ erased' = [erased EXCEPT ![job[w]] = 0]
    BY <1>9, Zenon DEF Count
  <2>2. job[w] \in Imports => status[job[w]] # "completed"
    BY <2>1 DEF CompletionInv, On
  <2> QED
    BY <2>1, <2>2 DEF CompletedIsComplete, ImportInv, TypeOK, HistoryTypes
<1>10. ASSUME NEW w \in Workers, End(w)
      PROVE  CompletedIsComplete'
  BY <1>10
     DEF End, ImportInv, HistoryTypes, CompletionInv, CompletedIsComplete, TypeOK, RecordTypes,
         OneRun, RecordShape, RunShape, Lost, On, Owned
<1>11. ASSUME NEW i \in Imports, SweepFails(i)
      PROVE  CompletedIsComplete'
  BY <1>11 DEF SweepFails, ImportInv, CompletedIsComplete, TypeOK, RecordTypes
<1>12. ASSUME NEW i \in Imports, SweepUndoes(i)
      PROVE  CompletedIsComplete'
  <2>1. /\ UNCHANGED <<status, erased, imported, rollback>> /\ status[i] # "completed"
        /\ stored' = stored \/ stored' = [stored EXCEPT ![i] = 0]
    BY <1>12 DEF SweepUndoes, ImportInv, SweepShape
  <2> QED
    BY <2>1 DEF CompletedIsComplete, ImportInv, TypeOK, DataTypes
<1>13. ASSUME NEW i \in Imports, RetryDeletes(i)
      PROVE  CompletedIsComplete'
  BY <1>13 DEF RetryDeletes, CompletedIsComplete, Stray
<1>14. ASSUME NEW i \in Imports, Expire(i)
      PROVE  CompletedIsComplete'
  BY <1>14 DEF Expire, CompletedIsComplete, EndWaiting
<1>15. ASSUME NEW i \in Imports, ForgetActor(i)
      PROVE  CompletedIsComplete'
  BY <1>15 DEF ForgetActor, CompletedIsComplete
<1>16. ASSUME NEW i \in Imports, EraseOne(i)
      PROVE  CompletedIsComplete'
  BY <1>16
     DEF EraseOne, ImportInv, HistoryTypes, CompletedIsComplete, TypeOK, RecordTypes, DataTypes
<1>17. ASSUME DeleteForm
      PROVE  CompletedIsComplete'
  BY <1>17 DEF DeleteForm, ImportInv, CompletedIsComplete, RecordShape
<1>18. ASSUME
        \/ \E w \in Workers : MarkUndo(w) \/ Proceed(w) \/ Read(w) \/ Budget(w) \/
             Beat(w) \/ FinishFile(w) \/ StatementFails(w) \/ WorkerDies(w)
        \/ \E i \in Imports : SweepLists(i) \/ SweepQueues(i) \/ SweepMarks(i) \/
             SweepFinishesFile(i) \/ RetryClears(i) \/ PurgeFile(i) \/ SweepDies(i) \/
             HourEnds(i) \/ FallsSilent(i) \/ LoseRole(i)
        \/ Switch
      PROVE  CompletedIsComplete'
  <2>1. UNCHANGED <<status, stored, rollback, imported, erased>>
    BY <1>18, ZenonT(60)
       DEF MarkUndo, Proceed, Read, Budget, Beat, FinishFile, StatementFails, WorkerDies,
           SweepLists, SweepQueues, SweepMarks, SweepFinishesFile, RetryClears, PurgeFile,
           SweepDies, HourEnds, FallsSilent, LoseRole, Switch
  <2>2. QED
    BY <2>1 DEF CompletedIsComplete
<1>19. ASSUME NEW i \in Imports, SaveFile(i)
      PROVE  CompletedIsComplete'
  <2>1. Delivers(i)
    BY <1>19, SaveFileEffect, Zenon DEF ImportInv
  <2> QED
    BY <2>1 DEF Delivers, ImportInv, TypeOK, RecordTypes, CompletedIsComplete
<1> QED
  BY <1>1, <1>2, <1>3, <1>4, <1>5, <1>6, <1>7, <1>8, <1>9, <1>10, <1>11, <1>12, <1>13,
       <1>14, <1>15, <1>16, <1>17, <1>18, <1>19 DEF Next, Request, Sweep, Step

\* All the rows of a completed import are there, whatever died, was claimed again or
\* was swept on the way (_process counts them before _end), until _finish_file fails
\* for the first time: the run Import_file shows what happens then.
THEOREM CompleteUntilDeleteFails == Spec => [](spent["file"] = 0 => CompletedIsComplete)
<1> DEFINE Inv == spent["file"] = 0 => CompletionInv /\ CompletedIsComplete
<1>1. Init => Inv
  BY DEF Init, CompletionInv, CompletedIsComplete, On
<1>2. ASSUME ImportInv, Inv, [Next]_vars PROVE Inv'
  <2> SUFFICES ASSUME spent'["file"] = 0 PROVE CompletionInv' /\ CompletedIsComplete'
    OBVIOUS
  <2>0. CompletionInv /\ CompletedIsComplete
    BY <1>2, TroublesCount DEF TroubleKinds
  <2>1. CASE Next
    BY <1>2, <2>0, <2>1, CompletionStep, CompleteStep, Zenon
  <2>2. CASE UNCHANGED vars
    BY <2>0, <2>2 DEF vars, CompletionInv, CompletedIsComplete, On
  <2> QED
    BY <1>2, <2>1, <2>2
<1>3. ImportInv /\ Inv /\ [Next]_vars => Inv'
  BY <1>2
<1>4. Inv => (spent["file"] = 0 => CompletedIsComplete)
  OBVIOUS
<1> QED
  BY <1>1, <1>3, <1>4, ImportInduction, PTL DEF Spec

\* No trouble is met more often than the run admits.
LEMMA TroublesBounded == Spec => [](\A k \in TroubleKinds : spent[k] <= Troubles[k])
<1> DEFINE Inv == \A k \in TroubleKinds : spent[k] <= Troubles[k]
<1>1. Init => Inv
  BY DEF Init
<1>2. ImportInv /\ Inv /\ [Next]_vars => Inv'
  BY TroublesCount
<1> QED
  BY <1>1, <1>2, ImportInduction, PTL DEF Spec

\* So an instance in which it does not fail keeps all the rows of a completed import.
THEOREM CompletedKeepsItsRows ==
  ASSUME Troubles["file"] = 0
  PROVE  Spec => []CompletedIsComplete
<1>1. ImportInv /\ (\A k \in TroubleKinds : spent[k] <= Troubles[k]) => spent["file"] = 0
  BY DEF ImportInv, TypeOK, WorldTypes, TroubleKinds
<1> QED
  BY <1>1, CompleteUntilDeleteFails, TroublesBounded, ImportInduction, PTL

-----------------------------------------------------------------------------
(* A failed import leaves nothing.                                         *)

\* The rows of an import nobody works on.
AloneRows(i) ==
  status[i] # "gone" =>
    /\ status[i] \in {"failed", "cancelled"} => Settled(i)
    /\ sweep[i] = "fail" /\ IsBusy(i) => Accounted(i)

\* The rows of the import a worker works on.
RunRows(w, i) ==
  status[i] # "gone" =>
    /\ RowsOf(w, i)
    /\ sweep[i] = "fail" /\ IsBusy(i) =>
         /\ Accounted(i)
         /\ kind[w] = "import" =>
              /\ past[i]
              /\ pc[w] \in {"undo", "mark", "admit", "read", "end"}
              /\ verdict[w] # "completed"

\* What a step of a worker keeps of them.
Kept(w, i) ==
  \/ pc'[w] = "idle" /\ AloneRows(i)'
  \/ On(w, i)' /\ RunRows(w, i)'

\* Nothing happens to the other imports and the other workers.
Elsewhere(w, i) ==
  /\ \A x \in Imports : x # i =>
       /\ status'[x] = status[x] /\ undo'[x] = undo[x] /\ gaveUp'[x] = gaveUp[x]
       /\ stored'[x] = stored[x] /\ sweep'[x] = sweep[x] /\ past'[x] = past[x]
       /\ ~On(w, x) /\ ~On(w, x)'
  /\ \A v \in Workers : v # w =>
       /\ pc'[v] = pc[v] /\ job'[v] = job[v] /\ kind'[v] = kind[v]
       /\ verdict'[v] = verdict[v] /\ saved'[v] = saved[v]
       /\ ~On(v, i)

\* The invariant, read for one run.
LEMMA RowsOfARun ==
  ASSUME RowsInv, NEW w \in Workers, NEW i \in Imports, On(w, i)
  PROVE  RunRows(w, i)
BY DEF RowsInv, RowsAt, RunRows

\* A step of a worker is judged by what it does to its own import.
LEMMA RowsAfter ==
  ASSUME RowsInv, NEW w \in Workers, NEW i \in Imports, Elsewhere(w, i), Kept(w, i)
  PROVE  RowsInv'
<1>1. ASSUME NEW x \in Imports, x # i
      PROVE  RowsAt(x)'
  <2>1. ASSUME NEW v \in Workers
        PROVE  /\ On(v, x)' <=> On(v, x)
               /\ On(v, x) => RowsOf(v, x)' = RowsOf(v, x) /\ pc'[v] = pc[v]
                    /\ kind'[v] = kind[v] /\ verdict'[v] = verdict[v]
    <3>1. CASE v = w
      BY <1>1, <3>1 DEF Elsewhere
    <3>2. CASE v # w
      BY <1>1, <3>2 DEF Elsewhere, On, RowsOf, Accounted, Settled
    <3> QED
      BY <3>1, <3>2
  <2>2. /\ status'[x] = status[x] /\ sweep'[x] = sweep[x] /\ past'[x] = past[x]
        /\ Settled(x)' = Settled(x) /\ Accounted(x)' = Accounted(x)
    BY <1>1 DEF Elsewhere, Settled, Accounted
  <2> QED
    BY <2>1, <2>2 DEF RowsInv, RowsAt, Nobody, IsBusy
<1>2. RowsAt(i)'
  <2>1. \A v \in Workers : v # w => ~On(v, i)'
    BY DEF Elsewhere, On
  <2>2. CASE pc'[w] = "idle" /\ AloneRows(i)'
    <3>1. \A v \in Workers : ~On(v, i)'
      BY <2>1, <2>2 DEF On
    <3> QED
      BY <2>2, <3>1 DEF AloneRows, RowsAt
  <2>3. CASE On(w, i)' /\ RunRows(w, i)'
    BY <2>1, <2>3 DEF RunRows, RowsAt, Nobody
  <2> QED
    BY <2>2, <2>3 DEF Kept
<1> QED
  BY <1>1, <1>2 DEF RowsInv

\* Undo of a worker: the others are left alone ...
LEMMA ElseUndo ==
  ASSUME ImportInv, NEW w \in Workers, NEW i \in Imports, On(w, i), Undo(w)
  PROVE  Elsewhere(w, i)
BY
   DEF Undo, ImportInv, TypeOK, DataTypes, JobTypes, OneRun, Elsewhere, AfterUndo, Goto, On,
       Fail

\* ... and the rows of its import stay accounted for.
LEMMA RowsUndo ==
  ASSUME ImportInv, NEW w \in Workers, NEW i \in Imports, On(w, i),
         RunRows(w, i), Undo(w)
  PROVE  Kept(w, i)
BY
   DEF Undo, ImportInv, TypeOK, DataTypes, JobTypes, Kept, RunRows, RowsOf, Settled, Accounted,
       AfterUndo, Goto, On, IsBusy, Fail

\* MarkUndo of a worker: the others are left alone ...
LEMMA ElseMarkUndo ==
  ASSUME ImportInv, NEW w \in Workers, NEW i \in Imports, On(w, i), MarkUndo(w)
  PROVE  Elsewhere(w, i)
BY
   DEF MarkUndo, ImportInv, TypeOK, RecordTypes, JobTypes, HistoryTypes, OneRun, Elsewhere,
       AfterUndo, Marked, On, Fail, Goto

\* ... and the rows of its import stay accounted for.
LEMMA RowsMarkUndo ==
  ASSUME ImportInv, NEW w \in Workers, NEW i \in Imports, On(w, i),
         RunRows(w, i), MarkUndo(w)
  PROVE  Kept(w, i)
BY
   DEF MarkUndo, ImportInv, TypeOK, RecordTypes, JobTypes, HistoryTypes, RunShape, SweepShape,
       Kept, RunRows, RowsOf, Settled, Accounted, AfterUndo, Marked, On, Nobody, Fail, Goto

\* Proceed of a worker: the others are left alone ...
LEMMA ElseProceed ==
  ASSUME ImportInv, NEW w \in Workers, NEW i \in Imports, On(w, i), Proceed(w)
  PROVE  Elsewhere(w, i)
BY DEF Proceed, ImportInv, TypeOK, JobTypes, OneRun, Elsewhere, EndAs, Goto, On

\* ... and the rows of its import stay accounted for.
LEMMA RowsProceed ==
  ASSUME ImportInv, NEW w \in Workers, NEW i \in Imports, On(w, i),
         RunRows(w, i), Proceed(w)
  PROVE  Kept(w, i)
BY
   DEF Proceed, ImportInv, TypeOK, JobTypes, RunShape, SweepShape, Kept, RunRows, RowsOf,
       Settled, Accounted, EndAs, Goto, On, Nobody

\* Read of a worker: the others are left alone ...
LEMMA ElseRead ==
  ASSUME ImportInv, NEW w \in Workers, NEW i \in Imports, On(w, i), Read(w)
  PROVE  Elsewhere(w, i)
BY DEF Read, ImportInv, TypeOK, JobTypes, OneRun, Elsewhere, Release, Fail, EndAs, Goto, On

\* ... and the rows of its import stay accounted for.
LEMMA RowsRead ==
  ASSUME ImportInv, NEW w \in Workers, NEW i \in Imports, On(w, i),
         RunRows(w, i), Read(w)
  PROVE  Kept(w, i)
BY
   DEF Read, ImportInv, TypeOK, JobTypes, RunShape, SweepShape, Kept, RunRows, AloneRows,
       RowsOf, Settled, Accounted, InTime, Release, Fail, EndAs, Goto, On, Nobody

\* Budget of a worker: the others are left alone ...
LEMMA ElseBudget ==
  ASSUME ImportInv, NEW w \in Workers, NEW i \in Imports, On(w, i), Budget(w)
  PROVE  Elsewhere(w, i)
BY DEF Budget, ImportInv, TypeOK, JobTypes, OneRun, Elsewhere, Goto, Fail, On

\* ... and the rows of its import stay accounted for.
LEMMA RowsBudget ==
  ASSUME ImportInv, NEW w \in Workers, NEW i \in Imports, On(w, i),
         RunRows(w, i), Budget(w)
  PROVE  Kept(w, i)
BY
   DEF Budget, ImportInv, TypeOK, JobTypes, RunShape, Kept, RunRows, RowsOf, Settled, Accounted,
       InTime, Goto, Fail, On, IsBusy

\* Beat of a worker: the others are left alone ...
LEMMA ElseBeat ==
  ASSUME ImportInv, NEW w \in Workers, NEW i \in Imports, On(w, i), Beat(w)
  PROVE  Elsewhere(w, i)
BY DEF Beat, ImportInv, TypeOK, JobTypes, OneRun, Elsewhere, Release, UndoAndEnd, Goto, On

\* ... and the rows of its import stay accounted for.
LEMMA RowsBeat ==
  ASSUME ImportInv, NEW w \in Workers, NEW i \in Imports, On(w, i),
         RunRows(w, i), Beat(w)
  PROVE  Kept(w, i)
BY
   DEF Beat, ImportInv, TypeOK, JobTypes, Kept, RunRows, AloneRows, RowsOf, Settled, Accounted,
       Lost, Release, UndoAndEnd, Goto, On, IsBusy, Owned

\* Save of a worker: the others are left alone ...
LEMMA ElseSave ==
  ASSUME ImportInv, NEW w \in Workers, NEW i \in Imports, On(w, i), Save(w) \/ Skip(w)
  PROVE  Elsewhere(w, i)
BY
   DEF Save, Skip, ImportInv, TypeOK, DataTypes, JobTypes, OneRun, Elsewhere, Goto,
       UndoAndEnd, On

\* ... and the rows of its import stay accounted for.
LEMMA RowsSave ==
  ASSUME ImportInv, NEW w \in Workers, NEW i \in Imports, On(w, i),
         RunRows(w, i), Save(w) \/ Skip(w)
  PROVE  Kept(w, i)
<1>1. /\ UNCHANGED <<status, undo, gaveUp, sweep, past, mode>> /\ pc[w] = "save"
      /\ kind[w] = "import" /\ verdict[w] = "none"
  BY DEF Save, Skip, ImportInv, RunShape
<1>2. /\ On(w, i)' /\ kind'[w] = "import" /\ verdict'[w] \in {"none", "failed"}
      /\ pc'[w] \in {"save", "budget", "count", "undo"}
  BY <1>1 DEF Save, Skip, Goto, UndoAndEnd, AfterRow, On, ImportInv, TypeOK, JobTypes
<1>3. ~(status[i] # "gone" /\ sweep[i] = "fail" /\ IsBusy(i))
  BY <1>1 DEF RunRows
<1> QED
  BY <1>1, <1>2, <1>3 DEF Kept, RunRows, RowsOf, IsBusy

\* Count of a worker: the others are left alone ...
LEMMA ElseCount ==
  ASSUME ImportInv, NEW w \in Workers, NEW i \in Imports, On(w, i), Count(w)
  PROVE  Elsewhere(w, i)
BY DEF Count, ImportInv, TypeOK, JobTypes, OneRun, Elsewhere, EndAs, UndoAndEnd, On, Goto

\* ... and the rows of its import stay accounted for.
LEMMA RowsCount ==
  ASSUME ImportInv, NEW w \in Workers, NEW i \in Imports, On(w, i),
         RunRows(w, i), Count(w)
  PROVE  Kept(w, i)
BY
   DEF Count, ImportInv, TypeOK, JobTypes, Kept, RunRows, RowsOf, Settled, Accounted, EndAs,
       UndoAndEnd, On, IsBusy, Goto

\* End of a worker: the others are left alone ...
LEMMA ElseEnd ==
  ASSUME ImportInv, NEW w \in Workers, NEW i \in Imports, On(w, i), End(w)
  PROVE  Elsewhere(w, i)
<1>1. job[w] = i /\ gaveUp \in [Imports -> BOOLEAN] /\ status \in [Imports -> Statuses]
  BY DEF On, ImportInv, TypeOK, HistoryTypes, RecordTypes
<1>2. \A x \in Imports : x # i => gaveUp'[x] = gaveUp[x] /\ status'[x] = status[x]
  BY <1>1 DEF End
<1>3. UNCHANGED <<undo, stored, sweep, past>>
  BY Zenon DEF End, world
<1>4. \A v \in Workers : v # w =>
         /\ pc'[v] = pc[v] /\ job'[v] = job[v] /\ kind'[v] = kind[v]
         /\ verdict'[v] = verdict[v] /\ saved'[v] = saved[v] /\ ~On(v, i)
  BY DEF End, ImportInv, TypeOK, JobTypes, OneRun, Release, Goto, On
<1>5. \A x \in Imports : x # i => ~On(w, x) /\ ~On(w, x)'
  BY <1>1 DEF End, ImportInv, TypeOK, JobTypes, Release, Goto, On
<1> QED
  BY <1>2, <1>3, <1>4, <1>5 DEF Elsewhere

\* ... and the rows of its import stay accounted for.
LEMMA RowsEnd ==
  ASSUME ImportInv, NEW w \in Workers, NEW i \in Imports, On(w, i),
         RunRows(w, i), End(w)
  PROVE  Kept(w, i)
<1>1. job[w] = i /\ gaveUp \in [Imports -> BOOLEAN] /\ status \in [Imports -> Statuses]
  BY DEF On, ImportInv, TypeOK, HistoryTypes, RecordTypes
<1>2. UNCHANGED <<undo, stored, sweep, past>> /\ pc[w] = "end"
  BY Zenon DEF End, world, record
<1>3. CASE Lost(w)
  <2>1. Release(w) /\ UNCHANGED status /\ gaveUp'[i] = (gaveUp[i] \/ LeavesRows(w))
    BY <1>1, <1>3 DEF End
  <2>2. status[i] \in {"failed", "cancelled"} => Settled(i)'
    BY <1>1, <1>2, <2>1 DEF RunRows, RowsOf, LeavesRows, Settled, Accounted
  <2>3. status[i] # "gone" /\ sweep[i] = "fail" /\ IsBusy(i) => Accounted(i)'
    BY <1>1, <1>2, <2>1 DEF RunRows, Accounted
  <2>4. pc'[w] = "idle"
    BY <2>1 DEF Release, Goto, ImportInv, TypeOK, JobTypes
  <2> QED
    BY <1>2, <2>1, <2>2, <2>3, <2>4 DEF Kept, AloneRows, IsBusy
<1>4. CASE ~Lost(w)
  <2>1. /\ UNCHANGED gaveUp /\ status'[i] = verdict[w] /\ IsBusy(i)
        /\ verdict[w] \in {"checked", "failed", "cancelled", "completed"}
        /\ verdict[w] = "completed" => kind[w] = "import"
        /\ verdict[w] # "completed" => Accounted(i)
    BY <1>1, <1>2, <1>4
       DEF End, Lost, Owned, IsBusy, Busy, ImportInv, RunShape, RunRows, RowsOf
  <2>2. ~IsBusy(i)'
    BY <2>1 DEF IsBusy, Busy
  <2>3. CASE Release(w)
    BY <1>2, <2>1, <2>2, <2>3
       DEF Release, Goto, Kept, AloneRows, Settled, Accounted, ImportInv, TypeOK, JobTypes
  <2>4. CASE Goto(w, "file") /\ UNCHANGED <<claimed, at, saved, verdict, failing>>
    BY <1>1, <1>2, <2>1, <2>2, <2>4
       DEF Goto, Kept, RunRows, RowsOf, Settled, Accounted, On, ImportInv, TypeOK, JobTypes
  <2> QED
    BY <1>4, <2>3, <2>4, Zenon DEF End
<1> QED
  BY <1>3, <1>4

\* FinishFile of a worker: the others are left alone ...
LEMMA ElseFinishFile ==
  ASSUME ImportInv, NEW w \in Workers, NEW i \in Imports, On(w, i), FinishFile(w)
  PROVE  Elsewhere(w, i)
BY
   DEF FinishFile, ImportInv, TypeOK, JobTypes, OneRun, Elsewhere, Release, Raise, On, Goto,
       Fail

\* ... and the rows of its import stay accounted for.
LEMMA RowsFinishFile ==
  ASSUME ImportInv, NEW w \in Workers, NEW i \in Imports, On(w, i),
         RunRows(w, i), FinishFile(w)
  PROVE  Kept(w, i)
BY
   DEF FinishFile, ImportInv, TypeOK, JobTypes, RunShape, Kept, RunRows, AloneRows, RowsOf,
       Settled, Accounted, Release, Raise, On, IsBusy, Goto, Fail

\* StatementFails of a worker: the others are left alone ...
LEMMA ElseStatementFails ==
  ASSUME ImportInv, NEW w \in Workers, NEW i \in Imports, On(w, i), StatementFails(w)
  PROVE  Elsewhere(w, i)
BY
   DEF StatementFails, ImportInv, TypeOK, JobTypes, OneRun, Elsewhere, Raise, On, Release, Fail,
       Goto

\* ... and the rows of its import stay accounted for.
LEMMA RowsStatementFails ==
  ASSUME ImportInv, NEW w \in Workers, NEW i \in Imports, On(w, i),
         RunRows(w, i), StatementFails(w)
  PROVE  Kept(w, i)
BY
   DEF StatementFails, ImportInv, TypeOK, JobTypes, RunShape, Kept, RunRows, AloneRows, RowsOf,
       Settled, Accounted, Raise, On, IsBusy, Release, Fail, Goto

\* WorkerDies of a worker: the others are left alone ...
LEMMA ElseWorkerDies ==
  ASSUME ImportInv, NEW w \in Workers, NEW i \in Imports, On(w, i), WorkerDies(w)
  PROVE  Elsewhere(w, i)
BY DEF WorkerDies, ImportInv, OneRun, Elsewhere, Release, On, Goto

\* ... and the rows of its import stay accounted for.
LEMMA RowsWorkerDies ==
  ASSUME ImportInv, NEW w \in Workers, NEW i \in Imports, On(w, i),
         RunRows(w, i), WorkerDies(w)
  PROVE  Kept(w, i)
BY
   DEF WorkerDies, ImportInv, TypeOK, JobTypes, HistoryTypes, Kept, RunRows, AloneRows, Settled,
       Accounted, Owned, Release, On, IsBusy, Goto

\* Rows of an import that ended without success stay accounted for, whoever goes on.
LEMMA RowsStep ==
  ASSUME ImportInv, RowsInv, Next
  PROVE  RowsInv'
<1>1. ASSUME NEW i \in Imports, Upload(i)
      PROVE  RowsInv'
  BY <1>1
     DEF Upload, RowsInv, MayWait, RowsAt, On, Waits, Nobody, IsBusy, Settled, RowsOf,
         Accounted, Busy
<1>2. ASSUME NEW i \in Imports, NEW what \in {"check", "import"}, Start(i, what)
      PROVE  RowsInv'
  BY <1>2
     DEF Start, ImportInv, RowsInv, SweepShape, Admit, RowsAt, On, Waits, Nobody, IsBusy,
         MayWait, Settled, RowsOf, Accounted
<1>3. ASSUME NEW i \in Imports, Discard(i) \/ Replace(i)
      PROVE  RowsInv'
  <2>1. Withdraws(i)
    BY <1>3, WithdrawEffect, Zenon
  <2> QED
    BY <2>1
       DEF Withdraws, ImportInv, TypeOK, RecordTypes, RowsInv, RowsAt, On, Waits, Nobody,
           IsBusy, Settled, RowsOf, Accounted, Busy
<1>4. ASSUME NEW i \in Imports, RollbackDelete(i)
      PROVE  RowsInv'
  BY <1>4
     DEF RollbackDelete, RowsInv, Stray, RowsAt, On, Nobody, IsBusy, Settled, RowsOf, Accounted
<1>5. ASSUME NEW i \in Imports, RollbackEnd(i)
      PROVE  RowsInv'
  BY <1>5
     DEF RollbackEnd, ImportInv, HistoryTypes, RowsInv, TypeOK, JobTypes, RecordTypes,
         DataTypes, RunShape, DropsMark, RowsAt, On, Nobody, IsBusy, Settled, RowsOf, Accounted,
         Busy
<1>6. ASSUME NEW w \in Workers, NEW i \in Imports, Claim(w, i)
      PROVE  RowsInv'
  <2>1. CASE ~Claimable(i)
    <3>1. UNCHANGED <<status, undo, gaveUp, stored, sweep, past, pc, job, kind, at, saved, verdict>>
      BY <1>6, <2>1, Zenon DEF Claim
    <3> QED
      BY <3>1 DEF RowsInv, RowsAt, RowsOf, Nobody, On, Settled, Accounted, IsBusy
  <2>2. CASE Claimable(i)
    <3>1. Claims(w, i)
      BY <1>6, <2>2, ClaimEffect, Zenon
    <3>2. \A x \in Workers : ~On(x, i)
      BY <1>6, <2>2 DEF Claimable, ImportInv, OneRun, Live, HasFile, Busy
    <3>3. Elsewhere(w, i)
      BY <3>1, <3>2
         DEF Claims, Elsewhere, On, ImportInv, TypeOK, RecordTypes, JobTypes, DataTypes
    <3>4. On(w, i)'
      BY <3>1 DEF Claims, On, ImportInv, TypeOK, JobTypes
    <3>5. pc'[w] = "admit" => stored[i] = 0
      BY <1>6, <2>2
         DEF Claim, Goto, Claimable, ImportInv, TypeOK, JobTypes, RecordTypes, RecordShape
    <3>6. sweep[i] = "fail" => past[i] /\ Accounted(i)
      BY <2>2, <3>1
         DEF Claims, Claimable, RowsInv, RowsAt, IsBusy, Busy, ImportInv, SweepShape, Waiting,
             NoJob
    <3>7. /\ pc'[w] \in {"undo", "admit"} /\ verdict'[w] = "none" /\ status'[i] \in Busy
          /\ UNCHANGED <<sweep, past, stored, undo, gaveUp>>
      BY <2>2, <3>1
         DEF Claims, Claimable, Busy, ImportInv, TypeOK, JobTypes, RecordTypes, RunShape
    <3>8. RunRows(w, i)'
      BY <3>5, <3>6, <3>7 DEF RunRows, RowsOf, Accounted, Settled, Busy
    <3> QED
      BY <3>3, <3>4, <3>8, RowsAfter, Zenon DEF Kept
  <2> QED
    BY <2>1, <2>2
<1>7. ASSUME NEW w \in Workers, Undo(w)
      PROVE  RowsInv'
  <2>1. PICK i \in Imports : On(w, i)
    BY <1>7 DEF Undo, On, ImportInv, RunShape, TypeOK, JobTypes
  <2>2. RunRows(w, i)
    BY <2>1, RowsOfARun
  <2> QED
    BY <1>7, <2>1, <2>2, ElseUndo, RowsUndo, RowsAfter, Zenon
<1>8. ASSUME NEW w \in Workers, MarkUndo(w)
      PROVE  RowsInv'
  <2>1. PICK i \in Imports : On(w, i)
    BY <1>8 DEF MarkUndo, On, ImportInv, RunShape, TypeOK, JobTypes
  <2>2. RunRows(w, i)
    BY <2>1, RowsOfARun
  <2> QED
    BY <1>8, <2>1, <2>2, ElseMarkUndo, RowsMarkUndo, RowsAfter, Zenon
<1>9. ASSUME NEW w \in Workers, Proceed(w)
      PROVE  RowsInv'
  <2>1. PICK i \in Imports : On(w, i)
    BY <1>9 DEF Proceed, On, ImportInv, RunShape, TypeOK, JobTypes
  <2>2. RunRows(w, i)
    BY <2>1, RowsOfARun
  <2> QED
    BY <1>9, <2>1, <2>2, ElseProceed, RowsProceed, RowsAfter, Zenon
<1>10. ASSUME NEW w \in Workers, Read(w)
      PROVE  RowsInv'
  <2>1. PICK i \in Imports : On(w, i)
    BY <1>10 DEF Read, On, ImportInv, RunShape, TypeOK, JobTypes
  <2>2. RunRows(w, i)
    BY <2>1, RowsOfARun
  <2> QED
    BY <1>10, <2>1, <2>2, ElseRead, RowsRead, RowsAfter, Zenon
<1>11. ASSUME NEW w \in Workers, Budget(w)
      PROVE  RowsInv'
  <2>1. PICK i \in Imports : On(w, i)
    BY <1>11 DEF Budget, On, ImportInv, RunShape, TypeOK, JobTypes
  <2>2. RunRows(w, i)
    BY <2>1, RowsOfARun
  <2> QED
    BY <1>11, <2>1, <2>2, ElseBudget, RowsBudget, RowsAfter, Zenon
<1>12. ASSUME NEW w \in Workers, Beat(w)
      PROVE  RowsInv'
  <2>1. PICK i \in Imports : On(w, i)
    BY <1>12 DEF Beat, On, ImportInv, RunShape, TypeOK, JobTypes
  <2>2. RunRows(w, i)
    BY <2>1, RowsOfARun
  <2> QED
    BY <1>12, <2>1, <2>2, ElseBeat, RowsBeat, RowsAfter, Zenon
<1>13. ASSUME NEW w \in Workers, Save(w) \/ Skip(w)
      PROVE  RowsInv'
  <2>1. PICK i \in Imports : On(w, i)
    BY <1>13 DEF Save, Skip, On, ImportInv, RunShape, TypeOK, JobTypes
  <2>2. RunRows(w, i)
    BY <2>1, RowsOfARun
  <2> QED
    BY <1>13, <2>1, <2>2, ElseSave, RowsSave, RowsAfter, Zenon
<1>14. ASSUME NEW w \in Workers, Count(w)
      PROVE  RowsInv'
  <2>1. PICK i \in Imports : On(w, i)
    BY <1>14 DEF Count, On, ImportInv, RunShape, TypeOK, JobTypes
  <2>2. RunRows(w, i)
    BY <2>1, RowsOfARun
  <2> QED
    BY <1>14, <2>1, <2>2, ElseCount, RowsCount, RowsAfter, Zenon
<1>15. ASSUME NEW w \in Workers, End(w)
      PROVE  RowsInv'
  <2>1. PICK i \in Imports : On(w, i)
    BY <1>15 DEF End, On, ImportInv, RunShape, TypeOK, JobTypes
  <2>2. RunRows(w, i)
    BY <2>1, RowsOfARun
  <2> QED
    BY <1>15, <2>1, <2>2, ElseEnd, RowsEnd, RowsAfter, Zenon
<1>16. ASSUME NEW w \in Workers, FinishFile(w)
      PROVE  RowsInv'
  <2>1. PICK i \in Imports : On(w, i)
    BY <1>16 DEF FinishFile, On, ImportInv, RunShape, TypeOK, JobTypes
  <2>2. RunRows(w, i)
    BY <2>1, RowsOfARun
  <2> QED
    BY <1>16, <2>1, <2>2, ElseFinishFile, RowsFinishFile, RowsAfter, Zenon
<1>17. ASSUME NEW w \in Workers, StatementFails(w)
      PROVE  RowsInv'
  <2>1. PICK i \in Imports : On(w, i)
    BY <1>17 DEF StatementFails, On, ImportInv, RunShape, TypeOK, JobTypes
  <2>2. RunRows(w, i)
    BY <2>1, RowsOfARun
  <2> QED
    BY <1>17, <2>1, <2>2, ElseStatementFails, RowsStatementFails, RowsAfter, Zenon
<1>18. ASSUME NEW w \in Workers, WorkerDies(w)
      PROVE  RowsInv'
  <2>1. PICK i \in Imports : On(w, i)
    BY <1>18 DEF WorkerDies, On, ImportInv, RunShape, TypeOK, JobTypes
  <2>2. RunRows(w, i)
    BY <2>1, RowsOfARun
  <2> QED
    BY <1>18, <2>1, <2>2, ElseWorkerDies, RowsWorkerDies, RowsAfter, Zenon
<1>19. ASSUME NEW i \in Imports, SweepLists(i)
      PROVE  RowsInv'
  BY <1>19
     DEF SweepLists, ImportInv, RowsInv, TypeOK, DataTypes, OneRun, RecordShape, SweepShape,
         IsBusy, MayHaveStored, RowsAt, On, HasFile, Live, Nobody, Settled, RowsOf, Accounted
<1>20. ASSUME NEW i \in Imports, SweepQueues(i)
      PROVE  RowsInv'
  BY <1>20 DEF SweepQueues, RowsInv, RowsAt, On, Nobody, IsBusy, Settled, RowsOf, Accounted
<1>21. ASSUME NEW i \in Imports, SweepFails(i)
      PROVE  RowsInv'
  BY <1>21
     DEF SweepFails, ImportInv, RowsInv, TypeOK, RecordTypes, DataTypes, RunShape, SweepShape,
         MayExpire, RowsAt, On, Nobody, IsBusy, Settled, RowsOf, Accounted, Busy
<1>22. ASSUME NEW i \in Imports, SweepUndoes(i)
      PROVE  RowsInv'
  BY <1>22
     DEF SweepUndoes, ImportInv, RowsInv, TypeOK, JobTypes, DataTypes, RunShape, RowsAt, On,
         Nobody, IsBusy, Settled, RowsOf, Accounted
<1>23. ASSUME NEW i \in Imports, SweepMarks(i)
      PROVE  RowsInv'
  BY <1>23
     DEF SweepMarks, ImportInv, HistoryTypes, RowsInv, TypeOK, RecordTypes, Marked, RowsAt, On,
         Nobody, IsBusy, Settled, RowsOf, Accounted
<1>24. ASSUME NEW i \in Imports, SweepFinishesFile(i)
      PROVE  RowsInv'
  BY <1>24
     DEF SweepFinishesFile, RowsInv, RowsAt, On, Nobody, IsBusy, Settled, RowsOf, Accounted
<1>25. ASSUME NEW i \in Imports, RetryDeletes(i)
      PROVE  RowsInv'
  BY <1>25
     DEF RetryDeletes, RowsInv, Stray, RowsAt, On, Nobody, IsBusy, Settled, RowsOf, Accounted
<1>26. ASSUME NEW i \in Imports, RetryClears(i)
      PROVE  RowsInv'
  BY <1>26
     DEF RetryClears, ImportInv, HistoryTypes, RowsInv, TypeOK, JobTypes, RecordTypes,
         DataTypes, RunShape, SweepShape, DropsMark, RowsAt, On, Nobody, IsBusy, Stray, Settled,
         RowsOf, Accounted
<1>27. ASSUME NEW i \in Imports, Expire(i)
      PROVE  RowsInv'
  BY <1>27
     DEF Expire, RowsInv, MayWait, EndWaiting, RowsAt, On, Waits, Nobody, IsBusy, Settled,
         RowsOf, Accounted, Busy
<1>28. ASSUME NEW i \in Imports, SweepDies(i)
      PROVE  RowsInv'
  BY <1>28
     DEF SweepDies, ImportInv, HistoryTypes, RowsInv, TypeOK, RowsAt, On, Nobody, IsBusy,
         Settled, RowsOf, Accounted
<1>29. ASSUME NEW i \in Imports, HourEnds(i)
      PROVE  RowsInv'
  BY <1>29 DEF HourEnds, RowsInv, RowsAt, On, Nobody, IsBusy, Settled, RowsOf, Accounted
<1>30. ASSUME NEW i \in Imports, ForgetActor(i)
      PROVE  RowsInv'
  BY <1>30
     DEF ForgetActor, RowsInv, RowsAt, On, Nobody, IsBusy, Settled, RowsOf, Accounted, Busy
<1>31. ASSUME NEW i \in Imports, EraseOne(i)
      PROVE  RowsInv'
  BY <1>31
     DEF EraseOne, ImportInv, RowsInv, TypeOK, JobTypes, DataTypes, RowsAt, On, Nobody,
         IsBusy, Settled, RowsOf, Accounted
<1>32. ASSUME DeleteForm
      PROVE  RowsInv'
  BY <1>32
     DEF DeleteForm, ImportInv, RowsInv, TypeOK, JobTypes, RunShape, RowsAt, On, Nobody, IsBusy,
         Settled, RowsOf, Accounted
<1>33. ASSUME
        \/ \E i \in Imports : PurgeFile(i) \/ FallsSilent(i) \/ LoseRole(i)
        \/ Switch
      PROVE  RowsInv'
  <2>1. UNCHANGED <<status, undo, stored, past, pc, job, kind, at, saved, verdict, sweep, gaveUp>>
    BY <1>33, ZenonT(60) DEF PurgeFile, FallsSilent, LoseRole, Switch
  <2>2. QED
    BY <2>1 DEF RowsInv, RowsAt, On, Nobody, IsBusy, Settled, RowsOf, Accounted
<1>34. ASSUME NEW i \in Imports, SaveFile(i)
      PROVE  RowsInv'
  <2>1. Delivers(i)
    BY <1>34, SaveFileEffect, Zenon DEF ImportInv
  <2> QED
    BY <2>1
       DEF Delivers, ImportInv, TypeOK, RecordTypes, RowsInv, RowsAt, On, Nobody, IsBusy,
           Settled, RowsOf, Accounted
<1> QED
  BY <1>1, <1>2, <1>3, <1>4, <1>5, <1>6, <1>7, <1>8, <1>9, <1>10, <1>11, <1>12, <1>13,
       <1>14, <1>15, <1>16, <1>17, <1>18, <1>19, <1>20, <1>21, <1>22, <1>23, <1>24, <1>25,
       <1>26, <1>27, <1>28, <1>29, <1>30, <1>31, <1>32, <1>33, <1>34
       DEF Next, Request, Sweep, Step

\* All or nothing: a failed or cancelled import has no response left that nobody is
\* to delete, whatever the sweep, a late worker and the retries do in which order
\* (_undo, _fail, _expire_job, retry_pending_undos), but for what the code gives up
\* itself: gaveUp names the step that did.
THEOREM FailureLeavesNothing == Spec => []FailedLeavesNothing
<1>1. Init => RowsInv
  BY DEF Init, RowsInv, RowsAt, On, IsBusy, Busy
<1>2. ImportInv /\ RowsInv /\ [Next]_vars => RowsInv'
  <2>1. CASE Next
    BY <2>1, RowsStep, Zenon
  <2>2. CASE UNCHANGED vars
    BY <2>2 DEF vars, RowsInv, RowsAt, RowsOf, Nobody, On, Settled, Accounted, IsBusy
  <2> QED
    BY <2>1, <2>2
<1>3. RowsInv => FailedLeavesNothing
  BY DEF RowsInv, RowsAt, FailedLeavesNothing, InHand, Nobody, On, Settled, Accounted
<1> QED
  BY <1>1, <1>2, <1>3, ImportInduction, PTL DEF Spec

-----------------------------------------------------------------------------
(* The promise of an import.                                               *)

\* No step takes a run's import out of its hands but its own end.
LEMMA WorkingStep ==
  ASSUME ImportInv, Next, NEW x \in Imports, status[x] \in Working
  PROVE  \/ status'[x] \in Working
         \/ \E w \in Workers : On(w, x) /\ pc'[w] \in {"idle", "file"}
<1> USE DEF Working
<1>1. ASSUME NEW i \in Imports, Upload(i) PROVE status'[x] \in Working
  BY <1>1 DEF Upload, MayWait, Waits
<1>2. ASSUME NEW i \in Imports, NEW what \in {"check", "import"}, Start(i, what)
      PROVE  status'[x] \in Working
  BY <1>2, Zenon DEF Start, Admit, MayWait, Waits, ImportInv, TypeOK, RecordTypes
<1>3. ASSUME NEW i \in Imports, Discard(i) \/ Replace(i) \/ Expire(i)
      PROVE  status'[x] \in Working
  <2>1. Withdraws(i)
    BY <1>3, WithdrawEffect, Zenon
  <2> QED
    BY <2>1 DEF Withdraws, Waits, ImportInv, TypeOK, RecordTypes
<1>4. ASSUME NEW i \in Imports, RollbackEnd(i) PROVE status'[x] \in Working
  BY <1>4 DEF RollbackEnd, ImportInv, TypeOK, RecordTypes
<1>5. ASSUME NEW w \in Workers, NEW i \in Imports, Claim(w, i) PROVE status'[x] \in Working
  BY <1>5 DEF Claim, ImportInv, TypeOK, RecordTypes
<1>6. ASSUME NEW w \in Workers, End(w)
      PROVE  status'[x] \in Working \/ (On(w, x) /\ pc'[w] \in {"idle", "file"})
  BY <1>6 DEF End, Release, Goto, On, ImportInv, TypeOK, RecordTypes, JobTypes
<1>7. ASSUME NEW i \in Imports, SweepFails(i) PROVE status'[x] \in Working
  BY <1>7 DEF SweepFails, ImportInv, TypeOK, RecordTypes
<1>8. ASSUME NEW i \in Imports, ForgetActor(i) PROVE status'[x] \in Working
  BY <1>8 DEF ForgetActor, MayWait, Waits, ImportInv, TypeOK, RecordTypes
<1>9. ASSUME DeleteForm PROVE status'[x] \in Working
  BY <1>9 DEF DeleteForm
<1>10. ASSUME
        \/ \E w \in Workers : Undo(w) \/ MarkUndo(w) \/ Proceed(w) \/ Read(w) \/
             Budget(w) \/ Beat(w) \/ Save(w) \/ Skip(w) \/ Count(w) \/ FinishFile(w) \/
             StatementFails(w) \/ WorkerDies(w)
        \/ \E i \in Imports : RollbackDelete(i) \/ SweepLists(i) \/ SweepQueues(i) \/
             SweepUndoes(i) \/ SweepMarks(i) \/ SweepFinishesFile(i) \/ RetryDeletes(i)
             \/ RetryClears(i) \/ PurgeFile(i) \/ SweepDies(i) \/ HourEnds(i) \/
             FallsSilent(i) \/ LoseRole(i) \/ EraseOne(i)
        \/ Switch
      PROVE  status'[x] \in Working
  <2>1. UNCHANGED <<status>>
    BY <1>10, ZenonT(60) DEF RollbackDelete, Undo, MarkUndo, Proceed, Read, Budget, Beat,
         Save, Skip, Count, FinishFile, StatementFails, WorkerDies, SweepLists, SweepQueues,
         SweepUndoes, SweepMarks, SweepFinishesFile, RetryDeletes, RetryClears, PurgeFile,
         SweepDies, HourEnds, FallsSilent, LoseRole, EraseOne, Switch
  <2>2. QED
    BY <2>1
<1>11. ASSUME NEW i \in Imports, SaveFile(i)
      PROVE  status'[x] \in Working
  <2>1. Delivers(i)
    BY <1>11, SaveFileEffect, Zenon DEF ImportInv
  <2> QED
    BY <2>1 DEF Delivers, ImportInv, TypeOK, RecordTypes
<1> QED
  BY <1>1, <1>2, <1>3, <1>4, <1>5, <1>6, <1>7, <1>8, <1>9, <1>10, <1>11
       DEF Next, Request, Sweep, Step

\* Nothing happens to the other runs.
OthersKeep(w) ==
  \A v \in Workers \ {w} :
    pc'[v] = pc[v] /\ job'[v] = job[v]

\* A run of an import goes on with it.
GoesOn(w) ==
  \/ pc'[w] = "idle"
  \/ job'[w] = job[w] /\ pc[w] \notin {"idle", "file"} /\ pc'[w] \in Pcs \ {"idle", "file"}

\* The moves of a run.
LEMMA MovesOn ==
  ASSUME ImportInv, NEW w \in Workers, pc[w] # "idle"
  PROVE  /\ Release(w) => OthersKeep(w) /\ GoesOn(w)
         /\ Fail(w) /\ pc[w] # "file" => OthersKeep(w) /\ GoesOn(w)
         /\ Raise(w) /\ pc[w] # "file" => OthersKeep(w) /\ GoesOn(w)
         /\ \A how \in Verdicts :
              /\ UndoAndEnd(w, how) /\ pc[w] # "file" => OthersKeep(w) /\ GoesOn(w)
              /\ EndAs(w, how) /\ pc[w] # "file" => OthersKeep(w) /\ GoesOn(w)
         /\ \A l \in Pcs \ {"idle", "file"} :
              Goto(w, l) /\ pc[w] # "file" /\ UNCHANGED job
                => OthersKeep(w) /\ GoesOn(w)
<1> USE DEF OthersKeep, GoesOn, Goto, Pcs, ImportInv, TypeOK, JobTypes
<1>1. Release(w) => OthersKeep(w) /\ GoesOn(w)
  BY DEF Release
<1>2. Fail(w) /\ pc[w] # "file" => OthersKeep(w) /\ GoesOn(w)
  BY DEF Fail
<1>3. Raise(w) /\ pc[w] # "file" => OthersKeep(w) /\ GoesOn(w)
  BY <1>1, <1>2, Zenon DEF Raise
<1>4. ASSUME NEW how \in Verdicts, UndoAndEnd(w, how), pc[w] # "file"
      PROVE  OthersKeep(w) /\ GoesOn(w)
  BY <1>4 DEF UndoAndEnd
<1>5. ASSUME NEW how \in Verdicts, EndAs(w, how), pc[w] # "file"
      PROVE  OthersKeep(w) /\ GoesOn(w)
  BY <1>5 DEF EndAs
<1>6. ASSUME NEW l \in Pcs \ {"idle", "file"}, Goto(w, l), pc[w] # "file",
             UNCHANGED job
      PROVE  OthersKeep(w) /\ GoesOn(w)
  BY <1>6
<1> QED
  BY <1>1, <1>2, <1>3, <1>4, <1>5, <1>6

\* A run that does not end its import goes on with it.
LEMMA RunGoesOn ==
  ASSUME ImportInv, spent'["file"] = 0, NEW w \in Workers,
         \/ Undo(w) \/ MarkUndo(w) \/ Proceed(w) \/ Read(w) \/ Budget(w) \/ Beat(w)
         \/ Save(w) \/ Skip(w) \/ Count(w) \/ FinishFile(w) \/ StatementFails(w)
         \/ WorkerDies(w)
  PROVE  OthersKeep(w) /\ GoesOn(w)
<1> USE DEF Pcs, Verdicts
<1>0. RunShape(w)
  BY DEF ImportInv
<1>after. ASSUME AfterUndo(w), pc[w] \in {"undo", "mark"}
          PROVE  OthersKeep(w) /\ GoesOn(w)
  <2>1. Fail(w) \/ \E l \in {"admit", "end"} : Goto(w, l) /\ UNCHANGED job
    BY <1>after DEF AfterUndo
  <2> QED
    BY <1>after, <2>1, MovesOn
<1>1. ASSUME Undo(w) PROVE OthersKeep(w) /\ GoesOn(w)
  <2>1. CASE AfterUndo(w)
    BY <1>1, <1>after, <2>1 DEF Undo
  <2>2. CASE Goto(w, "mark") /\ UNCHANGED job
    BY <1>1, <2>2, MovesOn DEF Undo
  <2> QED
    BY <1>1, <2>1, <2>2, Zenon DEF Undo
<1>2. ASSUME MarkUndo(w) PROVE OthersKeep(w) /\ GoesOn(w)
  BY <1>2, <1>after, Zenon DEF MarkUndo
<1>3. ASSUME Proceed(w) PROVE OthersKeep(w) /\ GoesOn(w)
  <2>1. \/ EndAs(w, "cancelled") \/ EndAs(w, "failed")
        \/ Goto(w, "read") /\ UNCHANGED job
    BY <1>3, Zenon DEF Proceed
  <2> QED
    BY <1>3, <2>1, MovesOn DEF Proceed
<1>4. ASSUME Read(w) PROVE OthersKeep(w) /\ GoesOn(w)
  <2>1. \/ Release(w) \/ Fail(w) \/ EndAs(w, "checked") \/ EndAs(w, "failed")
        \/ Goto(w, "budget") /\ UNCHANGED job
    BY <1>4, Zenon DEF Read
  <2> QED
    BY <1>4, <2>1, MovesOn DEF Read
<1>5. ASSUME Budget(w) PROVE OthersKeep(w) /\ GoesOn(w)
  <2>1. UNCHANGED job
    BY <1>5, Zenon DEF Budget, Fail
  <2>2. Fail(w) \/ Goto(w, "beat")
    BY <1>5, Zenon DEF Budget
  <2> QED
    BY <1>5, <2>1, <2>2, MovesOn DEF Budget
<1>6. ASSUME Beat(w) PROVE OthersKeep(w) /\ GoesOn(w)
  <2>1. \/ Release(w) \/ UndoAndEnd(w, "stopped")
        \/ Goto(w, "save") /\ UNCHANGED job
    BY <1>6, Zenon DEF Beat
  <2> QED
    BY <1>6, <2>1, MovesOn DEF Beat
<1>7. ASSUME Save(w) \/ Skip(w) PROVE OthersKeep(w) /\ GoesOn(w)
  <2>1. AfterRow(at[w] + 1) \in {"count", "budget", "save"}
    BY DEF AfterRow
  <2>2. UndoAndEnd(w, "failed") \/ (Goto(w, AfterRow(at[w] + 1)) /\ UNCHANGED job)
    BY <1>7, Zenon DEF Save, Skip, claimed
  <2>3. pc[w] = "save"
    BY <1>7, Zenon DEF Save, Skip
  <2> QED
    BY <2>1, <2>2, <2>3, MovesOn
<1>8. ASSUME Count(w) PROVE OthersKeep(w) /\ GoesOn(w)
  <2>1. EndAs(w, "completed") \/ UndoAndEnd(w, "failed")
    BY <1>8, Zenon DEF Count
  <2> QED
    BY <1>8, <2>1, MovesOn DEF Count
<1>9. ASSUME FinishFile(w) PROVE OthersKeep(w) /\ GoesOn(w)
  <2>1. ~Trouble("file")
    BY DEF Trouble, TroubleKinds, ImportInv, TypeOK, WorldTypes
  <2>2. Release(w)
    BY <1>9, <2>1, Zenon DEF FinishFile
  <2> QED
    BY <1>9, <2>2, MovesOn DEF FinishFile
<1>10. ASSUME StatementFails(w) \/ WorkerDies(w) PROVE OthersKeep(w) /\ GoesOn(w)
  <2>1. CASE StatementFails(w)
    <3>1. pc[w] \notin {"idle", "file"} /\ Raise(w)
      BY <2>1, Zenon DEF StatementFails
    <3> QED
      BY <3>1, MovesOn
  <2>2. CASE WorkerDies(w)
    BY <2>2, MovesOn, Zenon DEF WorkerDies
  <2> QED
    BY <1>10, <2>1, <2>2
<1> QED
  BY <1>1, <1>2, <1>3, <1>4, <1>5, <1>6, <1>7, <1>8, <1>9, <1>10

\* The part of the invariant about runs is kept.
LEMMA RunOfOneStep ==
  ASSUME ImportInv, PromiseInv, spent'["file"] = 0, Next
  PROVE  \A v \in Workers, x \in Imports : RunOfOne(v, x)'
<1> SUFFICES ASSUME NEW v \in Workers, NEW x \in Imports, On(v, x)'
             PROVE  RunOfOne(v, x)'
  BY DEF RunOfOne
<1>0. RunOfOne(v, x)
  BY DEF PromiseInv
<1> DEFINE StillOn == On(v, x) /\ (pc'[v] # "file" => pc[v] # "file")
\* A run that goes on keeps the part, when its import stays in its hands.
<1>keep. ASSUME StillOn PROVE RunOfOne(v, x)'
  <2>1. CASE status'[x] \in Working
    BY <1>0, <1>keep, <2>1 DEF RunOfOne
  <2>2. CASE \E w \in Workers : On(w, x) /\ pc'[w] \in {"idle", "file"}
    BY <1>keep, <2>2 DEF ImportInv, OneRun, On, RunOfOne
  <2> QED
    BY <1>0, <1>keep, <2>1, <2>2, WorkingStep DEF RunOfOne
<1>same. ASSUME UNCHANGED <<pc, job>> PROVE RunOfOne(v, x)'
  BY <1>0, <1>keep, <1>same DEF RunOfOne, On
<1>1. ASSUME NEW w \in Workers,
             \/ Undo(w) \/ MarkUndo(w) \/ Proceed(w) \/ Read(w) \/ Budget(w) \/ Beat(w)
             \/ Save(w) \/ Skip(w) \/ Count(w) \/ FinishFile(w) \/ StatementFails(w)
             \/ WorkerDies(w)
      PROVE  RunOfOne(v, x)'
  <2>1. OthersKeep(w) /\ GoesOn(w)
    BY <1>1, RunGoesOn
  <2>2. StillOn
    BY <1>0, <2>1 DEF OthersKeep, GoesOn, On, RunOfOne
  <2> QED
    BY <1>keep, <2>2
<1>2. ASSUME NEW w \in Workers, NEW i \in Imports, Claim(w, i) PROVE RunOfOne(v, x)'
  <2>1. CASE pc'[v] \in {"undo", "admit"} /\ pc[v] = "idle"
    <3>1. v = w /\ x = i /\ Claimable(i)
      BY <1>2, <2>1 DEF Claim, Goto, On, ImportInv, TypeOK, JobTypes
    <3>2. status'[i] \in Working
      BY <1>2, <3>1 DEF Claim, Claimable, Working, ImportInv, TypeOK, RecordTypes
    <3> QED
      BY <2>1, <3>1, <3>2 DEF RunOfOne
  <2>2. CASE pc'[v] = pc[v] /\ job'[v] = job[v]
    BY <1>0, <1>2, <1>keep, <2>2 DEF Claim, On, RunOfOne
  <2> QED
    BY <1>2, <2>1, <2>2 DEF Claim, Goto, ImportInv, TypeOK, JobTypes
<1>3. ASSUME NEW w \in Workers, End(w) PROVE RunOfOne(v, x)'
  <2>1. CASE v = w
    BY <1>3, <2>1 DEF End, Release, Goto, On, RunOfOne, ImportInv, TypeOK, JobTypes
  <2>2. CASE v # w
    <3>1. pc'[v] = pc[v] /\ job'[v] = job[v]
      BY <1>3, <2>2 DEF End, Release, Goto, ImportInv, TypeOK, JobTypes
    <3> QED
      BY <1>0, <1>keep, <3>1 DEF On, RunOfOne
  <2> QED
    BY <2>1, <2>2
<1>4. ASSUME
        \/ \E i \in Imports :
             \/ Request(i) \/ Sweep(i) \/ Expire(i) \/ PurgeFile(i) \/ SweepDies(i)
             \/ HourEnds(i) \/ FallsSilent(i) \/ LoseRole(i) \/ ForgetActor(i) \/ EraseOne(i)
        \/ Switch \/ DeleteForm
      PROVE  RunOfOne(v, x)'
  <2>1. UNCHANGED <<pc, job>>
    BY <1>4, ZenonT(60)
       DEF Request, Upload, SaveFile, Discard, Replace, RollbackDelete, RollbackEnd, Start,
           Sweep, SweepLists, SweepQueues, SweepFails, SweepUndoes, SweepMarks,
           SweepFinishesFile, RetryDeletes, RetryClears, Expire, PurgeFile, SweepDies,
           HourEnds, FallsSilent, LoseRole, ForgetActor, EraseOne, Switch, DeleteForm
  <2> QED
    BY <1>same, <2>1
<1> QED
  BY <1>1, <1>2, <1>3, <1>4 DEF Next, Step

\* So is the part about undos: nobody stores for an import that is over.
LEMMA UndoneStep ==
  ASSUME ImportInv, PromiseInv, Next
  PROVE  \A x \in Imports : UndoneIsEmpty(x)'
<1> SUFFICES ASSUME NEW x \in Imports PROVE UndoneIsEmpty(x)'
  OBVIOUS
<1> USE DEF UndoneIsEmpty
<1>0. /\ UndoneIsEmpty(x) /\ \A w \in Workers : RunOfOne(w, x)
      /\ status \in [Imports -> Statuses] /\ stored \in [Imports -> Nat]
      /\ rollback \in [Imports -> {"none", "deleted", "interrupted"}]
  BY DEF PromiseInv, ImportInv, TypeOK, RecordTypes, DataTypes
<1> USE DEF HasFile, Waits, Busy
\* Enough for a step that leaves the undo alone.
<1>less. ASSUME rollback'[x] = rollback[x], stored'[x] = stored[x] \/ stored'[x] = 0,
                \/ status'[x] = status[x]
                \/ /\ status'[x] \notin {"completed", "rolled_back"}
                   /\ status'[x] \in {"none"} \cup HasFile => status[x] \in {"none"} \cup HasFile
         PROVE  UndoneIsEmpty(x)'
  BY <1>0, <1>less
<1>1. ASSUME NEW i \in Imports, RollbackDelete(i) PROVE UndoneIsEmpty(x)'
  BY <1>0, <1>1 DEF RollbackDelete, Stray
<1>2. ASSUME NEW i \in Imports, RollbackEnd(i) PROVE UndoneIsEmpty(x)'
  BY <1>0, <1>2 DEF RollbackEnd
<1>3. ASSUME NEW w \in Workers, Save(w) \/ Skip(w) PROVE UndoneIsEmpty(x)'
  <2>1. UNCHANGED <<status, rollback>> /\ pc[w] = "save"
    BY <1>3, Zenon DEF Save, Skip
  <2>2. stored' = stored \/ stored' = [stored EXCEPT ![job[w]] = @ + 1]
    BY <1>3 DEF Save, Skip
  <2>3. job[w] = x => status[x] \in Working
    BY <1>0, <2>1 DEF RunOfOne, On
  <2> QED
    BY <1>0, <2>1, <2>2, <2>3 DEF Working
<1>4. ASSUME NEW w \in Workers, End(w) PROVE UndoneIsEmpty(x)'
  <2>1. UNCHANGED <<stored, rollback>> /\ pc[w] = "end"
    BY <1>4 DEF End
  <2>2. CASE UNCHANGED status
    BY <1>less, <2>1, <2>2
  <2>3. CASE status' = [status EXCEPT ![job[w]] = verdict[w]] /\ ~Lost(w)
    <3>1. CASE job[w] = x
      <4>1. status[x] \in HasFile
        BY <2>3, <3>1 DEF Lost, Owned
      <4>2. verdict[w] \in {"checked", "failed", "cancelled", "completed"}
        BY <2>1 DEF ImportInv, RunShape
      <4> QED
        BY <1>0, <2>1, <2>3, <3>1, <4>1, <4>2
    <3>2. CASE job[w] # x
      BY <1>0, <1>less, <2>1, <2>3, <3>2
    <3> QED
      BY <3>1, <3>2
  <2> QED
    BY <1>4, <2>2, <2>3 DEF End
<1>5. ASSUME NEW i \in Imports, EraseOne(i) PROVE UndoneIsEmpty(x)'
  BY <1>0, <1>5 DEF EraseOne
<1>6. ASSUME NEW i \in Imports, Upload(i) PROVE UndoneIsEmpty(x)'
  BY <1>0, <1>less, <1>6 DEF Upload, MayWait
<1>7. ASSUME NEW i \in Imports, NEW what \in {"check", "import"}, Start(i, what)
      PROVE  UndoneIsEmpty(x)'
  <2>1. Starts(i, what)
    BY <1>7, StartEffect, Zenon
  <2> QED
    BY <1>0, <1>less, <1>7, <2>1 DEF Starts, Start
<1>8. ASSUME NEW i \in Imports, Discard(i) \/ Replace(i) \/ Expire(i)
      PROVE  UndoneIsEmpty(x)'
  <2>1. Withdraws(i)
    BY <1>8, WithdrawEffect, Zenon
  <2> QED
    BY <1>0, <1>less, <2>1 DEF Withdraws
<1>9. ASSUME NEW i \in Imports, SweepFails(i) PROVE UndoneIsEmpty(x)'
  BY <1>0, <1>less, <1>9 DEF SweepFails
<1>10. ASSUME NEW i \in Imports, ForgetActor(i) PROVE UndoneIsEmpty(x)'
  BY <1>0, <1>less, <1>10 DEF ForgetActor
<1>11. ASSUME NEW w \in Workers, NEW i \in Imports, Claim(w, i) PROVE UndoneIsEmpty(x)'
  BY <1>0, <1>less, <1>11 DEF Claim
<1>12. ASSUME DeleteForm PROVE UndoneIsEmpty(x)'
  BY <1>0, <1>less, <1>12 DEF DeleteForm
<1>13. ASSUME
        \/ \E w \in Workers : Undo(w) \/ MarkUndo(w) \/ Proceed(w) \/ Read(w) \/ Budget(w) \/
             Beat(w) \/ Count(w) \/ FinishFile(w) \/ StatementFails(w) \/ WorkerDies(w)
        \/ \E i \in Imports : SweepLists(i) \/ SweepQueues(i) \/ SweepUndoes(i) \/
             SweepMarks(i) \/ SweepFinishesFile(i) \/ RetryDeletes(i) \/ RetryClears(i) \/
             PurgeFile(i) \/ SweepDies(i) \/ HourEnds(i) \/ FallsSilent(i) \/ LoseRole(i)
        \/ Switch
      PROVE  UndoneIsEmpty(x)'
  <2>1. UNCHANGED <<status, rollback>>
    BY <1>13, ZenonT(60)
       DEF Undo, MarkUndo, Proceed, Read, Budget, Beat, Count, FinishFile, StatementFails,
           WorkerDies, SweepLists, SweepQueues, SweepUndoes, SweepMarks, SweepFinishesFile,
           RetryDeletes, RetryClears, PurgeFile, SweepDies, HourEnds, FallsSilent, LoseRole,
           Switch
  <2>2. stored'[x] = stored[x] \/ stored'[x] = 0
    <3>1. ASSUME NEW w \in Workers, Undo(w) PROVE stored'[x] = stored[x] \/ stored'[x] = 0
      <4>1. stored' = stored \/ stored' = [stored EXCEPT ![job[w]] = 0]
        BY <3>1 DEF Undo
      <4> QED
        BY <1>0, <4>1
    <3>2. ASSUME NEW i \in Imports, SweepUndoes(i) \/ RetryDeletes(i)
          PROVE  stored'[x] = stored[x] \/ stored'[x] = 0
      <4>1. stored' = stored \/ stored' = [stored EXCEPT ![i] = 0]
        BY <3>2 DEF SweepUndoes, RetryDeletes
      <4> QED
        BY <1>0, <4>1
    <3>3. \/ \E w \in Workers : Undo(w)
          \/ \E i \in Imports : SweepUndoes(i) \/ RetryDeletes(i)
          \/ UNCHANGED stored
      BY <1>13, ZenonT(60)
         DEF MarkUndo, Proceed, Read, Budget, Beat, Count, FinishFile, StatementFails,
             WorkerDies, SweepLists, SweepQueues, SweepMarks, SweepFinishesFile, RetryClears,
             PurgeFile, SweepDies, HourEnds, FallsSilent, LoseRole, Switch
    <3> QED
      BY <3>1, <3>2, <3>3
  <2> QED
    BY <1>0, <1>less, <2>1, <2>2
<1>14. ASSUME NEW i \in Imports, SaveFile(i)
      PROVE  UndoneIsEmpty(x)'
  <2>1. Delivers(i)
    BY <1>14, SaveFileEffect, Zenon DEF ImportInv
  <2> QED
    BY <1>0, <1>less, <2>1 DEF Delivers
<1> QED
  BY <1>1, <1>2, <1>3, <1>4, <1>5, <1>6, <1>7, <1>8, <1>9, <1>10, <1>11, <1>12, <1>13, <1>14
       DEF Next, Request, Sweep, Step

LEMMA PromiseInvStep ==
  ASSUME ImportInv, PromiseInv, spent'["file"] = 0, [Next]_vars
  PROVE  PromiseInv'
<1>1. CASE Next
  BY <1>1, RunOfOneStep, UndoneStep DEF PromiseInv
<1>2. CASE UNCHANGED vars
  BY <1>2 DEF vars, PromiseInv, RunOfOne, UndoneIsEmpty, On
<1> QED
  BY <1>1, <1>2

-----------------------------------------------------------------------------
(* Every step is one of the promise, or none.                              *)

Emptied == form \in {"emptied", "deleted"}

\* What is shown of an import, now and after a step.
LEMMA ShownPhase ==
  ASSUME NEW i \in Imports
  PROVE  /\ status[i] = "none" /\ Emptied => Phase(i) = "gone"
         /\ status[i] = "none" /\ ~Emptied => Phase(i) = "none"
         /\ MayWait(i) => Phase(i) = "waiting"
         /\ IsBusy(i) => Phase(i) = "busy"
         /\ status[i] = "completed" /\ rollback[i] # "none" => Phase(i) = "undoing"
         /\ status[i] = "completed" /\ rollback[i] = "none" => Phase(i) = "completed"
         /\ status[i] \in (Ended \cup {"gone"}) \ {"completed"} => Phase(i) = status[i]
BY DEF Phase, Emptied, MayWait, IsBusy, Waits, Busy, Ended

LEMMA ShownPhaseNext ==
  ASSUME NEW i \in Imports
  PROVE  /\ status'[i] = "none" /\ Emptied' => Phase(i)' = "gone"
         /\ status'[i] = "none" /\ ~Emptied' => Phase(i)' = "none"
         /\ status'[i] \in Waits => Phase(i)' = "waiting"
         /\ status'[i] \in Busy => Phase(i)' = "busy"
         /\ status'[i] = "completed" /\ rollback'[i] # "none" => Phase(i)' = "undoing"
         /\ status'[i] = "completed" /\ rollback'[i] = "none" => Phase(i)' = "completed"
         /\ status'[i] \in (Ended \cup {"gone"}) \ {"completed"} => Phase(i)' = status'[i]
BY DEF Phase, Emptied, MayWait, IsBusy, Waits, Busy, Ended

\* Of an import whose record does not change nothing else is shown.
LEMMA SamePhase ==
  ASSUME NEW i \in Imports, status'[i] = status[i], Emptied' = Emptied,
         rollback'[i] = rollback[i] \/ status[i] # "completed"
  PROVE  Phase(i)' = Phase(i)
BY DEF Phase, Emptied, MayWait, IsBusy

\* Nothing else is shown of an upload whose file and request are as they were.
LEMMA SameUpload ==
  ASSUME UNCHANGED <<file, upload>>
  PROVE  \A i \in Imports : UploadIs(i)' = UploadIs(i)
BY DEF UploadIs

\* A file that goes is not there any more, and was not on its way.
LEMMA UploadGoes ==
  ASSUME NEW i \in Imports, UploadShape(i), file \in [Imports -> BOOLEAN],
         file' = [file EXCEPT ![i] = FALSE], UNCHANGED upload
  PROVE  \A o \in Imports :
           UploadIs(o)' = IF o = i /\ UploadIs(o) = "there" THEN "none" ELSE UploadIs(o)
BY DEF UploadIs, UploadShape, Unread

LEMMA PromiseStep ==
  ASSUME ImportInv, CompletionInv, PromiseInv, spent'["file"] = 0, [Next]_vars
  PROVE  [Promise!Next]_(Promise!vars)
<1> USE DEF Promise!vars
<1>0. /\ \A w \in Workers : RunShape(w) /\ \A i \in Imports : RunOfOne(w, i)
      /\ \A i \in Imports : UndoneIsEmpty(i) /\ RecordShape(i) /\ SweepShape(i)
      /\ status \in [Imports -> Statuses] /\ stored \in [Imports -> Nat]
      /\ erased \in [Imports -> Nat] /\ file \in [Imports -> BOOLEAN]
      /\ upload \in [Imports -> Uploads] /\ skips \in [Imports -> BOOLEAN]
      /\ \A i \in Imports : UploadShape(i)
  BY DEF PromiseInv, ImportInv, TypeOK, WorldTypes, RecordTypes, DataTypes, HistoryTypes
\* The run of a worker is of an import.
<1>mine. ASSUME NEW w \in Workers, pc[w] # "idle" PROVE job[w] \in Imports /\ On(w, job[w])
  BY <1>0, <1>mine DEF RunShape, On, ImportInv, TypeOK, JobTypes
\* A run before its end is of an import that the promise lets store.
<1>work. ASSUME NEW i \in Imports, status[i] \in Working PROVE Promise!AtWork(i)
  BY <1>work, ShownPhase DEF Working, Promise!AtWork, IsBusy, Busy, Ended
<1>same. ASSUME UNCHANGED <<status, form, rollback>>
         PROVE  \A i \in Imports : Phase(i)' = Phase(i)
  BY <1>same, SamePhase DEF Emptied
\* A file that goes is dropped, or was not shown.
<1>goes. ASSUME NEW i \in Imports, file' = [file EXCEPT ![i] = FALSE], UNCHANGED upload
         PROVE  [o \in Imports |-> UploadIs(o)]' = Promise!Without(i)
  <2>1. \A o \in Imports :
          UploadIs(o)' = IF o = i /\ UploadIs(o) = "there" THEN "none" ELSE UploadIs(o)
    BY <1>0, <1>goes, UploadGoes
  <2> QED
    BY <2>1 DEF Promise!Without
<1>1. ASSUME NEW i \in Imports, Upload(i) PROVE Promise!Next
  <2>1. /\ status[i] = "none" /\ status' = [status EXCEPT ![i] = "uploaded"]
        /\ upload' = [upload EXCEPT ![i] = "arriving"]
        /\ ~Emptied /\ UNCHANGED <<form, rollback, stored, erased, file, skips>>
    BY <1>1 DEF Upload, Emptied
  <2>2. upload[i] = "none" /\ ~file[i]
    BY <1>0, <2>1 DEF UploadShape
  <2>3. Phase(i) = "none" /\ Phase(i)' = "waiting"
    BY <1>0, <2>1, ShownPhase, ShownPhaseNext DEF Waits
  <2>4. \A o \in Imports \ {i} : Phase(o)' = Phase(o)
    BY <1>0, <2>1, SamePhase DEF Emptied
  <2>5. UploadIs(i) = "none" /\ UploadIs(i)' = "due"
    BY <1>0, <2>1, <2>2 DEF UploadIs
  <2>6. \A o \in Imports \ {i} : UploadIs(o)' = UploadIs(o)
    BY <1>0, <2>1 DEF UploadIs
  <2>7. Promise!Offer(i)
    BY <2>1, <2>3, <2>4, <2>5, <2>6 DEF Promise!Offer, Promise!Become
  <2> QED
    BY <2>7 DEF Promise!Next
<1>save. ASSUME NEW i \in Imports, SaveFile(i) PROVE Promise!Next
  <2>1. Delivers(i)
    BY <1>save, SaveFileEffect, Zenon DEF ImportInv
  <2>2. upload[i] = "arriving" /\ ~file[i] /\ stored[i] = 0
    BY <1>0, <2>1 DEF Delivers, UploadShape, Unread
  <2>3. UNCHANGED <<form, rollback, stored, erased, skips>>
    BY <2>1 DEF Delivers, history
  <2>4. UploadIs(i) = "due" /\ UploadIs(i)' \in {"there", "none"}
    BY <1>0, <2>1, <2>2 DEF Delivers, UploadIs
  <2>5. \A o \in Imports \ {i} : UploadIs(o)' = UploadIs(o)
    BY <1>0, <2>1 DEF Delivers, UploadIs
  <2>6. PICK u \in {"there", "none"} :
          [o \in Imports |-> UploadIs(o)]' = [[o \in Imports |-> UploadIs(o)] EXCEPT ![i] = u]
    BY <2>4, <2>5
  <2>7. CASE UNCHANGED status
    <3>1. Promise!Arrive(i)
      BY <1>same, <2>3, <2>4, <2>6, <2>7 DEF Promise!Arrive
    <3> QED
      BY <3>1 DEF Promise!Next
  <2>8. CASE status' = [status EXCEPT ![i] = "gone"]
    <3>1. Phase(i)' = "gone"
      BY <1>0, <2>8, ShownPhaseNext DEF Ended
    <3>2. \A o \in Imports \ {i} : Phase(o)' = Phase(o)
      BY <1>0, <2>3, <2>8, SamePhase DEF Emptied
    <3>3. Promise!Retract(i)
      BY <2>2, <2>3, <2>4, <2>6, <3>1, <3>2 DEF Promise!Retract, Promise!Become
    <3> QED
      BY <3>3 DEF Promise!Next
  <2> QED
    BY <2>1, <2>7, <2>8 DEF Delivers
<1>2. ASSUME NEW i \in Imports, NEW what \in {"check", "import"}, Start(i, what)
      PROVE  Promise!Next
  <2>1. /\ status' = [status EXCEPT ![i] = IF what = "check" THEN "checking" ELSE "queued"]
        /\ MayWait(i) /\ \A o \in Imports : ~IsBusy(o)
        /\ UNCHANGED <<form, rollback, stored, erased, file, upload>>
        /\ \E b \in BOOLEAN : skips' = [skips EXCEPT ![i] = b]
    <3>1. Starts(i, what)
      BY <1>2, StartEffect
    <3> QED
      BY <1>2, <3>1, Zenon DEF Start, Starts, Admit, MayWait, history
  <2>2. Phase(i) = "waiting" /\ Phase(i)' = "busy"
    BY <1>0, <2>1, ShownPhase, ShownPhaseNext DEF Busy
  <2>3. \A o \in Imports : Phase(o) # "busy"
    BY <1>0, <2>1, ShownPhase DEF Statuses, IsBusy, MayWait, Ended
  <2>4. \A o \in Imports \ {i} : Phase(o)' = Phase(o)
    BY <1>0, <2>1, SamePhase DEF Emptied
  <2>5. \A o \in Imports : UploadIs(o)' = UploadIs(o)
    BY <2>1, SameUpload
  <2>6. Promise!Begin(i)
    BY <2>1, <2>2, <2>3, <2>4, <2>5 DEF Promise!Begin, Promise!Become
  <2> QED
    BY <2>6 DEF Promise!Next
\* An end of what waits.
<1>ends. ASSUME NEW i \in Imports, NEW how \in {"discarded", "expired"}, MayWait(i),
                status' = [status EXCEPT ![i] = how],
                file' = [file EXCEPT ![i] = FALSE] \/ UNCHANGED file,
                UNCHANGED <<form, rollback, stored, erased, upload, skips>>
         PROVE  Promise!Next
  <2>1. Phase(i) = "waiting" /\ Phase(i)' = how
    BY <1>0, <1>ends, ShownPhase, ShownPhaseNext DEF Ended
  <2>2. \A o \in Imports \ {i} : Phase(o)' = Phase(o)
    BY <1>0, <1>ends, SamePhase DEF Emptied
  <2>3. [o \in Imports |-> UploadIs(o)]'
          \in {[o \in Imports |-> UploadIs(o)], Promise!Without(i)}
    <3>1. CASE UNCHANGED file
      BY <1>ends, <3>1, SameUpload
    <3>2. CASE file' = [file EXCEPT ![i] = FALSE]
      BY <1>ends, <1>goes, <3>2
    <3> QED
      BY <1>ends, <3>1, <3>2
  <2>4. Promise!Withdraw(i)
    BY <1>ends, <2>1, <2>2, <2>3 DEF Promise!Withdraw, Promise!Become
  <2> QED
    BY <2>4 DEF Promise!Next
<1>3. ASSUME NEW i \in Imports, Discard(i) \/ Replace(i) \/ Expire(i) PROVE Promise!Next
  <2>1. Withdraws(i)
    BY <1>3, WithdrawEffect
  <2> QED
    BY <1>ends, <2>1, Zenon DEF Withdraws, MayWait, world, history
<1>4. ASSUME NEW i \in Imports, ForgetActor(i) PROVE Promise!Next \/ UNCHANGED Promise!vars
  <2>1. CASE MayWait(i)
    <3>1. /\ status' = [status EXCEPT ![i] = "discarded"]
          /\ file' = [file EXCEPT ![i] = FALSE]
          /\ UNCHANGED <<form, rollback, stored, erased, upload, skips>>
      BY <1>4, <2>1 DEF ForgetActor, history
    <3> QED
      BY <1>ends, <2>1, <3>1
  <2>2. CASE ~MayWait(i)
    <3>1. UNCHANGED <<status, form, rollback, stored, erased, file, upload, skips>>
      BY <1>0, <1>4, <2>2 DEF ForgetActor, history
    <3> QED
      BY <1>same, <3>1, SameUpload
  <2> QED
    BY <2>1, <2>2
\* A step that touches the rows of one import, or none.
<1>undo. ASSUME NEW i \in Imports, Promise!AtWork(i) \/ status[i] = "cancelled",
                stored' = [stored EXCEPT ![i] = 0] \/ UNCHANGED stored,
                UNCHANGED <<status, form, rollback, erased, file, upload, skips>>
         PROVE  Promise!Next \/ UNCHANGED Promise!vars
  <2>1. \A o \in Imports : Phase(o)' = Phase(o) /\ UploadIs(o)' = UploadIs(o)
    BY <1>same, <1>undo, SameUpload
  <2>2. status[i] = "cancelled" => Phase(i) = "cancelled"
    BY ShownPhase DEF Ended
  <2>3. Promise!Undo(i) \/ UNCHANGED stored
    BY <1>undo, <2>1, <2>2 DEF Promise!Undo
  <2> QED
    BY <1>undo, <2>1, <2>3 DEF Promise!Next
<1>5. ASSUME NEW i \in Imports, RollbackDelete(i) PROVE Promise!Next \/ UNCHANGED Promise!vars
  <2>1. /\ stored' = [stored EXCEPT ![i] = 0] /\ rollback' = [rollback EXCEPT ![i] = "deleted"]
        /\ UNCHANGED <<status, form, erased, file, upload, skips>>
    BY <1>5 DEF RollbackDelete, world, record, history
  <2>up. \A o \in Imports : UploadIs(o)' = UploadIs(o)
    BY <2>1, SameUpload
  <2>2. \A o \in Imports \ {i} : Phase(o)' = Phase(o)
    BY <1>0, <2>1, SamePhase DEF Emptied, ImportInv, TypeOK, DataTypes
  <2>3. CASE status[i] = "completed" /\ rollback[i] = "none"
    <3>1. Phase(i) = "completed" /\ Phase(i)' = "undoing"
      BY <2>1, <2>3, ShownPhase, ShownPhaseNext DEF ImportInv, TypeOK, DataTypes
    <3>2. Promise!AskUndo(i)
      BY <2>1, <2>up, <2>2, <3>1 DEF Promise!AskUndo, Promise!Become
    <3> QED
      BY <3>2 DEF Promise!Next
  <2>4. CASE status[i] = "completed" /\ rollback[i] # "none"
    <3>1. Phase(i)' = Phase(i)
      BY <2>1, <2>4, ShownPhase, ShownPhaseNext DEF ImportInv, TypeOK, DataTypes
    <3>2. UNCHANGED stored
      BY <1>0, <2>1, <2>4 DEF UndoneIsEmpty
    <3> QED
      BY <2>1, <2>up, <2>2, <3>1, <3>2
  <2>5. CASE status[i] \in {"failed", "cancelled"}
    <3>1. \A o \in Imports : Phase(o)' = Phase(o)
      BY <2>1, <2>2, <2>5, SamePhase DEF Emptied
    <3>2. Phase(i) = status[i]
      BY <2>5, ShownPhase DEF Ended
    <3>3. Promise!Undo(i)
      BY <2>1, <2>up, <2>5, <3>1, <3>2 DEF Promise!Undo, Promise!AtWork
    <3> QED
      BY <3>3 DEF Promise!Next
  <2> QED
    BY <1>5, <2>3, <2>4, <2>5 DEF RollbackDelete, Stray
<1>6. ASSUME NEW i \in Imports, RollbackEnd(i) PROVE Promise!Next \/ UNCHANGED Promise!vars
  <2>1. UNCHANGED <<form, stored, erased, file, upload, skips>> /\ rollback[i] = "deleted"
    BY <1>6 DEF RollbackEnd, world
  <2>up. \A o \in Imports : UploadIs(o)' = UploadIs(o)
    BY <2>1, SameUpload
  <2>2. /\ \A o \in Imports \ {i} : status'[o] = status[o] /\ rollback'[o] = rollback[o]
        /\ \/ /\ status'[i] = status[i]
              /\ status[i] = "completed" => rollback'[i] = "interrupted"
           \/ status[i] = "completed" /\ status'[i] = "rolled_back"
    BY <1>0, <1>6 DEF RollbackEnd, ImportInv, TypeOK, DataTypes
  <2>3. \A o \in Imports \ {i} : Phase(o)' = Phase(o)
    BY <2>1, <2>2, SamePhase, SameUpload DEF Emptied
  <2>4. CASE status'[i] = status[i]
    <3>1. Phase(i)' = Phase(i)
      BY <2>1, <2>2, <2>4, SamePhase, ShownPhase, ShownPhaseNext DEF Emptied
    <3> QED
      BY <2>1, <2>up, <2>3, <3>1
  <2>5. CASE status[i] = "completed" /\ status'[i] = "rolled_back"
    <3>1. Phase(i) = "undoing" /\ Phase(i)' = "rolled_back" /\ stored[i] = 0
      BY <1>0, <2>1, <2>5, ShownPhase, ShownPhaseNext DEF Ended, UndoneIsEmpty
    <3>2. Promise!RollBack(i)
      BY <2>1, <2>up, <2>3, <3>1 DEF Promise!RollBack, Promise!Become
    <3> QED
      BY <3>2 DEF Promise!Next
  <2> QED
    BY <2>2, <2>4, <2>5
<1>7. ASSUME NEW w \in Workers, NEW i \in Imports, Claim(w, i) PROVE UNCHANGED Promise!vars
  <2>1. UNCHANGED <<form, rollback, stored, erased, file, upload, skips>>
    BY <1>7 DEF Claim, world, history
  <2>2. status' = status \/ (status[i] = "queued" /\ status' = [status EXCEPT ![i] = "running"])
    BY <1>0, <1>7 DEF Claim
  <2>3. \A o \in Imports : Phase(o)' = Phase(o)
    <3>1. CASE status' = status
      BY <1>same, <2>1, <3>1
    <3>2. CASE status[i] = "queued" /\ status' = [status EXCEPT ![i] = "running"]
      <4>1. Phase(i) = "busy" /\ Phase(i)' = "busy"
        BY <1>0, <3>2, ShownPhase, ShownPhaseNext DEF IsBusy, Busy
      <4>2. \A o \in Imports \ {i} : Phase(o)' = Phase(o)
        BY <1>0, <2>1, <3>2, SamePhase DEF Emptied
      <4> QED
        BY <4>1, <4>2
    <3> QED
      BY <2>2, <3>1, <3>2
  <2> QED
    BY <2>1, <2>3, SameUpload
<1>8. ASSUME NEW w \in Workers, Undo(w) PROVE Promise!Next \/ UNCHANGED Promise!vars
  <2>1. pc[w] = "undo" /\ (stored' = [stored EXCEPT ![job[w]] = 0] \/ UNCHANGED stored)
    BY <1>8 DEF Undo
  <2>2. UNCHANGED <<status, form, rollback, erased, file, upload, skips>>
    BY <1>8, Zenon DEF Undo, world, record, history
  <2>3. job[w] \in Imports /\ Promise!AtWork(job[w])
    BY <1>0, <1>mine, <1>work, <2>1 DEF RunOfOne
  <2> QED
    BY <1>undo, <2>1, <2>2, <2>3
<1>9. ASSUME NEW w \in Workers, Save(w) \/ Skip(w) PROVE Promise!Next \/ UNCHANGED Promise!vars
  <2>1. pc[w] = "save" /\ (stored' = [stored EXCEPT ![job[w]] = @ + 1] \/ UNCHANGED stored)
    BY <1>9, Zenon DEF Save, Skip
  <2>2. UNCHANGED <<status, form, rollback, erased, file, upload, skips>>
    BY <1>9, Zenon DEF Save, Skip, world, record, history
  <2>3. job[w] \in Imports /\ Promise!AtWork(job[w])
    BY <1>0, <1>mine, <1>work, <2>1 DEF RunOfOne
  <2>4. \A o \in Imports : UploadIs(o)' = UploadIs(o)
    BY <2>2, SameUpload
  <2>5. Promise!Store(job[w]) \/ UNCHANGED stored
    BY <1>same, <2>1, <2>2, <2>3, <2>4 DEF Promise!Store
  <2> QED
    BY <1>same, <2>2, <2>3, <2>4, <2>5 DEF Promise!Next
<1>10. ASSUME NEW w \in Workers, Count(w) PROVE Promise!Next \/ UNCHANGED Promise!vars
  <2>1. /\ pc[w] = "count"
        /\ \/ stored[job[w]] = saved[w] /\ erased' = [erased EXCEPT ![job[w]] = 0]
           \/ UNCHANGED erased
    BY <1>10, Zenon DEF Count
  <2>2. UNCHANGED <<status, form, rollback, stored, file, upload, skips>>
    BY <1>10, Zenon DEF Count, world, record
  <2>3. job[w] \in Imports /\ Promise!AtWork(job[w])
    BY <1>0, <1>mine, <1>work, <2>1 DEF RunOfOne
  <2>4. saved[w] \in 1 .. RowCount /\ (saved[w] = RowCount \/ skips[job[w]])
    BY <1>0, <2>1, ImportAssumption DEF RunShape, ImportInv, TypeOK, JobTypes
  <2>5. stored[job[w]] = saved[w] => Promise!Whole(job[w], stored[job[w]])
    BY <2>4 DEF Promise!Whole
  <2>6. \A o \in Imports : UploadIs(o)' = UploadIs(o)
    BY <2>2, SameUpload
  <2>7. Promise!Recount(job[w]) \/ UNCHANGED erased
    BY <1>same, <2>1, <2>2, <2>3, <2>5, <2>6 DEF Promise!Recount
  <2> QED
    BY <1>same, <2>2, <2>3, <2>6, <2>7 DEF Promise!Next
\* An end of what is busy.
<1>done. ASSUME NEW i \in Imports, NEW how \in {"checked", "failed", "cancelled", "completed"},
                IsBusy(i), status' = [status EXCEPT ![i] = how],
                how = "checked" => stored[i] = 0,
                how = "completed" => Promise!Whole(i, stored[i] + erased[i]),
                how \in {"checked", "completed"} => file[i],
                UNCHANGED <<form, rollback, stored, erased, file, upload, skips>>
         PROVE  Promise!Next
  <2> DEFINE p == IF how = "checked" THEN "waiting" ELSE how
  <2>1. Phase(i) = "busy" /\ rollback[i] = "none"
    BY <1>0, <1>done, ShownPhase DEF IsBusy, HasFile, UndoneIsEmpty
  <2>2. Phase(i)' = p
    BY <1>0, <1>done, <2>1, ShownPhaseNext DEF Waits, Ended
  <2>3. \A o \in Imports \ {i} : Phase(o)' = Phase(o)
    BY <1>0, <1>done, SamePhase DEF Emptied
  <2>up. \A o \in Imports : UploadIs(o)' = UploadIs(o)
    BY <1>done, SameUpload
  <2>file. p \in {"waiting", "completed"} => UploadIs(i) = "there"
    BY <1>done DEF UploadIs
  <2>4. Promise!Finish(i, p)
    BY <1>done, <2>1, <2>2, <2>3, <2>up, <2>file DEF Promise!Finish, Promise!Become
  <2>5. p \in Promise!Outcomes
    BY DEF Promise!Outcomes
  <2> QED
    BY <2>4, <2>5 DEF Promise!Next
<1>11. ASSUME NEW w \in Workers, End(w) PROVE Promise!Next \/ UNCHANGED Promise!vars
  <2>1. pc[w] = "end" /\ UNCHANGED <<form, rollback, stored, erased, file, upload, skips>>
    BY <1>11, Zenon DEF End, world
  <2>2. job[w] \in Imports /\ On(w, job[w])
    BY <1>mine, <2>1
  <2>3. CASE UNCHANGED status
    BY <1>same, <2>1, <2>3, SameUpload
  <2>4. CASE status' = [status EXCEPT ![job[w]] = verdict[w]] /\ ~Lost(w)
    <3>1. status[job[w]] \in {"running", "checking"} /\ kind[w] = mode[job[w]]
      BY <2>2, <2>4 DEF Lost, Owned, ImportInv, OneRun
    <3>2. verdict[w] \in {"checked", "failed", "cancelled", "completed"}
      BY <1>0, <2>1 DEF RunShape
    <3>3. verdict[w] = "checked" => stored[job[w]] = 0
      BY <1>0, <2>1, <2>2, <3>1 DEF RunShape, RecordShape
    <3>4. verdict[w] = "completed" => status[job[w]] = "running"
      BY <1>0, <2>1, <2>2, <3>1 DEF RunShape, RecordShape
    <3>5. verdict[w] = "completed" =>
            stored[job[w]] + erased[job[w]] = saved[w]
      BY <2>1, <2>2, <3>4 DEF CompletionInv
    <3>6. verdict[w] = "completed" =>
            saved[w] \in 1 .. RowCount /\ (saved[w] = RowCount \/ skips[job[w]])
      BY <1>0, <2>1, ImportAssumption DEF RunShape, ImportInv, TypeOK, JobTypes
    <3>7. verdict[w] = "completed" =>
            Promise!Whole(job[w], stored[job[w]] + erased[job[w]])
      BY <3>5, <3>6 DEF Promise!Whole
    <3>8. verdict[w] \in {"checked", "completed"} => file[job[w]]
      <4>1. verdict[w] \in {"checked", "completed"} => ~Unread(job[w])
        BY <2>2 DEF Unread
      <4>2. verdict[w] \in {"checked", "completed"} => upload[job[w]] = "saved"
        BY <1>0, <2>2, <3>1, <4>1 DEF UploadShape, Uploads
      <4> QED
        BY <2>2, <3>1, <4>2 DEF ImportInv, FileWaits, HasFile, Busy
    <3> QED
      BY <1>done, <2>1, <2>2, <2>4, <3>1, <3>2, <3>3, <3>7, <3>8 DEF IsBusy, Busy
  <2> QED
    BY <1>11, <2>3, <2>4, Zenon DEF End
<1>12. ASSUME NEW i \in Imports, SweepFails(i) PROVE Promise!Next \/ UNCHANGED Promise!vars
  <2>1. UNCHANGED <<form, rollback, stored, erased, file, upload, skips>>
    BY <1>12, Zenon DEF SweepFails, world, history
  <2> QED
    <3>1. CASE IsBusy(i) /\ status' = [status EXCEPT ![i] = "failed"]
      BY <1>done, <2>1, <3>1
    <3>2. CASE UNCHANGED status
      BY <1>same, <2>1, <3>2, SameUpload
    <3> QED
      BY <1>12, <3>1, <3>2, Zenon DEF SweepFails, MayExpire
\* An upload that goes when nothing needs it any more.
<1>drop. ASSUME NEW i \in Imports, status[i] \notin HasFile,
                file' = [file EXCEPT ![i] = FALSE],
                UNCHANGED <<status, form, rollback, stored, erased, upload, skips>>
         PROVE  Promise!Next
  <2>1. Phase(i) \notin {"waiting", "busy"}
    BY <1>0, <1>drop, ShownPhase DEF Statuses, HasFile, Ended
  <2>2. Promise!DropUpload(i)
    BY <1>drop, <1>goes, <1>same, <2>1 DEF Promise!DropUpload
  <2> QED
    BY <2>2 DEF Promise!Next
<1>13. ASSUME NEW w \in Workers, FinishFile(w) PROVE Promise!Next
  <2>1. /\ pc[w] = "file" /\ ~Trouble("file")
        /\ UNCHANGED <<status, form, rollback, stored, erased, upload, skips>>
    BY <1>13 DEF FinishFile, Trouble, TroubleKinds, ImportInv, TypeOK, WorldTypes, record,
                 history, world
  <2>2. file' = [file EXCEPT ![job[w]] = FALSE]
    BY <1>13, <2>1, Zenon DEF FinishFile
  <2>3. job[w] \in Imports /\ status[job[w]] \notin HasFile
    BY <1>mine, <2>1 DEF ImportInv, OneRun, Live
  <2> QED
    BY <1>drop, <2>1, <2>2, <2>3
<1>14. ASSUME NEW i \in Imports, SweepUndoes(i) \/ RetryDeletes(i)
       PROVE  Promise!Next \/ UNCHANGED Promise!vars
  <2>1. /\ UNCHANGED <<status, form, rollback, erased, file, upload, skips>>
        /\ stored' = [stored EXCEPT ![i] = 0] \/ UNCHANGED stored
    BY <1>14, Zenon DEF SweepUndoes, RetryDeletes, world, record, history
  <2>2. status[i] \in Working \/ status[i] = "cancelled"
    BY <1>0, <1>14 DEF SweepUndoes, SweepShape, RetryDeletes, Stray, Working
  <2> QED
    BY <1>undo, <1>work, <2>1, <2>2
<1>15. ASSUME NEW i \in Imports, SweepFinishesFile(i) \/ PurgeFile(i) PROVE Promise!Next
  <2>1. status[i] \notin HasFile
    BY <1>0, <1>15
       DEF SweepFinishesFile, PurgeFile, Purgeable, SweepShape, HasFile, Waits, Busy
  <2>2. /\ file' = [file EXCEPT ![i] = FALSE]
        /\ UNCHANGED <<status, form, rollback, stored, erased, upload, skips>>
    BY <1>15, Zenon DEF SweepFinishesFile, PurgeFile, world, record, history
  <2> QED
    BY <1>drop, <2>1, <2>2
<1>16. ASSUME NEW i \in Imports, EraseOne(i) PROVE Promise!Next
  <2>1. /\ stored[i] > 0 /\ stored' = [stored EXCEPT ![i] = @ - 1]
        /\ erased' = [erased EXCEPT ![i] = @ + 1]
        /\ UNCHANGED <<status, form, rollback, file, upload, skips>>
    BY <1>16, Zenon DEF EraseOne, world, record
  <2>2. Promise!LoseOne(i)
    BY <1>same, <2>1, SameUpload DEF Promise!LoseOne
  <2> QED
    BY <2>2 DEF Promise!Next
<1>17. ASSUME DeleteForm PROVE Promise!Next \/ UNCHANGED Promise!vars
  <2>1. UNCHANGED <<rollback, erased, upload, skips>>
    BY <1>17, Zenon DEF DeleteForm, history
  <2>2. CASE form = "live" /\ form' = "unlinked" /\ UNCHANGED <<status, file, stored>>
    <3>1. \A i \in Imports : Phase(i)' = Phase(i)
      BY <2>1, <2>2, SamePhase DEF Emptied
    <3>2. \A i \in Imports : UploadIs(i)' = UploadIs(i)
      BY <2>1, <2>2, SameUpload
    <3> QED
      BY <2>1, <2>2, <3>1, <3>2
  <2>3. CASE /\ form = "unlinked" /\ form' = "emptied" /\ UNCHANGED stored
             /\ status' = [i \in Imports |-> IF status[i] = "none" THEN "none" ELSE "gone"]
             /\ file' = [i \in Imports |-> FALSE]
    <3>1. \A i \in Imports : Phase(i)' = "gone"
      BY <2>3, ShownPhaseNext DEF Emptied, Ended
    <3>2. \A i \in Imports :
            UploadIs(i)' = IF UploadIs(i) = "there" THEN "none" ELSE UploadIs(i)
      BY <1>0, <2>1, <2>3 DEF UploadIs, UploadShape, Unread
    <3>3. Promise!ForgetImports
      BY <2>1, <2>3, <3>1, <3>2 DEF Promise!ForgetImports
    <3> QED
      BY <3>3 DEF Promise!Next
  <2>4. CASE /\ form = "emptied" /\ form' = "deleted" /\ UNCHANGED <<status, file>>
             /\ stored' = [i \in Imports |-> 0]
    <3>1. \A i \in Imports : Phase(i) = "gone" /\ Phase(i)' = Phase(i)
      BY <1>0, <2>1, <2>4, ShownPhase, SamePhase DEF RecordShape, Emptied, Ended
    <3>2. Promise!ForgetRows
      BY <2>1, <2>4, <3>1, SameUpload DEF Promise!ForgetRows
    <3> QED
      BY <3>2 DEF Promise!Next
  <2> QED
    BY <1>17, <2>2, <2>3, <2>4, Zenon DEF DeleteForm
<1>18. CASE
        \/ \E w \in Workers : MarkUndo(w) \/ Proceed(w) \/ Read(w) \/ Budget(w) \/ Beat(w) \/
             StatementFails(w) \/ WorkerDies(w)
        \/ \E i \in Imports : SweepLists(i) \/ SweepQueues(i) \/ SweepMarks(i) \/
             RetryClears(i) \/ SweepDies(i) \/ HourEnds(i) \/ FallsSilent(i) \/ LoseRole(i)
        \/ Switch
        \/ UNCHANGED vars
  <2>1. UNCHANGED <<status, form, rollback, stored, erased, file, upload, skips>>
    BY <1>18, ZenonT(60)
       DEF MarkUndo, Proceed, Read, Budget, Beat, StatementFails, WorkerDies, SweepLists,
           SweepQueues, SweepMarks, RetryClears, SweepDies, HourEnds, FallsSilent, LoseRole,
           Switch, vars, world, record, history
  <2> QED
    BY <1>same, <2>1, SameUpload
<1> QED
  BY <1>1, <1>2, <1>3, <1>4, <1>5, <1>6, <1>7, <1>8, <1>9, <1>10, <1>11, <1>12, <1>13, <1>14,
     <1>15, <1>16, <1>17, <1>18, <1>save DEF Next, Request, Sweep, Step

\* The imports of a form keep the promise of docs/response-import.md: one is busy at a
\* time, each ends once, with all the rows of its file (or those that are valid, when
\* it was told to skip the others) or not completed, and those of a completed one stay
\* until somebody deletes them or asks for the undo, as long as _finish_file does not
\* fail (the run Import_file shows what happens then).
THEOREM ImportPromiseIsKept ==
  ASSUME Troubles["file"] = 0
  PROVE  Spec => KeepsPromise
<1>1. Init => /\ CompletionInv /\ PromiseInv /\ Promise!Init
  <2> SUFFICES ASSUME Init PROVE CompletionInv /\ PromiseInv /\ Promise!Init
    OBVIOUS
  <2>1. CompletionInv /\ PromiseInv
    BY DEF Init, CompletionInv, PromiseInv, RunOfOne, UndoneIsEmpty, On, HasFile, Waits, Busy
  <2>2. \A i \in Imports : Phase(i) = "none" /\ UploadIs(i) = "none"
    BY ShownPhase DEF Init, Emptied, UploadIs
  <2> QED
    BY <2>1, <2>2 DEF Init, Promise!Init
<1> DEFINE Bounded == \A k \in TroubleKinds : spent[k] <= Troubles[k]
<1>0. ImportInv' /\ Bounded' => spent'["file"] = 0
  BY DEF ImportInv, TypeOK, WorldTypes, TroubleKinds
<1>2. /\ ImportInv /\ CompletionInv /\ PromiseInv /\ [Next]_vars
      /\ ImportInv' /\ Bounded'
      => CompletionInv' /\ PromiseInv'
  <2>1. ASSUME ImportInv, CompletionInv, Next, spent'["file"] = 0 PROVE CompletionInv'
    BY <2>1, CompletionStep
  <2>2. ASSUME CompletionInv, UNCHANGED vars PROVE CompletionInv'
    BY <2>2 DEF vars, CompletionInv, On
  <2> QED
    BY <1>0, <2>1, <2>2, PromiseInvStep
<1>3. /\ ImportInv /\ CompletionInv /\ PromiseInv /\ [Next]_vars
      /\ ImportInv' /\ Bounded'
      => [Promise!Next]_(Promise!vars)
  BY <1>0, PromiseStep
<1>4. Spec => []Bounded
  BY TroublesBounded
<1> QED
  BY <1>1, <1>2, <1>3, <1>4, ImportInduction, PTL DEF Spec, KeepsPromise, Promise!Spec
=============================================================================
