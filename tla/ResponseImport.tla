---------------------------- MODULE ResponseImport ---------------------------
(***************************************************************************)
(* The CSV import of responses (app/services/response_import/service.py,   *)
(* app/repositories/postgres/response_imports.py): an upload that waits an *)
(* hour, a dry run or an import done by a job, the undo of what it stored, *)
(* the sweep behind dead workers, and the deletion of the form.            *)
(*                                                                         *)
(* One form, several imports of it.  A worker takes an import through      *)
(*                                                                         *)
(*   idle -> [undo] -> admit -> read -> { budget -> beat -> save ... }     *)
(*        -> count -> end -> file -> idle                                  *)
(*                                                                         *)
(* where every arrow is a transaction of its own, so users, the sweep and  *)
(* the form's deletion run in between; the run holds the import row as it  *)
(* was claimed (job, attempt, kind).  The rows of a file are alike: one    *)
(* that is refused or skipped, a full form or a failing statement is a     *)
(* choice of the step that meets it.                                       *)
(***************************************************************************)
EXTENDS JobQueue, FiniteSets

CONSTANTS Imports, Workers, NoImport,
          RowCount, BatchSize,   \* rows of a file, BATCH_SIZE
          MaxAttempts,           \* limits.py MAX_ATTEMPTS: 3
          Troubles,              \* how many of each kind of trouble a run admits
          MaxTrouble             \* and how many in all

TroubleKinds ==
  {"crash", "db", "file", "queue", "slow", "role", "account", "switch", "form",
   "erase", "rollback"}

ASSUME ImportAssumption ==
  /\ NoImport \notin Imports
  /\ RowCount \in Nat \ {0} /\ BatchSize \in Nat \ {0}
  /\ MaxAttempts \in Nat \ {0}
  /\ Troubles \in [TroubleKinds -> Nat]
  /\ MaxTrouble \in Nat

VARIABLES
  on,         \* CSV_IMPORT_ENABLED
  form,       \* the form the imports go into
  status, mode, attempts, started, stopped, undo,   \* response_imports
  file,       \* response_import_files: the upload is still there
  stored,     \* responses marked with the import's id
  past,       \* the file's hour is over
  upload,     \* the request that uploads it, between its two writes and after
  skips,      \* options.skipInvalidRows
  silent,     \* no heartbeat for STALE_RUNNING_AFTER
  allowed,    \* the confirmer (or uploader) holds response.import
  todo,       \* the jobs waiting
  pc, job, attempt, kind,    \* each worker's run, and the row as it was claimed
  at, saved,  \* rows of the file it went through, and stored
  verdict, failing,
  sweep,      \* what the sweep still has to do about an import
  rollback,   \* a rollback request between its delete and its update
  \* history
  imported,   \* rows_imported of a completed import
  erased,     \* responses of it erased one by one since they were counted
  gaveUp,     \* rows are left for good: a cleanup died, could not be marked as due
              \* or lost its mark, or a run went on past the end of its import
  spent, total   \* troubles so far

claimed == <<job, attempt, kind>>
jobs    == <<pc, claimed, at, saved, verdict, failing>>
claims  == <<attempts, started>>
record  == <<status, mode, claims, stopped, undo>>
trouble == <<spent, total>>
history == <<imported, erased, gaveUp>>
world   == <<on, form, allowed, past, upload, skips>>
vars == <<world, record, file, stored, silent, todo, jobs, sweep, rollback, history, trouble>>

Waits     == {"uploaded", "checked"}
Busy      == {"checking", "queued", "running"}
Ended     == {"completed", "failed", "cancelled", "rolled_back", "discarded", "expired"}
Statuses  == {"none", "gone"} \cup Waits \cup Busy \cup Ended
HasFile   == Waits \cup Busy
Uploads   == {"none", "arriving", "saved", "lost"}
Modes     == {"none", "check", "import"}
Pcs       == {"idle", "undo", "mark", "admit", "read", "budget", "beat", "save",
              "count", "end", "file"}
Verdicts  == {"none", "stopped", "checked", "failed", "cancelled", "completed"}
Plans     == {"none", "queue", "fail", "failUndo", "undo", "mark", "file", "clear"}
Forms     == {"live", "unlinked", "emptied", "deleted"}

MayWait(i) == status[i] \in Waits
IsBusy(i)  == status[i] \in Busy

\* undo_pending of an import that ended without success: an undo is due.
Stray(i) == status[i] \in {"failed", "cancelled"} /\ undo[i]

\* The rows are gone, or known to be left, or about to be undone.
Accounted(i) == stored[i] = 0 \/ undo[i] \/ gaveUp[i]
Settled(i)   == Accounted(i) \/ sweep[i] \in {"undo", "mark"}

Trouble(sort) ==
  /\ total < MaxTrouble /\ total' = total + 1
  /\ spent[sort] < Troubles[sort] /\ spent' = [spent EXCEPT ![sort] = @ + 1]

Init ==
  /\ on = TRUE /\ form = "live"
  /\ status = [i \in Imports |-> "none"] /\ mode = [i \in Imports |-> "none"]
  /\ attempts = [i \in Imports |-> 0] /\ started = [i \in Imports |-> FALSE]
  /\ stopped = [i \in Imports |-> FALSE] /\ undo = [i \in Imports |-> FALSE]
  /\ file = [i \in Imports |-> FALSE]
  /\ stored = [i \in Imports |-> 0]
  /\ past = [i \in Imports |-> FALSE]
  /\ upload = [i \in Imports |-> "none"] /\ skips = [i \in Imports |-> FALSE]
  /\ silent = [i \in Imports |-> FALSE]
  /\ allowed = [i \in Imports |-> TRUE]
  /\ todo = [i \in Imports |-> NoJob]
  /\ pc = [w \in Workers |-> "idle"]
  /\ job = [w \in Workers |-> NoImport]
  /\ attempt = [w \in Workers |-> 0] /\ kind = [w \in Workers |-> "none"]
  /\ at = [w \in Workers |-> 0] /\ saved = [w \in Workers |-> 0]
  /\ verdict = [w \in Workers |-> "none"]
  /\ failing = [w \in Workers |-> FALSE]
  /\ sweep = [i \in Imports |-> "none"]
  /\ rollback = [i \in Imports |-> "none"]
  /\ imported = [i \in Imports |-> 0]
  /\ erased = [i \in Imports |-> 0]
  /\ gaveUp = [i \in Imports |-> FALSE]
  /\ spent = [k \in TroubleKinds |-> 0] /\ total = 0

-----------------------------------------------------------------------------
(* Requests of the importer.                                               *)

\* _end_waiting: a locked update, then the file, which a crash leaves behind.
EndWaiting(i, how) ==
  /\ status' = [status EXCEPT ![i] = how]
  /\ \/ file' = [file EXCEPT ![i] = FALSE] /\ UNCHANGED trouble
     \/ Trouble("crash") /\ UNCHANGED file

\* start: first the uploads its uploader left waiting go, one by one ...
Replace(i) ==
  /\ on /\ form = "live" /\ MayWait(i)
  /\ EndWaiting(i, "discarded")
  /\ UNCHANGED <<world, mode, claims, stopped, undo, stored, silent, todo, jobs, sweep,
                 rollback, history>>

\* ... then the row of the new one is saved ...
Upload(i) ==
  /\ on /\ form = "live" /\ status[i] = "none" /\ allowed[i]
  /\ status' = [status EXCEPT ![i] = "uploaded"]
  /\ upload' = [upload EXCEPT ![i] = "arriving"]
  /\ UNCHANGED <<on, form, allowed, past, skips, mode, claims, stopped, undo, file, stored,
                 silent, todo, jobs, sweep, rollback, history, trouble>>

Arrived(i, how) == upload[i] = "arriving" /\ upload' = [upload EXCEPT ![i] = how]

\* ... then its file, whatever became of the row meanwhile.  What raises there, the
\* answer of a save that went through included, takes the row back; a request that
\* dies leaves a row without a file.
SaveFile(i) ==
  /\ \/ /\ Arrived(i, "saved")
        /\ file' = [file EXCEPT ![i] = TRUE]
        /\ UNCHANGED <<status, trouble>>
     \/ /\ Arrived(i, "lost") /\ Trouble("db")
        /\ \E landed \in BOOLEAN : file' = [file EXCEPT ![i] = landed]
        /\ status' = [status EXCEPT ![i] = "gone"]
     \/ /\ Arrived(i, "lost") /\ Trouble("crash")
        /\ UNCHANGED <<status, file>>
  /\ UNCHANGED <<on, form, allowed, past, skips, mode, claims, stopped, undo, stored,
                 silent, todo, jobs, sweep, rollback, history>>

\* _queue never fails its caller: with the queue out of order no job is there.
Queue(i) == \/ todo' = Defer(todo, i) /\ UNCHANGED trouble
            \/ Trouble("queue") /\ UNCHANGED todo

\* (An admission that lets a dry run be started over.)
AdmitAgain(i) ==
  /\ MayWait(i) \/ status[i] = "checking"
  /\ \A o \in Imports \ {i} : ~IsBusy(o)

\* admit: one import of a form at a time (a partial unique index).
Admit(i) == MayWait(i) /\ \A o \in Imports : ~IsBusy(o)

\* check and run: the row as it will be claimed, then the job.  What a dry run is told
\* to skip changes nothing here.
Start(i, what) ==
  /\ on /\ form = "live" /\ ~past[i] /\ allowed[i] /\ Admit(i)
  /\ status' = [status EXCEPT ![i] = IF what = "check" THEN "checking" ELSE "queued"]
  /\ mode' = [mode EXCEPT ![i] = what]
  /\ \E b \in BOOLEAN : skips' = [skips EXCEPT ![i] = b /\ what = "import"]
  /\ attempts' = [attempts EXCEPT ![i] = 0]
  /\ started' = [started EXCEPT ![i] = FALSE]
  /\ silent' = [silent EXCEPT ![i] = FALSE]
  /\ Queue(i)
  /\ UNCHANGED <<on, form, allowed, past, upload, stopped, undo, file, stored, jobs,
                 sweep, rollback, history>>

Discard(i) ==
  /\ on /\ MayWait(i) /\ ~past[i]
  /\ EndWaiting(i, "discarded")
  /\ UNCHANGED <<world, mode, claims, stopped, undo, stored, silent, todo, jobs, sweep,
                 rollback, history>>

\* _expire_if_due on any request about the import, and _expire_waiting.
Expire(i) ==
  /\ MayWait(i) /\ past[i]
  /\ EndWaiting(i, "expired")
  /\ UNCHANGED <<world, mode, claims, stopped, undo, stored, silent, todo, jobs, sweep,
                 rollback, history>>

\* The undo a user asks for: the delete first ...
RollbackDelete(i) ==
  /\ on /\ rollback[i] # "deleted"
  /\ status[i] = "completed" \/ Stray(i)
  /\ Trouble("rollback")
  /\ stored' = [stored EXCEPT ![i] = 0]
  /\ rollback' = [rollback EXCEPT ![i] = "deleted"]
  /\ UNCHANGED <<world, record, file, silent, todo, jobs, sweep, history>>

\* Neither this undo nor the sweep's looks for rows a late run stored (and could
\* not delete) since its own delete: the mark goes over them.
DropsMark(i) == Stray(i) /\ stored[i] > 0

\* ... then the status; or the request dies in between, to be asked again.
RollbackEnd(i) ==
  /\ rollback[i] = "deleted"
  /\ \/ /\ status' = [status EXCEPT ![i] = IF @ = "completed" THEN "rolled_back" ELSE @]
        /\ undo' = [undo EXCEPT ![i] = @ /\ ~Stray(i)]
        /\ rollback' = [rollback EXCEPT ![i] = "none"]
        /\ gaveUp' = [gaveUp EXCEPT ![i] = @ \/ DropsMark(i)]
        /\ UNCHANGED trouble
     \/ /\ Trouble("crash")
        /\ rollback' = [rollback EXCEPT ![i] = "interrupted"]
        /\ UNCHANGED <<status, undo, gaveUp>>
  /\ UNCHANGED <<world, mode, claims, stopped, file, stored, silent, todo, jobs, sweep,
                 imported, erased>>

-----------------------------------------------------------------------------
(* The job.                                                                *)

On(w, i)   == pc[w] # "idle" /\ job[w] = i
Owns(w, i) == On(w, i) /\ attempt[w] = attempts[i]

\* _claim: a queued import, a dry run no worker took, or one whose worker died.
Claimable(i) ==
  \/ status[i] = "queued"
  \/ status[i] = "checking" /\ ~started[i]
  \/ status[i] \in {"checking", "running"} /\ started[i] /\ silent[i]

\* _owned: the stored row, against the claim the run started with.
Owned(w) ==
  /\ status[job[w]] \in {"running", "checking"}
  /\ attempts[job[w]] = attempt[w]

Goto(w, label) == pc' = [pc EXCEPT ![w] = label]

Release(w) ==
  /\ Goto(w, "idle")
  /\ job' = [job EXCEPT ![w] = NoImport]
  /\ attempt' = [attempt EXCEPT ![w] = 0]
  /\ kind' = [kind EXCEPT ![w] = "none"]
  /\ at' = [at EXCEPT ![w] = 0]
  /\ saved' = [saved EXCEPT ![w] = 0]
  /\ verdict' = [verdict EXCEPT ![w] = "none"]
  /\ failing' = [failing EXCEPT ![w] = FALSE]

\* The run is to end in a status.
EndAs(w, how) ==
  /\ Goto(w, "end")
  /\ verdict' = [verdict EXCEPT ![w] = how]
  /\ UNCHANGED <<claimed, at, saved, failing>>

\* _process cleans up before it ends the run itself.
UndoAndEnd(w, how) ==
  /\ Goto(w, "undo")
  /\ verdict' = [verdict EXCEPT ![w] = how]
  /\ UNCHANGED <<claimed, at, saved, failing>>

\* (A failure that leaves what was stored.)
FailWithoutUndo(w) ==
  /\ Goto(w, "end")
  /\ verdict' = [verdict EXCEPT ![w] = "failed"]
  /\ failing' = [failing EXCEPT ![w] = TRUE]
  /\ UNCHANGED <<claimed, at, saved>>

\* _fail, called by run_job for what _process raised.
Fail(w) ==
  /\ Goto(w, IF kind[w] = "import" THEN "undo" ELSE "end")
  /\ verdict' = [verdict EXCEPT ![w] = "failed"]
  /\ failing' = [failing EXCEPT ![w] = TRUE]
  /\ UNCHANGED <<claimed, at, saved>>

\* An exception: run_job fails the import; one raised by _fail ends the job.
Raise(w) == IF failing[w] THEN Release(w) ELSE Fail(w)

\* A waiting job is taken and its import claimed; a retry starts clean.
Claim(w, i) ==
  /\ pc[w] = "idle" /\ Waiting(todo, i)
  /\ todo' = Fetched(todo, i)
  /\ IF Claimable(i)
     THEN /\ status' = [status EXCEPT ![i] = IF @ = "queued" THEN "running" ELSE @]
          /\ attempts' = [attempts EXCEPT ![i] = @ + 1]
          /\ started' = [started EXCEPT ![i] = TRUE]
          /\ silent' = [silent EXCEPT ![i] = FALSE]
          /\ job' = [job EXCEPT ![w] = i]
          /\ attempt' = [attempt EXCEPT ![w] = attempts[i] + 1]
          /\ kind' = [kind EXCEPT ![w] = mode[i]]
          /\ Goto(w, IF mode[i] = "import" /\ attempts[i] > 0 THEN "undo" ELSE "admit")
     ELSE UNCHANGED <<status, claims, silent, claimed, pc>>
  /\ UNCHANGED <<world, mode, stopped, undo, file, stored, at, saved, verdict, failing,
                 sweep, rollback, history, trouble>>

\* After an undo: the retry goes on, a stopped run is failed by run_job (which
\* undoes once more), any other ends.
AfterUndo(w) ==
  IF verdict[w] = "stopped" THEN Fail(w)
  ELSE /\ Goto(w, IF verdict[w] = "none" THEN "admit" ELSE "end")
       /\ UNCHANGED <<claimed, at, saved, verdict, failing>>

\* _undo never raises: a delete that fails is marked undo_pending ...
Undo(w) ==
  /\ pc[w] = "undo"
  /\ \/ /\ stored' = [stored EXCEPT ![job[w]] = 0]
        /\ AfterUndo(w)
        /\ UNCHANGED trouble
     \/ /\ Trouble("db")
        /\ Goto(w, "mark")
        /\ UNCHANGED <<stored, claimed, at, saved, verdict, failing>>
  /\ UNCHANGED <<world, record, file, silent, todo, sweep, rollback, history>>


\* Whatever the row's status is by now; nothing when the row is gone.
Marked(i) == IF status[i] = "gone" THEN undo ELSE [undo EXCEPT ![i] = TRUE]

\* ... unless that fails as well.
MarkUndo(w) ==
  /\ pc[w] = "mark"
  /\ AfterUndo(w)
  /\ \/ undo' = Marked(job[w]) /\ UNCHANGED <<gaveUp, trouble>>
     \/ /\ Trouble("db")
        /\ gaveUp' = [gaveUp EXCEPT ![job[w]] = TRUE]
        /\ UNCHANGED undo
  /\ UNCHANGED <<world, status, mode, claims, stopped, file, stored, silent, todo,
                 sweep, rollback, imported, erased>>

\* The checks of _process, in their order, up to the parsed file.
Proceed(w) ==
  /\ pc[w] = "admit"
  /\ IF ~on \/ ~allowed[job[w]] THEN EndAs(w, "cancelled")
     ELSE IF ~file[job[w]] THEN EndAs(w, "failed")
     ELSE IF form # "live" THEN EndAs(w, "cancelled")
     ELSE \/ Goto(w, "read") /\ UNCHANGED <<claimed, at, saved, verdict, failing>>
          \/ EndAs(w, "failed")   \* file_unreadable, form_changed
  /\ UNCHANGED <<world, record, file, stored, silent, todo, sweep, rollback, history,
                 trouble>>

\* _check_budget: the file's hour, or JOB_MAX_SECONDS.
InTime(w) == ~past[job[w]]

\* _beat: the row as it is stored decides; a lost run stops and touches nothing.
Lost(w)    == ~Owned(w)
Stopped(w) == Owned(w) /\ stopped[job[w]]

\* The first pass over all rows: time, a heartbeat when one is due, the verdict.
Read(w) ==
  /\ pc[w] = "read"
  /\ \/ InTime(w) /\ Lost(w) /\ Release(w) /\ UNCHANGED trouble
     \/ (~InTime(w) \/ Stopped(w)) /\ Fail(w) /\ UNCHANGED trouble
     \/ Trouble("slow") /\ Fail(w)
     \/ /\ InTime(w)
        /\ IF kind[w] = "check" THEN EndAs(w, "checked")
           ELSE \/ Goto(w, "budget") /\ UNCHANGED <<claimed, at, saved, verdict, failing>>
                \/ EndAs(w, "failed")   \* validation_failed, nothing_to_import
        /\ UNCHANGED trouble
  /\ UNCHANGED <<world, record, file, stored, silent, todo, sweep, rollback, history>>

\* Before each batch the clock ...
Budget(w) ==
  /\ pc[w] = "budget"
  /\ \/ InTime(w) /\ Goto(w, "beat") /\ UNCHANGED <<claimed, at, saved, verdict, failing,
                                                    trouble>>
     \/ ~InTime(w) /\ Fail(w) /\ UNCHANGED trouble
     \/ Trouble("slow") /\ Fail(w)
  /\ UNCHANGED <<world, record, file, stored, silent, todo, sweep, rollback, history>>

\* ... then the claim.
Beat(w) ==
  /\ pc[w] = "beat"
  /\ \/ Lost(w) /\ Release(w)
     \/ Stopped(w) /\ UndoAndEnd(w, "stopped")
     \/ ~Lost(w) /\ ~Stopped(w) /\ Goto(w, "save") /\ UNCHANGED <<claimed, at, saved,
                                                                  verdict, failing>>
  /\ UNCHANGED <<world, record, file, stored, silent, todo, sweep, rollback, history,
                 trouble>>

\* After its n-th row: the count at the end of the file, the clock at the end
\* of a batch.
AfterRow(n) ==
  IF n = RowCount THEN "count" ELSE IF n % BatchSize = 0 THEN "budget" ELSE "save"

\* save_form_response, whatever became of the import or the form meanwhile; or
\* the form is full, or changed so that the row is no longer valid.
Save(w) ==
  /\ pc[w] = "save"
  /\ \/ /\ stored' = [stored EXCEPT ![job[w]] = @ + 1]
        /\ saved' = [saved EXCEPT ![w] = @ + 1]
        /\ at' = [at EXCEPT ![w] = @ + 1]
        /\ Goto(w, AfterRow(at[w] + 1))
        /\ UNCHANGED <<claimed, verdict, failing>>
     \/ UndoAndEnd(w, "failed") /\ UNCHANGED stored
  /\ UNCHANGED <<world, record, file, silent, todo, sweep, rollback, history, trouble>>

\* A row that is not valid is skipped when the importer asked for it.  A file with no
\* valid row does not come this far (nothing_to_import).
Skip(w) ==
  /\ pc[w] = "save" /\ skips[job[w]]
  /\ saved[w] > 0 \/ at[w] + 1 < RowCount
  /\ at' = [at EXCEPT ![w] = @ + 1]
  /\ Goto(w, AfterRow(at[w] + 1))
  /\ UNCHANGED <<world, record, file, stored, silent, todo, claimed, saved, verdict,
                 failing, sweep, rollback, history, trouble>>

\* (An import that ends without counting its rows again.)
CountNothing(w) ==
  /\ pc[w] = "count"
  /\ EndAs(w, "completed")
  /\ erased' = [erased EXCEPT ![job[w]] = 0]
  /\ UNCHANGED <<world, record, file, stored, silent, todo, sweep, rollback, imported,
                 gaveUp, trouble>>

\* Exactly what this run stored must be there.
Count(w) ==
  /\ pc[w] = "count"
  /\ IF stored[job[w]] = saved[w]
     THEN EndAs(w, "completed") /\ erased' = [erased EXCEPT ![job[w]] = 0]
     ELSE UndoAndEnd(w, "failed") /\ UNCHANGED erased
  /\ UNCHANGED <<world, record, file, stored, silent, todo, sweep, rollback, imported,
                 gaveUp, trouble>>

\* A run that was superseded after its last look at the claim, when everybody else
\* had undone: all its rows are stored, it ends nothing and deletes nothing.
LeavesRows(w) == verdict[w] = "completed" /\ ~Settled(job[w])

\* _end: a run that lost its claim ends nothing; a dry run keeps the file.
End(w) ==
  /\ pc[w] = "end"
  /\ IF Lost(w)
     THEN /\ gaveUp' = [gaveUp EXCEPT ![job[w]] = @ \/ LeavesRows(w)]
          /\ Release(w)
          /\ UNCHANGED <<status, imported>>
     ELSE /\ status' = [status EXCEPT ![job[w]] = verdict[w]]
          /\ imported' = [imported EXCEPT
               ![job[w]] = IF verdict[w] = "completed" THEN saved[w] ELSE @]
          /\ IF verdict[w] = "checked" THEN Release(w)
             ELSE Goto(w, "file") /\ UNCHANGED <<claimed, at, saved, verdict, failing>>
          /\ UNCHANGED gaveUp
  /\ UNCHANGED <<world, mode, claims, stopped, undo, file, stored, silent, todo, sweep,
                 rollback, erased, trouble>>

\* _finish_file, after the end is committed; what it raises fails the run.
FinishFile(w) ==
  /\ pc[w] = "file"
  /\ \/ /\ file' = [file EXCEPT ![job[w]] = FALSE]
        /\ Release(w)
        /\ UNCHANGED trouble
     \/ Trouble("file") /\ Raise(w) /\ UNCHANGED file
  /\ UNCHANGED <<world, record, stored, silent, todo, sweep, rollback, history>>

\* Any other statement of the run raises.
StatementFails(w) ==
  /\ pc[w] \in {"admit", "read", "beat", "save", "count", "end"}
  /\ Trouble("db") /\ Raise(w)
  /\ UNCHANGED <<world, record, file, stored, silent, todo, sweep, rollback, history>>

\* The worker dies; nobody clears up after a run that had already lost its claim.
WorkerDies(w) ==
  /\ pc[w] # "idle"
  /\ Trouble("crash")
  /\ gaveUp' = [gaveUp EXCEPT ![job[w]] = IF Owned(w) THEN @ ELSE TRUE]
  /\ Release(w)
  /\ UNCHANGED <<world, record, file, stored, silent, todo, sweep, rollback, imported,
                 erased>>

-----------------------------------------------------------------------------
(* The sweep (redefer_pending every five minutes, purge_expired hourly).    *)

\* Rows may be there: _expire_job asks the row it listed, not the stored one.
MayHaveStored(i) ==
  mode[i] = "import" /\ (status[i] # "queued" \/ attempts[i] > 0)

\* (One run more than MAX_ATTEMPTS.)
OneMoreAttempt(i) == attempts[i] > MaxAttempts

OutOfAttempts(i) == attempts[i] >= MaxAttempts

\* A busy import past its hour is failed; one no worker has is queued again, and
\* failed when it was taken up too often.  queue_timeout cannot be reached: the
\* file's hour is over before the job waited an hour.
SweepLists(i) ==
  /\ sweep[i] = "none" /\ IsBusy(i)
  /\ \/ /\ past[i] \/ (started[i] /\ silent[i] /\ OutOfAttempts(i))
        /\ sweep' = [sweep EXCEPT ![i] = IF MayHaveStored(i) THEN "failUndo" ELSE "fail"]
     \/ /\ ~past[i] /\ ~Waiting(todo, i)
        /\ ~started[i] \/ (silent[i] /\ ~OutOfAttempts(i))
        /\ sweep' = [sweep EXCEPT ![i] = "queue"]
  /\ UNCHANGED <<world, record, file, stored, silent, todo, jobs, rollback, history,
                 trouble>>

SweepQueues(i) ==
  /\ sweep[i] = "queue"
  /\ Queue(i)
  /\ sweep' = [sweep EXCEPT ![i] = "none"]
  /\ UNCHANGED <<world, record, file, stored, silent, jobs, rollback, history>>

\* (A sweep that fails what it listed, whatever became of it.)
ExpiresAnyway(i) == status[i] # "gone"

\* _expire_job: under the lock only what is still busy is failed.
MayExpire(i) == IsBusy(i)

SweepFails(i) ==
  /\ sweep[i] \in {"fail", "failUndo"}
  /\ IF MayExpire(i)
     THEN /\ status' = [status EXCEPT ![i] = "failed"]
          /\ sweep' = [sweep EXCEPT ![i] = IF @ = "fail" THEN "file" ELSE "undo"]
     ELSE sweep' = [sweep EXCEPT ![i] = "none"] /\ UNCHANGED status
  /\ UNCHANGED <<world, mode, claims, stopped, undo, file, stored, silent, todo, jobs,
                 rollback, history, trouble>>

SweepUndoes(i) ==
  /\ sweep[i] = "undo"
  /\ \/ /\ stored' = [stored EXCEPT ![i] = 0]
        /\ sweep' = [sweep EXCEPT ![i] = "file"]
        /\ UNCHANGED trouble
     \/ /\ Trouble("db")
        /\ sweep' = [sweep EXCEPT ![i] = "mark"]
        /\ UNCHANGED stored
  /\ UNCHANGED <<world, record, file, silent, todo, jobs, rollback, history>>

SweepMarks(i) ==
  /\ sweep[i] = "mark"
  /\ sweep' = [sweep EXCEPT ![i] = "file"]
  /\ \/ undo' = Marked(i) /\ UNCHANGED <<gaveUp, trouble>>
     \/ /\ Trouble("db")
        /\ gaveUp' = [gaveUp EXCEPT ![i] = TRUE]
        /\ UNCHANGED undo
  /\ UNCHANGED <<world, status, mode, claims, stopped, file, stored, silent, todo,
                 jobs, rollback, imported, erased>>

SweepFinishesFile(i) ==
  /\ sweep[i] = "file"
  /\ file' = [file EXCEPT ![i] = FALSE]
  /\ sweep' = [sweep EXCEPT ![i] = "none"]
  /\ UNCHANGED <<world, record, stored, silent, todo, jobs, rollback, history, trouble>>

\* retry_pending_undos: the delete, then the mark goes.
RetryDeletes(i) ==
  /\ sweep[i] = "none" /\ Stray(i)
  /\ stored' = [stored EXCEPT ![i] = 0]
  /\ sweep' = [sweep EXCEPT ![i] = "clear"]
  /\ UNCHANGED <<world, record, file, silent, todo, jobs, rollback, history, trouble>>

RetryClears(i) ==
  /\ sweep[i] = "clear"
  /\ undo' = [undo EXCEPT ![i] = FALSE]
  /\ sweep' = [sweep EXCEPT ![i] = "none"]
  /\ gaveUp' = [gaveUp EXCEPT ![i] = @ \/ DropsMark(i)]
  /\ UNCHANGED <<world, status, mode, claims, stopped, file, stored, silent, todo, jobs,
                 rollback, imported, erased, trouble>>

\* The sweep dies, or a statement of it raises: the row is failed by then, and
\* no later sweep looks at it.
SweepDies(i) ==
  /\ sweep[i] # "none"
  /\ Trouble("crash")
  /\ gaveUp' = [gaveUp EXCEPT ![i] = IF sweep[i] \in {"undo", "mark"} THEN TRUE ELSE @]
  /\ sweep' = [sweep EXCEPT ![i] = "none"]
  /\ UNCHANGED <<world, record, file, stored, silent, todo, jobs, rollback, imported,
                 erased>>

\* (A purge of what is an hour old and not waiting for its user.)
PurgeableUnlessWaiting(i) == ~MayWait(i)

\* (A purge of files that have no row only.)
PurgeOrphanOnly(i) == status[i] = "gone"

\* file_ids_older_than: no row, or one that ended.
Purgeable(i) == status[i] \notin HasFile

PurgeFile(i) ==
  /\ file[i] /\ past[i] /\ Purgeable(i)
  /\ file' = [file EXCEPT ![i] = FALSE]
  /\ UNCHANGED <<world, record, stored, silent, todo, jobs, sweep, rollback, history,
                 trouble>>

-----------------------------------------------------------------------------
(* Time, and what else happens to the form and its people.                  *)

HourEnds(i) ==
  /\ status[i] # "none" /\ ~past[i]
  /\ past' = [past EXCEPT ![i] = TRUE]
  /\ UNCHANGED <<on, form, allowed, upload, skips, record, file, stored, silent, todo,
                 jobs, sweep, rollback, history, trouble>>

\* A run that lives beats every 20 s: only a dead one falls silent.
FallsSilent(i) ==
  /\ status[i] \in {"checking", "running"} /\ started[i] /\ ~silent[i]
  /\ \A w \in Workers : ~Owns(w, i)
  /\ silent' = [silent EXCEPT ![i] = TRUE]
  /\ UNCHANGED <<world, record, file, stored, todo, jobs, sweep, rollback, history,
                 trouble>>

Switch ==
  /\ Trouble("switch")
  /\ on' = ~on
  /\ UNCHANGED <<form, allowed, past, upload, skips, record, file, stored, silent, todo,
                 jobs, sweep, rollback, history>>

LoseRole(i) ==
  /\ allowed[i] /\ Trouble("role")
  /\ allowed' = [allowed EXCEPT ![i] = FALSE]
  /\ UNCHANGED <<on, form, past, upload, skips, record, file, stored, silent, todo, jobs,
                 sweep, rollback, history>>

\* forget_actor: the uploader's account is deleted; the confirmer may be another.
ForgetActor(i) ==
  /\ status[i] \notin {"none", "gone"} /\ Trouble("account")
  /\ stopped' = [stopped EXCEPT ![i] = IF status[i] = "running" THEN TRUE ELSE @]
  /\ status' = [status EXCEPT ![i] = IF MayWait(i) THEN "discarded" ELSE @]
  /\ file' = [file EXCEPT ![i] = IF MayWait(i) THEN FALSE ELSE @]
  /\ UNCHANGED allowed \/ allowed' = [allowed EXCEPT ![i] = FALSE]
  /\ UNCHANGED <<on, form, past, upload, skips, mode, claims, undo, stored, silent, todo,
                 jobs, sweep, rollback, history>>

\* A respondent or a member deletes one response.
EraseOne(i) ==
  /\ stored[i] > 0 /\ Trouble("erase")
  /\ stored' = [stored EXCEPT ![i] = @ - 1]
  /\ erased' = [erased EXCEPT ![i] = @ + 1]
  /\ UNCHANGED <<world, record, file, silent, todo, jobs, sweep, rollback, imported,
                 gaveUp>>

\* _delete_form: unlink, then the import rows and files, then the responses.
DeleteForm ==
  /\ UNCHANGED <<on, allowed, past, upload, skips, mode, claims, stopped, undo, silent,
                 todo, jobs, sweep, rollback, history>>
  /\ \/ /\ form = "live" /\ Trouble("form")
        /\ form' = "unlinked"
        /\ UNCHANGED <<status, file, stored>>
     \/ /\ form = "unlinked" /\ form' = "emptied"
        /\ status' = [i \in Imports |-> IF status[i] = "none" THEN "none" ELSE "gone"]
        /\ file' = [i \in Imports |-> FALSE]
        /\ UNCHANGED <<stored, trouble>>
     \/ /\ form = "emptied" /\ form' = "deleted"
        /\ stored' = [i \in Imports |-> 0]
        /\ UNCHANGED <<status, file, trouble>>

-----------------------------------------------------------------------------
Step(w) ==
  \/ Undo(w) \/ MarkUndo(w) \/ Proceed(w) \/ Read(w) \/ Budget(w) \/ Beat(w)
  \/ Save(w) \/ Skip(w) \/ Count(w) \/ End(w) \/ FinishFile(w)

Sweep(i) ==
  \/ SweepLists(i) \/ SweepQueues(i) \/ SweepFails(i) \/ SweepUndoes(i) \/ SweepMarks(i)
  \/ SweepFinishesFile(i) \/ RetryDeletes(i) \/ RetryClears(i)

Request(i) ==
  \/ Replace(i) \/ Upload(i) \/ SaveFile(i) \/ Discard(i)
  \/ RollbackDelete(i) \/ RollbackEnd(i)
  \/ \E what \in {"check", "import"} : Start(i, what)

Next ==
  \/ \E i \in Imports :
       \/ Request(i) \/ Sweep(i) \/ Expire(i) \/ PurgeFile(i) \/ SweepDies(i)
       \/ HourEnds(i) \/ FallsSilent(i) \/ LoseRole(i) \/ ForgetActor(i) \/ EraseOne(i)
  \/ \E w \in Workers :
       \/ Step(w) \/ StatementFails(w) \/ WorkerDies(w)
       \/ \E i \in Imports : Claim(w, i)
  \/ Switch \/ DeleteForm

Spec == Init /\ [][Next]_vars

\* Time passes, a living worker goes on, and the sweeps come again and again.
Fairness ==
  /\ \A w \in Workers : WF_vars(Step(w))
  /\ \A i \in Imports :
       /\ WF_vars(HourEnds(i)) /\ WF_vars(Expire(i)) /\ WF_vars(PurgeFile(i))
       /\ WF_vars(Sweep(i))

FairSpec == Spec /\ Fairness

-----------------------------------------------------------------------------
(* Properties.                                                             *)

WorldTypes ==
  /\ on \in BOOLEAN /\ form \in Forms
  /\ allowed \in [Imports -> BOOLEAN] /\ past \in [Imports -> BOOLEAN]
  /\ upload \in [Imports -> Uploads] /\ skips \in [Imports -> BOOLEAN]
  /\ spent \in [TroubleKinds -> Nat] /\ total \in Nat

RecordTypes ==
  /\ status \in [Imports -> Statuses] /\ mode \in [Imports -> Modes]
  /\ attempts \in [Imports -> 0 .. MaxAttempts] /\ started \in [Imports -> BOOLEAN]
  /\ stopped \in [Imports -> BOOLEAN] /\ undo \in [Imports -> BOOLEAN]

DataTypes ==
  /\ file \in [Imports -> BOOLEAN] /\ stored \in [Imports -> Nat]
  /\ silent \in [Imports -> BOOLEAN] /\ todo \in [Imports -> Nat]
  /\ sweep \in [Imports -> Plans]
  /\ rollback \in [Imports -> {"none", "deleted", "interrupted"}]

JobTypes ==
  /\ pc \in [Workers -> Pcs]
  /\ job \in [Workers -> Imports \cup {NoImport}]
  /\ attempt \in [Workers -> Nat] /\ kind \in [Workers -> Modes]
  /\ at \in [Workers -> Nat] /\ saved \in [Workers -> Nat] /\ verdict \in [Workers -> Verdicts]
  /\ failing \in [Workers -> BOOLEAN]

HistoryTypes ==
  /\ imported \in [Imports -> Nat] /\ erased \in [Imports -> Nat]
  /\ gaveUp \in [Imports -> BOOLEAN]

TypeOK == WorldTypes /\ RecordTypes /\ DataTypes /\ JobTypes /\ HistoryTypes

\* A completed import is all there: every row its record says it stored, less
\* those erased one by one since, until somebody asks for its undo.
CompletedIsComplete ==
  \A i \in Imports :
    status[i] = "completed" /\ rollback[i] = "none" => stored[i] + erased[i] = imported[i]

\* Someone is still at work on the import's rows.
InHand(i) ==
  \/ \E w \in Workers : pc[w] # "idle" /\ job[w] = i
  \/ sweep[i] # "none" \/ rollback[i] = "deleted"

\* All or nothing: no response of a failed or cancelled import stays behind
\* unseen: none is left, or the row says that an undo is due, or it is one of the
\* four ways `gaveUp` names in which the code itself gives the rows up.
FailedLeavesNothing ==
  \A i \in Imports :
    /\ status[i] \in {"failed", "cancelled"} /\ ~undo[i]
    /\ ~InHand(i) /\ ~gaveUp[i]
    => stored[i] = 0

\* Once its file is saved, an import that waits or is being worked on keeps it:
\* neither a purge, nor a replaced upload, nor the end of another run takes it away.
FileWaits ==
  \A i \in Imports : status[i] \in HasFile /\ upload[i] = "saved" => file[i]

\* What ended stays ended: no late run, sweep or request brings an import back
\* or ends it a second time; only a completed one is rolled back.
StaysEnded(i) ==
  status[i] \in Ended => \/ status'[i] \in {status[i], "gone"}
                         \/ status[i] = "completed" /\ status'[i] = "rolled_back"

EndedStays == [][\A i \in Imports : StaysEnded(i)]_vars

\* Every upload ends within its hour and the next sweep, whatever died on the
\* way, and its file goes for good.
UploadEnds ==
  \A i \in Imports : status[i] # "none" ~> [](status[i] \notin HasFile /\ ~file[i])


-----------------------------------------------------------------------------
(* The inductive invariant.                                                *)

Nobody(i) == \A w \in Workers : ~On(w, i)

\* Where a run is tells what it has decided and stored so far.
RunShape(w) ==
  /\ pc[w] = "idle" <=> job[w] = NoImport
  /\ pc[w] = "idle" => at[w] = 0 /\ saved[w] = 0 /\ verdict[w] = "none"
  /\ pc[w] # "idle" => kind[w] \in {"check", "import"}
  /\ pc[w] \in {"admit", "read"} => at[w] = 0 /\ saved[w] = 0 /\ verdict[w] = "none"
  /\ pc[w] \in {"budget", "beat", "save", "count"} =>
       kind[w] = "import" /\ verdict[w] = "none"
  /\ pc[w] \in {"undo", "mark"} =>
       /\ kind[w] = "import" /\ verdict[w] \in {"none", "stopped", "failed"}
       /\ verdict[w] = "none" => at[w] = 0 /\ saved[w] = 0
  /\ pc[w] = "end" => verdict[w] \in {"checked", "failed", "cancelled", "completed"}
  /\ pc[w] = "file" => verdict[w] \in {"failed", "cancelled", "completed"}
  /\ verdict[w] = "checked" => kind[w] = "check"
  /\ verdict[w] = "completed" => kind[w] = "import"
  /\ pc[w] = "count" \/ verdict[w] = "completed" => at[w] = RowCount
  /\ saved[w] <= at[w] /\ (at[w] = RowCount => saved[w] > 0)
  /\ pc[w] # "idle" /\ ~skips[job[w]] => saved[w] = at[w]
  /\ failing[w] => verdict[w] = "failed"

\* A run of an import that is not over is the only one and has the claim.
Live(w, i) ==
  /\ status[i] \in {"checking", "running"} /\ started[i] /\ ~silent[i]
  /\ attempt[w] = attempts[i] /\ pc[w] # "file"

OneRun ==
  /\ \A v, w \in Workers : job[v] = job[w] /\ job[w] # NoImport => v = w
  /\ \A w \in Workers, i \in Imports : On(w, i) =>
       /\ kind[w] = mode[i]
       /\ status[i] \in HasFile \cup {"none"} => Live(w, i)

\* What the status of a record says about the rest of it.
RecordShape(i) ==
  /\ status[i] \in {"queued", "running", "completed"} => mode[i] = "import"
  /\ status[i] \in {"checking", "checked"} => mode[i] = "check"
  /\ status[i] = "queued" => ~started[i]
  /\ IsBusy(i) /\ ~started[i] => attempts[i] = 0
  /\ status[i] = "running" => started[i] /\ attempts[i] > 0
  /\ status[i] = "none" => mode[i] = "none"
  /\ status[i] \in {"none", "queued"} \cup Waits \/ mode[i] # "import" => stored[i] = 0
  /\ form \in {"emptied", "deleted"} => status[i] \in {"none", "gone"}

\* The sweep undoes only what it failed, gives up a live run only when the import's
\* hour is over, and queues no import again that was taken up too often.
SweepShape(i) ==
  /\ sweep[i] \in {"undo", "mark", "file"} => status[i] \in {"failed", "gone"}
  /\ sweep[i] = "clear" => status[i] \in {"failed", "cancelled", "gone"}
  /\ sweep[i] \in {"fail", "failUndo"} /\ ~past[i] =>
       /\ Nobody(i) /\ ~Waiting(todo, i) /\ silent[i] /\ started[i]
       /\ status[i] \in {"checking", "running", "gone"}
  /\ sweep[i] = "queue" =>
       /\ ~Waiting(todo, i) /\ status[i] \in {"checking", "queued", "running", "gone"}
       /\ started[i] => silent[i] /\ attempts[i] < MaxAttempts
  /\ Waiting(todo, i) /\ started[i] /\ IsBusy(i) => attempts[i] < MaxAttempts

\* The rows of a run that may have been failed by the sweep meanwhile.
RowsOf(w, i) ==
  /\ pc[w] \in {"admit", "read", "file"} => Accounted(i) \/ verdict[w] = "completed"
  /\ pc[w] = "end" /\ verdict[w] # "completed" => Accounted(i)
  /\ status[i] \in {"failed", "cancelled"} =>
       /\ pc[w] \in {"beat", "file"} => Settled(i)
       /\ pc[w] = "budget" => past[i] \/ Settled(i)
       /\ pc[w] = "save" => past[i]

RowsAt(i) ==
  status[i] # "gone" =>
    /\ status[i] \in {"failed", "cancelled"} /\ Nobody(i) => Settled(i)
    /\ \A w \in Workers : On(w, i) => RowsOf(w, i)
    /\ sweep[i] = "fail" /\ IsBusy(i) =>
         /\ Accounted(i)
         /\ \A w \in Workers : On(w, i) /\ kind[w] = "import" =>
              /\ past[i]
              /\ pc[w] \in {"undo", "mark", "admit", "read", "end"}
              /\ verdict[w] # "completed"

RowsInv == \A i \in Imports : RowsAt(i)

\* Until the file is there nobody has read it.
Unread(i) ==
  /\ stored[i] = 0 /\ ~file[i]
  /\ \A w \in Workers : On(w, i) =>
       /\ pc[w] \in {"undo", "mark", "admit", "end", "file"}
       /\ verdict[w] \notin {"checked", "completed"}

UploadShape(i) ==
  /\ status[i] = "none" <=> upload[i] = "none"
  /\ upload[i] = "none" => ~file[i]
  /\ upload[i] = "arriving" \/ (upload[i] = "lost" /\ status[i] # "gone") => Unread(i)

ImportInv ==
  /\ TypeOK /\ OneRun /\ FileWaits
  /\ \A w \in Workers : RunShape(w)
  /\ \A i \in Imports : RecordShape(i) /\ SweepShape(i) /\ UploadShape(i)

\* From the count to the end of the run nobody else touches the rows; after it
\* the run only has the file to delete.
CompletionInv ==
  \A w \in Workers, i \in Imports : On(w, i) =>
    /\ pc[w] = "end" /\ verdict[w] = "completed" /\ status[i] = "running" =>
         stored[i] + erased[i] = saved[w]
    /\ status[i] = "completed" => pc[w] = "file"

-----------------------------------------------------------------------------
(* Imports, as ImportPromise promises them.                                *)

Phase(i) ==
  CASE status[i] = "none" /\ form \in {"emptied", "deleted"} -> "gone"
    [] MayWait(i) -> "waiting"
    [] IsBusy(i) -> "busy"
    [] status[i] = "completed" /\ rollback[i] # "none" -> "undoing"
    [] OTHER -> status[i]

UploadIs(i) == IF file[i] THEN "there" ELSE IF upload[i] = "arriving" THEN "due" ELSE "none"

Promise == INSTANCE ImportPromise WITH
  phase <- [i \in Imports |-> Phase(i)], rows <- stored, lost <- erased,
  upload <- [i \in Imports |-> UploadIs(i)]

\* What jobs that are claimed again, sweeps, importers, undos and the deletion of
\* the form do shows one history of an import that ends once, is completed with all
\* of its rows (or those that are valid, when asked to) or not at all, and is undone
\* when somebody asked and not before.
KeepsPromise == Promise!Spec

\* A run that may still store is of an import that is busy, failed or gone ...
Working == {"checking", "running", "failed", "gone"}

RunOfOne(w, i) ==
  On(w, i) /\ pc[w] # "file" => status[i] \in Working

\* ... and an undo is asked for after the end, and leaves nothing.
UndoneIsEmpty(i) ==
  /\ status[i] \in {"none"} \cup HasFile => rollback[i] = "none"
  /\ status[i] = "rolled_back" \/ (status[i] = "completed" /\ rollback[i] # "none")
       => stored[i] = 0

PromiseInv ==
  /\ \A w \in Workers, i \in Imports : RunOfOne(w, i)
  /\ \A i \in Imports : UndoneIsEmpty(i)
=============================================================================
