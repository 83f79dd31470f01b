----------------------------- MODULE TaskRunner ------------------------------
(***************************************************************************)
(* The admin portal's task runner (backend/admin/tasks/runner): requests   *)
(* in the table tasks.runs, claimed, gated, locked, run and finished by    *)
(* runner processes that hold a lease on the run they execute, and taken   *)
(* over when the lease lapses.  The portal side (admin/services/           *)
(* task_pages.py) queues requests, resumes and cancellations.              *)
(*                                                                         *)
(* A runner goes through                                                   *)
(*                                                                         *)
(*   idle -> gate -> acquire -> body -> work -> mark -> body ... -> finish *)
(*   idle -> takeover -> idle                                              *)
(*                                                                         *)
(* and every arrow is a place where other processes run.  Each action on   *)
(* the tables is one transaction of the code.  The heartbeat's clock is    *)
(* reduced to fresh[i]: the lease and its grace have not lapsed.           *)
(***************************************************************************)
EXTENDS Naturals, FiniteSets

CONSTANTS Tasks, ResourceNames,
          Resources,               \* declared resources of each task
          Mutating, Resumable, Idempotent,  \* subsets of Tasks
          Runners, NoRunner, Admins,
          MaxRuns, Batches,        \* bounds: requests, and batches of a body
          MaxClaimAttempts,        \* runner.py: 3
          FinishRetries,           \* runner.py: 3
          Troubles, MaxTrouble,    \* kinds of trouble admitted, and how many
          SlowRunners              \* whether a lease can lapse under a live one

TroubleKinds == {"crash", "db", "stop", "cancel", "bad request"}

ASSUME TaskAssumption ==
  /\ Tasks # {} /\ NoRunner \notin Runners
  /\ Resources \in [Tasks -> SUBSET ResourceNames]
  /\ Mutating \subseteq Tasks /\ Resumable \subseteq Tasks /\ Idempotent \subseteq Tasks
  /\ MaxRuns \in Nat /\ Batches \in Nat
  /\ MaxClaimAttempts \in Nat \ {0} /\ FinishRetries \in Nat
  /\ Troubles \subseteq TroubleKinds /\ MaxTrouble \in Nat
  /\ SlowRunners \in BOOLEAN

Runs == 1 .. MaxRuns
None == 0

ActiveStates    == {"queued", "running"}
ResumableStates == {"failed", "interrupted", "cancelled"}
TerminalStates  == ResumableStates \cup {"succeeded", "refused"}

\* lock_names: one lock for the task, one per declared resource, and one that
\* all mutating tasks share.
LockNames(t) ==
  {<<"task", t>>} \cup ({"resource"} \X Resources[t])
    \cup (IF t \in Mutating THEN {<<"mutating", "global">>} ELSE {})
Locks == UNION {LockNames(t) : t \in Tasks}

VARIABLES
  \* tasks.runs, tasks.locks, tasks.checkpoints
  state, task, request, resumes, cancel, owner, attempts, fresh,
  lock, ckpt,
  committed,   \* batches committed, by the first run of a chain of resumes
  \* each runner process
  pc, cur, at, final, tries, lost, stopping,
  asking,      \* portal: the run each admin's resume request has checked
  \* history
  root,        \* the first run of the chain
  started, ended,  \* audit rows task.run.started and task.run.finished
  early,       \* cancellation was asked for while the run was queued
  trouble

db      == <<state, task, request, resumes, cancel, owner, attempts, fresh>>
runner  == <<pc, cur, at, final, tries, lost, stopping>>
history == <<root, started, ended, early>>
vars    == <<db, lock, ckpt, committed, runner, asking, history, trouble>>

InBody    == {"body", "work", "mark"}
Executing == {"gate", "acquire", "finish"} \cup InBody
Pcs       == {"idle", "takeover"} \cup Executing

Trouble(kind) ==
  /\ kind \in Troubles
  /\ trouble < MaxTrouble
  /\ trouble' = trouble + 1

Init ==
  /\ state = [i \in Runs |-> "none"]
  /\ task = [i \in Runs |-> CHOOSE t \in Tasks : TRUE]
  /\ request = [i \in Runs |-> "ok"]
  /\ resumes = [i \in Runs |-> None]
  /\ cancel = [i \in Runs |-> FALSE]
  /\ owner = [i \in Runs |-> NoRunner]
  /\ attempts = [i \in Runs |-> 0]
  /\ fresh = [i \in Runs |-> FALSE]
  /\ lock = [n \in Locks |-> None]
  /\ ckpt = [i \in Runs |-> 0]
  /\ committed = [i \in Runs |-> {}]
  /\ pc = [w \in Runners |-> "idle"]
  /\ cur = [w \in Runners |-> None]
  /\ at = [w \in Runners |-> 0]
  /\ final = [w \in Runners |-> "none"]
  /\ tries = [w \in Runners |-> 0]
  /\ lost = [w \in Runners |-> FALSE]
  /\ stopping = [w \in Runners |-> FALSE]
  /\ asking = [a \in Admins |-> None]
  /\ root = [i \in Runs |-> i]
  /\ started = [i \in Runs |-> 0]
  /\ ended = [i \in Runs |-> 0]
  /\ early = [i \in Runs |-> FALSE]
  /\ trouble = 0

-----------------------------------------------------------------------------
(* The portal.                                                             *)

Unused(i) == state[i] = "none" /\ \A j \in Runs : j < i => state[j] # "none"

\* A run is inserted queued and untouched (the insert guard of the table);
\* p is the run it resumes.
Insert(i, t, kind, p) ==
  /\ Unused(i)
  /\ state' = [state EXCEPT ![i] = "queued"]
  /\ task' = [task EXCEPT ![i] = t]
  /\ request' = [request EXCEPT ![i] = kind]
  /\ resumes' = [resumes EXCEPT ![i] = p]
  /\ root' = [root EXCEPT ![i] = IF p = None THEN i ELSE root[p]]
  /\ UNCHANGED <<cancel, owner, attempts, fresh, started, ended, early>>

\* A row without a valid signature is one nothing in the portal wrote.
RequestRun(t) ==
  /\ \E i \in Runs : \/ Insert(i, t, "ok", None) /\ UNCHANGED trouble
                     \/ Insert(i, t, "unsigned", None) /\ Trouble("bad request")
  /\ UNCHANGED <<lock, ckpt, committed, runner, asking>>

\* An earlier resume of the run went through.
Replayed(p) == \E i \in Runs : resumes[i] = p /\ state[i] = "succeeded"

\* request_resume looks (_resume_check) and then inserts, in a transaction that
\* sees what was committed by then and locks nothing.
ResumeCheck(a, p) ==
  /\ asking[a] = None
  /\ state[p] \in ResumableStates /\ task[p] \in Resumable
  /\ ~\E i \in Runs : resumes[i] = p /\ state[i] \in ActiveStates
  /\ task[p] \in Idempotent \/ ~Replayed(p)
  /\ asking' = [asking EXCEPT ![a] = p]
  /\ UNCHANGED <<db, lock, ckpt, committed, runner, history, trouble>>

ResumeInsert(a) ==
  /\ asking[a] # None
  /\ \E i \in Runs : Insert(i, task[asking[a]], "ok", asking[a])
  /\ asking' = [asking EXCEPT ![a] = None]
  /\ UNCHANGED <<lock, ckpt, committed, runner, trouble>>

RequestCancel(i) ==
  /\ state[i] \in ActiveStates /\ ~cancel[i]
  /\ Trouble("cancel")
  /\ cancel' = [cancel EXCEPT ![i] = TRUE]
  /\ early' = [early EXCEPT ![i] = state[i] = "queued"]
  /\ UNCHANGED <<state, task, request, resumes, owner, attempts, fresh, lock, ckpt,
                 committed, runner, asking, root, started, ended>>

\* A queued request grows older than a day, or a release changes its task.
RequestAges(i) ==
  /\ state[i] = "queued" /\ request[i] = "ok"
  /\ Trouble("bad request")
  /\ request' = [request EXCEPT ![i] = "stale"]
  /\ UNCHANGED <<state, task, resumes, cancel, owner, attempts, fresh, lock, ckpt,
                 committed, runner, asking, history>>

-----------------------------------------------------------------------------
(* Claiming.                                                               *)

Goto(w, label) == pc' = [pc EXCEPT ![w] = label]

\* The process looks for the next thing to do.
Reset(w) ==
  /\ Goto(w, "idle")
  /\ cur' = [cur EXCEPT ![w] = None]
  /\ at' = [at EXCEPT ![w] = 0]
  /\ final' = [final EXCEPT ![w] = "none"]
  /\ tries' = [tries EXCEPT ![w] = 0]
  /\ lost' = [lost EXCEPT ![w] = FALSE]

Claimable(i) == state[i] = "queued" /\ attempts[i] < MaxClaimAttempts
Oldest(i) == Claimable(i) /\ \A j \in Runs : Claimable(j) => i <= j

\* (A cancellation that only a running task notices.)
AdmittedIfSigned(i) == request[i] = "ok"

Admitted(i) == request[i] = "ok" /\ ~cancel[i]

\* A claimed row ends here, with its task.run.finished, unless nobody signed it
\* (those share one task.run.quarantined row).
EndUnclaimed(i, s, audited) ==
  /\ state' = [state EXCEPT ![i] = s]
  /\ ended' = [ended EXCEPT ![i] = @ + audited]
  /\ UNCHANGED <<owner, fresh, started, pc, cur>>

Claim(w) ==
  /\ pc[w] = "idle" /\ ~stopping[w]
  /\ \E i \in Runs :
       /\ Oldest(i)
       /\ \/ request[i] = "unsigned" /\ EndUnclaimed(i, "refused", 0)
          \/ request[i] # "unsigned" /\ cancel[i] /\ EndUnclaimed(i, "cancelled", 1)
          \/ request[i] = "stale" /\ ~cancel[i] /\ EndUnclaimed(i, "refused", 1)
          \/ /\ Admitted(i)
             /\ state' = [state EXCEPT ![i] = "running"]
             /\ owner' = [owner EXCEPT ![i] = w]
             /\ fresh' = [fresh EXCEPT ![i] = TRUE]
             /\ started' = [started EXCEPT ![i] = @ + 1]
             /\ Goto(w, "gate")
             /\ cur' = [cur EXCEPT ![w] = i]
             /\ UNCHANGED ended
  /\ UNCHANGED <<task, request, resumes, cancel, attempts, lock, ckpt, committed,
                 at, final, tries, lost, stopping, asking, root, early, trouble>>

\* The last row of a claim that went past unsigned ones.
Reached(i) ==
  /\ Claimable(i)
  /\ \A j \in Runs : Claimable(j) /\ j < i => request[j] = "unsigned"

\* A claim that raises rolls back, refusals of unsigned rows included, and
\* counts an attempt on the row it had reached.
ClaimFails(w) ==
  /\ pc[w] = "idle" /\ ~stopping[w]
  /\ Trouble("db")
  /\ \E i \in Runs : Reached(i) /\ attempts' = [attempts EXCEPT ![i] = @ + 1]
  /\ UNCHANGED <<state, task, request, resumes, cancel, owner, fresh, lock, ckpt,
                 committed, runner, asking, history>>

\* (Neither claimed nor settled once its attempts are used up.)
PoisonedBeyond(i) == state[i] = "queued" /\ attempts[i] > MaxClaimAttempts

Poisoned(i) == state[i] = "queued" /\ attempts[i] >= MaxClaimAttempts

\* settle_poisoned: a run no claim could take ends failed.
SettlePoisoned(w) ==
  /\ pc[w] = "idle" /\ ~stopping[w]
  /\ \E i \in Runs :
       /\ Poisoned(i)
       /\ state' = [state EXCEPT ![i] = "failed"]
       /\ ended' = [ended EXCEPT ![i] = @ + 1]
  /\ UNCHANGED <<task, request, resumes, cancel, owner, attempts, fresh, lock, ckpt,
                 committed, runner, asking, root, started, early, trouble>>

-----------------------------------------------------------------------------
(* Executing.                                                              *)

\* (The runner that claimed it, whatever became of the run since.)
ClaimedBy(w) == owner[cur[w]] = w

Owned(w) == state[cur[w]] = "running" /\ owner[cur[w]] = w

Conclude(w, s) ==
  /\ Goto(w, "finish")
  /\ final' = [final EXCEPT ![w] = s]
  /\ UNCHANGED <<cur, at, tries, lost, stopping>>

\* The resume rules of _gate.
ResumeAllowed(i) ==
  LET p == resumes[i] IN
  p # None =>
    /\ task[i] \in Resumable
    /\ task[p] = task[i] /\ state[p] \in ResumableStates
    /\ task[i] \in Idempotent \/ ~Replayed(p)

\* Gates, precheck and fingerprint: the run is refused by a resume rule, or for
\* what the task or its data say (a missing dry run, a precheck), or goes on.
Gate(w) ==
  /\ pc[w] = "gate"
  /\ \/ Conclude(w, "refused")
     \/ /\ ResumeAllowed(cur[w])
        /\ Goto(w, "acquire")
        /\ UNCHANGED <<cur, at, final, tries, lost, stopping>>
  /\ UNCHANGED <<db, lock, ckpt, committed, asking, history, trouble>>

\* (The batch after the one to go on with.)
StartAfter(i) == IF resumes[i] = None THEN 0 ELSE ckpt[resumes[i]] + 1

\* What load_checkpoint finds for a run that has none of its own yet.
StartAt(i) == IF resumes[i] = None THEN 0 ELSE ckpt[resumes[i]]

\* (Another run's locks cleared while it is still running.)
LocksSwept == [n \in Locks |-> None]

\* Locks of runs that are not running are cleared, then all of the task's locks
\* are taken, or none.
LocksLeft == [n \in Locks |->
  IF lock[n] # None /\ state[lock[n]] # "running" THEN None ELSE lock[n]]

Acquire(w) ==
  /\ pc[w] = "acquire"
  /\ LET mine == LockNames(task[cur[w]]) IN
     \/ /\ ~Owned(w)                                    \* LeaseLost
        /\ Reset(w) /\ UNCHANGED <<lock, stopping>>
     \/ /\ Owned(w) /\ \A n \in mine : LocksLeft[n] = None
        /\ lock' = [n \in Locks |-> IF n \in mine THEN cur[w] ELSE LocksLeft[n]]
        /\ at' = [at EXCEPT ![w] = StartAt(cur[w])]
        /\ Goto(w, "body")
        /\ UNCHANGED <<cur, final, tries, lost, stopping>>
     \/ /\ Owned(w) /\ \E n \in mine : LocksLeft[n] # None
        /\ Conclude(w, "refused") /\ UNCHANGED lock     \* lock_held
  /\ UNCHANGED <<db, ckpt, committed, asking, history, trouble>>

\* Between batches the body asks ctx.cancelled(): a lost lease, a stopping
\* runner or a cancel request end it early, with what the loop saw.  A task may
\* also decline (Refusal) or raise there (a scan that was cut short, counts that
\* forbid the change) and after its last batch.
Stopped(w) == lost[w] \/ stopping[w] \/ cancel[cur[w]]

\* (A body that stopped early and returned as if it were done.)
OutcomeOfReturn(w) == "succeeded"

Outcome(w) == IF lost[w] THEN "succeeded"
              ELSE IF stopping[w] THEN "interrupted" ELSE "cancelled"

\* How a run ends whose body raises: a TaskError or any other, or a Refusal.
Declined == {"failed", "refused"}

Body(w) ==
  /\ pc[w] = "body"
  /\ \/ at[w] = Batches /\ Conclude(w, "succeeded")
     \/ at[w] < Batches /\ Stopped(w) /\ Conclude(w, Outcome(w))
     \/ /\ at[w] = Batches \/ Stopped(w)
        /\ \E s \in Declined : Conclude(w, s)
     \/ /\ at[w] < Batches /\ ~Stopped(w)
        /\ Goto(w, "work")
        /\ UNCHANGED <<cur, at, final, tries, lost, stopping>>
  /\ UNCHANGED <<db, lock, ckpt, committed, asking, history, trouble>>

\* One batch commits; it may also be where the task raises or declines.
Work(w) ==
  /\ pc[w] = "work"
  /\ \/ (\E s \in Declined : Conclude(w, s)) /\ UNCHANGED committed
     \/ /\ committed' = [committed EXCEPT ![root[cur[w]]] = @ \cup {at[w] + 1}]
        /\ Goto(w, "mark")
        /\ UNCHANGED <<cur, at, final, tries, lost, stopping>>
  /\ UNCHANGED <<db, lock, ckpt, asking, history, trouble>>

\* ctx.checkpoint: refused by a context that knows its lease is lost; the
\* statement itself does not look at the run's state.
Mark(w) ==
  /\ pc[w] = "mark"
  /\ \/ lost[w] /\ Reset(w) /\ UNCHANGED <<ckpt, stopping>>
     \/ /\ ~lost[w]
        /\ ckpt' = [ckpt EXCEPT ![cur[w]] = at[w] + 1]
        /\ at' = [at EXCEPT ![w] = @ + 1]
        /\ Goto(w, "body")
        /\ UNCHANGED <<cur, final, tries, lost, stopping>>
  /\ UNCHANGED <<db, lock, committed, asking, history, trouble>>

\* (A run that ends and leaves its locks to somebody else.)
LeaveLocks(i) == lock

FreeLocks(i) == [n \in Locks |-> IF lock[n] = i THEN None ELSE lock[n]]

\* State, locks and audit row in one transaction, for the runner that still
\* owns the run; for any other it is LeaseLost.
Finish(w) ==
  /\ pc[w] = "finish"
  /\ IF Owned(w)
     THEN /\ state' = [state EXCEPT ![cur[w]] = final[w]]
          /\ lock' = FreeLocks(cur[w])
          /\ ended' = [ended EXCEPT ![cur[w]] = @ + 1]
     ELSE UNCHANGED <<state, lock, ended>>
  /\ Reset(w)
  /\ UNCHANGED <<task, request, resumes, cancel, owner, attempts, fresh, ckpt,
                 committed, stopping, asking, root, started, early, trouble>>

\* The transaction fails (the log refuses the row): tried again, and given up
\* after the last retry, the run left running.
FinishFails(w) ==
  /\ pc[w] = "finish"
  /\ Trouble("db")
  /\ IF tries[w] < FinishRetries
     THEN tries' = [tries EXCEPT ![w] = @ + 1] /\ UNCHANGED <<pc, cur, at, final, lost>>
     ELSE Reset(w)
  /\ UNCHANGED <<db, lock, ckpt, committed, stopping, asking, history>>

-----------------------------------------------------------------------------
(* Leases.                                                                 *)

Executes(w, i) == cur[w] = i /\ pc[w] \in Executing

\* The heartbeat task of a runner that executes; it is what tells the context
\* that the run was taken over.
Beat(w) ==
  /\ pc[w] \in Executing
  /\ IF Owned(w)
     THEN fresh' = [fresh EXCEPT ![cur[w]] = TRUE] /\ UNCHANGED lost
     ELSE lost' = [lost EXCEPT ![w] = TRUE] /\ UNCHANGED fresh
  /\ UNCHANGED <<state, task, request, resumes, cancel, owner, attempts, lock, ckpt,
                 committed, pc, cur, at, final, tries, stopping, asking, history, trouble>>

\* Lease and grace pass without a heartbeat: nobody executes the run any more,
\* or (SlowRunners) its runner was stalled or cut off from the database.
Lapse(i) ==
  /\ state[i] = "running" /\ fresh[i]
  /\ SlowRunners \/ ~\E w \in Runners : Executes(w, i)
  /\ fresh' = [fresh EXCEPT ![i] = FALSE]
  /\ UNCHANGED <<state, task, request, resumes, cancel, owner, attempts, lock, ckpt,
                 committed, runner, asking, history, trouble>>

\* takeover_stale lists the stale runs ...
TakeoverRead(w) ==
  /\ pc[w] = "idle" /\ ~stopping[w]
  /\ \E i \in Runs :
       /\ state[i] = "running" /\ ~fresh[i]
       /\ cur' = [cur EXCEPT ![w] = i]
  /\ Goto(w, "takeover")
  /\ UNCHANGED <<db, lock, ckpt, committed, at, final, tries, lost, stopping,
                 asking, history, trouble>>

\* ... and ends each one that still is.
Takeover(w) ==
  /\ pc[w] = "takeover"
  /\ IF state[cur[w]] = "running" /\ ~fresh[cur[w]]
     THEN /\ state' = [state EXCEPT ![cur[w]] = "interrupted"]
          /\ lock' = FreeLocks(cur[w])
          /\ ended' = [ended EXCEPT ![cur[w]] = @ + 1]
     ELSE UNCHANGED <<state, lock, ended>>
  /\ Reset(w)
  /\ UNCHANGED <<task, request, resumes, cancel, owner, attempts, fresh, ckpt,
                 committed, stopping, asking, root, started, early, trouble>>

-----------------------------------------------------------------------------
(* Processes.                                                              *)

Crash(w) ==
  /\ pc[w] # "idle"
  /\ Trouble("crash")
  /\ Reset(w)
  /\ stopping' = [stopping EXCEPT ![w] = FALSE]
  /\ UNCHANGED <<db, lock, ckpt, committed, asking, history>>

Stop(w) ==
  /\ ~stopping[w]
  /\ Trouble("stop")
  /\ stopping' = [stopping EXCEPT ![w] = TRUE]
  /\ UNCHANGED <<db, lock, ckpt, committed, pc, cur, at, final, tries, lost,
                 asking, history>>

\* The process left its loop and is started again.
Restart(w) ==
  /\ stopping[w] /\ pc[w] = "idle"
  /\ stopping' = [stopping EXCEPT ![w] = FALSE]
  /\ UNCHANGED <<db, lock, ckpt, committed, pc, cur, at, final, tries, lost,
                 asking, history, trouble>>

Execute(w) == Gate(w) \/ Acquire(w) \/ Body(w) \/ Work(w) \/ Mark(w) \/ Finish(w)
Serve(w)   == TakeoverRead(w) \/ Takeover(w) \/ SettlePoisoned(w) \/ Claim(w)

Portal == \/ \E t \in Tasks : RequestRun(t)
          \/ \E a \in Admins : ResumeInsert(a) \/ \E p \in Runs : ResumeCheck(a, p)
          \/ \E i \in Runs : RequestCancel(i) \/ RequestAges(i)
Process == \E w \in Runners :
             \/ Execute(w) \/ Serve(w) \/ Beat(w)
             \/ ClaimFails(w) \/ FinishFails(w)
             \/ Crash(w) \/ Stop(w) \/ Restart(w)

Next == Portal \/ Process \/ \E i \in Runs : Lapse(i)

Spec == Init /\ [][Next]_vars

\* Runner processes execute, poll and are started again, their heartbeats run,
\* and time passes for a lease nobody renews.
Fairness ==
  /\ \A w \in Runners : WF_vars(Execute(w)) /\ WF_vars(Serve(w)) /\ WF_vars(Restart(w))
  /\ \A i \in Runs : WF_vars(Lapse(i))

FairSpec == Spec /\ Fairness

-----------------------------------------------------------------------------
TableTypes ==
  /\ state \in [Runs -> {"none"} \cup ActiveStates \cup TerminalStates]
  /\ task \in [Runs -> Tasks]
  /\ request \in [Runs -> {"ok", "unsigned", "stale"}]
  /\ resumes \in [Runs -> Runs \cup {None}]
  /\ cancel \in [Runs -> BOOLEAN]
  /\ owner \in [Runs -> Runners \cup {NoRunner}]
  /\ attempts \in [Runs -> 0 .. MaxClaimAttempts]
  /\ fresh \in [Runs -> BOOLEAN]
  /\ lock \in [Locks -> Runs \cup {None}]
  /\ ckpt \in [Runs -> 0 .. Batches]
  /\ committed \in [Runs -> SUBSET (1 .. Batches)]

RunnerTypes ==
  /\ pc \in [Runners -> Pcs]
  /\ cur \in [Runners -> Runs \cup {None}]
  /\ at \in [Runners -> 0 .. Batches]
  /\ final \in [Runners -> {"none"} \cup TerminalStates]
  /\ tries \in [Runners -> 0 .. FinishRetries]
  /\ lost \in [Runners -> BOOLEAN]
  /\ stopping \in [Runners -> BOOLEAN]

HistoryTypes ==
  /\ asking \in [Admins -> Runs \cup {None}]
  /\ root \in [Runs -> Runs]
  /\ started \in [Runs -> Nat] /\ ended \in [Runs -> Nat]
  /\ early \in [Runs -> BOOLEAN]
  /\ trouble \in 0 .. MaxTrouble

TypeOK == TableTypes /\ RunnerTypes /\ HistoryTypes

Conflict(i, j) == LockNames(task[i]) \cap LockNames(task[j]) # {}

\* Two bodies that share a lock never both run under their lease, whatever
\* runners stall, die, are taken over or come back (TaskMeta.resources, and rule 3 of runner.py).
ExclusiveLeases ==
  \A v, w \in Runners :
    /\ v # w /\ pc[v] \in InBody /\ pc[w] \in InBody
    /\ Owned(v) /\ Owned(w)
    => ~Conflict(cur[v], cur[w])

\* As long as only dead runners are taken over, two bodies that share a lock do
\* not overlap at all, lease or not.
ExclusiveBodies ==
  \A v, w \in Runners :
    v # w /\ pc[v] \in InBody /\ pc[w] \in InBody => ~Conflict(cur[v], cur[w])

\* No lock outlives its run: finishing and taking over free every lock in the
\* transaction that ends the run, so nothing is refused lock_held for ever.
NoOrphanLocks == \A n \in Locks : lock[n] # None => state[lock[n]] = "running"

\* Every run that ended has one task.run.finished row, and none before: a
\* finish, a takeover, a refusal and a settling never both end one run.  Only an
\* unsigned request that was refused has none (claim failures may settle it).
Quarantined(i) == request[i] = "unsigned" /\ state[i] = "refused"

EndedOnce ==
  \A i \in Runs :
    ended[i] = IF state[i] \in TerminalStates /\ ~Quarantined(i) THEN 1 ELSE 0

\* A cancellation asked for while the run was queued means the run never starts.
CancelledBeforeStart == \A i \in Runs : early[i] => started[i] = 0

\* A run that is recorded as succeeded has seen every batch committed, by itself
\* or by the runs it resumes: an early end, a lost lease or a checkpoint of a
\* dead run never pass for success.
SucceededIsComplete ==
  \A i \in Runs : state[i] = "succeeded" => committed[root[i]] = 1 .. Batches

\* "A second resume of a run is refused once an earlier resume of it has
\* succeeded, unless the task is safe to replay" (spec.py:134).
ResumedOnce ==
  \A i, j \in Runs :
    /\ i # j /\ resumes[i] # None /\ resumes[i] = resumes[j]
    /\ state[i] = "succeeded" /\ state[j] = "succeeded"
    => task[i] \in Idempotent

\* What was recorded as a run's end is not rewritten, by a late finish of a
\* runner that lost its lease or by a takeover of a run that just finished.
EndIsFinal ==
  [][\A i \in Runs : state[i] \in TerminalStates => state'[i] = state[i]]_vars

\* Every queued request ends, through crashes, failing claims and finishes, and
\* restarts of the runners.
EventuallyEnds ==
  \A i \in Runs : state[i] = "queued" ~> state[i] \in TerminalStates

-----------------------------------------------------------------------------
(* Why they hold: the inductive invariant of TaskRunner_proofs.            *)

Began(i) == state[i] \notin {"none", "queued"}

\* Where a runner is says what it knows of its run.
Placed(w) ==
  /\ pc[w] # "idle" => cur[w] \in Runs /\ Began(cur[w])
  /\ pc[w] \in {"work", "mark"} => at[w] < Batches
  /\ pc[w] = "finish" => final[w] \in TerminalStates
  /\ lost[w] => pc[w] \in Executing /\ ~Owned(w)

Holds(w) == \A n \in LockNames(task[cur[w]]) : lock[n] = cur[w]

\* A body whose lease is intact holds every lock of its task.
LockedBody(w) == pc[w] \in InBody /\ Owned(w) => Holds(w)

\* What was started or asked for before a run began.
Recorded(i) ==
  /\ ~Began(i) => started[i] = 0 /\ ckpt[i] = 0
  /\ early[i] => cancel[i]
  /\ state[i] = "running" => request[i] # "unsigned"
  /\ resumes[i] # None => Began(resumes[i]) /\ root[i] = root[resumes[i]]

\* Every checkpoint, of a live run or a dead one, stands for committed batches.
Done(i, n) == 1 .. n \subseteq committed[root[i]]

Saved(i) == Done(i, ckpt[i])

Committed(w) ==
  /\ pc[w] \in InBody => Done(cur[w], at[w])
  /\ pc[w] = "mark" => Done(cur[w], at[w] + 1)
  /\ pc[w] = "finish" /\ final[w] = "succeeded" /\ Owned(w) => Done(cur[w], Batches)

RunnerInv ==
  /\ \A w \in Runners : Placed(w) /\ LockedBody(w) /\ Committed(w)
  /\ \A i \in Runs : Recorded(i) /\ Saved(i)
  /\ \A a \in Admins : asking[a] # None => Began(asking[a])

Unlocked(w) == \A n \in Locks : lock[n] # cur[w]

\* A runner that executes a run owns it, and if the run is over it was taken over.
Engaged(w) ==
  pc[w] \in Executing =>
    owner[cur[w]] = w /\ state[cur[w]] \in {"running", "interrupted"}

\* What it is about to record is what it went through: it has no lock before its
\* body, every lock when it comes out of it, one or the other when it is refused,
\* and was cancelled on request.
Reported(w) ==
  /\ pc[w] \in {"gate", "acquire"} => ~Owned(w) \/ Unlocked(w)
  /\ pc[w] = "finish" /\ final[w] = "refused" => ~Owned(w) \/ Unlocked(w) \/ Holds(w)
  /\ pc[w] = "finish" /\ final[w] \in {"succeeded", "failed", "cancelled"}
       => ~Owned(w) \/ Holds(w)
  /\ pc[w] = "finish" /\ final[w] = "cancelled" => cancel[cur[w]]

LifeInv ==
  /\ \A w \in Runners : Engaged(w) /\ Reported(w)
  /\ \A a \in Admins : asking[a] # None =>
       state[asking[a]] \in ResumableStates /\ task[asking[a]] \in Resumable

-----------------------------------------------------------------------------
(* Runs, as RunLife promises them.                                         *)

Life == INSTANCE RunLife WITH
  Needs <- [t \in Tasks |-> LockNames(t)], Nobody <- None, Overrun <- SlowRunners,
  signed <- [i \in Runs |-> request[i] # "unsigned"], asked <- cancel, chain <- root,
  done <- committed, holder <- lock, rows <- ended

\* Whatever runners, leases, heartbeats, takeovers, retries and the portal do, a run
\* lives as the portal tells it: begun once and not after a cancellation, batches
\* committed in order under all of its locks, one end, audited and unlocked with it.
KeepsLife == Life!Spec
=============================================================================
