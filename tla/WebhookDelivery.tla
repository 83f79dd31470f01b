--------------------------- MODULE WebhookDelivery ---------------------------
(***************************************************************************)
(* Webhook deliveries: the hand-off of a stored submission, the delivery   *)
(* job (app/services/webhooks/service.py), the sweep that queues runs      *)
(* again, and what goes on around them (edits of the webhook, erasure of   *)
(* the submission, deletion of the form, purge, the feature's switch,      *)
(* crashes and failing statements).                                        *)
(*                                                                         *)
(* A delivery is named by its log id: a hook paired with the submission    *)
(* (or the test event) it is about.  A worker takes a job through          *)
(*                                                                         *)
(*   idle -> start -> attempt -> check -> post -> save (-> requeue) -> idle *)
(*                                                                         *)
(* where every arrow is an await of the code other actors can run in.  A   *)
(* worker keeps the row AS IT WAS CLAIMED in doc[w] and stores that copy   *)
(* back whole, as the code does.                                           *)
(***************************************************************************)
EXTENDS ActionLog, JobQueue

CONSTANTS Hooks, Responses, Tests, Workers,
          MovedHooks,       \* hooks that replaced an action of the form
          MaxAttempts,      \* retry.py: 6
          NoLog,
          Troubles,         \* the kinds of trouble a run admits
          MaxTrouble,       \* how many of them, in all
          Races             \* the windows of unguarded saves a run admits

TroubleKinds ==
  {"crash", "db", "queue", "edit", "erase", "purge", "form", "switch"}
RaceKinds == {"slow worker", "late job", "parking"}

Subjects == Responses \cup Tests
Logs     == Hooks \X Subjects

ASSUME DeliveryAssumption ==
  /\ Responses \cap Tests = {}
  /\ MovedHooks \subseteq Hooks
  /\ MaxAttempts \in Nat \ {0}
  /\ NoLog \notin Logs
  /\ Troubles \subseteq TroubleKinds
  /\ MaxTrouble \in Nat
  /\ Races \subseteq RaceKinds

HookOf(l)    == l[1]
SubjectOf(l) == l[2]
IsTest(l)    == SubjectOf(l) \in Tests
LogsOf(r)    == {l \in Logs : SubjectOf(l) = r}

VARIABLES
  on,        \* WEBHOOKS_ENABLED, a live setting
  form,      \* the form the hooks belong to
  hook,      \* form_webhooks: state and host of each
  resp,      \* the stored submissions
  handoff,   \* what a submit request still has to hand off (host it read)
  row,       \* action_logs
  todo,      \* the waiting jobs
  pc, job, run, doc, dest, verdict,  \* each worker's attempt
  rescue,    \* rows the sweep has read and not handled yet
  \* history
  shown,     \* the host a delivery was created for
  late,      \* workers whose submission was erased before their last look
  sent,      \* POSTs made for a delivery
  accepted,  \* of them, those the destination answered with 2xx
  lost,      \* attempts whose end the row never learned
  trouble

worker  == <<pc, job, run, doc, dest, verdict>>
history == <<shown, late, sent, accepted, lost>>
vars == <<on, form, hook, resp, handoff, row, todo, worker, rescue, history, trouble>>

Pcs      == {"idle", "start", "park", "attempt", "check", "post", "save", "requeue"}
Holding  == {"attempt", "check", "post", "save"}   \* between claim and save
Verdicts == {"none"} \cup FinalStates \cup {"retrying"}

Holds(w, l) == job[w] = l /\ pc[w] \in Holding

Trouble(kind) ==
  /\ kind \in Troubles
  /\ trouble < MaxTrouble
  /\ trouble' = trouble + 1

Init ==
  /\ on = TRUE
  /\ form = "live"
  /\ hook \in [Hooks -> [state : {"off", "on"}, host : Hosts]]
  /\ resp = [r \in Responses |-> "absent"]
  /\ handoff = [l \in Logs |-> NoHost]
  /\ row = [l \in Logs |-> Absent]
  /\ todo = [l \in Logs |-> NoJob]
  /\ pc = [w \in Workers |-> "idle"]
  /\ job = [w \in Workers |-> NoLog]
  /\ run = [w \in Workers |-> 0]
  /\ doc = [w \in Workers |-> Absent]
  /\ dest = [w \in Workers |-> NoHost]
  /\ verdict = [w \in Workers |-> "none"]
  /\ rescue = [l \in Logs |-> Absent]
  /\ shown = [l \in Logs |-> NoHost]
  /\ late = [w \in Workers |-> FALSE]
  /\ sent = [l \in Logs |-> 0]
  /\ accepted = [l \in Logs |-> 0]
  /\ lost = [l \in Logs |-> 0]
  /\ trouble = 0

-----------------------------------------------------------------------------
(* The submit request: store, then one row and one job per enabled hook.   *)

\* A moved hook is left out when the executor was given the action it replaced
\* in this submission's own snapshot of the form.
Submit(r) ==
  /\ form = "live" /\ resp[r] = "absent"
  /\ resp' = [resp EXCEPT ![r] = "stored"]
  /\ \E handled \in SUBSET MovedHooks :
       handoff' = [l \in Logs |->
         IF /\ on /\ l \in LogsOf(r) /\ HookOf(l) \notin handled
            /\ hook[HookOf(l)].state = "on"
         THEN hook[HookOf(l)].host ELSE handoff[l]]
  /\ UNCHANGED <<on, form, hook, row, todo, worker, rescue, history, trouble>>

\* _queue never fails its caller: with the queue out of order no job is there.
Queue(l) == \/ todo' = Defer(todo, l) /\ UNCHANGED trouble
            \/ Trouble("queue") /\ UNCHANGED todo

\* One hook of the loop of queue_for_submission, for the host it was listed
\* with: a condition that does not hold writes a cancelled row and no job.
HandOff(l) ==
  /\ handoff[l] # NoHost
  /\ handoff' = [handoff EXCEPT ![l] = NoHost]
  /\ shown' = [shown EXCEPT ![l] = handoff[l]]
  /\ \/ /\ row' = CreateIfAbsent(row, l, NewRow("cancelled", handoff[l]))
        /\ UNCHANGED <<todo, trouble>>
     \/ /\ row' = CreateIfAbsent(row, l, NewRow("pending", handoff[l]))
        /\ Queue(l)
  /\ UNCHANGED <<on, form, hook, resp, worker, rescue, late, sent, accepted, lost>>

\* The request's process dies between the commit and the end of the loop.
HandOffCrash(r) ==
  /\ \E l \in LogsOf(r) : handoff[l] # NoHost
  /\ Trouble("crash")
  /\ handoff' = [l \in Logs |-> IF l \in LogsOf(r) THEN NoHost ELSE handoff[l]]
  /\ UNCHANGED <<on, form, hook, resp, row, todo, worker, rescue, history>>

\* A test event: a row of its own, for a hook that may be switched off.
SendTest(l) ==
  /\ IsTest(l) /\ on /\ form = "live"
  /\ hook[HookOf(l)].state # "absent" /\ shown[l] = NoHost
  /\ row' = [row EXCEPT ![l] = NewRow("pending", hook[HookOf(l)].host)]
  /\ shown' = [shown EXCEPT ![l] = hook[HookOf(l)].host]
  /\ Queue(l)
  /\ UNCHANGED <<on, form, hook, resp, handoff, worker, rescue, late, sent, accepted, lost>>

-----------------------------------------------------------------------------
(* The delivery job.                                                       *)

Goto(w, label) == pc' = [pc EXCEPT ![w] = label]

\* The job is over for this worker (succeeded, failed for good, or retried).
Release(w) ==
  /\ Goto(w, "idle")
  /\ job' = [job EXCEPT ![w] = NoLog]
  /\ run' = [run EXCEPT ![w] = 0]
  /\ doc' = [doc EXCEPT ![w] = Absent]
  /\ dest' = [dest EXCEPT ![w] = NoHost]
  /\ verdict' = [verdict EXCEPT ![w] = "none"]
  /\ late' = [late EXCEPT ![w] = FALSE]

\* (An attempt too many before a delivery fails.)
TransientOnceMore(d) == IF d.attempts > MaxAttempts THEN "failed" ELSE "retrying"

\* What an attempt comes to that neither succeeded nor failed for good.
Transient(d) == IF d.attempts >= MaxAttempts THEN "failed" ELSE "retrying"

Conclude(w, v) ==
  /\ Goto(w, "save")
  /\ verdict' = [verdict EXCEPT ![w] = v]

\* (An erased submission noticed only when its log rows are gone as well.)
GoneWithItsRows(l) == ~IsTest(l) /\ resp[SubjectOf(l)] \in {"absent", "erased"}

Gone(l)   == ~IsTest(l) /\ resp[SubjectOf(l)] # "stored"
Usable(l) == \/ hook[HookOf(l)].state = "on"
             \/ hook[HookOf(l)].state = "off" /\ IsTest(l)

\* (A hook that is on is wanted, wherever it points now.)
WantedAnywhere(l, d) == Usable(l)

Wanted(l, d) == Usable(l) /\ hook[HookOf(l)].host = d.host

Fetch(w, l) ==
  /\ pc[w] = "idle" /\ Waiting(todo, l)
  /\ Goto(w, "start")
  /\ job' = [job EXCEPT ![w] = l]
  /\ run' = [run EXCEPT ![w] = todo[l]]
  /\ todo' = Fetched(todo, l)
  /\ UNCHANGED <<on, form, hook, resp, handoff, row, doc, dest, verdict, rescue, history, trouble>>

\* Switched off: a retrying row is read and goes back to pending, nothing else.
Parked(d) == [d EXCEPT !.status = "pending"]

StartOff(w) ==
  /\ pc[w] = "start" /\ ~on
  /\ \/ /\ row[job[w]].status # "retrying"
        /\ Release(w) /\ UNCHANGED row
     \/ /\ row[job[w]].status = "retrying" /\ "parking" \notin Races
        /\ row' = SaveExisting(row, job[w], Parked(row[job[w]]))
        /\ Release(w)
     \/ /\ row[job[w]].status = "retrying" /\ "parking" \in Races
        /\ Goto(w, "park")
        /\ doc' = [doc EXCEPT ![w] = row[job[w]]]
        /\ UNCHANGED <<row, job, run, dest, verdict, late>>
  /\ UNCHANGED <<on, form, hook, resp, handoff, todo, rescue, shown, sent, accepted, lost, trouble>>

Park(w) ==
  /\ pc[w] = "park"
  /\ row' = SaveExisting(row, job[w], Parked(doc[w]))
  /\ Release(w)
  /\ UNCHANGED <<on, form, hook, resp, handoff, todo, rescue, shown, sent, accepted, lost, trouble>>

Start(w) ==
  /\ pc[w] = "start" /\ on
  /\ IF Claimable(row, job[w], OpenStates)
     THEN /\ Goto(w, "attempt")
          /\ row' = Claim(row, job[w])
          /\ doc' = [doc EXCEPT ![w] = ClaimedDoc(row[job[w]])]
          /\ late' = [late EXCEPT ![w] = Gone(job[w])]
          /\ UNCHANGED <<job, run, dest, verdict>>
     ELSE Release(w) /\ UNCHANGED row
  /\ UNCHANGED <<on, form, hook, resp, handoff, todo, rescue, shown, sent, accepted, lost, trouble>>

\* The claim's statement fails: the job is retried, the row was not touched.
StartFails(w) ==
  /\ pc[w] = "start"
  /\ Trouble("db")
  /\ Goto(w, "requeue")
  /\ UNCHANGED <<on, form, hook, resp, handoff, row, todo, job, run, doc, dest, verdict, rescue, history>>

\* _attempt up to the last look: whether the hook still is what the delivery
\* was created for, then whether secret, address and answers can be read.
Attempt(w) ==
  /\ pc[w] = "attempt"
  /\ LET l == job[w] IN
     \/ /\ ~Wanted(l, doc[w])
        /\ Conclude(w, "cancelled") /\ UNCHANGED <<row, job, run, doc, dest, late>>
     \/ /\ Wanted(l, doc[w])       \* unreadable secret, address or answers
        /\ Conclude(w, "failed") /\ UNCHANGED <<row, job, run, doc, dest, late>>
     \/ \* an exception of a statement, or while the body is built
        Conclude(w, Transient(doc[w])) /\ UNCHANGED <<row, job, run, doc, dest, late>>
     \/ /\ Wanted(l, doc[w]) /\ Gone(l)
        /\ row' = DeleteRows(row, LogsOf(SubjectOf(l)))
        /\ Release(w)
     \/ /\ Wanted(l, doc[w]) /\ ~Gone(l)
        /\ Goto(w, "check")
        /\ dest' = [dest EXCEPT ![w] = hook[HookOf(l)].host]
        /\ UNCHANGED <<row, job, run, doc, verdict, late>>
  /\ UNCHANGED <<on, form, hook, resp, handoff, todo, rescue, shown, sent, accepted, lost, trouble>>

\* _still_wanted: the row, the submission and the hook, right before the send.
\* An exception in it is settled like any other.
Check(w) ==
  /\ pc[w] = "check"
  /\ LET l == job[w] IN
     \/ /\ ~Exists(row[l])
        /\ Release(w) /\ UNCHANGED row
     \/ /\ Exists(row[l]) /\ Gone(l)
        /\ row' = DeleteRows(row, LogsOf(SubjectOf(l)))
        /\ Release(w)
     \/ /\ Exists(row[l]) /\ ~Gone(l) /\ ~Wanted(l, doc[w])
        /\ Conclude(w, "cancelled") /\ UNCHANGED <<row, job, run, doc, dest, late>>
     \/ /\ Exists(row[l]) /\ ~Gone(l) /\ Wanted(l, doc[w])
        /\ Goto(w, "post") /\ UNCHANGED <<row, job, run, doc, dest, verdict, late>>
     \/ Conclude(w, Transient(doc[w])) /\ UNCHANGED <<row, job, run, doc, dest, late>>
  /\ UNCHANGED <<on, form, hook, resp, handoff, todo, rescue, shown, sent, accepted, lost, trouble>>

\* The POST itself: 2xx, an answer that fails at once, or one worth a retry.
Post(w) ==
  /\ pc[w] = "post"
  /\ sent' = [sent EXCEPT ![job[w]] = @ + 1]
  /\ \/ Conclude(w, "delivered") /\ accepted' = [accepted EXCEPT ![job[w]] = @ + 1]
     \/ Conclude(w, "failed") /\ UNCHANGED accepted
     \/ Conclude(w, Transient(doc[w])) /\ UNCHANGED accepted
  /\ UNCHANGED <<on, form, hook, resp, handoff, row, todo, job, run, doc, dest,
                 rescue, shown, late, lost, trouble>>

\* The claimed copy is stored back with the verdict.
Save(w) ==
  /\ pc[w] = "save"
  /\ row' = SaveExisting(row, job[w], [doc[w] EXCEPT !.status = verdict[w]])
  /\ IF verdict[w] = "retrying"
     THEN Goto(w, "requeue") /\ UNCHANGED <<job, run, doc, dest, verdict, late>>
     ELSE Release(w)
  /\ UNCHANGED <<on, form, hook, resp, handoff, todo, rescue, shown, sent, accepted, lost, trouble>>

\* That statement fails.  Inside _attempt the exception is caught and settled
\* like any other (a retry after a POST that was accepted); inside _settle it
\* leaves the row in_progress and the job is retried.
SaveFails(w) ==
  /\ pc[w] = "save"
  /\ Trouble("db")
  /\ lost' = [lost EXCEPT ![job[w]] = @ + 1]
  /\ IF verdict[w] \in {"delivered", "cancelled"}
     THEN verdict' = [verdict EXCEPT ![w] = Transient(doc[w])] /\ UNCHANGED pc
     ELSE Goto(w, "requeue") /\ UNCHANGED verdict
  /\ UNCHANGED <<on, form, hook, resp, handoff, row, todo, job, run, doc, dest,
                 rescue, shown, late, sent, accepted>>

\* WebhookRetry (or any exception) was raised: the retry strategy decides.
RequeueJob(w) ==
  /\ pc[w] = "requeue"
  /\ todo' = Requeue(todo, job[w], run[w], MaxAttempts)
  /\ Release(w)
  /\ UNCHANGED <<on, form, hook, resp, handoff, row, rescue, shown, sent, accepted, lost, trouble>>

\* The worker dies: its job stays `doing`, its row as the last save left it.
Crash(w) ==
  /\ pc[w] # "idle"
  /\ Trouble("crash")
  /\ lost' = IF pc[w] \in Holding THEN [lost EXCEPT ![job[w]] = @ + 1] ELSE lost
  /\ Release(w)
  /\ UNCHANGED <<on, form, hook, resp, handoff, row, todo, rescue, shown, sent, accepted>>

-----------------------------------------------------------------------------
(* The sweep (redefer_pending), every five minutes.                        *)

\* (A sweep that looks for dead workers only.)
StuckInProgress(l) ==
  /\ row[l].status = "in_progress"
  /\ ~\E w \in Workers : Holds(w, l)

\* Thirty minutes without a move say that the worker is dead, six hours and
\* more that the job of a retry is gone.  Both are guesses: a run that admits
\* the race lets the worker, or the job, turn out to be late instead.
Stuck(l) ==
  \/ /\ row[l].status = "in_progress"
     /\ "slow worker" \in Races \/ ~\E w \in Workers : Holds(w, l)
  \/ /\ row[l].status = "retrying"
     /\ \/ "late job" \in Races
        \/ ~Waiting(todo, l) /\ ~\E w \in Workers : job[w] = l

\* list_pending_before and list_stuck read a batch of rows, queued or not ...
SweepRead(l) ==
  /\ on /\ ~Exists(rescue[l])
  /\ row[l].status = "pending" \/ Stuck(l)
  /\ rescue' = [rescue EXCEPT ![l] = row[l]]
  /\ UNCHANGED <<on, form, hook, resp, handoff, row, todo, worker, history, trouble>>

\* ... and each is later queued, a stuck one after it was stored back, as it was
\* read, as pending.
SweepSave(l) ==
  /\ Exists(rescue[l])
  /\ rescue' = [rescue EXCEPT ![l] = Absent]
  /\ \/ rescue[l].status = "pending" /\ Queue(l) /\ UNCHANGED row
     \/ /\ rescue[l].status # "pending"
        /\ row' = SaveExisting(row, l, Parked(rescue[l]))
        /\ IF Exists(row[l]) THEN Queue(l) ELSE UNCHANGED <<todo, trouble>>
  /\ UNCHANGED <<on, form, hook, resp, handoff, worker, history>>

SweepCrash ==
  /\ \E l \in Logs : Exists(rescue[l])
  /\ Trouble("crash")
  /\ rescue' = [l \in Logs |-> Absent]
  /\ UNCHANGED <<on, form, hook, resp, handoff, row, todo, worker, history>>

-----------------------------------------------------------------------------
(* What happens around the deliveries.                                     *)

\* update_webhook on the fields a delivery depends on; switching a hook on is
\* refused while the feature is off.
EditHook(h) ==
  /\ form = "live" /\ hook[h].state # "absent"
  /\ Trouble("edit")
  /\ \E new \in [state : {"off", "on"}, host : Hosts] :
       /\ new # hook[h]
       /\ new.state = "on" /\ hook[h].state = "off" => on
       /\ hook' = [hook EXCEPT ![h] = new]
  /\ UNCHANGED <<on, form, resp, handoff, row, todo, worker, rescue, history>>

\* delete_webhook: the rows stay, its pending runs are cancelled by their job.
DeleteHook(h) ==
  /\ form = "live" /\ hook[h].state # "absent"
  /\ Trouble("edit")
  /\ hook' = [hook EXCEPT ![h].state = "absent"]
  /\ UNCHANGED <<on, form, resp, handoff, row, todo, worker, rescue, history>>

\* Erasure: the response first, its log rows in a statement of their own.
EraseResponse(r) ==
  /\ resp[r] = "stored"
  /\ Trouble("erase")
  /\ resp' = [resp EXCEPT ![r] = "erasing"]
  /\ late' = [w \in Workers |->
                late[w] \/ (job[w] \in LogsOf(r) /\ pc[w] \in {"attempt", "check"})]
  /\ UNCHANGED <<on, form, hook, handoff, row, todo, worker, rescue, shown, sent, accepted, lost>>

EraseLogs(r) ==
  /\ resp[r] = "erasing"
  /\ resp' = [resp EXCEPT ![r] = "erased"]
  /\ \/ row' = DeleteRows(row, LogsOf(r)) /\ UNCHANGED trouble
     \/ Trouble("crash") /\ UNCHANGED row
  /\ UNCHANGED <<on, form, hook, handoff, todo, worker, rescue, history>>

\* delete_for_form: the hooks first, then every row of the form.
DeleteFormHooks ==
  /\ form = "live"
  /\ Trouble("form")
  /\ form' = "deleting"
  /\ hook' = [h \in Hooks |-> [hook[h] EXCEPT !.state = "absent"]]
  /\ UNCHANGED <<on, resp, handoff, row, todo, worker, rescue, history>>

DeleteFormLogs ==
  /\ form = "deleting"
  /\ form' = "deleted"
  /\ row' = DeleteRows(row, Logs)
  /\ UNCHANGED <<on, hook, resp, handoff, todo, worker, rescue, history, trouble>>

\* The daily purge deletes by age alone, whatever the status says.
Purge(l) ==
  /\ Exists(row[l])
  /\ Trouble("purge")
  /\ row' = DeleteRows(row, {l})
  /\ UNCHANGED <<on, form, hook, resp, handoff, todo, worker, rescue, history>>

SwitchOff ==
  /\ on /\ Trouble("switch") /\ on' = FALSE
  /\ UNCHANGED <<form, hook, resp, handoff, row, todo, worker, rescue, history>>

SwitchOn ==
  /\ ~on /\ on' = TRUE
  /\ UNCHANGED <<form, hook, resp, handoff, row, todo, worker, rescue, history, trouble>>

-----------------------------------------------------------------------------

Step(w) == StartOff(w) \/ Park(w) \/ Start(w) \/ Attempt(w) \/ Check(w)
             \/ Post(w) \/ Save(w) \/ RequeueJob(w)
Sweep(l) == SweepRead(l) \/ SweepSave(l)

Submission == \/ \E r \in Responses : Submit(r) \/ HandOffCrash(r)
              \/ \E l \in Logs : HandOff(l) \/ SendTest(l)
Job        == \E w \in Workers :
                \/ \E l \in Logs : Fetch(w, l)
                \/ Step(w) \/ StartFails(w) \/ SaveFails(w) \/ Crash(w)
Sweeper    == (\E l \in Logs : Sweep(l)) \/ SweepCrash
Around     == \/ \E h \in Hooks : EditHook(h) \/ DeleteHook(h)
              \/ \E r \in Responses : EraseResponse(r) \/ EraseLogs(r)
              \/ \E l \in Logs : Purge(l)
              \/ DeleteFormHooks \/ DeleteFormLogs \/ SwitchOff \/ SwitchOn

Next == Submission \/ Job \/ Sweeper \/ Around

Spec == Init /\ [][Next]_vars

\* A submit request runs its loop to the end, the worker process takes waiting
\* jobs and runs its coroutines, the scheduler runs the sweep, and a switch that
\* was turned off is turned on again.  Nothing else has to happen.
Fairness ==
  /\ \A l \in Logs : WF_vars(HandOff(l)) /\ WF_vars(Sweep(l))
  /\ \A l \in Logs : WF_vars(\E w \in Workers : Fetch(w, l))
  /\ \A w \in Workers : WF_vars(Step(w))
  /\ WF_vars(SwitchOn)

FairSpec == Spec /\ Fairness

-----------------------------------------------------------------------------
TypeOK ==
  /\ on \in BOOLEAN
  /\ form \in {"live", "deleting", "deleted"}
  /\ hook \in [Hooks -> [state : {"absent", "off", "on"}, host : Hosts]]
  /\ resp \in [Responses -> {"absent", "stored", "erasing", "erased"}]
  /\ handoff \in [Logs -> Hosts \cup {NoHost}]
  /\ row \in [Logs -> Rows]
  /\ todo \in [Logs -> 0 .. MaxAttempts]
  /\ pc \in [Workers -> Pcs]
  /\ job \in [Workers -> Logs \cup {NoLog}]
  /\ run \in [Workers -> 0 .. MaxAttempts]
  /\ doc \in [Workers -> Rows]
  /\ dest \in [Workers -> Hosts \cup {NoHost}]
  /\ verdict \in [Workers -> Verdicts]
  /\ rescue \in [Logs -> Rows]
  /\ shown \in [Logs -> Hosts \cup {NoHost}]
  /\ late \in [Workers -> BOOLEAN]
  /\ sent \in [Logs -> Nat] /\ accepted \in [Logs -> Nat] /\ lost \in [Logs -> Nat]
  /\ trouble \in 0 .. MaxTrouble

\* "A delivery is bound to the host it was queued for (the one the respondent
\* was shown)": whatever the hook is edited to, and back, before and during the
\* attempts, a POST goes to that host or is not made (service.py:991,1140).
PinnedDestination ==
  \A w \in Workers : pc[w] = "post" => dest[w] = shown[job[w]]

\* Erasure wins over a late delivery: an attempt that had not taken its last
\* look when the submission was erased never reaches its POST, though it may
\* have read and decrypted the answers already (service.py:1126-1135).
ErasureWins == \A w \in Workers : pc[w] = "post" => ~late[w]

\* "A queued job is claimed atomically, so two workers never send one delivery
\* at the same time" (docs/webhooks.md:147).
SingleSender ==
  \A l \in Logs : \A v, w \in Workers : Holds(v, l) /\ Holds(w, l) => v = w

\* The destination gets a delivery it has accepted again only when an attempt
\* ended without its row learning of it: one repeat for each such loss.
RepeatsAreLosses == \A l \in Logs : accepted[l] <= 1 + lost[l]

\* The row counts the attempts, whatever jobs are queued afresh: more POSTs
\* than the schedule allows need lost attempts.
AttemptsBounded == \A l \in Logs : sent[l] <= MaxAttempts + lost[l]

\* "6 attempts in all", also for a job queued afresh (docs/webhooks.md:135,207).
AtMostMaxAttempts == \A l \in Logs : row[l].attempts <= MaxAttempts

\* A row deleted under a running attempt, a rescue or a parked retry (erasure,
\* deletion of the form, purge) is not brought back by their saves.
NoResurrection ==
  [][\A l \in Logs : shown[l] # NoHost /\ ~Exists(row[l]) => ~Exists(row'[l])]_vars

\* A delivery that was recorded is concluded (delivered, failed, cancelled or
\* deleted), through crashes, lost jobs and the switch (the sweep's purpose).
EventuallySettled ==
  \A l \in Logs : Exists(row[l]) ~> row[l].status \in FinalStates \cup {"absent"}

-----------------------------------------------------------------------------
(* Why they hold: the inductive invariants of WebhookDelivery_proofs.  The   *)
(* first holds with every race; the second with none.                      *)

\* A delivery nobody was shown yet has left no trace.
Fresh(l) ==
  /\ ~Exists(row[l]) /\ ~Exists(rescue[l]) /\ todo[l] = NoJob
  /\ \A w \in Workers : job[w] # l

\* The host a delivery was created for is in every copy of its row, and an
\* erased submission stays erased, whoever looks at it when.
TraceAgrees(l) ==
  /\ Exists(row[l]) => row[l].host = shown[l]
  /\ Exists(rescue[l]) => rescue[l].host = shown[l]
  /\ shown[l] = NoHost => Fresh(l)
  /\ handoff[l] # NoHost => ~IsTest(l) /\ shown[l] = NoHost
  /\ ~IsTest(l) /\ resp[SubjectOf(l)] = "absent" =>
       handoff[l] = NoHost /\ shown[l] = NoHost

AttemptAgrees(w) ==
  /\ pc[w] # "idle" => job[w] \in Logs
  /\ pc[w] = "idle" => job[w] = NoLog
  /\ pc[w] \in Holding \cup {"park"} =>
       Exists(doc[w]) /\ doc[w].host = shown[job[w]]
  /\ pc[w] \in {"check", "post"} => dest[w] = shown[job[w]]
  /\ pc[w] = "save" => verdict[w] # "none"
  /\ pc[w] \in {"attempt", "check"} /\ late[w] => Gone(job[w])
  /\ pc[w] = "post" => ~late[w]

CopiesAgree == /\ \A l \in Logs : TraceAgrees(l)
               /\ \A w \in Workers : AttemptAgrees(w)

Held(l) == \E w \in Workers : Holds(w, l)

\* Between its claim and its save a worker is alone with the row, which is still
\* the one it claimed or gone; so is the row the sweep has read.
HeldRow(w) ==
  /\ pc[w] # "park"
  /\ pc[w] \in Holding => /\ doc[w].status = "in_progress"
                          /\ row[job[w]] \in {doc[w], Absent}
                          /\ \A v \in Workers : Holds(v, job[w]) => v = w

RescuedRow(l) ==
  /\ Exists(rescue[l]) => rescue[l].status \in OpenStates \cup {"in_progress"}
  /\ rescue[l].status \in {"in_progress", "retrying"} =>
       row[l] \in {rescue[l], Absent} /\ ~Held(l)
  /\ rescue[l].status = "retrying" =>
       ~Waiting(todo, l) /\ \A w \in Workers : job[w] # l

RowsAreHeld == /\ \A w \in Workers : HeldRow(w)
               /\ \A l \in Logs : RescuedRow(l)

\* What an attempt still may do is covered by the attempts its row counts, and an
\* attempt that is over without the row knowing by those that were lost.
CountedRow(l) ==
  /\ shown[l] = NoHost => sent[l] = 0
  /\ sent[l] <= MaxAttempts + lost[l]
  /\ Exists(row[l]) => /\ sent[l] <= row[l].attempts
                       /\ row[l].attempts <= MaxAttempts + lost[l]
  /\ row[l].status \in OpenStates \/ (row[l].status = "in_progress" /\ ~Held(l))
       => row[l].attempts < MaxAttempts + lost[l]

CountedAttempt(w) ==
  pc[w] \in Holding =>
    /\ sent[job[w]] <= doc[w].attempts
    /\ doc[w].attempts <= MaxAttempts + lost[job[w]]
    /\ pc[w] # "save" => sent[job[w]] < doc[w].attempts
    /\ pc[w] = "save" /\ verdict[w] = "retrying" => doc[w].attempts < MaxAttempts

AttemptsAreCounted == /\ \A l \in Logs : CountedRow(l)
                      /\ \A w \in Workers : CountedAttempt(w)

AcceptedRow(l) ==
  /\ shown[l] = NoHost => accepted[l] = 0
  /\ accepted[l] <= 1 + lost[l]
  /\ row[l].status \in OpenStates \/ (row[l].status = "in_progress" /\ ~Held(l))
       => accepted[l] <= lost[l]

AcceptedAttempt(w) ==
  pc[w] \in Holding /\ ~(pc[w] = "save" /\ verdict[w] = "delivered")
    => accepted[job[w]] <= lost[job[w]]

AcceptancesAreCounted == /\ \A l \in Logs : AcceptedRow(l)
                         /\ \A w \in Workers : AcceptedAttempt(w)

DeliveryInv == CopiesAgree /\ RowsAreHeld /\ AttemptsAreCounted
                 /\ AcceptancesAreCounted

-----------------------------------------------------------------------------
(* What the log promises its readers, as the abstract specification.       *)

State(l) == CASE shown[l] = NoHost -> "none"
              [] shown[l] # NoHost /\ ~Exists(row[l]) -> "gone"
              [] shown[l] # NoHost /\ row[l].status \in FinalStates -> row[l].status
              [] OTHER -> "open"

Promise == INSTANCE DeliveryPromise WITH
  Deliveries <- Logs, state <- [l \in Logs |-> State(l)], posts <- sent, got <- accepted

KeepsPromise == Promise!Spec
=============================================================================
