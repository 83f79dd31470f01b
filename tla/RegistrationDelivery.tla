------------------------- MODULE RegistrationDelivery -------------------------
(***************************************************************************)
(* Registration deliveries (app/services/registration/service.py): every   *)
(* submission of a form is sent on to the case system the form names, a    *)
(* generic JSON service or an Objects API.  A delivery is named by the     *)
(* submission it is about; the form has one registration, `reg`, that      *)
(* points at one of the workspace's services.                              *)
(*                                                                         *)
(* A worker takes a job through                                            *)
(*                                                                         *)
(*   idle -> start -> attempt [-> snapshot] [-> lookup] -> check -> post   *)
(*        -> save [-> requeue] -> idle                                     *)
(*                                                                         *)
(* where every arrow is an await other actors can run in.  It keeps the    *)
(* row as it was claimed in doc[w] and stores that copy back whole.  The   *)
(* place an Objects API delivery goes to (service, address and lookup key) *)
(* is pinned in the row by its first send; every later one looks there for *)
(* the object first.                                                       *)
(***************************************************************************)
EXTENDS JobQueue

CONSTANTS Deliveries, Workers,
          Services, ObjectServices,  \* those of the kind Objects API
          Addresses, Keys,           \* base addresses; lookup keys (or paths)
          MaxAttempts,               \* retry.py: 6
          NoDelivery, NoPlace,
          Troubles, MaxTrouble,      \* the kinds of trouble, and how many in all
          Races                      \* the windows of unguarded saves a run admits

TroubleKinds == {"crash", "db", "queue", "settings", "erase", "form", "retry", "switch"}
RaceKinds    == {"slow worker", "late job", "parking"}

Places       == [service : Services, address : Addresses, key : Keys]
ObjectPlaces == {p \in Places : p.service \in ObjectServices}

ASSUME RegistrationAssumption ==
  /\ ObjectServices \subseteq Services
  /\ MaxAttempts \in Nat \ {0}
  /\ NoDelivery \notin Deliveries
  /\ NoPlace \notin Places
  /\ Troubles \subseteq TroubleKinds /\ MaxTrouble \in Nat
  /\ Races \subseteq RaceKinds

VARIABLES
  on,        \* OPEN_FORMULIEREN_REGISTRATION, a live setting
  form,      \* the form
  reg,       \* its registration: on or off, the service it names, the key
  svc,       \* registration_services
  resp,      \* the stored submissions
  handoff,   \* submissions stored and not handed off yet
  row,       \* registration_deliveries
  todo,      \* the waiting jobs
  pc, job, run, doc, place, verdict,  \* each worker's attempt
  rescue,    \* rows the sweep has read and not handled yet
  copies,    \* what the destinations hold of a delivery
  \* history
  first,     \* where the first POST to an Objects API went
  late,      \* workers whose submission or form went before their last look
  trouble

settings == <<on, form, reg, svc>>
worker   == <<pc, job, run, doc, place, verdict>>
vars == <<settings, resp, handoff, row, todo, worker, rescue, copies, first, late, trouble>>

OpenStates  == {"pending", "retrying"}
FinalStates == {"delivered", "failed", "cancelled"}

\* Of its attempts and its manual attempts the code only asks whether there was
\* more than one, and whether there was any: that is how far they are counted.
Row == [status : OpenStates \cup {"in_progress"} \cup FinalStates,
        attempts : 0 .. 2, manual : 0 .. 1, snap : Places \cup {NoPlace}]
Blank(status) == [status |-> status, attempts |-> 0, manual |-> 0, snap |-> NoPlace]
Absent == Blank("absent")
Rows   == Row \cup {Absent}

Exists(r) == r.status # "absent"

Pcs      == {"idle", "start", "park", "attempt", "snapshot", "lookup", "check",
             "post", "save", "requeue"}
Holding  == {"attempt", "snapshot", "lookup", "check", "post", "save"}
Looking  == {"attempt", "snapshot", "lookup", "check"}   \* before the last look
Verdicts == {"none", "retrying"} \cup FinalStates

Holds(w, d) == job[w] = d /\ pc[w] \in Holding

Trouble(kind) ==
  /\ kind \in Troubles
  /\ trouble < MaxTrouble
  /\ trouble' = trouble + 1

Init ==
  /\ on = TRUE
  /\ form = "live"
  /\ reg \in [enabled : BOOLEAN, service : Services, key : Keys]
  /\ svc \in [Services -> [present : {TRUE}, address : Addresses]]
  /\ resp = [d \in Deliveries |-> "absent"]
  /\ handoff = [d \in Deliveries |-> FALSE]
  /\ row = [d \in Deliveries |-> Absent]
  /\ todo = [d \in Deliveries |-> NoJob]
  /\ pc = [w \in Workers |-> "idle"]
  /\ job = [w \in Workers |-> NoDelivery]
  /\ run = [w \in Workers |-> 0]
  /\ doc = [w \in Workers |-> Absent]
  /\ place = [w \in Workers |-> NoPlace]
  /\ verdict = [w \in Workers |-> "none"]
  /\ rescue = [d \in Deliveries |-> Absent]
  /\ copies = [d \in Deliveries |-> [p \in Places |-> 0]]
  /\ first = [d \in Deliveries |-> NoPlace]
  /\ late = [w \in Workers |-> FALSE]
  /\ trouble = 0

-----------------------------------------------------------------------------
(* The table: the statements of PostgresRegistrationDeliveryRepository.    *)

\* INSERT ... ON CONFLICT DO NOTHING, the pair (registration, response) unique.
CreateIfAbsent(d, r) == [row EXCEPT ![d] = IF Exists(@) THEN @ ELSE r]

\* (A save that inserts what it does not find.)
SaveAnyway(d, r) == [row EXCEPT ![d] = r]

\* UPDATE by id: the whole document over whatever the row says now.
SaveExisting(d, r) == [row EXCEPT ![d] = IF Exists(@) THEN r ELSE @]

\* (A claim that takes whatever is not final.)
ClaimableUnlessFinal(d) == row[d].status \in OpenStates \cup {"in_progress"}

Claimable(d) == row[d].status \in OpenStates

Claimed(r) == [r EXCEPT !.status = "in_progress", !.attempts = IF @ = 0 THEN 1 ELSE 2]
Pending(r) == [r EXCEPT !.status = "pending"]

DeleteRows(gone) == [d \in Deliveries |-> IF d \in gone THEN Absent ELSE row[d]]

-----------------------------------------------------------------------------
(* The submission: stored first, then one row and one job.                 *)

Submit(d) ==
  /\ form = "live" /\ resp[d] = "absent"
  /\ resp' = [resp EXCEPT ![d] = "stored"]
  /\ handoff' = [handoff EXCEPT ![d] = TRUE]
  /\ UNCHANGED <<settings, row, todo, worker, rescue, copies, first, late, trouble>>

\* _queue never fails its caller: with the queue out of order no job is there.
Queue(d) == \/ todo' = Defer(todo, d) /\ UNCHANGED trouble
            \/ Trouble("queue") /\ UNCHANGED todo

Wanted == form # "deleted" /\ reg.enabled

\* queue_for_submission: the row keeps nothing of the settings it looked at.
HandOff(d) ==
  /\ handoff[d]
  /\ handoff' = [handoff EXCEPT ![d] = FALSE]
  /\ \/ /\ on /\ Wanted /\ svc[reg.service].present
        /\ row' = CreateIfAbsent(d, Blank("pending"))
        /\ Queue(d)
     \/ /\ ~(on /\ Wanted /\ svc[reg.service].present)
        /\ UNCHANGED <<row, todo, trouble>>
  /\ UNCHANGED <<settings, resp, worker, rescue, copies, first, late>>

\* The request's process dies between the commit and the row.
HandOffCrash(d) ==
  /\ handoff[d]
  /\ Trouble("crash")
  /\ handoff' = [handoff EXCEPT ![d] = FALSE]
  /\ UNCHANGED <<settings, resp, row, todo, worker, rescue, copies, first, late>>

-----------------------------------------------------------------------------
(* The delivery job.                                                       *)

Goto(w, label) == pc' = [pc EXCEPT ![w] = label]

Release(w) ==
  /\ Goto(w, "idle")
  /\ job' = [job EXCEPT ![w] = NoDelivery]
  /\ run' = [run EXCEPT ![w] = 0]
  /\ doc' = [doc EXCEPT ![w] = Absent]
  /\ place' = [place EXCEPT ![w] = NoPlace]
  /\ verdict' = [verdict EXCEPT ![w] = "none"]
  /\ late' = [late EXCEPT ![w] = FALSE]

Conclude(w, v) ==
  /\ Goto(w, "save")
  /\ verdict' = [verdict EXCEPT ![w] = v]
  /\ UNCHANGED <<job, run, doc, place, late>>

\* The last run of the JOB gives up, whatever the row counted.
Transient(w) == IF run[w] >= MaxAttempts THEN "failed" ELSE "retrying"

\* A SendFailed that is permanent, or any other failure or exception.
Fails(w) == Conclude(w, "failed") \/ Conclude(w, Transient(w))

\* (An erased submission noticed only when its row is gone as well.)
GoneWithItsRow(d) == resp[d] \in {"absent", "erased"}

Gone(d) == resp[d] # "stored"

Fetch(w, d) ==
  /\ pc[w] = "idle" /\ Waiting(todo, d)
  /\ Goto(w, "start")
  /\ job' = [job EXCEPT ![w] = d]
  /\ run' = [run EXCEPT ![w] = todo[d]]
  /\ todo' = Fetched(todo, d)
  /\ UNCHANGED <<settings, resp, handoff, row, doc, place, verdict, rescue, copies,
                 first, late, trouble>>

\* Switched off: a retrying row is read, and stored back as pending.
StartOff(w) ==
  /\ pc[w] = "start" /\ ~on
  /\ IF row[job[w]].status = "retrying"
     THEN /\ Goto(w, "park")
          /\ doc' = [doc EXCEPT ![w] = row[job[w]]]
          /\ UNCHANGED <<job, run, place, verdict, late>>
     ELSE Release(w)
  /\ UNCHANGED <<settings, resp, handoff, row, todo, rescue, copies, first, trouble>>

Park(w) ==
  /\ pc[w] = "park"
  /\ row' = SaveExisting(job[w], Pending(doc[w]))
  /\ Release(w)
  /\ UNCHANGED <<settings, resp, handoff, todo, rescue, copies, first, trouble>>

\* A claim between those two awaits takes the switch to come back on, and a
\* second job of the delivery to be waiting: a race of its own.
Parking(d) == \E w \in Workers : job[w] = d /\ pc[w] = "park"

Start(w) ==
  /\ pc[w] = "start" /\ on
  /\ Parking(job[w]) => "parking" \in Races
  /\ IF Claimable(job[w])
     THEN /\ Goto(w, "attempt")
          /\ row' = [row EXCEPT ![job[w]] = Claimed(@)]
          /\ doc' = [doc EXCEPT ![w] = Claimed(row[job[w]])]
          /\ late' = [late EXCEPT ![w] = Gone(job[w]) \/ form = "deleted"]
          /\ UNCHANGED <<job, run, place, verdict>>
     ELSE Release(w) /\ UNCHANGED row
  /\ UNCHANGED <<settings, resp, handoff, todo, rescue, copies, first, trouble>>

\* The first statement fails: the job is retried, the row was not touched.
StartFails(w) ==
  /\ pc[w] = "start"
  /\ Trouble("db")
  /\ Goto(w, "requeue")
  /\ UNCHANGED <<settings, resp, handoff, row, todo, job, run, doc, place, verdict,
                 rescue, copies, first, late>>

\* (The settings of today, whatever the first send used.)
PlaceOfToday(c) ==
  [service |-> reg.service, address |-> svc[reg.service].address, key |-> reg.key]

\* Where this attempt would go: the place of the first send if there was one,
\* else what the form points at now.
PlaceOf(c) ==
  IF c.snap # NoPlace THEN c.snap
  ELSE [service |-> reg.service, address |-> svc[reg.service].address, key |-> reg.key]

\* Its service still is there, at the same address (config_invalid if not).
Unmoved(p) == svc[p.service].present /\ svc[p.service].address = p.address

\* (Only a retry somebody asked for.)
LookIfAsked(c) == c.manual > 0

\* "An earlier attempt may have created the object and lost the reply."
LookFirst(c) == c.attempts > 1 \/ c.manual > 0

Sending(c, p) == CASE p \notin ObjectPlaces -> "check"
                   [] p \in ObjectPlaces /\ c.snap = NoPlace -> "snapshot"
                   [] OTHER -> IF LookFirst(c) THEN "lookup" ELSE "check"

\* _attempt up to its first send or lookup.
Attempt(w) ==
  /\ pc[w] = "attempt"
  /\ LET d == job[w]
         c == doc[w]
         p == PlaceOf(c)
         usable == Wanted /\ (c.snap # NoPlace \/ svc[reg.service].present)
     IN \/ ~usable /\ Conclude(w, "cancelled") /\ UNCHANGED row
        \/ usable /\ Gone(d) /\ row' = DeleteRows({d}) /\ Release(w)
        \/ Fails(w) /\ UNCHANGED row
        \/ /\ usable /\ ~Gone(d) /\ Unmoved(p)
           /\ Goto(w, Sending(c, p))
           /\ place' = [place EXCEPT ![w] = p]
           /\ UNCHANGED <<row, job, run, doc, verdict, late>>
  /\ UNCHANGED <<settings, resp, handoff, todo, rescue, copies, first, trouble>>

\* The place of the first send is stored before it is made; when the statement
\* fails the copy in memory has it all the same.
Snapshot(w) ==
  /\ pc[w] = "snapshot"
  /\ LET c == [doc[w] EXCEPT !.snap = place[w]]
     IN \/ ~Exists(row[job[w]]) /\ Release(w) /\ UNCHANGED row
        \/ /\ Exists(row[job[w]])
           /\ row' = SaveExisting(job[w], c)
           /\ doc' = [doc EXCEPT ![w] = c]
           /\ Goto(w, IF LookFirst(c) THEN "lookup" ELSE "check")
           /\ UNCHANGED <<job, run, place, verdict, late>>
        \/ /\ doc' = [doc EXCEPT ![w] = c]
           /\ Goto(w, "save")
           /\ verdict' = [verdict EXCEPT ![w] = Transient(w)]
           /\ UNCHANGED <<row, job, run, place, late>>
  /\ UNCHANGED <<settings, resp, handoff, todo, rescue, copies, first, trouble>>

\* Found: delivered, nothing is sent.  An answer that is neither a clear yes nor
\* a clear no is a failure, never a no.
Lookup(w) ==
  /\ pc[w] = "lookup"
  /\ \/ copies[job[w]][place[w]] > 0 /\ Conclude(w, "delivered")
     \/ /\ copies[job[w]][place[w]] = 0
        /\ Goto(w, "check") /\ UNCHANGED <<job, run, doc, place, verdict, late>>
     \/ Fails(w)
  /\ UNCHANGED <<settings, resp, handoff, row, todo, rescue, copies, first, trouble>>

\* The body is built, then _still_wanted: the row, the submission, the form.
Check(w) ==
  /\ pc[w] = "check"
  /\ LET d == job[w] IN
     \/ ~Exists(row[d]) /\ Release(w) /\ UNCHANGED row
     \/ Exists(row[d]) /\ Gone(d) /\ row' = DeleteRows({d}) /\ Release(w)
     \/ Exists(row[d]) /\ ~Gone(d) /\ ~Wanted /\ Conclude(w, "cancelled") /\ UNCHANGED row
     \/ /\ Exists(row[d]) /\ ~Gone(d) /\ Wanted
        /\ Goto(w, "post") /\ UNCHANGED <<row, job, run, doc, place, verdict, late>>
     \/ Fails(w) /\ UNCHANGED row
  /\ UNCHANGED <<settings, resp, handoff, todo, rescue, copies, first, trouble>>

\* (A refusal or a redirect read as a 2xx.)
AnswersAnything(w) ==
  [taken : BOOLEAN, verdict : {"delivered", "failed", Transient(w)}]

\* How a POST can end: taken, taken and the answer lost, or not taken.
Answers(w) ==
  [taken : {TRUE}, verdict : {"delivered", Transient(w)}]
    \cup [taken : {FALSE}, verdict : {"failed", Transient(w)}]

Post(w) ==
  /\ pc[w] = "post"
  /\ \E a \in Answers(w) :
       /\ Conclude(w, a.verdict)
       /\ copies' = IF a.taken THEN [copies EXCEPT ![job[w]][place[w]] = @ + 1] ELSE copies
  /\ first' = IF place[w] \in ObjectPlaces /\ first[job[w]] = NoPlace
              THEN [first EXCEPT ![job[w]] = place[w]] ELSE first
  /\ UNCHANGED <<settings, resp, handoff, row, todo, rescue, trouble>>

\* The claimed copy is stored back with the verdict.
Save(w) ==
  /\ pc[w] = "save"
  /\ row' = SaveExisting(job[w], [doc[w] EXCEPT !.status = verdict[w]])
  /\ IF verdict[w] = "retrying"
     THEN Goto(w, "requeue") /\ UNCHANGED <<job, run, doc, place, verdict, late>>
     ELSE Release(w)
  /\ UNCHANGED <<settings, resp, handoff, todo, rescue, copies, first, trouble>>

\* That statement fails.  Inside _attempt the exception is settled like any
\* other; inside _settle it leaves the row in_progress and the job is retried.
SaveFails(w) ==
  /\ pc[w] = "save"
  /\ Trouble("db")
  /\ IF verdict[w] \in {"delivered", "cancelled"}
     THEN verdict' = [verdict EXCEPT ![w] = Transient(w)] /\ UNCHANGED pc
     ELSE Goto(w, "requeue") /\ UNCHANGED verdict
  /\ UNCHANGED <<settings, resp, handoff, row, todo, job, run, doc, place, rescue,
                 copies, first, late>>

\* RegistrationRetry (or any exception) was raised: the retry strategy decides.
RequeueJob(w) ==
  /\ pc[w] = "requeue"
  /\ todo' = Requeue(todo, job[w], run[w], MaxAttempts)
  /\ Release(w)
  /\ UNCHANGED <<settings, resp, handoff, row, rescue, copies, first, trouble>>

\* The worker dies: its job stays `doing`, its row as the last save left it.
Crash(w) ==
  /\ pc[w] # "idle"
  /\ Trouble("crash")
  /\ Release(w)
  /\ UNCHANGED <<settings, resp, handoff, row, todo, rescue, copies, first>>

\* "Try again": one locked step moves the row, then its job is queued (or not, when
\* the request dies in between or the queue is out of order).
Retryable(d) == row[d].status \in {"failed", "cancelled"}

\* (Any concluded delivery can be tried again.)
RetryableIfFinal(d) == row[d].status \in FinalStates

Retry(d) ==
  /\ on /\ form = "live" /\ Retryable(d)
  /\ Trouble("retry")
  /\ row' = [row EXCEPT ![d].status = "pending", ![d].manual = 1]
  /\ todo' \in {todo, Defer(todo, d)}
  /\ UNCHANGED <<settings, resp, handoff, worker, rescue, copies, first, late>>

-----------------------------------------------------------------------------
(* The sweeps.                                                             *)

\* (A sweep that looks for dead workers only.)
StuckInProgress(d) ==
  row[d].status = "in_progress" /\ ~\E w \in Workers : Holds(w, d)

\* Thirty minutes without a move say that the worker is dead, six and a half
\* hours that the job of a retry is gone.  Both are guesses: a run that admits
\* the race lets the worker, or the job, turn out to be late instead.
Stuck(d) ==
  \/ /\ row[d].status = "in_progress"
     /\ "slow worker" \in Races \/ ~\E w \in Workers : Holds(w, d)
  \/ /\ row[d].status = "retrying"
     /\ "late job" \in Races \/ (~Waiting(todo, d) /\ ~\E w \in Workers : job[w] = d)

\* redefer_pending reads a batch of rows ...
SweepRead(d) ==
  /\ on /\ ~Exists(rescue[d])
  /\ row[d].status = "pending" \/ Stuck(d)
  /\ rescue' = [rescue EXCEPT ![d] = row[d]]
  /\ UNCHANGED <<settings, resp, handoff, row, todo, worker, copies, first, late, trouble>>

\* ... and queues each, a stuck one after it was stored back, as it was read, as
\* pending (queued even if that found no row).
SweepSave(d) ==
  /\ Exists(rescue[d])
  /\ rescue' = [rescue EXCEPT ![d] = Absent]
  /\ row' = IF rescue[d].status = "pending" THEN row
            ELSE SaveExisting(d, Pending(rescue[d]))
  /\ Queue(d)
  /\ UNCHANGED <<settings, resp, handoff, worker, copies, first, late>>

SweepCrash ==
  /\ \E d \in Deliveries : Exists(rescue[d])
  /\ Trouble("crash")
  /\ rescue' = [d \in Deliveries |-> Absent]
  /\ UNCHANGED <<settings, resp, handoff, row, todo, worker, copies, first, late>>

\* sweep_orphans, nightly: rows nobody is working on, of submissions that are gone.
SweepOrphan(d) ==
  /\ on /\ Exists(row[d]) /\ row[d].status # "in_progress" /\ Gone(d)
  /\ row' = DeleteRows({d})
  /\ UNCHANGED <<settings, resp, handoff, todo, worker, rescue, copies, first, late, trouble>>

-----------------------------------------------------------------------------
(* What happens around the deliveries.                                     *)

Registrations == [enabled : BOOLEAN, service : Services, key : Keys]

\* put_form_registration, on the fields a delivery depends on.
EditForm ==
  /\ on /\ form = "live"
  /\ Trouble("settings")
  /\ \E new \in Registrations \ {reg} : svc[new.service].present /\ reg' = new
  /\ UNCHANGED <<on, form, svc, resp, handoff, row, todo, worker, rescue, copies, first, late>>

\* update_service: the address (the kind cannot be changed).
MoveService(s) ==
  /\ on /\ svc[s].present
  /\ Trouble("settings")
  /\ \E a \in Addresses \ {svc[s].address} : svc' = [svc EXCEPT ![s].address = a]
  /\ UNCHANGED <<on, form, reg, resp, handoff, row, todo, worker, rescue, copies, first, late>>

\* delete_service is refused while a form names it; the count and the deletion
\* are two statements, and a save of the form that falls between them ends up
\* naming a service that is gone.
DeleteService(s) ==
  /\ on /\ svc[s].present /\ reg.service # s
  /\ Trouble("settings")
  /\ svc' = [svc EXCEPT ![s].present = FALSE]
  /\ reg' \in {reg} \cup {r \in Registrations : r.service = s /\ form = "live"}
  /\ UNCHANGED <<on, form, resp, handoff, row, todo, worker, rescue, copies, first, late>>

\* Erasure or expiry: the response first, its row in a statement of its own.
EraseResponse(d) ==
  /\ resp[d] = "stored"
  /\ Trouble("erase")
  /\ resp' = [resp EXCEPT ![d] = "erasing"]
  /\ late' = [w \in Workers |-> late[w] \/ (job[w] = d /\ pc[w] \in Looking)]
  /\ UNCHANGED <<settings, handoff, row, todo, worker, rescue, copies, first>>

EraseRow(d) ==
  /\ resp[d] = "erasing"
  /\ resp' = [resp EXCEPT ![d] = "erased"]
  /\ \/ row' = DeleteRows({d}) /\ UNCHANGED trouble
     \/ Trouble("crash") /\ UNCHANGED row
  /\ UNCHANGED <<settings, handoff, todo, worker, rescue, copies, first, late>>

\* The form leaves its workspace; then delete_for_form (or, after a crash, the
\* nightly sweep) deletes the rows, and the registration last.
RemoveForm ==
  /\ form = "live"
  /\ Trouble("form")
  /\ form' = "removed"
  /\ UNCHANGED <<on, reg, svc, resp, handoff, row, todo, worker, rescue, copies, first, late>>

DeleteFormRows ==
  /\ form = "removed"
  /\ form' = "deleting"
  /\ row' = DeleteRows(Deliveries)
  /\ UNCHANGED <<on, reg, svc, resp, handoff, todo, worker, rescue, copies, first, late, trouble>>

DeleteRegistration ==
  /\ form = "deleting"
  /\ form' = "deleted"
  /\ late' = [w \in Workers |-> late[w] \/ pc[w] \in Looking]
  /\ UNCHANGED <<on, reg, svc, resp, handoff, row, todo, worker, rescue, copies, first, trouble>>

SwitchOff ==
  /\ on /\ Trouble("switch") /\ on' = FALSE
  /\ UNCHANGED <<form, reg, svc, resp, handoff, row, todo, worker, rescue, copies, first, late>>

SwitchOn ==
  /\ ~on /\ on' = TRUE
  /\ UNCHANGED <<form, reg, svc, resp, handoff, row, todo, worker, rescue, copies, first,
                 late, trouble>>

-----------------------------------------------------------------------------

Step(w) == StartOff(w) \/ Park(w) \/ Start(w) \/ Attempt(w) \/ Snapshot(w) \/ Lookup(w)
             \/ Check(w) \/ Post(w) \/ Save(w) \/ RequeueJob(w)
Sweep(d) == SweepRead(d) \/ SweepSave(d)

Submission == \E d \in Deliveries : Submit(d) \/ HandOff(d) \/ HandOffCrash(d)
Job        == \E w \in Workers :
                \/ \E d \in Deliveries : Fetch(w, d)
                \/ Step(w) \/ StartFails(w) \/ SaveFails(w) \/ Crash(w)
Sweeper    == (\E d \in Deliveries : Sweep(d) \/ SweepOrphan(d)) \/ SweepCrash
Around     == \/ \E d \in Deliveries : Retry(d) \/ EraseResponse(d) \/ EraseRow(d)
              \/ \E s \in Services : MoveService(s) \/ DeleteService(s)
              \/ EditForm \/ RemoveForm \/ DeleteFormRows \/ DeleteRegistration
              \/ SwitchOff \/ SwitchOn

Next == Submission \/ Job \/ Sweeper \/ Around

Spec == Init /\ [][Next]_vars

\* The submit request goes on, the worker process takes waiting jobs and runs its
\* coroutines, the scheduler runs the sweep, and a switch that was turned off is
\* turned on again.  Nothing else has to happen.
Fairness ==
  /\ \A d \in Deliveries : WF_vars(HandOff(d)) /\ WF_vars(Sweep(d))
  /\ \A d \in Deliveries : WF_vars(\E w \in Workers : Fetch(w, d))
  /\ \A w \in Workers : WF_vars(Step(w))
  /\ WF_vars(SwitchOn)

FairSpec == Spec /\ Fairness

-----------------------------------------------------------------------------
TypeOK ==
  /\ on \in BOOLEAN
  /\ form \in {"live", "removed", "deleting", "deleted"}
  /\ reg \in Registrations
  /\ svc \in [Services -> [present : BOOLEAN, address : Addresses]]
  /\ resp \in [Deliveries -> {"absent", "stored", "erasing", "erased"}]
  /\ handoff \in [Deliveries -> BOOLEAN]
  /\ row \in [Deliveries -> Rows]
  /\ todo \in [Deliveries -> 0 .. MaxAttempts]
  /\ pc \in [Workers -> Pcs]
  /\ job \in [Workers -> Deliveries \cup {NoDelivery}]
  /\ run \in [Workers -> 0 .. MaxAttempts]
  /\ doc \in [Workers -> Rows]
  /\ place \in [Workers -> Places \cup {NoPlace}]
  /\ verdict \in [Workers -> Verdicts]
  /\ rescue \in [Deliveries -> Rows]
  /\ copies \in [Deliveries -> [Places -> Nat]]
  /\ first \in [Deliveries -> Places \cup {NoPlace}]
  /\ late \in [Workers -> BOOLEAN]
  /\ trouble \in 0 .. MaxTrouble

\* "No duplicate objects" (docs/open-formulieren-registration.md:211): of one
\* submission the Objects APIs hold one object at most, in one place, through
\* lost answers, crashes, retries and edits of the form and of its services.
OneObject ==
  \A d \in Deliveries : \A p, q \in ObjectPlaces :
    /\ copies[d][p] <= 1
    /\ copies[d][p] > 0 /\ copies[d][q] > 0 => p = q

\* "A delivery is never sent somewhere its first send did not go"
\* (service.py:1674): after an Objects API had it, no POST goes to another
\* address, type or key, nor to a generic service the form points at by then.
PinnedPlace ==
  \A w \in Workers :
    pc[w] = "post" /\ first[job[w]] # NoPlace => place[w] = first[job[w]]

\* A submission erased, or a form deleted, before an attempt's last look is not
\* sent, though the attempt may have read its answers and waited on a lookup.
LastLookWins == \A w \in Workers : pc[w] = "post" => ~late[w]

\* One worker at a time has a delivery: what the claim (service.py:269) is for.
SingleSender ==
  \A d \in Deliveries : \A v, w \in Workers : Holds(v, d) /\ Holds(w, d) => v = w

\* A delivery shown as delivered is at a destination: a lookup that misleads, a
\* refusal or a stale save never makes it look so.
DeliveredIsThere ==
  \A d \in Deliveries :
    row[d].status = "delivered" => \E p \in Places : copies[d][p] > 0

\* Whatever was delivered stays so: a second click on Retry, a sweep or a
\* parked retry never opens it again, and a deleted row never comes back.
OverIsOver ==
  [][\A d \in Deliveries :
       /\ row[d].status = "delivered" => row'[d] \in {row[d], Absent}
       /\ resp[d] # "absent" /\ ~handoff[d] /\ ~Exists(row[d]) => ~Exists(row'[d])]_vars

\* A delivery that has a row is concluded (or deleted with its submission),
\* through crashes, lost jobs and the switch.
EventuallySettled ==
  \A d \in Deliveries : Exists(row[d]) ~> row[d].status \in FinalStates \cup {"absent"}

-----------------------------------------------------------------------------
(* Why they hold: the inductive invariants of RegistrationDelivery_proofs.   *)
(* The first holds with every race; the others with none.                  *)

\* A delivery that was not handed off yet has left no trace.
Fresh(d) ==
  /\ ~Exists(row[d]) /\ ~Exists(rescue[d]) /\ todo[d] = NoJob
  /\ first[d] = NoPlace
  /\ \A w \in Workers : job[w] # d

Untouched(d) == /\ resp[d] = "absent" => ~handoff[d] /\ Fresh(d)
                /\ handoff[d] => Fresh(d)

AttemptShape(w) ==
  /\ pc[w] # "idle" => job[w] \in Deliveries
  /\ pc[w] = "idle" => job[w] = NoDelivery
  /\ pc[w] \in Holding \cup {"park"} => Exists(doc[w])
  /\ pc[w] \in {"snapshot", "lookup", "check", "post"} => place[w] \in Places
  /\ pc[w] = "save" => verdict[w] # "none"
  /\ pc[w] \in Looking /\ late[w] => Gone(job[w]) \/ form = "deleted"
  /\ pc[w] = "post" => ~late[w]

TraceInv == /\ \A d \in Deliveries : Untouched(d)
            /\ \A w \in Workers : AttemptShape(w)

Held(d) == \E w \in Workers : Holds(w, d)

\* Between its claim and its save a worker is alone with the row, which is the one
\* it claimed or gone (a place it failed to store is known to the worker alone).
HeldRow(w) ==
  pc[w] \in Holding =>
    /\ doc[w].status = "in_progress" /\ doc[w].attempts # 0
    /\ \/ ~Exists(row[job[w]])
       \/ /\ row[job[w]].status = "in_progress" /\ row[job[w]].attempts # 0
          /\ \/ row[job[w]].snap = doc[w].snap
             \/ row[job[w]].snap = NoPlace /\ pc[w] = "save"
    /\ \A v \in Workers : Holds(v, job[w]) => v = w

ParkedRow(w) ==
  pc[w] = "park" =>
    /\ doc[w].status = "retrying"
    /\ row[job[w]] \in {doc[w], Pending(doc[w]), Absent}

\* So is the sweep with a row it takes for lost.
RescuedRow(d) ==
  /\ Exists(rescue[d]) => rescue[d].status \in OpenStates \cup {"in_progress"}
  /\ rescue[d].status \in {"in_progress", "retrying"} =>
       row[d] \in {rescue[d], Absent} /\ ~Held(d)
  /\ rescue[d].status = "retrying" =>
       ~Waiting(todo, d) /\ \A w \in Workers : job[w] # d

RowsAreHeld == /\ \A w \in Workers : HeldRow(w) /\ ParkedRow(w)
               /\ \A d \in Deliveries : RescuedRow(d)

\* Once an Objects API had a delivery, its row names the place, and only that
\* place can have an object; a row that counts no attempt was never sent.
PinnedRow(d) ==
  /\ first[d] \in ObjectPlaces \cup {NoPlace}
  /\ row[d].snap \in ObjectPlaces \cup {NoPlace}
  /\ Exists(row[d]) /\ first[d] # NoPlace => row[d].snap = first[d] /\ row[d].attempts # 0
  /\ \A p \in ObjectPlaces : copies[d][p] = 0 \/ (copies[d][p] = 1 /\ p = first[d])
  /\ row[d].status = "delivered" => \E p \in Places : copies[d][p] > 0

\* A worker that may send has seen that no object is there; before the first
\* attempt's send there cannot be one.
PinnedAttempt(w) ==
  /\ doc[w].snap \in ObjectPlaces \cup {NoPlace}
  /\ pc[w] \in Holding /\ first[job[w]] # NoPlace => doc[w].snap = first[job[w]]
  /\ pc[w] \in Looking \cup {"post"} /\ doc[w].attempts = 1 => first[job[w]] = NoPlace
  /\ pc[w] \in {"lookup", "check", "post"} =>
       doc[w].snap = IF place[w] \in ObjectPlaces THEN place[w] ELSE NoPlace
  /\ pc[w] = "snapshot" => doc[w].snap = NoPlace /\ place[w] \in ObjectPlaces
  /\ pc[w] \in {"check", "post"} /\ place[w] \in ObjectPlaces =>
       \A p \in ObjectPlaces : copies[job[w]][p] = 0
  /\ pc[w] = "save" /\ verdict[w] = "delivered" =>
       \E p \in Places : copies[job[w]][p] > 0

PlacesArePinned == /\ \A d \in Deliveries : PinnedRow(d)
                   /\ \A w \in Workers : PinnedAttempt(w)

RegistrationInv == TraceInv /\ RowsAreHeld /\ PlacesArePinned

-----------------------------------------------------------------------------
(* Deliveries, as RegistrationPromise promises them.                       *)

State(d) == CASE resp[d] = "absent" \/ handoff[d] -> "none"
              [] ~(resp[d] = "absent" \/ handoff[d]) /\ ~Exists(row[d]) -> "gone"
              [] ~(resp[d] = "absent" \/ handoff[d]) /\ row[d].status \in FinalStates
                   -> row[d].status
              [] OTHER -> "open"

Promise == INSTANCE RegistrationPromise WITH
  Nowhere <- NoPlace, state <- [d \in Deliveries |-> State(d)], pinned <- first, held <- copies

\* What workers, sweeps, editors, erasures, retries by hand and crashes do shows one
\* history of a delivery that is delivered once, to one Objects API, and whose row
\* stays deleted when it was.
KeepsPromise == Promise!Spec
=============================================================================
