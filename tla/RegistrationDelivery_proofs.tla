--------------------- MODULE RegistrationDelivery_proofs ---------------------
(***************************************************************************)
(* Proofs about RegistrationDelivery, for any submissions, workers,        *)
(* services, addresses and keys, any MaxAttempts and number of troubles.   *)
(*                                                                         *)
(* With every race admitted: the types, LastLookWins and that a deleted    *)
(* row stays deleted, from the invariant TraceInv.  With none of them:     *)
(* SingleSender, then OneObject, PinnedPlace, DeliveredIsThere and         *)
(* OverIsOver, from RegistrationInv.  Every lemma named ...Step has one    *)
(* step per action of Next.                                                *)
(***************************************************************************)
EXTENDS RegistrationDelivery, TLAPS

USE RegistrationAssumption

-----------------------------------------------------------------------------
(* Rows, and the statements on their table.                                *)

\* A row that is there keeps being one under every change the code makes to it.
LEMMA RowTypes ==
  ASSUME NEW r \in Rows, Exists(r)
  PROVE  /\ r \in Row
         /\ \A s \in {"in_progress"} \cup OpenStates \cup FinalStates :
              [r EXCEPT !.status = s] \in Row
         /\ Pending(r) \in Row /\ Claimed(r) \in Row
         /\ \A p \in Places : [r EXCEPT !.snap = p] \in Row
<1>1. r \in Row
  BY DEF Rows, Absent, Blank, Exists
<1>2. \A s \in {"in_progress"} \cup OpenStates \cup FinalStates :
        [r EXCEPT !.status = s] \in Row
  BY <1>1 DEF Row
<1>3. Pending(r) \in Row
  BY <1>2 DEF Pending, OpenStates
<1>4. Claimed(r) \in Row
  <2>1. [r EXCEPT !.status = "in_progress"] \in Row
    BY <1>2
  <2>2. \A n \in 0 .. 2 : [r EXCEPT !.status = "in_progress", !.attempts = n] \in Row
    BY <1>1 DEF Row
  <2>3. Claimed(r) = [r EXCEPT !.status = "in_progress", !.attempts = 1]
          \/ Claimed(r) = [r EXCEPT !.status = "in_progress", !.attempts = 2]
    <3>1. DOMAIN r = {"status", "attempts", "manual", "snap"}
      BY <1>1 DEF Row
    <3>2. QED
      BY <3>1 DEF Claimed
  <2>4. QED
    BY <2>2, <2>3
<1>5. \A p \in Places : [r EXCEPT !.snap = p] \in Row
  BY <1>1 DEF Row
<1>6. QED
  BY <1>1, <1>2, <1>3, <1>4, <1>5

\* The changes touch the field they name.
LEMMA RowFields ==
  ASSUME NEW r \in Rows
  PROVE  /\ Exists(r) <=> r # Absent
         /\ Pending(r).status = "pending" /\ Claimed(r).status = "in_progress"
         /\ Pending(r).attempts = r.attempts /\ Claimed(r).attempts \in {1, 2}
         /\ Claimed(r).attempts = 1 <=> r.attempts = 0
         /\ Pending(r).snap = r.snap /\ Claimed(r).snap = r.snap
         /\ \A s : /\ [r EXCEPT !.status = s].status = s
                   /\ [r EXCEPT !.status = s].attempts = r.attempts
                   /\ [r EXCEPT !.status = s].snap = r.snap
         /\ \A p : /\ [r EXCEPT !.snap = p].status = r.status
                   /\ [r EXCEPT !.snap = p].attempts = r.attempts
                   /\ [r EXCEPT !.snap = p].snap = p
<1>1. DOMAIN r = {"status", "attempts", "manual", "snap"}
  BY DEF Rows, Row, Absent, Blank
<1>2. Exists(r) <=> r # Absent
  BY DEF Rows, Row, Absent, Blank, Exists, OpenStates, FinalStates
<1>3. QED
  BY <1>1, <1>2 DEF Pending, Claimed

\* A row that is not there has no status, no attempt and no place.
LEMMA AbsentFields ==
  /\ Absent \in Rows /\ ~Exists(Absent)
  /\ Absent.status = "absent" /\ Absent.attempts = 0 /\ Absent.snap = NoPlace
  BY DEF Absent, Blank, Rows, Exists

\* The statements leave a table of rows.
LEMMA TableTypes ==
  ASSUME row \in [Deliveries -> Rows]
  PROVE  /\ \A d \in Deliveries, r \in Row : SaveExisting(d, r) \in [Deliveries -> Rows]
         /\ \A d \in Deliveries, r \in Row : CreateIfAbsent(d, r) \in [Deliveries -> Rows]
         /\ \A gone : DeleteRows(gone) \in [Deliveries -> Rows]
  BY AbsentFields DEF SaveExisting, CreateIfAbsent, DeleteRows, Rows

\* A waiting job's run number stays within the runs a job has.
LEMMA QueueTypes ==
  ASSUME todo \in [Deliveries -> 0 .. MaxAttempts], NEW d \in Deliveries
  PROVE  /\ Defer(todo, d) \in [Deliveries -> 0 .. MaxAttempts]
         /\ Fetched(todo, d) \in [Deliveries -> 0 .. MaxAttempts]
         /\ \A n \in 0 .. MaxAttempts :
              Requeue(todo, d, n, MaxAttempts) \in [Deliveries -> 0 .. MaxAttempts]
<1>1. MaxAttempts \in Nat \ {0}
  OBVIOUS
<1>2. QED
  BY <1>1 DEF Defer, Fetched, Requeue, MayRetry, NoJob

-----------------------------------------------------------------------------
(* The types.                                                              *)

\* What a worker has at each place of an attempt.
LEMMA WorkerFacts ==
  ASSUME TypeOK, TraceInv, NEW w \in Workers
  PROVE  /\ pc[w] # "idle" => job[w] \in Deliveries
         /\ pc[w] \in Holding \cup {"park"} => doc[w] \in Row /\ Exists(doc[w])
         /\ pc[w] = "save" => verdict[w] \in FinalStates \cup {"retrying"}
<1>1. doc[w] \in Rows /\ verdict[w] \in Verdicts
  BY DEF TypeOK
<1>2. QED
  BY <1>1, RowTypes DEF TraceInv, AttemptShape, Verdicts

\* Every step keeps every variable in its type.
LEMMA TypeStep ==
  ASSUME TypeOK, TraceInv, [Next]_vars
  PROVE  TypeOK'
<1> DEFINE Table == [Deliveries -> Rows]
<1>save. \A d \in Deliveries, r \in Row : SaveExisting(d, r) \in Table
  BY TableTypes DEF TypeOK
<1>create. \A d \in Deliveries, r \in Row : CreateIfAbsent(d, r) \in Table
  BY TableTypes DEF TypeOK
<1>delete. \A gone : DeleteRows(gone) \in Table
  BY TableTypes DEF TypeOK
<1>queue. \A d \in Deliveries : /\ Defer(todo, d) \in [Deliveries -> 0 .. MaxAttempts]
                               /\ Fetched(todo, d) \in [Deliveries -> 0 .. MaxAttempts]
  BY QueueTypes, 0 \in 0 .. MaxAttempts DEF TypeOK
<1>new. Blank("pending") \in Row
  BY DEF Blank, Row, OpenStates
<1>transient. \A w : Transient(w) \in {"failed", "retrying"}
  BY DEF Transient
<1>final. {"delivered", "failed", "cancelled"} = FinalStates
  BY DEF FinalStates
<1>fails. \A w : Fails(w) => \E v \in FinalStates \cup {"retrying"} : Conclude(w, v)
  BY <1>transient DEF Fails, FinalStates
<1> USE DEF TypeOK, settings, worker, Trouble, Goto
<1>released. ASSUME NEW w \in Workers, Release(w)
             PROVE  /\ pc' \in [Workers -> Pcs]
                    /\ job' \in [Workers -> Deliveries \cup {NoDelivery}]
                    /\ run' \in [Workers -> 0 .. MaxAttempts]
                    /\ doc' \in [Workers -> Rows]
                    /\ place' \in [Workers -> Places \cup {NoPlace}]
                    /\ verdict' \in [Workers -> Verdicts]
                    /\ late' \in [Workers -> BOOLEAN]
  BY <1>released, AbsentFields DEF Release, Pcs, Verdicts
<1>concluded. ASSUME NEW w \in Workers, NEW v \in FinalStates \cup {"retrying"}, Conclude(w, v)
              PROVE  /\ pc' \in [Workers -> Pcs] /\ verdict' \in [Workers -> Verdicts]
                     /\ UNCHANGED <<job, run, doc, place, late>>
  BY <1>concluded DEF Conclude, Pcs, Verdicts
<1>1. ASSUME NEW d \in Deliveries, Submit(d) PROVE TypeOK'
  BY <1>1 DEF Submit
<1>2. ASSUME NEW d \in Deliveries, HandOff(d) PROVE TypeOK'
  <2>1. row' \in Table
    BY <1>2, <1>create, <1>new DEF HandOff
  <2>2. todo' \in [Deliveries -> 0 .. MaxAttempts] /\ trouble' \in 0 .. MaxTrouble
    BY <1>2, <1>queue DEF HandOff, Queue
  <2>3. QED
    BY <1>2, <2>1, <2>2 DEF HandOff
<1>3. ASSUME NEW d \in Deliveries, HandOffCrash(d) PROVE TypeOK'
  BY <1>3 DEF HandOffCrash
<1>4. ASSUME NEW w \in Workers, NEW d \in Deliveries, Fetch(w, d) PROVE TypeOK'
  BY <1>4, <1>queue DEF Fetch, Pcs
<1>5. ASSUME NEW w \in Workers, StartOff(w) PROVE TypeOK'
  <2>1. job[w] \in Deliveries
    BY <1>5, WorkerFacts DEF StartOff
  <2>2. CASE row[job[w]].status = "retrying"
    <3>1. row[job[w]] \in Rows
      BY <2>1
    <3>2. doc' \in [Workers -> Rows] /\ pc' \in [Workers -> Pcs]
      BY <1>5, <2>2, <3>1 DEF StartOff, Pcs
    <3>3. QED
      BY <1>5, <2>2, <3>2 DEF StartOff
  <2>3. CASE row[job[w]].status # "retrying"
    BY <1>5, <2>3, <1>released DEF StartOff
  <2>4. QED
    BY <2>2, <2>3
<1>6. ASSUME NEW w \in Workers, Park(w) PROVE TypeOK'
  <2>1. job[w] \in Deliveries /\ Pending(doc[w]) \in Row
    BY <1>6, WorkerFacts, RowTypes DEF Park, Rows
  <2>2. QED
    BY <1>6, <2>1, <1>save, <1>released DEF Park
<1>7. ASSUME NEW w \in Workers, Start(w) PROVE TypeOK'
  <2>1. job[w] \in Deliveries
    BY <1>7, WorkerFacts DEF Start
  <2>2. CASE Claimable(job[w])
    <3>1. Exists(row[job[w]])
      BY <2>2 DEF Claimable, OpenStates, Exists
    <3>2. Claimed(row[job[w]]) \in Rows
      BY <2>1, <3>1, RowTypes DEF Rows
    <3>3. row' \in Table
      BY <1>7, <2>1, <2>2, <3>2 DEF Start
    <3>4. doc' \in [Workers -> Rows] /\ pc' \in [Workers -> Pcs]
      <4>1. doc' = [doc EXCEPT ![w] = Claimed(row[job[w]])]
              /\ pc' = [pc EXCEPT ![w] = "attempt"]
        BY <1>7, <2>2 DEF Start
      <4>2. QED
        BY <3>2, <4>1 DEF Pcs
    <3>5. late' \in [Workers -> BOOLEAN]
      <4>1. (Gone(job[w]) \/ form = "deleted") \in BOOLEAN
        BY DEF Gone
      <4>2. QED
        BY <1>7, <2>2, <4>1 DEF Start
    <3>6. QED
      BY <1>7, <2>2, <3>3, <3>4, <3>5 DEF Start
  <2>3. CASE ~Claimable(job[w])
    BY <1>7, <2>3, <1>released DEF Start
  <2>4. QED
    BY <2>2, <2>3
<1>8. ASSUME NEW w \in Workers, StartFails(w) PROVE TypeOK'
  BY <1>8 DEF StartFails, Pcs
<1>9. ASSUME NEW w \in Workers, Attempt(w) PROVE TypeOK'
  <2>1. CASE \E v \in FinalStates \cup {"retrying"} : Conclude(w, v) /\ UNCHANGED row
    BY <1>9, <2>1, <1>concluded DEF Attempt
  <2>2. CASE row' = DeleteRows({job[w]}) /\ Release(w)
    BY <1>9, <2>2, <1>delete, <1>released DEF Attempt
  <2>3. CASE /\ Goto(w, Sending(doc[w], PlaceOf(doc[w])))
             /\ place' = [place EXCEPT ![w] = PlaceOf(doc[w])]
             /\ UNCHANGED <<row, job, run, doc, verdict, late>>
    <3>1. PlaceOf(doc[w]) \in Places
      BY <1>9, WorkerFacts DEF Attempt, PlaceOf, Places, Registrations, Row, Holding
    <3>2. Sending(doc[w], PlaceOf(doc[w])) \in Pcs
      BY DEF Sending, Pcs
    <3>3. QED
      BY <1>9, <2>3, <3>1, <3>2 DEF Attempt
  <2>4. QED
    BY <1>9, <2>1, <2>2, <2>3, <1>fails, <1>final DEF Attempt
<1>10. ASSUME NEW w \in Workers, Snapshot(w) PROVE TypeOK'
  <2> DEFINE c == [doc[w] EXCEPT !.snap = place[w]]
  <2>1. job[w] \in Deliveries /\ c \in Row
    BY <1>10, WorkerFacts, RowTypes DEF Snapshot, TraceInv, AttemptShape, Holding, Rows
  <2>2. CASE Release(w) /\ UNCHANGED row
    BY <1>10, <2>2, <1>released DEF Snapshot
  <2>3. CASE /\ row' = SaveExisting(job[w], c)
             /\ doc' = [doc EXCEPT ![w] = c]
             /\ Goto(w, IF LookFirst(c) THEN "lookup" ELSE "check")
             /\ UNCHANGED <<job, run, place, verdict, late>>
    <3>1. row' \in Table /\ doc' \in [Workers -> Rows]
      BY <2>1, <2>3, <1>save DEF Rows
    <3>2. pc' \in [Workers -> Pcs]
      BY <2>3 DEF Pcs
    <3>3. QED
      BY <1>10, <2>3, <3>1, <3>2 DEF Snapshot
  <2>4. CASE /\ doc' = [doc EXCEPT ![w] = c]
             /\ Goto(w, "save")
             /\ verdict' = [verdict EXCEPT ![w] = Transient(w)]
             /\ UNCHANGED <<row, job, run, place, late>>
    <3>1. doc' \in [Workers -> Rows]
      BY <2>1, <2>4 DEF Rows
    <3>2. pc' \in [Workers -> Pcs] /\ verdict' \in [Workers -> Verdicts]
      BY <2>4, <1>transient DEF Pcs, Verdicts, FinalStates
    <3>3. QED
      BY <1>10, <2>4, <3>1, <3>2 DEF Snapshot
  <2>5. QED
    BY <1>10, <2>2, <2>3, <2>4 DEF Snapshot
<1>11. ASSUME NEW w \in Workers, Lookup(w) PROVE TypeOK'
  <2>1. CASE \E v \in FinalStates \cup {"retrying"} : Conclude(w, v)
    BY <1>11, <2>1, <1>concluded DEF Lookup
  <2>2. CASE Goto(w, "check") /\ UNCHANGED <<job, run, doc, place, verdict, late>>
    BY <1>11, <2>2 DEF Lookup, Pcs
  <2>3. QED
    BY <1>11, <2>1, <2>2, <1>fails, <1>final DEF Lookup
<1>12. ASSUME NEW w \in Workers, Check(w) PROVE TypeOK'
  <2>1. CASE Release(w) /\ UNCHANGED row
    BY <1>12, <2>1, <1>released DEF Check
  <2>2. CASE row' = DeleteRows({job[w]}) /\ Release(w)
    BY <1>12, <2>2, <1>delete, <1>released DEF Check
  <2>3. CASE \E v \in FinalStates \cup {"retrying"} : Conclude(w, v) /\ UNCHANGED row
    BY <1>12, <2>3, <1>concluded DEF Check
  <2>4. CASE Goto(w, "post") /\ UNCHANGED <<row, job, run, doc, place, verdict, late>>
    BY <1>12, <2>4 DEF Check, Pcs
  <2>5. QED
    BY <1>12, <2>1, <2>2, <2>3, <2>4, <1>fails, <1>final DEF Check
<1>13. ASSUME NEW w \in Workers, Post(w) PROVE TypeOK'
  <2>1. job[w] \in Deliveries /\ place[w] \in Places
    BY <1>13 DEF Post, TraceInv, AttemptShape
  <2>2. \E v \in FinalStates \cup {"retrying"} : Conclude(w, v)
    BY <1>13, <1>transient, <1>final DEF Post, Answers
  <2>3. copies' \in [Deliveries -> [Places -> Nat]]
    <3>1. [copies EXCEPT ![job[w]][place[w]] = @ + 1] \in [Deliveries -> [Places -> Nat]]
      BY <2>1
    <3>2. QED
      BY <1>13, <3>1 DEF Post
  <2>4. first' \in [Deliveries -> Places \cup {NoPlace}]
    BY <1>13, <2>1 DEF Post
  <2>5. QED
    BY <1>13, <2>2, <2>3, <2>4, <1>concluded DEF Post
<1>14. ASSUME NEW w \in Workers, Save(w) PROVE TypeOK'
  <2>1. job[w] \in Deliveries /\ [doc[w] EXCEPT !.status = verdict[w]] \in Row
    BY <1>14, WorkerFacts, RowTypes DEF Save, OpenStates, Holding, Rows
  <2>2. row' \in Table
    BY <1>14, <2>1, <1>save DEF Save
  <2>3. CASE verdict[w] = "retrying"
    BY <1>14, <2>2, <2>3 DEF Save, Pcs
  <2>4. CASE verdict[w] # "retrying"
    BY <1>14, <2>2, <2>4, <1>released DEF Save
  <2>5. QED
    BY <2>3, <2>4
<1>15. ASSUME NEW w \in Workers, SaveFails(w) PROVE TypeOK'
  <2>1. Transient(w) \in Verdicts
    BY <1>transient DEF Verdicts, FinalStates
  <2>2. pc' \in [Workers -> Pcs]
    <3>1. UNCHANGED pc \/ pc' = [pc EXCEPT ![w] = "requeue"]
      BY <1>15 DEF SaveFails, Goto
    <3>2. QED
      BY <3>1 DEF Pcs
  <2>3. verdict' \in [Workers -> Verdicts]
    <3>1. verdict' \in {verdict, [verdict EXCEPT ![w] = Transient(w)]}
      BY <1>15 DEF SaveFails
    <3>2. QED
      BY <2>1, <3>1
  <2>4. QED
    BY <1>15, <2>2, <2>3 DEF SaveFails
<1>16. ASSUME NEW w \in Workers, RequeueJob(w) PROVE TypeOK'
  <2>1. todo' \in [Deliveries -> 0 .. MaxAttempts]
    BY <1>16, QueueTypes, WorkerFacts DEF RequeueJob
  <2>2. QED
    BY <1>16, <2>1, <1>released DEF RequeueJob
<1>17. ASSUME NEW w \in Workers, Crash(w) PROVE TypeOK'
  BY <1>17, <1>released DEF Crash
<1>18. ASSUME NEW d \in Deliveries, Retry(d) PROVE TypeOK'
  <2>1. Exists(row[d])
    BY <1>18 DEF Retry, Retryable, Exists
  <2>2. [row[d] EXCEPT !.status = "pending", !.manual = 1] \in Row
    <3>1. row[d] \in Row
      BY <2>1, RowTypes
    <3>2. [row[d] EXCEPT !.manual = 1] \in Row
      <4>1. \A n \in 0 .. 1 : [row[d] EXCEPT !.manual = n] \in Row
        BY <3>1 DEF Row
      <4>2. 1 \in 0 .. 1
        OBVIOUS
      <4>3. QED
        BY <4>1, <4>2
    <3>3. [row[d] EXCEPT !.status = "pending", !.manual = 1]
            = [[row[d] EXCEPT !.manual = 1] EXCEPT !.status = "pending"]
      BY <3>1 DEF Row
    <3>4. QED
      BY <3>2, <3>3 DEF Row, OpenStates
  <2>3. row' \in Table
    BY <1>18, <2>2 DEF Retry, Rows
  <2>4. QED
    BY <1>18, <2>3, <1>queue DEF Retry
<1>19. ASSUME NEW d \in Deliveries, SweepRead(d) PROVE TypeOK'
  BY <1>19 DEF SweepRead
<1>20. ASSUME NEW d \in Deliveries, SweepSave(d) PROVE TypeOK'
  <2>1. Pending(rescue[d]) \in Row
    BY <1>20, RowTypes DEF SweepSave
  <2>2. row' \in Table /\ rescue' \in Table
    BY <1>20, <2>1, <1>save, AbsentFields DEF SweepSave
  <2>3. todo' \in [Deliveries -> 0 .. MaxAttempts] /\ trouble' \in 0 .. MaxTrouble
    BY <1>20, <1>queue DEF SweepSave, Queue
  <2>4. QED
    BY <1>20, <2>2, <2>3 DEF SweepSave
<1>21. CASE SweepCrash
  BY <1>21, AbsentFields DEF SweepCrash
<1>22. ASSUME NEW d \in Deliveries, SweepOrphan(d) PROVE TypeOK'
  BY <1>22, <1>delete DEF SweepOrphan
<1>23. CASE EditForm
  BY <1>23 DEF EditForm
<1>24. ASSUME NEW s \in Services, MoveService(s) PROVE TypeOK'
  <2>1. svc' \in [Services -> [present : BOOLEAN, address : Addresses]]
    BY <1>24 DEF MoveService
  <2>2. QED
    BY <1>24, <2>1 DEF MoveService
<1>25. ASSUME NEW s \in Services, DeleteService(s) PROVE TypeOK'
  <2>1. reg' \in Registrations
    BY <1>25 DEF DeleteService
  <2>2. svc' \in [Services -> [present : BOOLEAN, address : Addresses]]
    <3>1. svc[s] \in [present : BOOLEAN, address : Addresses]
      OBVIOUS
    <3>2. [svc[s] EXCEPT !.present = FALSE] \in [present : BOOLEAN, address : Addresses]
      BY <3>1
    <3>3. svc' = [svc EXCEPT ![s] = [svc[s] EXCEPT !.present = FALSE]]
      BY <1>25 DEF DeleteService
    <3>4. QED
      BY <3>2, <3>3
  <2>3. QED
    BY <1>25, <2>1, <2>2 DEF DeleteService
<1>26. ASSUME NEW d \in Deliveries, EraseResponse(d) PROVE TypeOK'
  BY <1>26 DEF EraseResponse
<1>27. ASSUME NEW d \in Deliveries, EraseRow(d) PROVE TypeOK'
  BY <1>27, <1>delete DEF EraseRow
<1>28. CASE RemoveForm
  BY <1>28 DEF RemoveForm
<1>29. CASE DeleteFormRows
  BY <1>29, <1>delete DEF DeleteFormRows
<1>30. CASE DeleteRegistration
  BY <1>30 DEF DeleteRegistration
<1>31. CASE SwitchOff
  <2>1. trouble' \in 0 .. MaxTrouble
    BY <1>31 DEF SwitchOff
  <2>2. QED
    BY <1>31, <2>1, Zenon DEF SwitchOff
<1>32. CASE SwitchOn
  BY <1>32 DEF SwitchOn
<1>33. CASE UNCHANGED vars
  BY <1>33 DEF vars
<1>34. QED
  BY <1>1, <1>2, <1>3, <1>4, <1>5, <1>6, <1>7, <1>8, <1>9, <1>10, <1>11, <1>12, <1>13,
     <1>14, <1>15, <1>16, <1>17, <1>18, <1>19, <1>20, <1>21, <1>22, <1>23, <1>24, <1>25,
     <1>26, <1>27, <1>28, <1>29, <1>30, <1>31, <1>32, <1>33
     DEF Next, Submission, Job, Step, Sweeper, Sweep, Around

\* Every step leaves a delivery untouched until it is handed off, and every worker
\* with the job and the row it has taken.
LEMMA TraceStep ==
  ASSUME TypeOK, TraceInv, [Next]_vars
  PROVE  TraceInv'
<1>a. \A d \in Deliveries : Untouched(d)
  BY DEF TraceInv
<1>b. \A w \in Workers : AttemptShape(w)
  BY DEF TraceInv
<1>n. NoDelivery \notin Deliveries /\ NoPlace \notin Places
  OBVIOUS
<1> USE DEF TypeOK, settings, worker, Untouched, Fresh, AttemptShape, Goto, Gone, Holding, Looking
<1>same. ASSUME UNCHANGED <<resp, handoff, row, todo, pc, job, doc, place, verdict, rescue, first, late, form>>
         PROVE  TraceInv'
  BY <1>same DEF TraceInv, Exists
<1>1. ASSUME NEW d \in Deliveries, Submit(d) PROVE TraceInv'
  <2>1. ASSUME NEW e \in Deliveries PROVE Untouched(e)'
    BY <1>a, <1>b, <1>n, <1>1 DEF Submit
  <2>2. ASSUME NEW v \in Workers PROVE AttemptShape(v)'
    BY <1>a, <1>b, <1>n, <1>1 DEF Submit
  <2>3. QED
    BY <2>1, <2>2 DEF TraceInv
<1>2. ASSUME NEW d \in Deliveries, HandOff(d) PROVE TraceInv'
  <2>1. ASSUME NEW e \in Deliveries PROVE Untouched(e)'
    BY <1>a, <1>b, <1>n, <1>2 DEF HandOff, CreateIfAbsent, Blank, Queue, Defer
  <2>2. ASSUME NEW v \in Workers PROVE AttemptShape(v)'
    BY <1>a, <1>b, <1>n, <1>2 DEF HandOff, CreateIfAbsent, Blank, Queue, Defer
  <2>3. QED
    BY <2>1, <2>2 DEF TraceInv
<1>3. ASSUME NEW d \in Deliveries, HandOffCrash(d) PROVE TraceInv'
  <2>1. ASSUME NEW e \in Deliveries PROVE Untouched(e)'
    BY <1>a, <1>b, <1>n, <1>3 DEF HandOffCrash
  <2>2. ASSUME NEW v \in Workers PROVE AttemptShape(v)'
    BY <1>a, <1>b, <1>n, <1>3 DEF HandOffCrash
  <2>3. QED
    BY <2>1, <2>2 DEF TraceInv
<1>4. ASSUME NEW w \in Workers, NEW d \in Deliveries, Fetch(w, d) PROVE TraceInv'
  <2>1. ASSUME NEW e \in Deliveries PROVE Untouched(e)'
    BY <1>a, <1>b, <1>n, <1>4 DEF Fetch, Waiting, Fetched
  <2>2. ASSUME NEW v \in Workers PROVE AttemptShape(v)'
    BY <1>a, <1>b, <1>n, <1>4 DEF Fetch, Waiting, Fetched
  <2>3. QED
    BY <2>1, <2>2 DEF TraceInv
<1>5. ASSUME NEW w \in Workers, StartOff(w) PROVE TraceInv'
  <2>1. ASSUME NEW e \in Deliveries PROVE Untouched(e)'
    BY <1>a, <1>b, <1>n, <1>5 DEF StartOff, Release
  <2>2. ASSUME NEW v \in Workers PROVE AttemptShape(v)'
    <3>1. row[job[w]].status = "retrying" => Exists(row[job[w]])
      BY DEF Exists
    <3>2. QED
      BY <1>b, <1>n, <1>5, <3>1 DEF StartOff, Release
  <2>3. QED
    BY <2>1, <2>2 DEF TraceInv
<1>6. ASSUME NEW w \in Workers, Park(w) PROVE TraceInv'
  <2>1. ASSUME NEW e \in Deliveries PROVE Untouched(e)'
    BY <1>a, <1>b, <1>n, <1>6 DEF Park, SaveExisting, Pending, Release
  <2>2. ASSUME NEW v \in Workers PROVE AttemptShape(v)'
    BY <1>a, <1>b, <1>n, <1>6 DEF Park, SaveExisting, Pending, Release
  <2>3. QED
    BY <2>1, <2>2 DEF TraceInv
<1>7. ASSUME NEW w \in Workers, Start(w) PROVE TraceInv'
  <2>1. ASSUME NEW e \in Deliveries PROVE Untouched(e)'
    BY <1>a, <1>b, <1>n, <1>7 DEF Start, Claimable, Claimed, Release
  <2>2. ASSUME NEW v \in Workers PROVE AttemptShape(v)'
    <3>1. job[w] \in Deliveries
      BY <1>b, <1>7 DEF Start
    <3>2. Exists(Claimed(row[job[w]]))
      BY <3>1, RowFields DEF Exists
    <3>3. CASE Claimable(job[w])
      <4>1. doc'[w] = Claimed(row[job[w]]) /\ Exists(doc'[w])
        BY <1>7, <3>1, <3>2, <3>3 DEF Start
      <4>2. CASE v = w
        BY <1>b, <1>n, <1>7, <3>1, <3>3, <4>1, <4>2 DEF Start
      <4>3. CASE v # w
        BY <1>b, <1>n, <1>7, <3>3, <4>3 DEF Start
      <4> QED
        BY <4>2, <4>3
    <3>4. CASE ~Claimable(job[w])
      BY <1>b, <1>n, <1>7, <3>4 DEF Start, Release
    <3>5. QED
      BY <3>3, <3>4
  <2>3. QED
    BY <2>1, <2>2 DEF TraceInv
<1>8. ASSUME NEW w \in Workers, StartFails(w) PROVE TraceInv'
  <2>1. ASSUME NEW e \in Deliveries PROVE Untouched(e)'
    BY <1>a, <1>b, <1>n, <1>8 DEF StartFails
  <2>2. ASSUME NEW v \in Workers PROVE AttemptShape(v)'
    BY <1>a, <1>b, <1>n, <1>8 DEF StartFails
  <2>3. QED
    BY <2>1, <2>2 DEF TraceInv
<1>9. ASSUME NEW w \in Workers, Attempt(w) PROVE TraceInv'
  <2>1. ASSUME NEW e \in Deliveries PROVE Untouched(e)'
    BY <1>a, <1>b, <1>n, <1>9 DEF Attempt, DeleteRows, Release, Conclude, Fails
  <2>2. ASSUME NEW v \in Workers PROVE AttemptShape(v)'
    <3>1. CASE \E u \in FinalStates \cup {"retrying"} : Conclude(w, u)
      BY <1>b, <1>n, <1>9, <3>1 DEF Attempt, Conclude, FinalStates
    <3>2. CASE Release(w)
      BY <1>b, <1>n, <1>9, <3>2 DEF Attempt, Release
    <3>3. CASE /\ ~Gone(job[w]) /\ Wanted
               /\ Goto(w, Sending(doc[w], PlaceOf(doc[w])))
               /\ place' = [place EXCEPT ![w] = PlaceOf(doc[w])]
               /\ UNCHANGED <<row, job, run, doc, verdict, late>>
      <4>1. PlaceOf(doc[w]) \in Places
        BY <1>b, <1>9, WorkerFacts DEF Attempt, PlaceOf, Places, Registrations, Row
      <4>2. Sending(doc[w], PlaceOf(doc[w])) \in {"snapshot", "lookup", "check"}
        BY DEF Sending
      <4>3. QED
        BY <1>b, <1>n, <1>9, <3>3, <4>1, <4>2 DEF Attempt, Wanted
    <3>4. QED
      BY <1>9, <3>1, <3>2, <3>3 DEF Attempt, Fails, Transient, FinalStates
  <2>3. QED
    BY <2>1, <2>2 DEF TraceInv
<1>10. ASSUME NEW w \in Workers, Snapshot(w) PROVE TraceInv'
  <2>1. ASSUME NEW e \in Deliveries PROVE Untouched(e)'
    BY <1>a, <1>b, <1>n, <1>10 DEF Snapshot, SaveExisting, Release, Transient, LookFirst
  <2>2. ASSUME NEW v \in Workers PROVE AttemptShape(v)'
    <3> DEFINE c == [doc[w] EXCEPT !.snap = place[w]]
    <3>1. Exists(doc[w]) /\ c.status = doc[w].status
      BY <1>b, <1>10, RowFields DEF Snapshot
    <3>2. Exists(c)
      BY <3>1 DEF Exists
    <3>3. CASE Release(w)
      BY <1>b, <1>n, <1>10, <3>3 DEF Snapshot, Release
    <3>4. CASE /\ doc' = [doc EXCEPT ![w] = c]
               /\ Goto(w, IF LookFirst(c) THEN "lookup" ELSE "check")
               /\ UNCHANGED <<job, run, place, verdict, late>>
      BY <1>b, <1>n, <1>10, <3>2, <3>4 DEF Snapshot
    <3>5. CASE /\ doc' = [doc EXCEPT ![w] = c]
               /\ Goto(w, "save")
               /\ verdict' = [verdict EXCEPT ![w] = Transient(w)]
               /\ UNCHANGED <<row, job, run, place, late>>
      BY <1>b, <1>n, <1>10, <3>2, <3>5 DEF Snapshot, Transient
    <3>6. QED
      BY <1>10, <3>3, <3>4, <3>5 DEF Snapshot
  <2>3. QED
    BY <2>1, <2>2 DEF TraceInv
<1>11. ASSUME NEW w \in Workers, Lookup(w) PROVE TraceInv'
  <2>1. ASSUME NEW e \in Deliveries PROVE Untouched(e)'
    BY <1>a, <1>b, <1>n, <1>11 DEF Lookup, Conclude, Fails, Transient
  <2>2. ASSUME NEW v \in Workers PROVE AttemptShape(v)'
    BY <1>a, <1>b, <1>n, <1>11 DEF Lookup, Conclude, Fails, Transient
  <2>3. QED
    BY <2>1, <2>2 DEF TraceInv
<1>12. ASSUME NEW w \in Workers, Check(w) PROVE TraceInv'
  <2>1. ASSUME NEW e \in Deliveries PROVE Untouched(e)'
    BY <1>a, <1>b, <1>n, <1>12 DEF Check, DeleteRows, Release, Conclude, Fails, Transient, Wanted
  <2>2. ASSUME NEW v \in Workers PROVE AttemptShape(v)'
    BY <1>a, <1>b, <1>n, <1>12 DEF Check, DeleteRows, Release, Conclude, Fails, Transient, Wanted
  <2>3. QED
    BY <2>1, <2>2 DEF TraceInv
<1>13. ASSUME NEW w \in Workers, Post(w) PROVE TraceInv'
  <2>1. ASSUME NEW e \in Deliveries PROVE Untouched(e)'
    BY <1>a, <1>b, <1>n, <1>13 DEF Post, Conclude, Answers, Transient
  <2>2. ASSUME NEW v \in Workers PROVE AttemptShape(v)'
    <3>1. PICK a \in Answers(w) : Conclude(w, a.verdict)
      BY <1>13 DEF Post
    <3>2. a.verdict # "none"
      BY DEF Answers, Transient
    <3>3. QED
      BY <1>b, <1>n, <1>13, <3>1, <3>2 DEF Post, Conclude
  <2>3. QED
    BY <2>1, <2>2 DEF TraceInv
<1>14. ASSUME NEW w \in Workers, Save(w) PROVE TraceInv'
  <2>1. ASSUME NEW e \in Deliveries PROVE Untouched(e)'
    BY <1>a, <1>b, <1>n, <1>14 DEF Save, SaveExisting, Release
  <2>2. ASSUME NEW v \in Workers PROVE AttemptShape(v)'
    BY <1>a, <1>b, <1>n, <1>14 DEF Save, SaveExisting, Release
  <2>3. QED
    BY <2>1, <2>2 DEF TraceInv
<1>15. ASSUME NEW w \in Workers, SaveFails(w) PROVE TraceInv'
  <2>1. ASSUME NEW e \in Deliveries PROVE Untouched(e)'
    BY <1>a, <1>b, <1>n, <1>15 DEF SaveFails, Transient
  <2>2. ASSUME NEW v \in Workers PROVE AttemptShape(v)'
    BY <1>a, <1>b, <1>n, <1>15 DEF SaveFails, Transient
  <2>3. QED
    BY <2>1, <2>2 DEF TraceInv
<1>16. ASSUME NEW w \in Workers, RequeueJob(w) PROVE TraceInv'
  <2>1. ASSUME NEW e \in Deliveries PROVE Untouched(e)'
    BY <1>a, <1>b, <1>n, <1>16 DEF RequeueJob, Requeue, Release
  <2>2. ASSUME NEW v \in Workers PROVE AttemptShape(v)'
    BY <1>a, <1>b, <1>n, <1>16 DEF RequeueJob, Requeue, Release
  <2>3. QED
    BY <2>1, <2>2 DEF TraceInv
<1>17. ASSUME NEW w \in Workers, Crash(w) PROVE TraceInv'
  <2>1. ASSUME NEW e \in Deliveries PROVE Untouched(e)'
    BY <1>a, <1>b, <1>n, <1>17 DEF Crash, Release
  <2>2. ASSUME NEW v \in Workers PROVE AttemptShape(v)'
    BY <1>a, <1>b, <1>n, <1>17 DEF Crash, Release
  <2>3. QED
    BY <2>1, <2>2 DEF TraceInv
<1>18. ASSUME NEW d \in Deliveries, Retry(d) PROVE TraceInv'
  <2>1. ASSUME NEW e \in Deliveries PROVE Untouched(e)'
    <3>1. Exists(row[d])
      BY <1>18 DEF Retry, Retryable, Exists
    <3>2. QED
      BY <1>a, <1>18, <3>1 DEF Retry, Defer
  <2>2. ASSUME NEW v \in Workers PROVE AttemptShape(v)'
    BY <1>a, <1>b, <1>n, <1>18 DEF Retry, Retryable, Defer
  <2>3. QED
    BY <2>1, <2>2 DEF TraceInv
<1>19. ASSUME NEW d \in Deliveries, SweepRead(d) PROVE TraceInv'
  <2>1. ASSUME NEW e \in Deliveries PROVE Untouched(e)'
    BY <1>a, <1>b, <1>n, <1>19 DEF SweepRead, Stuck
  <2>2. ASSUME NEW v \in Workers PROVE AttemptShape(v)'
    BY <1>a, <1>b, <1>n, <1>19 DEF SweepRead, Stuck
  <2>3. QED
    BY <2>1, <2>2 DEF TraceInv
<1>20. ASSUME NEW d \in Deliveries, SweepSave(d) PROVE TraceInv'
  <2>1. ASSUME NEW e \in Deliveries PROVE Untouched(e)'
    BY <1>a, <1>b, <1>n, <1>20 DEF SweepSave, SaveExisting, Pending, Queue, Defer
  <2>2. ASSUME NEW v \in Workers PROVE AttemptShape(v)'
    BY <1>a, <1>b, <1>n, <1>20 DEF SweepSave, SaveExisting, Pending, Queue, Defer
  <2>3. QED
    BY <2>1, <2>2 DEF TraceInv
<1>21. CASE SweepCrash
  <2>1. ASSUME NEW e \in Deliveries PROVE Untouched(e)'
    BY <1>a, <1>21, AbsentFields DEF SweepCrash
  <2>2. ASSUME NEW v \in Workers PROVE AttemptShape(v)'
    BY <1>a, <1>b, <1>n, <1>21 DEF SweepCrash
  <2>3. QED
    BY <2>1, <2>2 DEF TraceInv
<1>22. ASSUME NEW d \in Deliveries, SweepOrphan(d) PROVE TraceInv'
  <2>1. ASSUME NEW e \in Deliveries PROVE Untouched(e)'
    BY <1>a, <1>b, <1>n, <1>22 DEF SweepOrphan, DeleteRows
  <2>2. ASSUME NEW v \in Workers PROVE AttemptShape(v)'
    BY <1>a, <1>b, <1>n, <1>22 DEF SweepOrphan, DeleteRows
  <2>3. QED
    BY <2>1, <2>2 DEF TraceInv
<1>23. CASE EditForm
  BY <1>23, <1>same DEF EditForm
<1>24. ASSUME NEW s \in Services, MoveService(s) PROVE TraceInv'
  BY <1>24, <1>same DEF MoveService
<1>25. ASSUME NEW s \in Services, DeleteService(s) PROVE TraceInv'
  BY <1>25, <1>same DEF DeleteService
<1>26. ASSUME NEW d \in Deliveries, EraseResponse(d) PROVE TraceInv'
  <2>1. ASSUME NEW e \in Deliveries PROVE Untouched(e)'
    BY <1>a, <1>b, <1>n, <1>26 DEF EraseResponse
  <2>2. ASSUME NEW v \in Workers PROVE AttemptShape(v)'
    BY <1>a, <1>b, <1>n, <1>26 DEF EraseResponse
  <2>3. QED
    BY <2>1, <2>2 DEF TraceInv
<1>27. ASSUME NEW d \in Deliveries, EraseRow(d) PROVE TraceInv'
  <2>1. ASSUME NEW e \in Deliveries PROVE Untouched(e)'
    BY <1>a, <1>27, AbsentFields DEF EraseRow, DeleteRows
  <2>2. ASSUME NEW v \in Workers PROVE AttemptShape(v)'
    BY <1>a, <1>b, <1>n, <1>27 DEF EraseRow, DeleteRows
  <2>3. QED
    BY <2>1, <2>2 DEF TraceInv
<1>28. CASE RemoveForm
  <2>1. ASSUME NEW e \in Deliveries PROVE Untouched(e)'
    BY <1>a, <1>b, <1>n, <1>28 DEF RemoveForm
  <2>2. ASSUME NEW v \in Workers PROVE AttemptShape(v)'
    BY <1>a, <1>b, <1>n, <1>28 DEF RemoveForm
  <2>3. QED
    BY <2>1, <2>2 DEF TraceInv
<1>29. CASE DeleteFormRows
  <2>1. ASSUME NEW e \in Deliveries PROVE Untouched(e)'
    BY <1>a, <1>29, AbsentFields DEF DeleteFormRows, DeleteRows
  <2>2. ASSUME NEW v \in Workers PROVE AttemptShape(v)'
    BY <1>a, <1>b, <1>n, <1>29 DEF DeleteFormRows, DeleteRows
  <2>3. QED
    BY <2>1, <2>2 DEF TraceInv
<1>30. CASE DeleteRegistration
  <2>1. ASSUME NEW e \in Deliveries PROVE Untouched(e)'
    BY <1>a, <1>b, <1>n, <1>30 DEF DeleteRegistration
  <2>2. ASSUME NEW v \in Workers PROVE AttemptShape(v)'
    BY <1>a, <1>b, <1>n, <1>30 DEF DeleteRegistration
  <2>3. QED
    BY <2>1, <2>2 DEF TraceInv
<1>31. CASE SwitchOff
  BY <1>31, <1>same DEF SwitchOff
<1>32. CASE SwitchOn
  BY <1>32, <1>same DEF SwitchOn
<1>33. CASE UNCHANGED vars
  BY <1>33, <1>same DEF vars
<1>34. QED
  BY <1>1, <1>2, <1>3, <1>4, <1>5, <1>6, <1>7, <1>8, <1>9, <1>10, <1>11, <1>12, <1>13,
     <1>14, <1>15, <1>16, <1>17, <1>18, <1>19, <1>20, <1>21, <1>22, <1>23, <1>24, <1>25,
     <1>26, <1>27, <1>28, <1>29, <1>30, <1>31, <1>32, <1>33
     DEF Next, Submission, Job, Step, Sweeper, Sweep, Around

-----------------------------------------------------------------------------
(* One worker to a row.                                                    *)

\* Without the races, every step leaves a claimed, parked or rescued row to who
\* has it.
LEMMA RowsStep ==
  ASSUME Races = {}, TypeOK, TypeOK', TraceInv, TraceInv', RowsAreHeld, PlacesArePinned,
         [Next]_vars
  PROVE  RowsAreHeld'
<1>a. \A d \in Deliveries : Untouched(d) /\ Untouched(d)'
  BY DEF TraceInv
<1>b. \A w \in Workers : AttemptShape(w) /\ AttemptShape(w)'
  BY DEF TraceInv
<1>c. \A w \in Workers : HeldRow(w) /\ ParkedRow(w)
  BY DEF RowsAreHeld
<1>e. \A d \in Deliveries : RescuedRow(d)
  BY DEF RowsAreHeld
<1>n. NoDelivery \notin Deliveries /\ NoPlace \notin Places
  OBVIOUS
<1> USE DEF TypeOK, worker, Goto
<1>same. ASSUME UNCHANGED <<row, todo, pc, job, doc, rescue>> PROVE RowsAreHeld'
  BY <1>same DEF RowsAreHeld, HeldRow, ParkedRow, RescuedRow, Held, Holds, Waiting, Exists
<1>keep. ASSUME NEW v \in Workers, pc'[v] = pc[v], job'[v] = job[v], doc'[v] = doc[v],
                pc[v] # "idle" => row'[job[v]] \in {row[job[v]], Absent},
                \A u \in Workers : pc'[u] \in Holding => pc[u] \in Holding /\ job'[u] = job[u]
         PROVE  HeldRow(v)' /\ ParkedRow(v)'
  <2>1. pc[v] \in Holding => \A u \in Workers : Holds(u, job[v])' => u = v
    BY <1>c, <1>keep DEF HeldRow, Holds
  <2>2. pc[v] \in Holding => row'[job[v]] \in {row[job[v]], Absent}
    BY <1>keep DEF Holding
  <2>3. HeldRow(v)'
    <3>1. CASE pc[v] \in Holding /\ row'[job[v]] = row[job[v]]
      BY <1>c, <1>keep, <2>1, <3>1 DEF HeldRow, Exists
    <3>2. CASE pc[v] \in Holding /\ row'[job[v]] = Absent
      BY <1>c, <1>keep, <2>1, <3>2, AbsentFields DEF HeldRow, Exists
    <3>3. CASE pc[v] \notin Holding
      BY <1>keep, <3>3 DEF HeldRow
    <3>4. QED
      BY <2>2, <3>1, <3>2, <3>3
  <2>4. ParkedRow(v)'
    BY <1>c, <1>keep, AbsentFields DEF ParkedRow
  <2>5. QED
    BY <2>3, <2>4
<1>left. ASSUME NEW v \in Workers, pc'[v] \notin Holding \cup {"park"}
         PROVE  HeldRow(v)' /\ ParkedRow(v)'
  BY <1>left DEF HeldRow, ParkedRow
<1>wait. ASSUME NEW e \in Deliveries, rescue'[e] = rescue[e],
                rescue[e].status \in {"in_progress", "retrying"} =>
                  /\ row'[e] \in {row[e], Absent} /\ (Held(e)' => Held(e))
                  /\ rescue[e].status = "retrying" =>
                       todo'[e] \in {todo[e], NoJob} /\ \A u \in Workers : job'[u] = e => job[u] = e
         PROVE  RescuedRow(e)'
  BY <1>e, <1>wait, AbsentFields DEF RescuedRow, Exists, Waiting
<1>fewer. ASSUME \A u \in Workers : pc'[u] \in Holding => pc[u] \in Holding /\ job'[u] = job[u]
          PROVE  \A e \in Deliveries : Held(e)' => Held(e)
  BY <1>fewer DEF Held, Holds
<1>p. ASSUME NEW w \in Workers, pc[w] = "park"
      PROVE  /\ job[w] \in Deliveries /\ doc[w] \in Rows
             /\ row[job[w]] \in {doc[w], Pending(doc[w]), Absent}
             /\ doc[w].status = "retrying" /\ Pending(doc[w]).status = "pending"
             /\ row[job[w]].status \in {"retrying", "pending", "absent"}
  <2>1. job[w] \in Deliveries
    BY <1>b, <1>p DEF AttemptShape
  <2>2. row[job[w]] \in {doc[w], Pending(doc[w]), Absent} /\ doc[w].status = "retrying"
    BY <1>c, <1>p DEF ParkedRow
  <2>3. Pending(doc[w]).status = "pending"
    BY RowFields
  <2>4. QED
    BY <2>1, <2>2, <2>3, AbsentFields
<1>h. ASSUME NEW w \in Workers, pc[w] \in Holding
      PROVE  /\ job[w] \in Deliveries /\ doc[w] \in Row /\ doc[w].status = "in_progress"
             /\ row[job[w]].status \in {"in_progress", "absent"}
             /\ \A v \in Workers : job[v] = job[w] /\ pc[v] \in Holding => v = w
             /\ rescue[job[w]].status \notin {"in_progress", "retrying"}
  <2>1. job[w] \in Deliveries /\ doc[w] \in Row
    BY <1>h, WorkerFacts DEF Holding
  <2>2. doc[w].status = "in_progress" /\ row[job[w]].status \in {"in_progress", "absent"}
    BY <1>c, <1>h DEF HeldRow, Exists
  <2>3. \A v \in Workers : job[v] = job[w] /\ pc[v] \in Holding => v = w
    BY <1>c, <1>h DEF HeldRow, Holds
  <2>4. rescue[job[w]].status \notin {"in_progress", "retrying"}
    BY <1>e, <1>h, <2>1 DEF RescuedRow, Held, Holds
  <2>5. QED
    BY <2>1, <2>2, <2>3, <2>4
<1>others. ASSUME NEW w \in Workers, pc[w] \in Holding, pc'[w] \in Holding => job'[w] = job[w],
                  \A v \in Workers \ {w} : pc'[v] = pc[v] /\ job'[v] = job[v] /\ doc'[v] = doc[v],
                  \A k \in Deliveries :
                    row'[k] \in {row[k], Absent} \/ (k = job[w] /\ row[k].status # "absent")
           PROVE  \A v \in Workers \ {w} : HeldRow(v)' /\ ParkedRow(v)'
  <2> SUFFICES ASSUME NEW v \in Workers \ {w} PROVE HeldRow(v)' /\ ParkedRow(v)'
    OBVIOUS
  <2>1. \A u \in Workers : pc'[u] \in Holding => pc[u] \in Holding /\ job'[u] = job[u]
    BY <1>others
  <2>2. pc[v] # "idle" => job[v] \in Deliveries
    BY <1>b DEF AttemptShape
  <2>3. CASE job[v] # job[w] \/ ~Exists(row[job[w]])
    BY <1>keep, <1>others, <2>1, <2>2, <2>3 DEF Exists
  <2>4. CASE job[v] = job[w] /\ Exists(row[job[w]])
    <3>1. pc[v] \notin Holding
      BY <1>h, <1>others, <2>4
    <3>2. pc[v] # "park"
      BY <1>h, <1>p, <1>others, <2>4 DEF Exists
    <3>3. QED
      BY <1>left, <1>others, <3>1, <3>2
  <2>5. QED
    BY <2>3, <2>4
<1>alone. ASSUME NEW w \in Workers, pc[w] \in Holding, pc'[w] \in Holding => job'[w] = job[w],
                 \A v \in Workers \ {w} : pc'[v] = pc[v] /\ job'[v] = job[v],
                 job'[w] \in {job[w], NoDelivery}, UNCHANGED <<todo, rescue>>,
                 \A k \in Deliveries : row'[k] \in {row[k], Absent} \/ k = job[w]
          PROVE  \A e \in Deliveries : RescuedRow(e)'
  <2> SUFFICES ASSUME NEW e \in Deliveries PROVE RescuedRow(e)'
    OBVIOUS
  <2>1. Held(e)' => Held(e)
    BY <1>fewer, <1>alone
  <2>2. e = job[w] => rescue[e].status \notin {"in_progress", "retrying"}
    BY <1>h, <1>alone
  <2>3. QED
    BY <1>n, <1>wait, <1>alone, <2>1, <2>2
<1>gone. ASSUME \A k \in Deliveries : row'[k] \in {row[k], Absent},
                UNCHANGED <<todo, pc, job, doc, rescue>>
         PROVE  RowsAreHeld'
  <2>1. ASSUME NEW v \in Workers PROVE HeldRow(v)' /\ ParkedRow(v)'
    BY <1>b, <1>keep, <1>gone DEF AttemptShape
  <2>2. ASSUME NEW e \in Deliveries PROVE RescuedRow(e)'
    <3>1. Held(e)' => Held(e)
      BY <1>gone DEF Held, Holds
    <3>2. QED
      BY <1>wait, <1>gone, <3>1
  <2>3. QED
    BY <2>1, <2>2 DEF RowsAreHeld
<1>1. ASSUME NEW d \in Deliveries, Submit(d) PROVE RowsAreHeld'
  BY <1>1, <1>same DEF Submit
<1>2. ASSUME NEW d \in Deliveries, HandOff(d) PROVE RowsAreHeld'
  <2>1. ASSUME NEW v \in Workers PROVE HeldRow(v)' /\ ParkedRow(v)'
    <3>1. \A u \in Workers : job[u] # d
      BY <1>a, <1>2 DEF HandOff, Untouched, Fresh
    <3>2. \A k \in Deliveries : k # d => row'[k] = row[k]
      BY <1>2 DEF HandOff, CreateIfAbsent
    <3>3. QED
      BY <1>b, <1>keep, <1>2, <3>1, <3>2 DEF HandOff, AttemptShape
  <2>2. ASSUME NEW e \in Deliveries PROVE RescuedRow(e)'
    <3>1. ~Exists(rescue[d])
      BY <1>a, <1>2 DEF HandOff, Untouched, Fresh
    <3>2. \A k \in Deliveries : k # d => row'[k] = row[k] /\ todo'[k] = todo[k]
      BY <1>2 DEF HandOff, CreateIfAbsent, Queue, Defer
    <3>3. e = d => rescue[e].status = "absent"
      BY <3>1 DEF Exists
    <3>4. Held(e)' => Held(e)
      BY <1>2 DEF HandOff, Held, Holds
    <3>5. QED
      BY <1>wait, <1>2, <3>2, <3>3, <3>4 DEF HandOff
  <2>3. QED
    BY <2>1, <2>2 DEF RowsAreHeld
<1>3. ASSUME NEW d \in Deliveries, HandOffCrash(d) PROVE RowsAreHeld'
  BY <1>3, <1>same DEF HandOffCrash
<1>4. ASSUME NEW w \in Workers, NEW d \in Deliveries, Fetch(w, d) PROVE RowsAreHeld'
  <2>1. ASSUME NEW v \in Workers PROVE HeldRow(v)' /\ ParkedRow(v)'
    <3>1. CASE v = w
      BY <1>left, <1>4, <3>1 DEF Fetch, Holding
    <3>2. CASE v # w
      BY <1>keep, <1>4, <3>2 DEF Fetch, Holding
    <3>3. QED
      BY <3>1, <3>2
  <2>2. ASSUME NEW e \in Deliveries PROVE RescuedRow(e)'
    <3>1. Held(e)' => Held(e)
      BY <1>fewer, <1>4 DEF Fetch, Holding
    <3>2. rescue[e].status = "retrying" => e # d
      BY <1>e, <1>4 DEF Fetch, RescuedRow
    <3>3. QED
      BY <1>wait, <1>4, <3>1, <3>2 DEF Fetch, Fetched
  <2>3. QED
    BY <2>1, <2>2 DEF RowsAreHeld
<1>5. ASSUME NEW w \in Workers, StartOff(w) PROVE RowsAreHeld'
  <2>1. ASSUME NEW v \in Workers PROVE HeldRow(v)' /\ ParkedRow(v)'
    <3>0. /\ pc'[w] \in {"idle", "park"} /\ row' = row
          /\ \A u \in Workers : u # w => pc'[u] = pc[u] /\ job'[u] = job[u] /\ doc'[u] = doc[u]
      BY <1>5 DEF StartOff, Release
    <3>1. CASE v # w
      BY <1>keep, <3>0, <3>1 DEF Holding
    <3>2. CASE v = w /\ row[job[w]].status = "retrying"
      BY <1>5, <3>2 DEF StartOff, HeldRow, ParkedRow, Holding
    <3>3. CASE v = w /\ row[job[w]].status # "retrying"
      <4>1. pc'[w] = "idle"
        BY <1>5, <3>3 DEF StartOff, Release
      <4>2. QED
        BY <1>left, <3>3, <4>1 DEF Holding
    <3>4. QED
      BY <3>1, <3>2, <3>3
  <2>2. ASSUME NEW e \in Deliveries PROVE RescuedRow(e)'
    <3>1. Held(e)' => Held(e)
      BY <1>fewer, <1>5 DEF StartOff, Release, Holding
    <3>2. QED
      BY <1>n, <1>wait, <1>5, <3>1 DEF StartOff, Release
  <2>3. QED
    BY <2>1, <2>2 DEF RowsAreHeld
<1>6. ASSUME NEW w \in Workers, Park(w) PROVE RowsAreHeld'
  <2>1. ASSUME NEW v \in Workers PROVE HeldRow(v)' /\ ParkedRow(v)'
    <3>1. CASE v = w
      BY <1>left, <1>6, <3>1 DEF Park, Release, Holding
    <3>2. CASE v # w /\ job[v] # job[w]
      BY <1>keep, <1>6, <3>2 DEF Park, SaveExisting, Release, Holding
    <3>3. CASE v # w /\ job[v] = job[w] /\ pc[v] # "park"
      <4>1. pc[v] \in Holding => ~Exists(row[job[v]])
        BY <1>h, <1>p, <1>6, <3>3 DEF Park, Exists
      <4>2. pc[v] \in Holding => row'[job[v]] = row[job[v]]
        BY <1>6, <3>3, <4>1 DEF Park, SaveExisting
      <4>3. CASE pc[v] \in Holding
        BY <1>keep, <1>6, <3>3, <4>2, <4>3 DEF Park, Release, Holding
      <4>4. CASE pc[v] \notin Holding
        BY <1>left, <1>6, <3>3, <4>4 DEF Park, Release, Holding
      <4>5. QED
        BY <4>3, <4>4
    <3>4. CASE v # w /\ job[v] = job[w] /\ pc[v] = "park"
      <4>1. row[job[w]] \in {doc[v], Pending(doc[v]), Absent} /\ doc[v].status = "retrying"
        BY <1>c, <1>6, <3>4 DEF ParkedRow
      <4>2. Pending(doc[v]).status = "pending"
        BY RowFields
      <4>3. row'[job[w]] \in {Pending(doc[v]), Absent}
        BY <1>p, <1>6, <4>1, <4>2, AbsentFields DEF Park, SaveExisting, Exists
      <4>4. QED
        BY <1>6, <3>4, <4>1, <4>3 DEF Park, Release, HeldRow, ParkedRow, Holding
    <3>5. QED
      BY <3>1, <3>2, <3>3, <3>4
  <2>2. ASSUME NEW e \in Deliveries PROVE RescuedRow(e)'
    <3>1. Held(e)' => Held(e)
      BY <1>fewer, <1>6 DEF Park, Release, Holding
    <3>2. CASE e # job[w]
      BY <1>n, <1>wait, <1>6, <3>1, <3>2 DEF Park, SaveExisting, Release
    <3>3. CASE e = job[w]
      <4>1. rescue[e].status # "retrying"
        BY <1>e, <3>3 DEF RescuedRow
      <4>2. rescue[e].status = "in_progress" => row[e] \in {rescue[e], Absent}
        BY <1>e DEF RescuedRow
      <4>3. rescue[e].status = "in_progress" => ~Exists(row[e])
        BY <1>p, <1>6, <3>3, <4>2, AbsentFields DEF Park
      <4>4. rescue[e].status = "in_progress" => row'[e] = row[e]
        BY <1>6, <3>3, <4>3 DEF Park, SaveExisting
      <4>5. QED
        BY <1>n, <1>wait, <1>6, <3>1, <4>1, <4>4 DEF Park, Release
    <3>4. QED
      BY <3>2, <3>3
  <2>3. QED
    BY <2>1, <2>2 DEF RowsAreHeld
<1>7. ASSUME NEW w \in Workers, Start(w) PROVE RowsAreHeld'
  <2>1. ASSUME NEW v \in Workers PROVE HeldRow(v)' /\ ParkedRow(v)'
    <3>1. CASE Claimable(job[w])
      <4>1. row[job[w]].status \in OpenStates /\ Exists(row[job[w]])
        BY <3>1 DEF Claimable, OpenStates, Exists
      <4>2. \A u \in Workers : job[u] = job[w] => pc[u] \notin Holding \cup {"park"}
        <5>1. \A u \in Workers : job[u] = job[w] => pc[u] # "park"
          BY <1>7 DEF Start, Parking
        <5>2. \A u \in Workers : job[u] = job[w] => pc[u] \notin Holding
          BY <1>h, <4>1 DEF OpenStates
        <5>3. QED
          BY <5>1, <5>2
      <4>3. CASE v # w /\ job[v] # job[w]
        <5>1. /\ pc[v] # "idle" => row'[job[v]] = row[job[v]]
              /\ UNCHANGED job
              /\ \A u \in Workers : u # w => pc'[u] = pc[u] /\ doc'[u] = doc[u]
          BY <1>b, <1>7, <3>1, <4>3 DEF Start, AttemptShape
        <5>2. pc[v] \in Holding => \A u \in Workers : Holds(u, job[v])' => u = v
          BY <1>h, <4>3, <5>1 DEF Holds
        <5>3. QED
          BY <1>c, <4>3, <5>1, <5>2 DEF HeldRow, ParkedRow, Holding
      <4>4. CASE v # w /\ job[v] = job[w]
        BY <1>left, <1>7, <3>1, <4>2, <4>4 DEF Start
      <4>5. CASE v = w
        <5>1. /\ job[w] \in Deliveries
              /\ Claimed(row[job[w]]).status = "in_progress"
              /\ Claimed(row[job[w]]).attempts # 0
          <6>1. job[w] \in Deliveries
            BY <1>b, <1>7 DEF Start, AttemptShape
          <6>2. row[job[w]] \in Rows
            BY <6>1
          <6>3. \A r \in Rows : Claimed(r).status = "in_progress" /\ Claimed(r).attempts \in {1, 2}
            BY RowFields
          <6>4. Claimed(row[job[w]]).attempts \in {1, 2}
            BY <6>2, <6>3
          <6>5. Claimed(row[job[w]]).attempts # 0
            BY <6>4
          <6>6. QED
            BY <6>1, <6>2, <6>3, <6>5
        <5>2. row'[job[w]] = Claimed(row[job[w]]) /\ doc'[w] = row'[job[w]]
          BY <1>7, <3>1, <5>1 DEF Start
        <5>3. \A u \in Workers : Holds(u, job[w])' => u = w
          BY <1>7, <3>1, <4>2 DEF Start, Holds
        <5>4. QED
          BY <1>7, <3>1, <4>5, <5>1, <5>2, <5>3 DEF Start, HeldRow, ParkedRow, Holding
      <4>6. QED
        BY <4>3, <4>4, <4>5
    <3>2. CASE ~Claimable(job[w])
      <4>1. CASE v # w
        BY <1>keep, <1>7, <3>2, <4>1 DEF Start, Release, Holding
      <4>2. CASE v = w
        <5>1. pc'[w] = "idle"
          BY <1>7, <3>2 DEF Start, Release
        <5>2. QED
          BY <1>left, <4>2, <5>1 DEF Holding
      <4>3. QED
        BY <4>1, <4>2
    <3>3. QED
      BY <3>1, <3>2
  <2>2. ASSUME NEW e \in Deliveries PROVE RescuedRow(e)'
    <3>1. CASE ~Claimable(job[w])
      <4>1. Held(e)' => Held(e)
        BY <1>fewer, <1>7, <3>1 DEF Start, Release, Holding
      <4>2. QED
        BY <1>n, <1>wait, <1>7, <3>1, <4>1 DEF Start, Release
    <3>2. CASE Claimable(job[w]) /\ e = job[w]
      <4>1. rescue[e].status # "retrying"
        BY <1>e, <3>2 DEF RescuedRow
      <4>2. rescue[e].status # "in_progress"
        BY <1>e, <3>2, AbsentFields DEF RescuedRow, Claimable, OpenStates
      <4>3. QED
        BY <1>wait, <1>7, <4>1, <4>2 DEF Start
    <3>3. CASE Claimable(job[w]) /\ e # job[w]
      <4>1. Held(e)' => Held(e)
        BY <1>7, <3>3 DEF Start, Held, Holds
      <4>2. QED
        BY <1>wait, <1>7, <3>3, <4>1 DEF Start
    <3>4. QED
      BY <3>1, <3>2, <3>3
  <2>3. QED
    BY <2>1, <2>2 DEF RowsAreHeld
<1>8. ASSUME NEW w \in Workers, StartFails(w) PROVE RowsAreHeld'
  <2>1. ASSUME NEW v \in Workers PROVE HeldRow(v)' /\ ParkedRow(v)'
    BY <1>left, <1>keep, <1>8 DEF StartFails, Holding
  <2>2. ASSUME NEW e \in Deliveries PROVE RescuedRow(e)'
    <3>1. Held(e)' => Held(e)
      BY <1>fewer, <1>8 DEF StartFails, Holding
    <3>2. QED
      BY <1>wait, <1>8, <3>1 DEF StartFails
  <2>3. QED
    BY <2>1, <2>2 DEF RowsAreHeld
<1>9. ASSUME NEW w \in Workers, Attempt(w) PROVE RowsAreHeld'
  <2>1. /\ pc[w] \in Holding /\ (pc'[w] \in Holding => job'[w] = job[w])
        /\ job'[w] \in {job[w], NoDelivery} /\ UNCHANGED <<todo, rescue>>
        /\ \A v \in Workers \ {w} : pc'[v] = pc[v] /\ job'[v] = job[v] /\ doc'[v] = doc[v]
    BY <1>9 DEF Attempt, Holding, Release, Conclude, Fails
  <2>2. \A k \in Deliveries : row'[k] \in {row[k], Absent} \/ (k = job[w] /\ row[k].status # "absent")
    BY <1>9 DEF Attempt, DeleteRows, Release, Conclude, Fails, Exists
  <2>3. HeldRow(w)' /\ ParkedRow(w)'
    <3>1. CASE Release(w)
      BY <1>left, <3>1 DEF Release, Holding
    <3>2. CASE ~Release(w)
      <4>1. doc'[w] = doc[w] /\ job'[w] = job[w] /\ row' = row
        BY <1>9, <3>2 DEF Attempt, Conclude, Fails
      <4>2. pc'[w] # "park" /\ (pc[w] = "save" => pc'[w] \in {"save", "requeue"})
        BY <1>9, <3>2 DEF Attempt, Conclude, Fails, Sending
      <4>3. \A u \in Workers : pc'[u] \in Holding => pc[u] \in Holding /\ job'[u] = job[u]
        BY <2>1
      <4>4. QED
        BY <1>c, <2>1, <4>1, <4>2, <4>3 DEF HeldRow, ParkedRow, Holds, Holding
    <3>3. QED
      BY <3>1, <3>2
  <2>4. \A v \in Workers \ {w} : HeldRow(v)' /\ ParkedRow(v)'
    BY <1>others, <2>1, <2>2
  <2>5. \A e \in Deliveries : RescuedRow(e)'
    BY <1>alone, <2>1, <2>2
  <2>6. QED
    BY <2>3, <2>4, <2>5 DEF RowsAreHeld
<1>10. ASSUME NEW w \in Workers, Snapshot(w) PROVE RowsAreHeld'
  <2>1. /\ pc[w] \in Holding /\ (pc'[w] \in Holding => job'[w] = job[w])
        /\ job'[w] \in {job[w], NoDelivery} /\ UNCHANGED <<todo, rescue>>
        /\ \A v \in Workers \ {w} : pc'[v] = pc[v] /\ job'[v] = job[v] /\ doc'[v] = doc[v]
    BY <1>10 DEF Snapshot, Holding, Release, Conclude, Fails
  <2>2. \A k \in Deliveries : row'[k] \in {row[k], Absent} \/ (k = job[w] /\ row[k].status # "absent")
    BY <1>10 DEF Snapshot, SaveExisting, Release, Exists
  <2>3. HeldRow(w)' /\ ParkedRow(w)'
    <3> DEFINE c == [doc[w] EXCEPT !.snap = place[w]]
    <3>1. /\ c.status = "in_progress" /\ c.attempts = doc[w].attempts /\ c.snap = place[w]
      BY <1>h, <2>1, RowFields
    <3>2. doc[w].snap = NoPlace
      BY <1>10 DEF Snapshot, PlacesArePinned, PinnedAttempt
    <3>3. \A u \in Workers : pc'[u] \in Holding => pc[u] \in Holding /\ job'[u] = job[u]
      BY <2>1
    <3>4. CASE Release(w)
      BY <1>left, <3>4 DEF Release, Holding
    <3>5. CASE ~Release(w)
      <4>1. doc'[w] = c /\ job'[w] = job[w] /\ row'[job[w]] \in {row[job[w]], c}
        BY <1>h, <1>10, <2>1, <3>5 DEF Snapshot, SaveExisting
      <4>2. pc'[w] # "park"
        BY <1>10, <3>5 DEF Snapshot
      <4>3. QED
        <5>1. \/ ~Exists(row'[job[w]])
              \/ row'[job[w]].snap = c.snap
              \/ row'[job[w]].snap = NoPlace /\ pc'[w] = "save"
          <6>1. row[job[w]].snap = NoPlace \/ ~Exists(row[job[w]])
            BY <1>c, <2>1, <3>2 DEF HeldRow
          <6>2. row'[job[w]] = c \/ pc'[w] = "save"
            BY <1>h, <1>10, <2>1, <3>5 DEF Snapshot, SaveExisting
          <6>3. QED
            BY <4>1, <6>1, <6>2
        <5>2. \/ ~Exists(row'[job[w]])
              \/ row'[job[w]].status = "in_progress" /\ row'[job[w]].attempts # 0
          <6>1. c.attempts # 0
            BY <1>c, <2>1, <3>1 DEF HeldRow
          <6>2. \/ ~Exists(row[job[w]])
                \/ row[job[w]].status = "in_progress" /\ row[job[w]].attempts # 0
            BY <1>c, <2>1 DEF HeldRow
          <6>3. QED
            BY <3>1, <4>1, <6>1, <6>2
        <5>3. c.attempts # 0
          BY <1>c, <2>1, <3>1 DEF HeldRow
        <5>4. \A u \in Workers : Holds(u, job[w])' => u = w
          BY <1>h, <2>1, <3>3 DEF Holds
        <5>5. QED
          BY <3>1, <4>1, <4>2, <5>1, <5>2, <5>3, <5>4 DEF HeldRow, ParkedRow
    <3>6. QED
      BY <3>4, <3>5
  <2>4. \A v \in Workers \ {w} : HeldRow(v)' /\ ParkedRow(v)'
    BY <1>others, <2>1, <2>2
  <2>5. \A e \in Deliveries : RescuedRow(e)'
    BY <1>alone, <2>1, <2>2
  <2>6. QED
    BY <2>3, <2>4, <2>5 DEF RowsAreHeld
<1>11. ASSUME NEW w \in Workers, Lookup(w) PROVE RowsAreHeld'
  <2>1. /\ pc[w] \in Holding /\ (pc'[w] \in Holding => job'[w] = job[w])
        /\ job'[w] \in {job[w], NoDelivery} /\ UNCHANGED <<todo, rescue>>
        /\ \A v \in Workers \ {w} : pc'[v] = pc[v] /\ job'[v] = job[v] /\ doc'[v] = doc[v]
    BY <1>11 DEF Lookup, Holding, Release, Conclude, Fails
  <2>2. \A k \in Deliveries : row'[k] \in {row[k], Absent} \/ (k = job[w] /\ row[k].status # "absent")
    BY <1>11 DEF Lookup, Exists
  <2>3. HeldRow(w)' /\ ParkedRow(w)'
    <3>1. CASE Release(w)
      BY <1>left, <3>1 DEF Release, Holding
    <3>2. CASE ~Release(w)
      <4>1. doc'[w] = doc[w] /\ job'[w] = job[w] /\ row' = row
        BY <1>11, <3>2 DEF Lookup, Conclude, Fails
      <4>2. pc'[w] # "park" /\ (pc[w] = "save" => pc'[w] \in {"save", "requeue"})
        BY <1>11, <3>2 DEF Lookup, Conclude, Fails
      <4>3. \A u \in Workers : pc'[u] \in Holding => pc[u] \in Holding /\ job'[u] = job[u]
        BY <2>1
      <4>4. QED
        BY <1>c, <2>1, <4>1, <4>2, <4>3 DEF HeldRow, ParkedRow, Holds, Holding
    <3>3. QED
      BY <3>1, <3>2
  <2>4. \A v \in Workers \ {w} : HeldRow(v)' /\ ParkedRow(v)'
    BY <1>others, <2>1, <2>2
  <2>5. \A e \in Deliveries : RescuedRow(e)'
    BY <1>alone, <2>1, <2>2
  <2>6. QED
    BY <2>3, <2>4, <2>5 DEF RowsAreHeld
<1>12. ASSUME NEW w \in Workers, Check(w) PROVE RowsAreHeld'
  <2>1. /\ pc[w] \in Holding /\ (pc'[w] \in Holding => job'[w] = job[w])
        /\ job'[w] \in {job[w], NoDelivery} /\ UNCHANGED <<todo, rescue>>
        /\ \A v \in Workers \ {w} : pc'[v] = pc[v] /\ job'[v] = job[v] /\ doc'[v] = doc[v]
    BY <1>12 DEF Check, Holding, Release, Conclude, Fails
  <2>2. \A k \in Deliveries : row'[k] \in {row[k], Absent} \/ (k = job[w] /\ row[k].status # "absent")
    BY <1>12 DEF Check, DeleteRows, Release, Conclude, Fails, Exists
  <2>3. HeldRow(w)' /\ ParkedRow(w)'
    <3>1. CASE Release(w)
      BY <1>left, <3>1 DEF Release, Holding
    <3>2. CASE ~Release(w)
      <4>1. doc'[w] = doc[w] /\ job'[w] = job[w] /\ row' = row
        BY <1>12, <3>2 DEF Check, Conclude, Fails
      <4>2. pc'[w] # "park" /\ (pc[w] = "save" => pc'[w] \in {"save", "requeue"})
        BY <1>12, <3>2 DEF Check, Conclude, Fails
      <4>3. \A u \in Workers : pc'[u] \in Holding => pc[u] \in Holding /\ job'[u] = job[u]
        BY <2>1
      <4>4. QED
        BY <1>c, <2>1, <4>1, <4>2, <4>3 DEF HeldRow, ParkedRow, Holds, Holding
    <3>3. QED
      BY <3>1, <3>2
  <2>4. \A v \in Workers \ {w} : HeldRow(v)' /\ ParkedRow(v)'
    BY <1>others, <2>1, <2>2
  <2>5. \A e \in Deliveries : RescuedRow(e)'
    BY <1>alone, <2>1, <2>2
  <2>6. QED
    BY <2>3, <2>4, <2>5 DEF RowsAreHeld
<1>13. ASSUME NEW w \in Workers, Post(w) PROVE RowsAreHeld'
  <2>1. /\ pc[w] \in Holding /\ (pc'[w] \in Holding => job'[w] = job[w])
        /\ job'[w] \in {job[w], NoDelivery} /\ UNCHANGED <<todo, rescue>>
        /\ \A v \in Workers \ {w} : pc'[v] = pc[v] /\ job'[v] = job[v] /\ doc'[v] = doc[v]
    BY <1>13 DEF Post, Holding, Release, Conclude, Fails
  <2>2. \A k \in Deliveries : row'[k] \in {row[k], Absent} \/ (k = job[w] /\ row[k].status # "absent")
    BY <1>13 DEF Post, Exists
  <2>3. HeldRow(w)' /\ ParkedRow(w)'
    <3>1. CASE Release(w)
      BY <1>left, <3>1 DEF Release, Holding
    <3>2. CASE ~Release(w)
      <4>1. doc'[w] = doc[w] /\ job'[w] = job[w] /\ row' = row
        BY <1>13, <3>2 DEF Post, Conclude, Fails
      <4>2. pc'[w] # "park" /\ (pc[w] = "save" => pc'[w] \in {"save", "requeue"})
        BY <1>13, <3>2 DEF Post, Conclude, Fails
      <4>3. \A u \in Workers : pc'[u] \in Holding => pc[u] \in Holding /\ job'[u] = job[u]
        BY <2>1
      <4>4. QED
        BY <1>c, <2>1, <4>1, <4>2, <4>3 DEF HeldRow, ParkedRow, Holds, Holding
    <3>3. QED
      BY <3>1, <3>2
  <2>4. \A v \in Workers \ {w} : HeldRow(v)' /\ ParkedRow(v)'
    BY <1>others, <2>1, <2>2
  <2>5. \A e \in Deliveries : RescuedRow(e)'
    BY <1>alone, <2>1, <2>2
  <2>6. QED
    BY <2>3, <2>4, <2>5 DEF RowsAreHeld
<1>14. ASSUME NEW w \in Workers, Save(w) PROVE RowsAreHeld'
  <2>1. /\ pc[w] \in Holding /\ (pc'[w] \in Holding => job'[w] = job[w])
        /\ job'[w] \in {job[w], NoDelivery} /\ UNCHANGED <<todo, rescue>>
        /\ \A v \in Workers \ {w} : pc'[v] = pc[v] /\ job'[v] = job[v] /\ doc'[v] = doc[v]
    BY <1>14 DEF Save, Holding, Release, Conclude, Fails
  <2>2. \A k \in Deliveries : row'[k] \in {row[k], Absent} \/ (k = job[w] /\ row[k].status # "absent")
    BY <1>14 DEF Save, SaveExisting, Exists
  <2>3. HeldRow(w)' /\ ParkedRow(w)'
    <3>1. pc'[w] \in {"idle", "requeue"}
      BY <1>14 DEF Save, Release
    <3>2. QED
      BY <1>left, <3>1 DEF Holding
  <2>4. \A v \in Workers \ {w} : HeldRow(v)' /\ ParkedRow(v)'
    BY <1>others, <2>1, <2>2
  <2>5. \A e \in Deliveries : RescuedRow(e)'
    BY <1>alone, <2>1, <2>2
  <2>6. QED
    BY <2>3, <2>4, <2>5 DEF RowsAreHeld
<1>15. ASSUME NEW w \in Workers, SaveFails(w) PROVE RowsAreHeld'
  <2>1. /\ pc[w] \in Holding /\ (pc'[w] \in Holding => job'[w] = job[w])
        /\ job'[w] \in {job[w], NoDelivery} /\ UNCHANGED <<todo, rescue>>
        /\ \A v \in Workers \ {w} : pc'[v] = pc[v] /\ job'[v] = job[v] /\ doc'[v] = doc[v]
    BY <1>15 DEF SaveFails, Holding, Release, Conclude, Fails
  <2>2. \A k \in Deliveries : row'[k] \in {row[k], Absent} \/ (k = job[w] /\ row[k].status # "absent")
    BY <1>15 DEF SaveFails, Exists
  <2>3. HeldRow(w)' /\ ParkedRow(w)'
    <3>1. CASE Release(w)
      BY <1>left, <3>1 DEF Release, Holding
    <3>2. CASE ~Release(w)
      <4>1. doc'[w] = doc[w] /\ job'[w] = job[w] /\ row' = row
        BY <1>15, <3>2 DEF SaveFails, Conclude, Fails
      <4>2. pc'[w] # "park" /\ (pc[w] = "save" => pc'[w] \in {"save", "requeue"})
        BY <1>15, <3>2 DEF SaveFails, Conclude, Fails
      <4>3. \A u \in Workers : pc'[u] \in Holding => pc[u] \in Holding /\ job'[u] = job[u]
        BY <2>1
      <4>4. QED
        BY <1>c, <2>1, <4>1, <4>2, <4>3 DEF HeldRow, ParkedRow, Holds, Holding
    <3>3. QED
      BY <3>1, <3>2
  <2>4. \A v \in Workers \ {w} : HeldRow(v)' /\ ParkedRow(v)'
    BY <1>others, <2>1, <2>2
  <2>5. \A e \in Deliveries : RescuedRow(e)'
    BY <1>alone, <2>1, <2>2
  <2>6. QED
    BY <2>3, <2>4, <2>5 DEF RowsAreHeld
<1>16. ASSUME NEW w \in Workers, RequeueJob(w) PROVE RowsAreHeld'
  <2>1. ASSUME NEW v \in Workers PROVE HeldRow(v)' /\ ParkedRow(v)'
    BY <1>left, <1>keep, <1>16 DEF RequeueJob, Release, Holding
  <2>2. ASSUME NEW e \in Deliveries PROVE RescuedRow(e)'
    <3>1. Held(e)' => Held(e)
      BY <1>fewer, <1>16 DEF RequeueJob, Release, Holding
    <3>2. rescue[e].status = "retrying" => e # job[w]
      BY <1>e DEF RescuedRow
    <3>3. QED
      BY <1>n, <1>wait, <1>16, <3>1, <3>2 DEF RequeueJob, Requeue, Release
  <2>3. QED
    BY <2>1, <2>2 DEF RowsAreHeld
<1>17. ASSUME NEW w \in Workers, Crash(w) PROVE RowsAreHeld'
  <2>1. ASSUME NEW v \in Workers PROVE HeldRow(v)' /\ ParkedRow(v)'
    BY <1>left, <1>keep, <1>17 DEF Crash, Release, Holding
  <2>2. ASSUME NEW e \in Deliveries PROVE RescuedRow(e)'
    <3>1. Held(e)' => Held(e)
      BY <1>fewer, <1>17 DEF Crash, Release, Holding
    <3>2. QED
      BY <1>n, <1>wait, <1>17, <3>1 DEF Crash, Release
  <2>3. QED
    BY <2>1, <2>2 DEF RowsAreHeld
<1>18. ASSUME NEW d \in Deliveries, Retry(d) PROVE RowsAreHeld'
  <2>1. row[d].status \in {"failed", "cancelled"} /\ \A k \in Deliveries : k # d => row'[k] = row[k]
    BY <1>18 DEF Retry, Retryable
  <2>2. \A u \in Workers : job[u] = d => pc[u] \notin Holding \cup {"park"}
    BY <1>h, <1>p, <2>1
  <2>3. ASSUME NEW v \in Workers PROVE HeldRow(v)' /\ ParkedRow(v)'
    <3>1. CASE job[v] = d
      BY <1>left, <1>18, <2>2, <3>1 DEF Retry
    <3>2. CASE job[v] # d
      BY <1>b, <1>keep, <1>18, <2>1, <3>2 DEF Retry, AttemptShape
    <3>3. QED
      BY <3>1, <3>2
  <2>4. ASSUME NEW e \in Deliveries PROVE RescuedRow(e)'
    <3>1. e = d => rescue[e].status \notin {"in_progress", "retrying"}
      BY <1>e, <2>1, AbsentFields DEF RescuedRow
    <3>2. Held(e)' => Held(e)
      BY <1>18 DEF Retry, Held, Holds
    <3>3. e # d => todo'[e] = todo[e]
      BY <1>18 DEF Retry, Defer
    <3>4. QED
      BY <1>wait, <1>18, <2>1, <3>1, <3>2, <3>3 DEF Retry
  <2>5. QED
    BY <2>3, <2>4 DEF RowsAreHeld
<1>19. ASSUME NEW d \in Deliveries, SweepRead(d) PROVE RowsAreHeld'
  <2>1. ASSUME NEW v \in Workers PROVE HeldRow(v)' /\ ParkedRow(v)'
    BY <1>keep, <1>19 DEF SweepRead
  <2>2. ASSUME NEW e \in Deliveries PROVE RescuedRow(e)'
    <3>1. Held(e)' => Held(e)
      BY <1>19 DEF SweepRead, Held, Holds
    <3>2. CASE e # d
      BY <1>wait, <1>19, <3>1, <3>2 DEF SweepRead
    <3>3. CASE e = d
      <4>1. rescue'[e] = row[e] /\ row'[e] = row[e]
        BY <1>19, <3>3 DEF SweepRead
      <4>2. row[e].status \in OpenStates \cup {"in_progress"}
        BY <1>19, <3>3 DEF SweepRead, Stuck, OpenStates
      <4>3. row[e].status = "in_progress" => ~Held(e)
        BY <1>19, <3>3 DEF SweepRead, Stuck, Held
      <4>4. row[e].status = "retrying" => ~Waiting(todo, e) /\ \A u \in Workers : job[u] # e
        BY <1>19, <3>3 DEF SweepRead, Stuck
      <4>5. row[e].status = "retrying" => ~Held(e)
        BY <4>4 DEF Held, Holds
      <4>6. QED
        BY <1>19, <3>1, <4>1, <4>2, <4>3, <4>4, <4>5 DEF SweepRead, RescuedRow, Waiting
    <3>4. QED
      BY <3>2, <3>3
  <2>3. QED
    BY <2>1, <2>2 DEF RowsAreHeld
<1>20. ASSUME NEW d \in Deliveries, SweepSave(d) PROVE RowsAreHeld'
  <2>1. /\ \A k \in Deliveries : k # d => row'[k] = row[k] /\ todo'[k] = todo[k] /\ rescue'[k] = rescue[k]
        /\ rescue'[d] = Absent
    BY <1>20 DEF SweepSave, SaveExisting, Queue, Defer
  <2>2. rescue[d].status \in {"pending", "in_progress", "retrying"}
    BY <1>e, <1>20 DEF SweepSave, RescuedRow, OpenStates
  <2>3. ASSUME NEW v \in Workers, job[v] = d, pc[v] \in Holding \cup {"park"}
        PROVE  row'[d] = row[d]
    <3>1. CASE rescue[d].status = "pending"
      BY <1>20, <3>1 DEF SweepSave
    <3>2. CASE rescue[d].status # "pending"
      <4>1. pc[v] \notin Holding
        BY <1>h, <2>2, <2>3, <3>2
      <4>2. pc[v] = "park" /\ rescue[d].status = "in_progress"
        BY <1>e, <2>2, <2>3, <3>2, <4>1 DEF RescuedRow
      <4>3. ~Exists(row[d])
        <5>1. row[d] \in {rescue[d], Absent}
          BY <1>e, <4>2 DEF RescuedRow
        <5>2. row[d].status # "in_progress"
          BY <1>p, <2>3, <4>2
        <5>3. QED
          BY <4>2, <5>1, <5>2, AbsentFields
      <4>4. QED
        BY <1>20, <4>3 DEF SweepSave, SaveExisting
    <3>3. QED
      BY <3>1, <3>2
  <2>4. ASSUME NEW v \in Workers PROVE HeldRow(v)' /\ ParkedRow(v)'
    <3>1. CASE pc[v] \in Holding \cup {"park"}
      <4>1. job[v] \in Deliveries
        BY <1>b, <3>1 DEF AttemptShape, Holding
      <4>2. row'[job[v]] = row[job[v]]
        BY <2>1, <2>3, <3>1, <4>1
      <4>3. QED
        BY <1>keep, <1>20, <4>2 DEF SweepSave
    <3>2. CASE pc[v] \notin Holding \cup {"park"}
      BY <1>left, <1>20, <3>2 DEF SweepSave
    <3>3. QED
      BY <3>1, <3>2
  <2>5. ASSUME NEW e \in Deliveries PROVE RescuedRow(e)'
    <3>1. Held(e)' => Held(e)
      BY <1>20 DEF SweepSave, Held, Holds
    <3>2. CASE e # d
      BY <1>wait, <1>20, <2>1, <3>1, <3>2 DEF SweepSave
    <3>3. CASE e = d
      BY <2>1, <3>3, AbsentFields DEF RescuedRow
    <3>4. QED
      BY <3>2, <3>3
  <2>6. QED
    BY <2>4, <2>5 DEF RowsAreHeld
<1>21. CASE SweepCrash
  <2>1. ASSUME NEW v \in Workers PROVE HeldRow(v)' /\ ParkedRow(v)'
    BY <1>keep, <1>21 DEF SweepCrash
  <2>2. ASSUME NEW e \in Deliveries PROVE RescuedRow(e)'
    BY <1>21, AbsentFields DEF SweepCrash, RescuedRow
  <2>3. QED
    BY <2>1, <2>2 DEF RowsAreHeld
<1>22. ASSUME NEW d \in Deliveries, SweepOrphan(d) PROVE RowsAreHeld'
  BY <1>gone, <1>22 DEF SweepOrphan, DeleteRows
<1>23. CASE EditForm
  BY <1>23, <1>same DEF EditForm
<1>24. ASSUME NEW s \in Services, MoveService(s) PROVE RowsAreHeld'
  BY <1>24, <1>same DEF MoveService
<1>25. ASSUME NEW s \in Services, DeleteService(s) PROVE RowsAreHeld'
  BY <1>25, <1>same DEF DeleteService
<1>26. ASSUME NEW d \in Deliveries, EraseResponse(d) PROVE RowsAreHeld'
  BY <1>26, <1>same DEF EraseResponse
<1>27. ASSUME NEW d \in Deliveries, EraseRow(d) PROVE RowsAreHeld'
  BY <1>gone, <1>27 DEF EraseRow, DeleteRows
<1>28. CASE RemoveForm
  BY <1>28, <1>same DEF RemoveForm
<1>29. CASE DeleteFormRows
  BY <1>gone, <1>29 DEF DeleteFormRows, DeleteRows
<1>30. CASE DeleteRegistration
  BY <1>30, <1>same DEF DeleteRegistration
<1>31. CASE SwitchOff
  BY <1>31, <1>same DEF SwitchOff
<1>32. CASE SwitchOn
  BY <1>32, <1>same DEF SwitchOn
<1>33. CASE UNCHANGED vars
  BY <1>33, <1>same DEF vars
<1>34. QED
  BY <1>1, <1>2, <1>3, <1>4, <1>5, <1>6, <1>7, <1>8, <1>9, <1>10, <1>11, <1>12, <1>13,
     <1>14, <1>15, <1>16, <1>17, <1>18, <1>19, <1>20, <1>21, <1>22, <1>23, <1>24, <1>25,
     <1>26, <1>27, <1>28, <1>29, <1>30, <1>31, <1>32, <1>33
     DEF Next, Submission, Job, Step, Sweeper, Sweep, Around

-----------------------------------------------------------------------------
(* One place to a delivery.                                                *)

\* Without the races, every step keeps the place of the first send in the row, and
\* sends only where no object is yet.
LEMMA PlacesStep ==
  ASSUME Races = {}, TypeOK, TypeOK', TraceInv, TraceInv', RowsAreHeld, PlacesArePinned,
         [Next]_vars
  PROVE  PlacesArePinned'
<1>b. \A w \in Workers : AttemptShape(w)
  BY DEF TraceInv
<1>c. \A w \in Workers : HeldRow(w) /\ ParkedRow(w)
  BY DEF RowsAreHeld
<1>e. \A d \in Deliveries : RescuedRow(d)
  BY DEF RowsAreHeld
<1>r. \A d \in Deliveries : PinnedRow(d)
  BY DEF PlacesArePinned
<1>s. \A w \in Workers : PinnedAttempt(w)
  BY DEF PlacesArePinned
<1>n. NoDelivery \notin Deliveries /\ NoPlace \notin Places /\ NoPlace \notin ObjectPlaces
  BY DEF ObjectPlaces
<1> USE DEF TypeOK, worker, Goto
<1>same. ASSUME UNCHANGED <<row, pc, job, doc, place, verdict, copies, first>> PROVE PlacesArePinned'
  <2>1. ASSUME NEW d \in Deliveries PROVE PinnedRow(d)'
    BY <1>r, <1>same DEF PinnedRow, Exists
  <2>2. ASSUME NEW w \in Workers PROVE PinnedAttempt(w)'
    BY <1>s, <1>same DEF PinnedAttempt
  <2>3. QED
    BY <2>1, <2>2 DEF PlacesArePinned
\* A row that goes, or keeps its place and its attempts and is not made delivered.
<1>row. ASSUME NEW d \in Deliveries, first'[d] = first[d], copies'[d] = copies[d],
               \/ row'[d] \in {row[d], Absent}
               \/ /\ row[d].status # "absent" /\ row'[d].snap = row[d].snap
                  /\ row[d].attempts # 0 => row'[d].attempts # 0
                  /\ row'[d].status # "delivered"
        PROVE  PinnedRow(d)'
  <2>1. CASE row'[d] = row[d]
    BY <1>r, <1>row, <2>1 DEF PinnedRow, Exists
  <2>2. CASE row'[d] = Absent
    BY <1>r, <1>row, <2>2, AbsentFields DEF PinnedRow
  <2>3. CASE /\ row[d].status # "absent" /\ row'[d].snap = row[d].snap
             /\ row[d].attempts # 0 => row'[d].attempts # 0
             /\ row'[d].status # "delivered"
    BY <1>r, <1>row, <2>3 DEF PinnedRow, Exists
  <2>4. QED
    BY <1>row, <2>1, <2>2, <2>3
<1>rest. ASSUME NEW v \in Workers, pc'[v] \in {"idle", "start", "park", "requeue"},
                doc'[v] \in {doc[v], Absent} \cup {row[k] : k \in Deliveries}
         PROVE  PinnedAttempt(v)'
  <2>1. doc'[v].snap \in ObjectPlaces \cup {NoPlace}
    BY <1>r, <1>s, <1>rest, AbsentFields DEF PinnedRow, PinnedAttempt
  <2>2. QED
    BY <1>rest, <2>1 DEF PinnedAttempt, Holding, Looking
<1>other. ASSUME NEW v \in Workers, pc'[v] = pc[v], job'[v] = job[v], doc'[v] = doc[v],
                 place'[v] = place[v], verdict'[v] = verdict[v],
                 pc[v] \in Holding => first'[job[v]] = first[job[v]] /\ copies'[job[v]] = copies[job[v]]
          PROVE  PinnedAttempt(v)'
  <2>1. CASE pc[v] \in Holding
    <3>1. first'[job'[v]] = first[job[v]] /\ copies'[job'[v]] = copies[job[v]]
      BY <1>other, <2>1
    <3>2. PinnedAttempt(v)
      BY <1>s
    <3>3. QED
      BY <1>other, <3>1, <3>2, Zenon DEF PinnedAttempt
  <2>2. CASE pc[v] \notin Holding
    BY <1>s, <1>other, <2>2 DEF PinnedAttempt, Holding, Looking
  <2>3. QED
    BY <2>1, <2>2
<1>job. ASSUME NEW w \in Workers, pc[w] # "idle" PROVE job[w] \in Deliveries
  BY <1>b, <1>job DEF AttemptShape
<1>rows. ASSUME UNCHANGED <<pc, job, doc, place, verdict, first, copies>> PROVE \A v \in Workers : PinnedAttempt(v)'
  BY <1>other, <1>rows
<1>table. ASSUME \A d \in Deliveries : row'[d] \in {row[d], Absent}, UNCHANGED <<first, copies>>
          PROVE  \A d \in Deliveries : PinnedRow(d)'
  BY <1>row, <1>table
<1>moves. ASSUME NEW w \in Workers, UNCHANGED <<first, copies>>,
                 \A v \in Workers \ {w} : /\ pc'[v] = pc[v] /\ job'[v] = job[v] /\ doc'[v] = doc[v]
                                         /\ place'[v] = place[v] /\ verdict'[v] = verdict[v]
          PROVE  \A v \in Workers \ {w} : PinnedAttempt(v)'
  BY <1>other, <1>moves
<1>claimed. \A d \in Deliveries :
              /\ Claimed(row[d]).snap = row[d].snap /\ Claimed(row[d]).status # "delivered"
              /\ Claimed(row[d]).attempts # 0
              /\ Claimed(row[d]).attempts = 1 => row[d].attempts = 0
  <2> SUFFICES ASSUME NEW r \in Rows
               PROVE  /\ Claimed(r).snap = r.snap /\ Claimed(r).status # "delivered"
                      /\ Claimed(r).attempts # 0
                      /\ Claimed(r).attempts = 1 => r.attempts = 0
    OBVIOUS
  <2>1. /\ Claimed(r).status = "in_progress" /\ Claimed(r).attempts \in {1, 2}
        /\ Claimed(r).attempts = 1 <=> r.attempts = 0
        /\ Claimed(r).snap = r.snap
    BY RowFields
  <2>2. Claimed(r).attempts # 0
    BY <2>1
  <2>3. QED
    BY <2>1, <2>2
\* A failure or a cancelled delivery: the worker goes to its save as it is.
<1>concl. ASSUME NEW w \in Workers, pc[w] \in Holding, NEW u, Conclude(w, u), u # "delivered",
                 UNCHANGED <<first, copies>>
          PROVE  PinnedAttempt(w)'
  <2>1. pc'[w] = "save" /\ verdict'[w] = u /\ doc'[w] = doc[w] /\ job'[w] = job[w]
    BY <1>concl DEF Conclude
  <2>2. QED
    BY <1>s, <1>concl, <2>1 DEF PinnedAttempt, Holding, Looking
\* Before a delivery's first send no Objects API can have it.
<1>none. \A d \in Deliveries : first[d] = NoPlace => \A p \in ObjectPlaces : copies[d][p] = 0
  BY <1>n, <1>r DEF PinnedRow
\* A worker that need not look first is in the delivery's first attempt.
<1>once. ASSUME NEW w \in Workers, pc[w] \in Looking, NEW c \in Row,
                c.attempts = doc[w].attempts, ~LookFirst(c)
         PROVE  first[job[w]] = NoPlace /\ \A p \in ObjectPlaces : copies[job[w]][p] = 0
  <2>1. doc[w].attempts # 0
    BY <1>c, <1>once DEF HeldRow, Holding, Looking
  <2>2. doc[w].attempts \in 0 .. 2 /\ ~(doc[w].attempts > 1)
    BY <1>once DEF Row, LookFirst
  <2>3. doc[w].attempts = 1
    BY <2>1, <2>2
  <2>4. first[job[w]] = NoPlace
    BY <1>s, <1>once, <2>3 DEF PinnedAttempt
  <2>5. QED
    BY <1>job, <1>none, <1>once, <2>4 DEF Looking
<1>1. ASSUME NEW d \in Deliveries, Submit(d) PROVE PlacesArePinned'
  BY <1>1, <1>same DEF Submit
<1>2. ASSUME NEW d \in Deliveries, HandOff(d) PROVE PlacesArePinned'
  <2>1. first[d] = NoPlace /\ row[d] = Absent
    <3>1. first[d] = NoPlace /\ ~Exists(row[d])
      BY <1>2 DEF HandOff, TraceInv, Untouched, Fresh
    <3>2. row[d] \in Rows
      OBVIOUS
    <3>3. QED
      BY <3>1, <3>2, RowFields
  <2>2. row'[d].snap = NoPlace /\ row'[d].status # "delivered"
    BY <1>2, <2>1, AbsentFields DEF HandOff, CreateIfAbsent, Blank, Exists
  <2>3. PinnedRow(d)'
    BY <1>r, <1>2, <2>1, <2>2 DEF HandOff, PinnedRow
  <2>4. \A k \in Deliveries : k # d => row'[k] = row[k]
    BY <1>2 DEF HandOff, CreateIfAbsent
  <2>5. \A k \in Deliveries : k # d => PinnedRow(k)'
    BY <1>row, <1>2, <2>4 DEF HandOff
  <2>6. \A v \in Workers : PinnedAttempt(v)'
    BY <1>rows, <1>2 DEF HandOff
  <2>7. QED
    BY <2>3, <2>5, <2>6 DEF PlacesArePinned
<1>3. ASSUME NEW d \in Deliveries, HandOffCrash(d) PROVE PlacesArePinned'
  BY <1>3, <1>same DEF HandOffCrash
<1>4. ASSUME NEW w \in Workers, NEW d \in Deliveries, Fetch(w, d) PROVE PlacesArePinned'
  <2>1. ASSUME NEW v \in Workers PROVE PinnedAttempt(v)'
    <3>1. CASE v = w
      BY <1>rest, <1>4, <3>1 DEF Fetch
    <3>2. CASE v # w
      BY <1>other, <1>4, <3>2 DEF Fetch
    <3>3. QED
      BY <3>1, <3>2
  <2>2. \A e \in Deliveries : PinnedRow(e)'
    BY <1>table, <1>4 DEF Fetch
  <2>3. QED
    BY <2>1, <2>2 DEF PlacesArePinned
<1>5. ASSUME NEW w \in Workers, StartOff(w) PROVE PlacesArePinned'
  <2>1. UNCHANGED <<first, copies>> /\ \A v \in Workers \ {w} :
          /\ pc'[v] = pc[v] /\ job'[v] = job[v] /\ doc'[v] = doc[v]
          /\ place'[v] = place[v] /\ verdict'[v] = verdict[v]
    BY <1>5 DEF StartOff, Release
  <2>2. \A v \in Workers \ {w} : PinnedAttempt(v)'
    BY <1>moves, <2>1
  <2>3. PinnedAttempt(w)'
    <3>1. job[w] \in Deliveries
      BY <1>job, <1>5 DEF StartOff
    <3>2. pc'[w] \in {"idle", "park"} /\ doc'[w] \in {Absent, row[job[w]]}
      BY <1>5 DEF StartOff, Release
    <3>3. QED
      BY <1>rest, <3>1, <3>2
  <2>4. ASSUME NEW d \in Deliveries PROVE PinnedRow(d)'
    <3>1. row'[d] \in {row[d], Absent}
      BY <1>5 DEF StartOff
    <3>2. QED
      BY <1>row, <2>1, <3>1
  <2>5. QED
    BY <2>2, <2>3, <2>4 DEF PlacesArePinned
<1>6. ASSUME NEW w \in Workers, Park(w) PROVE PlacesArePinned'
  <2>1. UNCHANGED <<first, copies>> /\ \A v \in Workers \ {w} :
          /\ pc'[v] = pc[v] /\ job'[v] = job[v] /\ doc'[v] = doc[v]
          /\ place'[v] = place[v] /\ verdict'[v] = verdict[v]
    BY <1>6 DEF Park, Release, Conclude, Fails
  <2>2. \A v \in Workers \ {w} : PinnedAttempt(v)'
    BY <1>moves, <2>1
  <2>3. PinnedAttempt(w)'
    <3>1. pc'[w] \in {"idle", "start", "park", "requeue"} /\ doc'[w] \in {doc[w], Absent}
      BY <1>6 DEF Park, Release
    <3>2. QED
      BY <1>rest, <3>1
  <2>4. ASSUME NEW d \in Deliveries PROVE PinnedRow(d)'
    <3>1. /\ doc[w].status = "retrying" /\ job[w] \in Deliveries
          /\ row[job[w]] \in {doc[w], Pending(doc[w]), Absent}
      BY <1>c, <1>job, <1>6 DEF Park, ParkedRow
    <3>2. /\ Pending(doc[w]).status = "pending" /\ Pending(doc[w]).snap = doc[w].snap
          /\ Pending(doc[w]).attempts = doc[w].attempts
      BY RowFields
    <3>3. row'[d] = row[d] \/ (d = job[w] /\ row[d].status # "absent" /\ row'[d] = Pending(doc[w]))
      BY <1>6, <3>1 DEF Park, SaveExisting, Exists
    <3>4. CASE row'[d] = row[d]
      BY <1>row, <2>1, <3>4
    <3>5. CASE d = job[w] /\ row[d].status # "absent" /\ row'[d] = Pending(doc[w])
      <4>1. row[d] # Absent
        BY <3>5, AbsentFields
      <4>2. row[d].snap = doc[w].snap /\ row[d].attempts = doc[w].attempts
        BY <3>1, <3>2, <3>5, <4>1
      <4>3. /\ row'[d].snap = row[d].snap /\ row'[d].attempts = row[d].attempts
            /\ row'[d].status = "pending"
        BY <3>2, <3>5, <4>2
      <4>4. QED
        BY <1>row, <2>1, <3>5, <4>3
    <3>6. QED
      BY <3>3, <3>4, <3>5
  <2>5. QED
    BY <2>2, <2>3, <2>4 DEF PlacesArePinned
<1>7. ASSUME NEW w \in Workers, Start(w) PROVE PlacesArePinned'
  <2>1. UNCHANGED <<first, copies>> /\ \A v \in Workers \ {w} :
          /\ pc'[v] = pc[v] /\ job'[v] = job[v] /\ doc'[v] = doc[v]
          /\ place'[v] = place[v] /\ verdict'[v] = verdict[v]
    BY <1>7 DEF Start, Release, Conclude, Fails
  <2>2. \A v \in Workers \ {w} : PinnedAttempt(v)'
    BY <1>moves, <2>1
  <2>3. PinnedAttempt(w)'
    <3>1. CASE ~Claimable(job[w])
      <4>1. pc'[w] = "idle" /\ doc'[w] = Absent
        BY <1>7, <3>1 DEF Start, Release
      <4>2. QED
        BY <1>rest, <4>1
    <3>2. CASE Claimable(job[w])
      <4> DEFINE r == row[job[w]]
      <4>1. job[w] \in Deliveries
        BY <1>job, <1>7 DEF Start
      <4>2. Exists(r)
        BY <3>2 DEF Claimable, OpenStates, Exists
      <4>3. Claimed(r).snap = r.snap /\ (Claimed(r).attempts = 1 => r.attempts = 0)
        BY <1>claimed, <4>1
      <4>4. /\ r.snap \in ObjectPlaces \cup {NoPlace}
            /\ first[job[w]] # NoPlace => r.snap = first[job[w]] /\ r.attempts # 0
        BY <1>r, <4>1, <4>2 DEF PinnedRow
      <4>5. pc'[w] = "attempt" /\ doc'[w] = Claimed(r) /\ UNCHANGED <<job, first>>
        BY <1>7, <3>2 DEF Start
      <4>6. QED
        BY <4>3, <4>4, <4>5 DEF PinnedAttempt
    <3>3. QED
      BY <3>1, <3>2
  <2>4. ASSUME NEW d \in Deliveries PROVE PinnedRow(d)'
    <3>1. row'[d] = row[d] \/ (/\ row[d].status # "absent" /\ row'[d] = Claimed(row[d]))
      BY <1>7 DEF Start, Claimable, OpenStates
    <3>2. /\ Claimed(row[d]).snap = row[d].snap /\ Claimed(row[d]).status # "delivered"
          /\ Claimed(row[d]).attempts # 0
      BY <1>claimed
    <3>3. QED
      BY <1>row, <2>1, <3>1, <3>2
  <2>5. QED
    BY <2>2, <2>3, <2>4 DEF PlacesArePinned
<1>8. ASSUME NEW w \in Workers, StartFails(w) PROVE PlacesArePinned'
  <2>1. UNCHANGED <<first, copies>> /\ \A v \in Workers \ {w} :
          /\ pc'[v] = pc[v] /\ job'[v] = job[v] /\ doc'[v] = doc[v]
          /\ place'[v] = place[v] /\ verdict'[v] = verdict[v]
    BY <1>8 DEF StartFails, Release, Conclude, Fails
  <2>2. \A v \in Workers \ {w} : PinnedAttempt(v)'
    BY <1>moves, <2>1
  <2>3. PinnedAttempt(w)'
    <3>1. pc'[w] \in {"idle", "start", "park", "requeue"} /\ doc'[w] \in {doc[w], Absent}
      BY <1>8 DEF StartFails, Release
    <3>2. QED
      BY <1>rest, <3>1
  <2>4. ASSUME NEW d \in Deliveries PROVE PinnedRow(d)'
    <3>1. row'[d] \in {row[d], Absent}
      BY <1>8 DEF StartFails
    <3>2. QED
      BY <1>row, <2>1, <3>1
  <2>5. QED
    BY <2>2, <2>3, <2>4 DEF PlacesArePinned
<1>9. ASSUME NEW w \in Workers, Attempt(w) PROVE PlacesArePinned'
  <2>1. UNCHANGED <<first, copies>> /\ \A v \in Workers \ {w} :
          /\ pc'[v] = pc[v] /\ job'[v] = job[v] /\ doc'[v] = doc[v]
          /\ place'[v] = place[v] /\ verdict'[v] = verdict[v]
    BY <1>9 DEF Attempt, Release, Conclude, Fails
  <2>2. \A v \in Workers \ {w} : PinnedAttempt(v)'
    BY <1>moves, <2>1
  <2>3. PinnedAttempt(w)'
    <3> DEFINE c == doc[w]
               p == PlaceOf(doc[w])
    <3>1. CASE \E u \in {"cancelled", "failed", "retrying"} : Conclude(w, u)
      BY <1>concl, <1>9, <2>1, <3>1 DEF Attempt, Holding
    <3>2. CASE Release(w)
      BY <1>rest, <3>2 DEF Release
    <3>3. CASE /\ pc'[w] = Sending(c, p) /\ place'[w] = p
               /\ UNCHANGED <<row, job, run, doc, verdict, late>>
      <4>1. c \in Row /\ c.snap \in ObjectPlaces \cup {NoPlace}
        BY <1>s, <1>9, WorkerFacts DEF Attempt, PinnedAttempt, Holding
      <4>2. c.snap # NoPlace => p = c.snap
        BY DEF PlaceOf
      <4>3. first[job[w]] # NoPlace => c.snap = first[job[w]]
        BY <1>s, <1>9 DEF Attempt, PinnedAttempt, Holding
      <4>4. c.attempts = 1 => first[job[w]] = NoPlace
        BY <1>s, <1>9 DEF Attempt, PinnedAttempt, Looking
      <4>5. CASE p \notin ObjectPlaces
        <5>1. pc'[w] = "check" /\ c.snap = NoPlace
          BY <3>3, <4>1, <4>2, <4>5 DEF Sending
        <5>2. QED
          BY <2>1, <3>3, <4>3, <4>4, <4>5, <5>1 DEF PinnedAttempt, Looking
      <4>6. CASE p \in ObjectPlaces /\ c.snap = NoPlace
        <5>1. pc'[w] = "snapshot"
          BY <3>3, <4>6 DEF Sending
        <5>2. QED
          BY <2>1, <3>3, <4>3, <4>4, <4>6, <5>1 DEF PinnedAttempt, Looking
      <4>7. CASE p \in ObjectPlaces /\ c.snap # NoPlace /\ LookFirst(c)
        <5>1. pc'[w] = "lookup"
          BY <3>3, <4>7 DEF Sending
        <5>2. QED
          BY <1>n, <2>1, <3>3, <4>2, <4>3, <4>4, <4>7, <5>1 DEF PinnedAttempt, Looking
      <4>8. CASE p \in ObjectPlaces /\ c.snap # NoPlace /\ ~LookFirst(c)
        <5>1. pc'[w] = "check"
          BY <3>3, <4>8 DEF Sending
        <5>2. \A q \in ObjectPlaces : copies[job[w]][q] = 0
          BY <1>once, <1>9, <4>1, <4>8 DEF Attempt, Looking
        <5>3. QED
          BY <1>n, <2>1, <3>3, <4>2, <4>3, <4>4, <4>8, <5>1, <5>2 DEF PinnedAttempt, Looking
      <4>9. QED
        BY <4>5, <4>6, <4>7, <4>8
    <3>4. QED
      BY <1>9, <3>1, <3>2, <3>3 DEF Attempt, Fails, Transient
  <2>4. ASSUME NEW d \in Deliveries PROVE PinnedRow(d)'
    <3>1. row'[d] \in {row[d], Absent}
      BY <1>9 DEF Attempt, DeleteRows, Release, Conclude, Fails
    <3>2. QED
      BY <1>row, <2>1, <3>1
  <2>5. QED
    BY <2>2, <2>3, <2>4 DEF PlacesArePinned
<1>10. ASSUME NEW w \in Workers, Snapshot(w) PROVE PlacesArePinned'
  <2>1. UNCHANGED <<first, copies>> /\ \A v \in Workers \ {w} :
          /\ pc'[v] = pc[v] /\ job'[v] = job[v] /\ doc'[v] = doc[v]
          /\ place'[v] = place[v] /\ verdict'[v] = verdict[v]
    BY <1>10 DEF Snapshot, Release, Conclude, Fails
  <2>2. \A v \in Workers \ {w} : PinnedAttempt(v)'
    BY <1>moves, <2>1
  <2>3. PinnedAttempt(w)'
    <3> DEFINE c == [doc[w] EXCEPT !.snap = place[w]]
    <3>1. /\ doc[w] \in Row /\ doc[w].snap = NoPlace /\ place[w] \in ObjectPlaces
      BY <1>s, <1>10, WorkerFacts DEF Snapshot, PinnedAttempt, Holding
    <3>2. c \in Row /\ c.snap = place[w] /\ c.attempts = doc[w].attempts
      <4>1. doc[w] \in Rows /\ Exists(doc[w]) /\ place[w] \in Places
        BY <1>10, <3>1, WorkerFacts DEF Snapshot, Holding, ObjectPlaces
      <4>2. QED
        BY <4>1, RowFields, RowTypes
    <3>3. first[job[w]] = NoPlace
      BY <1>n, <1>s, <1>10, <3>1 DEF Snapshot, PinnedAttempt, Holding
    <3>4. CASE Release(w)
      BY <1>rest, <3>4 DEF Release
    <3>5. CASE ~Release(w) /\ pc'[w] \in {"lookup", "check"}
      <4>1. doc'[w] = c /\ UNCHANGED <<job, place, verdict>>
        BY <1>10, <3>5 DEF Snapshot
      <4>2. \A q \in ObjectPlaces : copies[job[w]][q] = 0
        BY <1>job, <1>none, <1>10, <3>3 DEF Snapshot
      <4>3. QED
        BY <2>1, <3>1, <3>2, <3>3, <3>5, <4>1, <4>2 DEF PinnedAttempt
    <3>6. CASE ~Release(w) /\ pc'[w] = "save"
      <4>1. doc'[w] = c /\ job' = job /\ verdict'[w] # "delivered"
        BY <1>10, <3>6 DEF Snapshot, Transient
      <4>2. QED
        BY <2>1, <3>1, <3>2, <3>3, <3>6, <4>1 DEF PinnedAttempt, Looking
    <3>7. QED
      BY <1>10, <3>4, <3>5, <3>6 DEF Snapshot
  <2>4. ASSUME NEW d \in Deliveries PROVE PinnedRow(d)'
    <3> DEFINE c == [doc[w] EXCEPT !.snap = place[w]]
    <3>1. /\ job[w] \in Deliveries /\ doc[w] \in Rows
          /\ doc[w].snap = NoPlace /\ place[w] \in ObjectPlaces
      BY <1>job, <1>s, <1>10 DEF Snapshot, PinnedAttempt
    <3>2. c.snap = place[w] /\ c.status = doc[w].status
      BY <3>1, RowFields
    <3>3. first[job[w]] = NoPlace /\ doc[w].status = "in_progress"
      BY <1>c, <1>n, <1>s, <1>10, <3>1 DEF Snapshot, PinnedAttempt, HeldRow, Holding
    <3>4. row'[d] = row[d] \/ (d = job[w] /\ row'[d] = c)
      BY <1>10, <3>1 DEF Snapshot, SaveExisting, Release
    <3>5. CASE row'[d] = row[d]
      BY <1>row, <2>1, <3>5
    <3>6. CASE d = job[w] /\ row'[d] = c
      BY <1>r, <2>1, <3>1, <3>2, <3>3, <3>6 DEF PinnedRow
    <3>7. QED
      BY <3>4, <3>5, <3>6
  <2>5. QED
    BY <2>2, <2>3, <2>4 DEF PlacesArePinned
<1>11. ASSUME NEW w \in Workers, Lookup(w) PROVE PlacesArePinned'
  <2>1. UNCHANGED <<first, copies>> /\ \A v \in Workers \ {w} :
          /\ pc'[v] = pc[v] /\ job'[v] = job[v] /\ doc'[v] = doc[v]
          /\ place'[v] = place[v] /\ verdict'[v] = verdict[v]
    BY <1>11 DEF Lookup, Release, Conclude, Fails
  <2>2. \A v \in Workers \ {w} : PinnedAttempt(v)'
    BY <1>moves, <2>1
  <2>3. PinnedAttempt(w)'
    <3>1. CASE \E u \in {"failed", "retrying"} : Conclude(w, u)
      BY <1>concl, <1>11, <2>1, <3>1 DEF Lookup, Holding
    <3>2. CASE copies[job[w]][place[w]] > 0 /\ Conclude(w, "delivered")
      <4>1. /\ pc'[w] = "save" /\ doc'[w] = doc[w] /\ job'[w] = job[w]
            /\ place[w] \in Places
        BY <1>b, <1>11, <3>2 DEF Lookup, Conclude, AttemptShape
      <4>2. QED
        BY <1>s, <1>11, <2>1, <3>2, <4>1 DEF Lookup, PinnedAttempt, Holding, Looking
    <3>3. CASE copies[job[w]][place[w]] = 0 /\ Goto(w, "check")
                 /\ UNCHANGED <<job, run, doc, place, verdict, late>>
      <4>1. job[w] \in Deliveries
        BY <1>job, <1>11 DEF Lookup
      <4>2. \A q \in ObjectPlaces : copies[job[w]][q] = 0 \/ (copies[job[w]][q] = 1 /\ q = first[job[w]])
        BY <1>r, <4>1 DEF PinnedRow
      <4>3. place[w] \in ObjectPlaces => doc[w].snap = place[w]
        BY <1>s, <1>11 DEF Lookup, PinnedAttempt
      <4>4. first[job[w]] # NoPlace => doc[w].snap = first[job[w]]
        BY <1>s, <1>11 DEF Lookup, PinnedAttempt, Holding
      <4>5. place[w] \in ObjectPlaces => \A q \in ObjectPlaces : copies[job[w]][q] = 0
        BY <1>n, <3>3, <4>2, <4>3, <4>4
      <4>6. QED
        BY <1>s, <1>11, <2>1, <3>3, <4>5 DEF Lookup, PinnedAttempt, Holding, Looking
    <3>4. QED
      BY <1>11, <3>1, <3>2, <3>3 DEF Lookup, Fails, Transient
  <2>4. ASSUME NEW d \in Deliveries PROVE PinnedRow(d)'
    <3>1. row'[d] \in {row[d], Absent}
      BY <1>11 DEF Lookup
    <3>2. QED
      BY <1>row, <2>1, <3>1
  <2>5. QED
    BY <2>2, <2>3, <2>4 DEF PlacesArePinned
<1>12. ASSUME NEW w \in Workers, Check(w) PROVE PlacesArePinned'
  <2>1. UNCHANGED <<first, copies>> /\ \A v \in Workers \ {w} :
          /\ pc'[v] = pc[v] /\ job'[v] = job[v] /\ doc'[v] = doc[v]
          /\ place'[v] = place[v] /\ verdict'[v] = verdict[v]
    BY <1>12 DEF Check, Release, Conclude, Fails
  <2>2. \A v \in Workers \ {w} : PinnedAttempt(v)'
    BY <1>moves, <2>1
  <2>3. PinnedAttempt(w)'
    <3>1. CASE \E u \in {"cancelled", "failed", "retrying"} : Conclude(w, u)
      BY <1>concl, <1>12, <2>1, <3>1 DEF Check, Holding
    <3>2. CASE Release(w)
      BY <1>rest, <3>2 DEF Release
    <3>3. CASE Goto(w, "post") /\ UNCHANGED <<row, job, run, doc, place, verdict, late>>
      BY <1>s, <1>12, <2>1, <3>3 DEF Check, PinnedAttempt, Holding, Looking
    <3>4. QED
      BY <1>12, <3>1, <3>2, <3>3 DEF Check, Fails, Transient
  <2>4. ASSUME NEW d \in Deliveries PROVE PinnedRow(d)'
    <3>1. row'[d] \in {row[d], Absent}
      BY <1>12 DEF Check, DeleteRows, Release, Conclude, Fails
    <3>2. QED
      BY <1>row, <2>1, <3>1
  <2>5. QED
    BY <2>2, <2>3, <2>4 DEF PlacesArePinned
<1>13. ASSUME NEW w \in Workers, Post(w) PROVE PlacesArePinned'
  <2> DEFINE d == job[w]
             q == place[w]
  <2>1. PICK a \in Answers(w) : /\ Conclude(w, a.verdict)
                                /\ copies' = IF a.taken THEN [copies EXCEPT ![d][q] = @ + 1] ELSE copies
    BY <1>13 DEF Post
  <2>2. d \in Deliveries /\ q \in Places /\ doc[w].attempts # 0
    BY <1>b, <1>c, <1>13 DEF Post, AttemptShape, HeldRow, Holding
  <2>3. /\ doc[w].snap = IF q \in ObjectPlaces THEN q ELSE NoPlace
        /\ first[d] # NoPlace => doc[w].snap = first[d]
        /\ q \in ObjectPlaces => \A p \in ObjectPlaces : copies[d][p] = 0
    BY <1>s, <1>13 DEF Post, PinnedAttempt, Holding
  <2>4. first' = IF q \in ObjectPlaces /\ first[d] = NoPlace THEN [first EXCEPT ![d] = q] ELSE first
    BY <1>13 DEF Post
  <2>5. \A k \in Deliveries : k # d => first'[k] = first[k] /\ copies'[k] = copies[k]
    BY <2>1, <2>2, <2>4
  <2>6. first'[d] = IF q \in ObjectPlaces THEN q ELSE first[d]
    BY <2>2, <2>3, <2>4
  <2>7. \A p \in Places : copies'[d][p] = IF a.taken /\ p = q THEN copies[d][p] + 1 ELSE copies[d][p]
    BY <2>1, <2>2
  <2>8. \A p \in Places : copies[d][p] \in Nat
    BY <2>2
  <2>9. \A p \in ObjectPlaces : copies'[d][p] = 0 \/ (copies'[d][p] = 1 /\ p = first'[d])
    <3>1. CASE q \in ObjectPlaces
      <4>1. ASSUME NEW p \in ObjectPlaces, p # q PROVE copies'[d][p] = 0
        BY <2>3, <2>7, <3>1, <4>1 DEF ObjectPlaces
      <4>2. copies'[d][q] \in {0, 1}
        <5>1. copies[d][q] = 0
          BY <2>3, <3>1
        <5>2. copies'[d][q] = IF a.taken THEN copies[d][q] + 1 ELSE copies[d][q]
          BY <2>2, <2>7
        <5>3. QED
          BY <5>1, <5>2
      <4>3. QED
        BY <2>6, <3>1, <4>1, <4>2
    <3>2. CASE q \notin ObjectPlaces
      BY <1>r, <2>2, <2>6, <2>7, <3>2 DEF ObjectPlaces, PinnedRow
    <3>3. QED
      BY <3>1, <3>2
  <2>10. a.verdict = "delivered" => \E p \in Places : copies'[d][p] > 0
    <3>1. a.verdict = "delivered" => a.taken
      BY DEF Answers, Transient
    <3>2. QED
      BY <2>2, <2>7, <2>8, <3>1
  <2>11. ASSUME NEW k \in Deliveries, k = d PROVE PinnedRow(k)'
    <3>1. \/ ~Exists(row[d])
          \/ row[d].status = "in_progress" /\ row[d].attempts # 0 /\ row[d].snap = doc[w].snap
      BY <1>c, <1>13 DEF Post, HeldRow, Holding
    <3>2. row'[d] = row[d] /\ row[d].status # "delivered"
      BY <1>c, <1>13, <3>1 DEF Post, HeldRow, Holding, Exists
    <3>3. first'[d] \in ObjectPlaces \cup {NoPlace} /\ row[d].snap \in ObjectPlaces \cup {NoPlace}
      BY <1>r, <2>2, <2>6 DEF PinnedRow
    <3>4. Exists(row[d]) /\ first'[d] # NoPlace => row[d].snap = first'[d] /\ row[d].attempts # 0
      BY <2>3, <2>6, <3>1
    <3>5. QED
      BY <2>9, <2>11, <3>2, <3>3, <3>4 DEF PinnedRow, Exists
  <2>12. ASSUME NEW k \in Deliveries PROVE PinnedRow(k)'
    <3>1. CASE k # d
      BY <1>row, <1>13, <2>5, <3>1 DEF Post
    <3>2. QED
      BY <2>11, <3>1
  <2>13. ASSUME NEW v \in Workers PROVE PinnedAttempt(v)'
    <3>1. CASE v = w
      <4>1. pc'[w] = "save" /\ verdict'[w] = a.verdict /\ doc'[w] = doc[w] /\ job'[w] = d
        BY <2>1 DEF Conclude
      <4>2. first'[d] # NoPlace => doc[w].snap = first'[d]
        BY <2>3, <2>6
      <4>3. doc[w].snap \in ObjectPlaces \cup {NoPlace}
        BY <2>3
      <4>4. QED
        BY <2>10, <3>1, <4>1, <4>2, <4>3 DEF PinnedAttempt, Looking
    <3>2. CASE v # w
      <4>1. pc[v] \in Holding => job[v] \in Deliveries /\ job[v] # d
        BY <1>c, <1>job, <1>13, <3>2 DEF Post, HeldRow, Holds, Holding
      <4>2. /\ pc'[v] = pc[v] /\ job'[v] = job[v] /\ doc'[v] = doc[v]
            /\ place'[v] = place[v] /\ verdict'[v] = verdict[v]
        BY <2>1, <3>2 DEF Conclude
      <4>3. QED
        BY <1>other, <2>5, <4>1, <4>2
    <3>3. QED
      BY <3>1, <3>2
  <2>14. QED
    BY <2>12, <2>13 DEF PlacesArePinned
<1>14. ASSUME NEW w \in Workers, Save(w) PROVE PlacesArePinned'
  <2>1. UNCHANGED <<first, copies>> /\ \A v \in Workers \ {w} :
          /\ pc'[v] = pc[v] /\ job'[v] = job[v] /\ doc'[v] = doc[v]
          /\ place'[v] = place[v] /\ verdict'[v] = verdict[v]
    BY <1>14 DEF Save, Release
  <2>2. \A v \in Workers \ {w} : PinnedAttempt(v)'
    BY <1>moves, <2>1
  <2>3. PinnedAttempt(w)'
    <3>1. pc'[w] \in {"idle", "requeue"} /\ doc'[w] \in {doc[w], Absent}
      BY <1>14 DEF Save, Release
    <3>2. QED
      BY <1>rest, <3>1
  <2>4. ASSUME NEW d \in Deliveries PROVE PinnedRow(d)'
    <3>1. /\ job[w] \in Deliveries /\ doc[w] \in Rows /\ doc[w].attempts # 0
      BY <1>c, <1>job, <1>14 DEF Save, HeldRow, Holding
    <3>2. /\ doc[w].snap \in ObjectPlaces \cup {NoPlace}
          /\ first[job[w]] # NoPlace => doc[w].snap = first[job[w]]
          /\ verdict[w] = "delivered" => \E p \in Places : copies[job[w]][p] > 0
      BY <1>s, <1>14 DEF Save, PinnedAttempt, Holding
    <3>3. row'[d] = row[d] \/ (d = job[w] /\ row'[d] = [doc[w] EXCEPT !.status = verdict[w]])
      BY <1>14, <3>1 DEF Save, SaveExisting
    <3>4. CASE row'[d] = row[d]
      BY <1>row, <2>1, <3>4
    <3>5. CASE d = job[w] /\ row'[d] = [doc[w] EXCEPT !.status = verdict[w]]
      <4>1. row'[d].snap = doc[w].snap /\ row'[d].attempts = doc[w].attempts /\ row'[d].status = verdict[w]
        BY <3>1, <3>5, RowFields
      <4>2. QED
        BY <1>r, <2>1, <3>1, <3>2, <3>5, <4>1 DEF PinnedRow
    <3>6. QED
      BY <3>3, <3>4, <3>5
  <2>5. QED
    BY <2>2, <2>3, <2>4 DEF PlacesArePinned
<1>15. ASSUME NEW w \in Workers, SaveFails(w) PROVE PlacesArePinned'
  <2>1. UNCHANGED <<first, copies>> /\ \A v \in Workers \ {w} :
          /\ pc'[v] = pc[v] /\ job'[v] = job[v] /\ doc'[v] = doc[v]
          /\ place'[v] = place[v] /\ verdict'[v] = verdict[v]
    BY <1>15 DEF SaveFails, Release, Conclude, Fails
  <2>2. \A v \in Workers \ {w} : PinnedAttempt(v)'
    BY <1>moves, <2>1
  <2>3. PinnedAttempt(w)'
    <3>1. doc'[w] = doc[w] /\ job'[w] = job[w]
            /\ (pc'[w] = "requeue" \/ (pc'[w] = "save" /\ verdict'[w] \in {"failed", "retrying"}))
      BY <1>15 DEF SaveFails, Transient
    <3>2. CASE pc'[w] = "requeue"
      BY <1>rest, <3>1, <3>2
    <3>3. CASE pc'[w] = "save" /\ verdict'[w] \in {"failed", "retrying"}
      BY <1>s, <1>15, <2>1, <3>1, <3>3 DEF SaveFails, PinnedAttempt, Holding, Looking
    <3>4. QED
      BY <3>1, <3>2, <3>3
  <2>4. ASSUME NEW d \in Deliveries PROVE PinnedRow(d)'
    <3>1. row'[d] \in {row[d], Absent}
      BY <1>15 DEF SaveFails
    <3>2. QED
      BY <1>row, <2>1, <3>1
  <2>5. QED
    BY <2>2, <2>3, <2>4 DEF PlacesArePinned
<1>16. ASSUME NEW w \in Workers, RequeueJob(w) PROVE PlacesArePinned'
  <2>1. UNCHANGED <<first, copies>> /\ \A v \in Workers \ {w} :
          /\ pc'[v] = pc[v] /\ job'[v] = job[v] /\ doc'[v] = doc[v]
          /\ place'[v] = place[v] /\ verdict'[v] = verdict[v]
    BY <1>16 DEF RequeueJob, Release, Conclude, Fails
  <2>2. \A v \in Workers \ {w} : PinnedAttempt(v)'
    BY <1>moves, <2>1
  <2>3. PinnedAttempt(w)'
    <3>1. pc'[w] \in {"idle", "start", "park", "requeue"} /\ doc'[w] \in {doc[w], Absent}
      BY <1>16 DEF RequeueJob, Release
    <3>2. QED
      BY <1>rest, <3>1
  <2>4. ASSUME NEW d \in Deliveries PROVE PinnedRow(d)'
    <3>1. row'[d] \in {row[d], Absent}
      BY <1>16 DEF RequeueJob
    <3>2. QED
      BY <1>row, <2>1, <3>1
  <2>5. QED
    BY <2>2, <2>3, <2>4 DEF PlacesArePinned
<1>17. ASSUME NEW w \in Workers, Crash(w) PROVE PlacesArePinned'
  <2>1. UNCHANGED <<first, copies>> /\ \A v \in Workers \ {w} :
          /\ pc'[v] = pc[v] /\ job'[v] = job[v] /\ doc'[v] = doc[v]
          /\ place'[v] = place[v] /\ verdict'[v] = verdict[v]
    BY <1>17 DEF Crash, Release, Conclude, Fails
  <2>2. \A v \in Workers \ {w} : PinnedAttempt(v)'
    BY <1>moves, <2>1
  <2>3. PinnedAttempt(w)'
    <3>1. pc'[w] \in {"idle", "start", "park", "requeue"} /\ doc'[w] \in {doc[w], Absent}
      BY <1>17 DEF Crash, Release
    <3>2. QED
      BY <1>rest, <3>1
  <2>4. ASSUME NEW d \in Deliveries PROVE PinnedRow(d)'
    <3>1. row'[d] \in {row[d], Absent}
      BY <1>17 DEF Crash
    <3>2. QED
      BY <1>row, <2>1, <3>1
  <2>5. QED
    BY <2>2, <2>3, <2>4 DEF PlacesArePinned
<1>18. ASSUME NEW d \in Deliveries, Retry(d) PROVE PlacesArePinned'
  <2>1. ASSUME NEW k \in Deliveries PROVE PinnedRow(k)'
    <3>1. CASE k # d
      BY <1>row, <1>18, <3>1 DEF Retry
    <3>2. CASE k = d
      <4>1. row[d].status # "absent" /\ row'[d] = [row[d] EXCEPT !.status = "pending", !.manual = 1]
        BY <1>18 DEF Retry, Retryable
      <4>2. row[d] \in Row
        BY <4>1 DEF Rows, Absent, Blank
      <4>3. row'[d].status = "pending" /\ row'[d].snap = row[d].snap /\ row'[d].attempts = row[d].attempts
        BY <4>1, <4>2 DEF Row
      <4>4. QED
        BY <1>row, <1>18, <3>2, <4>1, <4>3 DEF Retry
    <3>3. QED
      BY <3>1, <3>2
  <2>2. \A v \in Workers : PinnedAttempt(v)'
    BY <1>rows, <1>18 DEF Retry
  <2>3. QED
    BY <2>1, <2>2 DEF PlacesArePinned
<1>19. ASSUME NEW d \in Deliveries, SweepRead(d) PROVE PlacesArePinned'
  BY <1>19, <1>same DEF SweepRead
<1>20. ASSUME NEW d \in Deliveries, SweepSave(d) PROVE PlacesArePinned'
  <2>1. ASSUME NEW k \in Deliveries PROVE PinnedRow(k)'
    <3>1. row'[k] = row[k] \/ (/\ k = d /\ rescue[d].status # "pending"
                             /\ row[d].status # "absent" /\ row'[d] = Pending(rescue[d]))
      BY <1>20 DEF SweepSave, SaveExisting, Exists
    <3>2. rescue[d].status \in {"pending", "in_progress", "retrying"}
      BY <1>e, <1>20 DEF SweepSave, RescuedRow, OpenStates
    <3>3. rescue[d].status # "pending" => row[d] \in {rescue[d], Absent}
      BY <1>e, <3>2 DEF RescuedRow
    <3>4. Pending(row[d]).snap = row[d].snap /\ Pending(row[d]).attempts = row[d].attempts
            /\ Pending(row[d]).status = "pending"
      BY RowFields
    <3>5. QED
      BY <1>row, <1>20, <3>1, <3>3, <3>4, AbsentFields DEF SweepSave
  <2>2. \A v \in Workers : PinnedAttempt(v)'
    BY <1>rows, <1>20 DEF SweepSave
  <2>3. QED
    BY <2>1, <2>2 DEF PlacesArePinned
<1>21. CASE SweepCrash
  BY <1>21, <1>same DEF SweepCrash
<1>22. ASSUME NEW d \in Deliveries, SweepOrphan(d) PROVE PlacesArePinned'
  <2>1. \A k \in Deliveries : PinnedRow(k)'
    BY <1>table, <1>22 DEF SweepOrphan, DeleteRows
  <2>2. \A v \in Workers : PinnedAttempt(v)'
    BY <1>rows, <1>22 DEF SweepOrphan
  <2>3. QED
    BY <2>1, <2>2 DEF PlacesArePinned
<1>23. CASE EditForm
  BY <1>23, <1>same DEF EditForm
<1>24. ASSUME NEW s \in Services, MoveService(s) PROVE PlacesArePinned'
  BY <1>24, <1>same DEF MoveService
<1>25. ASSUME NEW s \in Services, DeleteService(s) PROVE PlacesArePinned'
  BY <1>25, <1>same DEF DeleteService
<1>26. ASSUME NEW d \in Deliveries, EraseResponse(d) PROVE PlacesArePinned'
  BY <1>26, <1>same DEF EraseResponse
<1>27. ASSUME NEW d \in Deliveries, EraseRow(d) PROVE PlacesArePinned'
  <2>1. \A k \in Deliveries : PinnedRow(k)'
    BY <1>table, <1>27 DEF EraseRow, DeleteRows
  <2>2. \A v \in Workers : PinnedAttempt(v)'
    BY <1>rows, <1>27 DEF EraseRow
  <2>3. QED
    BY <2>1, <2>2 DEF PlacesArePinned
<1>28. CASE RemoveForm
  BY <1>28, <1>same DEF RemoveForm
<1>29. CASE DeleteFormRows
  <2>1. \A k \in Deliveries : PinnedRow(k)'
    BY <1>table, <1>29 DEF DeleteFormRows, DeleteRows
  <2>2. \A v \in Workers : PinnedAttempt(v)'
    BY <1>rows, <1>29 DEF DeleteFormRows
  <2>3. QED
    BY <2>1, <2>2 DEF PlacesArePinned
<1>30. CASE DeleteRegistration
  BY <1>30, <1>same DEF DeleteRegistration
<1>31. CASE SwitchOff
  BY <1>31, <1>same DEF SwitchOff
<1>32. CASE SwitchOn
  BY <1>32, <1>same DEF SwitchOn
<1>33. CASE UNCHANGED vars
  BY <1>33, <1>same DEF vars
<1>34. QED
  BY <1>1, <1>2, <1>3, <1>4, <1>5, <1>6, <1>7, <1>8, <1>9, <1>10, <1>11, <1>12, <1>13,
     <1>14, <1>15, <1>16, <1>17, <1>18, <1>19, <1>20, <1>21, <1>22, <1>23, <1>24, <1>25,
     <1>26, <1>27, <1>28, <1>29, <1>30, <1>31, <1>32, <1>33
     DEF Next, Submission, Job, Step, Sweeper, Sweep, Around

-----------------------------------------------------------------------------
(* The theorems that hold with every race.                                 *)

\* At first nothing is stored, queued, taken or sent.
LEMMA InitialState == Init => TypeOK /\ RegistrationInv
<1> SUFFICES ASSUME Init PROVE TypeOK /\ RegistrationInv
  OBVIOUS
<1> USE AbsentFields DEF Init
<1>1. TypeOK
  <2>1. reg \in Registrations /\ svc \in [Services -> [present : BOOLEAN, address : Addresses]]
    BY DEF Registrations
  <2>2. MaxAttempts \in Nat /\ MaxTrouble \in Nat
    OBVIOUS
  <2>3. /\ todo \in [Deliveries -> 0 .. MaxAttempts] /\ trouble \in 0 .. MaxTrouble
        /\ run \in [Workers -> 0 .. MaxAttempts]
    BY <2>2 DEF NoJob
  <2>4. copies \in [Deliveries -> [Places -> Nat]]
    OBVIOUS
  <2>5. /\ pc \in [Workers -> Pcs] /\ verdict \in [Workers -> Verdicts]
        /\ row \in [Deliveries -> Rows] /\ rescue \in [Deliveries -> Rows] /\ doc \in [Workers -> Rows]
    BY DEF Pcs, Verdicts
  <2>6. QED
    BY <2>1, <2>3, <2>4, <2>5 DEF TypeOK
<1>2. TraceInv
  BY DEF TraceInv, Untouched, Fresh, AttemptShape, Holding, Looking
<1>3. RowsAreHeld
  BY DEF RowsAreHeld, HeldRow, ParkedRow, RescuedRow, Holding, OpenStates
<1>4. PlacesArePinned
  BY DEF PlacesArePinned, PinnedRow, PinnedAttempt, Holding, Looking, ObjectPlaces
<1>5. QED
  BY <1>1, <1>2, <1>3, <1>4 DEF RegistrationInv

\* Types and traces together are inductive, whatever races the instance admits.
LEMMA TraceInvariant == Spec => [](TypeOK /\ TraceInv)
<1>1. Init => TypeOK /\ TraceInv
  BY InitialState DEF RegistrationInv
<1>2. TypeOK /\ TraceInv /\ [Next]_vars => (TypeOK /\ TraceInv)'
  BY TypeStep, TraceStep
<1>3. QED
  BY <1>1, <1>2, PTL DEF Spec

\* Every variable keeps its type.
THEOREM RegistrationTypes == Spec => []TypeOK
  BY TraceInvariant, PTL

\* What was erased, or whose form was deleted, before an attempt's last look is not
\* sent by it: also when the row is rescued or parked under the attempt.
THEOREM LastLookIsKept == Spec => []LastLookWins
<1>1. TraceInv => LastLookWins
  BY DEF TraceInv, AttemptShape, LastLookWins
<1>2. QED
  BY TraceInvariant, <1>1, PTL

-----------------------------------------------------------------------------
(* The theorems about deliveries nobody is late for.                       *)

\* The whole invariant is inductive without the races.
THEOREM RegistrationInvariant ==
  ASSUME Races = {}
  PROVE  Spec => []RegistrationInv
<1>1. TypeOK /\ RegistrationInv /\ [Next]_vars => (TypeOK /\ RegistrationInv)'
  BY TypeStep, TraceStep, RowsStep, PlacesStep DEF RegistrationInv
<1>2. QED
  BY InitialState, <1>1, PTL DEF Spec

\* Two workers never have one delivery: claims, sweeps, crashes, retries by hand,
\* deletions and the switch together.
THEOREM OneSender ==
  ASSUME Races = {}
  PROVE  Spec => []SingleSender
<1>1. RegistrationInv => SingleSender
  BY DEF RegistrationInv, RowsAreHeld, HeldRow, SingleSender, Holds
<1>2. QED
  BY RegistrationInvariant, <1>1, PTL

\* One object at most per submission, in one Objects API: whatever answers are
\* lost, and however the form and its services are edited between two attempts.
THEOREM OneObjectOnly ==
  ASSUME Races = {}
  PROVE  Spec => []OneObject
<1>1. RegistrationInv => OneObject
  BY DEF RegistrationInv, PlacesArePinned, PinnedRow, OneObject
<1>2. QED
  BY RegistrationInvariant, <1>1, PTL

\* Once an Objects API had a delivery, no POST of it goes anywhere else.
THEOREM PlaceIsPinned ==
  ASSUME Races = {}
  PROVE  Spec => []PinnedPlace
<1>1. TypeOK /\ RegistrationInv => PinnedPlace
  <2> SUFFICES ASSUME TypeOK, RegistrationInv, NEW w \in Workers, pc[w] = "post",
                      first[job[w]] # NoPlace
               PROVE  place[w] = first[job[w]]
    BY DEF PinnedPlace
  <2>1. PinnedAttempt(w)
    BY DEF RegistrationInv, PlacesArePinned
  <2>2. QED
    BY <2>1 DEF PinnedAttempt, Holding
<1>2. Spec => []TypeOK
  BY RegistrationTypes
<1>3. QED
  BY RegistrationInvariant, <1>1, <1>2, PTL

\* What is shown as delivered was taken by a destination.
THEOREM DeliveredIsTaken ==
  ASSUME Races = {}
  PROVE  Spec => []DeliveredIsThere
<1>1. RegistrationInv => DeliveredIsThere
  BY DEF RegistrationInv, PlacesArePinned, PinnedRow, DeliveredIsThere
<1>2. QED
  BY RegistrationInvariant, <1>1, PTL

\* No step reopens a delivered row, or brings back one that is gone.
LEMMA OverStep ==
  ASSUME Races = {}, TypeOK, RegistrationInv, [Next]_vars, NEW k \in Deliveries
  PROVE  /\ row[k].status = "delivered" => row'[k] \in {row[k], Absent}
         /\ resp[k] # "absent" /\ ~handoff[k] /\ ~Exists(row[k]) => ~Exists(row'[k])
<1> DEFINE Stays == /\ row[k].status = "delivered" => row'[k] \in {row[k], Absent}
                    /\ handoff[k] \/ Exists(row[k]) \/ ~Exists(row'[k])
<1> SUFFICES Stays
  OBVIOUS
<1> USE DEF TypeOK
<1>1. CASE UNCHANGED row
  BY <1>1 DEF Exists
<1>2. ASSUME NEW gone, row' = DeleteRows(gone) PROVE Stays
  BY <1>2, AbsentFields DEF DeleteRows, Exists
<1>3. ASSUME NEW d \in Deliveries, NEW r, row' = SaveExisting(d, r), row[d].status # "delivered"
      PROVE  Stays
  BY <1>3 DEF SaveExisting, Exists
<1>4. ASSUME NEW d \in Deliveries, HandOff(d) PROVE Stays
  BY <1>1, <1>4 DEF HandOff, CreateIfAbsent, Exists
<1>5. ASSUME NEW w \in Workers, pc[w] \in Holding \cup {"park"}
      PROVE  job[w] \in Deliveries /\ row[job[w]].status # "delivered"
  <2>1. job[w] \in Deliveries
    BY <1>5, WorkerFacts DEF RegistrationInv, Holding
  <2>2. HeldRow(w) /\ ParkedRow(w)
    BY DEF RegistrationInv, RowsAreHeld
  <2>3. Pending(doc[w]).status = "pending"
    BY RowFields
  <2>4. QED
    BY <1>5, <2>1, <2>2, <2>3, AbsentFields DEF HeldRow, ParkedRow, Exists
<1>6. ASSUME NEW w \in Workers, Step(w) PROVE Stays
  <2>1. CASE Start(w)
    BY <1>1, <2>1 DEF Start, Claimable, OpenStates, Exists
  <2>2. CASE Park(w) \/ Save(w)
    BY <1>3, <1>5, <2>2 DEF Park, Save, Holding
  <2>3. CASE Snapshot(w)
    BY <1>1, <1>3, <1>5, <2>3 DEF Snapshot, Holding
  <2>4. CASE StartOff(w) \/ Lookup(w) \/ Post(w) \/ RequeueJob(w)
    BY <1>1, <2>4 DEF StartOff, Lookup, Post, RequeueJob
  <2>5. CASE Attempt(w) \/ Check(w)
    BY <1>1, <1>2, <2>5 DEF Attempt, Check
  <2>6. QED
    BY <1>6, <2>1, <2>2, <2>3, <2>4, <2>5 DEF Step
<1>7. ASSUME NEW d \in Deliveries, Retry(d) PROVE Stays
  BY <1>7 DEF Retry, Retryable, Exists
<1>8. ASSUME NEW d \in Deliveries, SweepSave(d) PROVE Stays
  <2>1. CASE rescue[d].status = "pending"
    BY <1>1, <1>8, <2>1 DEF SweepSave
  <2>2. CASE rescue[d].status # "pending"
    <3>1. RescuedRow(d)
      BY DEF RegistrationInv, RowsAreHeld
    <3>2. row[d].status # "delivered"
      BY <1>8, <2>2, <3>1, AbsentFields DEF SweepSave, RescuedRow, OpenStates
    <3>3. QED
      BY <1>3, <1>8, <2>2, <3>2 DEF SweepSave
  <2>3. QED
    BY <2>1, <2>2
<1>9. ASSUME NEW d \in Deliveries, SweepOrphan(d) \/ EraseRow(d) PROVE Stays
  BY <1>1, <1>2, <1>9 DEF SweepOrphan, EraseRow
<1>10. CASE DeleteFormRows
  BY <1>2, <1>10 DEF DeleteFormRows
<1>11. QED
  BY <1>1, <1>4, <1>6, <1>7, <1>8, <1>9, <1>10
     DEF Next, Submission, Job, Sweeper, Sweep, Around, vars, Submit, HandOffCrash, Fetch,
         StartFails, SaveFails, Crash, SweepRead, SweepCrash, EditForm, MoveService,
         DeleteService, EraseResponse, RemoveForm, DeleteRegistration, SwitchOff, SwitchOn

\* Whatever was delivered stays so, and a deleted row stays deleted, under retries
\* by hand, sweeps, parked retries and the saves of running attempts.
THEOREM OverStaysOver ==
  ASSUME Races = {}
  PROVE  Spec => OverIsOver
<1>1. TypeOK /\ RegistrationInv /\ [Next]_vars
        => [\A d \in Deliveries :
              /\ row[d].status = "delivered" => row'[d] \in {row[d], Absent}
              /\ resp[d] # "absent" /\ ~handoff[d] /\ ~Exists(row[d]) => ~Exists(row'[d])]_vars
  BY OverStep
<1>2. Spec => []TypeOK
  BY RegistrationTypes
<1>3. QED
  BY RegistrationInvariant, <1>1, <1>2, PTL DEF Spec, OverIsOver
=============================================================================
