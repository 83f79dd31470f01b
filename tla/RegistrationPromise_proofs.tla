---------------------- MODULE RegistrationPromise_proofs ----------------------
(***************************************************************************)
(* RegistrationDelivery implements RegistrationPromise: what the results   *)
(* page and the case systems show of a submission is one history of an     *)
(* abstract delivery, whatever workers, sweeps, editors, erasures, the     *)
(* switch and crashes do, as long as nobody the sweep gave up turns out to *)
(* be late (Races = {}).                                                   *)
(*                                                                         *)
(* A step of the pipeline is a Record, a Send, a Conclude, a Reopen or a   *)
(* Forget of the promise, or changes nothing that is shown.  The invariant *)
(* it needs is RegistrationInv, as proved in RegistrationDelivery_proofs.  *)
(***************************************************************************)
EXTENDS RegistrationDelivery_proofs

USE RegistrationAssumption

-----------------------------------------------------------------------------
(* What is shown of a delivery.                                            *)

Past(d) == ~(resp[d] = "absent" \/ handoff[d])

Unconcluded == OpenStates \cup {"in_progress"}

\* The phases of a delivery, now and after a step.
LEMMA Shown ==
  ASSUME NEW d \in Deliveries
  PROVE  /\ ~Past(d) => State(d) = "none"
         /\ Past(d) /\ ~Exists(row[d]) => State(d) = "gone"
         /\ Past(d) /\ row[d].status \in FinalStates => State(d) = row[d].status
         /\ Past(d) /\ Exists(row[d]) /\ row[d].status \notin FinalStates => State(d) = "open"
BY DEF State, Past, Exists, FinalStates

LEMMA ShownNext ==
  ASSUME NEW d \in Deliveries
  PROVE  /\ ~Past(d)' => State(d)' = "none"
         /\ Past(d)' /\ ~Exists(row'[d]) => State(d)' = "gone"
         /\ Past(d)' /\ row'[d].status \in FinalStates => State(d)' = row'[d].status
         /\ Past(d)' /\ Exists(row'[d]) /\ row'[d].status \notin FinalStates => State(d)' = "open"
BY DEF State, Past, Exists, FinalStates

\* A step between the states of an open row shows nothing.
LEMMA ShowsNothing ==
  ASSUME UNCHANGED <<first, copies>>,
         \A k \in Deliveries : Past(k)' = Past(k),
         \A k \in Deliveries : \/ row'[k].status = row[k].status
                               \/ row[k].status \in Unconcluded /\ row'[k].status \in Unconcluded
  PROVE  UNCHANGED Promise!vars
<1>1. ASSUME NEW k \in Deliveries PROVE State(k)' = State(k)
  BY Shown, ShownNext DEF Unconcluded, OpenStates, FinalStates, Exists
<1>2. QED
  BY <1>1 DEF Promise!vars

\* Nor does a save that finds an open row, or none, and leaves it open.
LEMMA SavesNothing ==
  ASSUME TypeOK, UNCHANGED <<first, copies>>, \A k \in Deliveries : Past(k)' = Past(k),
         NEW d \in Deliveries, NEW r, row' = SaveExisting(d, r),
         row[d].status \in Unconcluded \cup {"absent"}, r.status \in Unconcluded
  PROVE  UNCHANGED Promise!vars
<1>1. \A k \in Deliveries : \/ row'[k].status = row[k].status
                            \/ row[k].status \in Unconcluded /\ row'[k].status \in Unconcluded
  BY DEF TypeOK, SaveExisting, Exists, Unconcluded
<1>2. QED
  BY <1>1, ShowsNothing

\* Deleting rows, of any deliveries, is one Forget.
LEMMA ShowsDeletion ==
  ASSUME TypeOK, TraceInv, UNCHANGED <<first, copies>>, \A k \in Deliveries : Past(k)' = Past(k),
         NEW gone, row' = DeleteRows(gone)
  PROVE  Promise!Next
<1> DEFINE there == {k \in Deliveries : k \in gone /\ Exists(row[k])}
<1>1. \A k \in Deliveries :
        /\ k \in there => ~Exists(row'[k])
        /\ k \notin there => row'[k] = row[k] \/ (~Exists(row[k]) /\ ~Exists(row'[k]))
  BY AbsentFields DEF TypeOK, DeleteRows, Exists
<1>2. \A k \in there : Past(k)
  BY DEF TraceInv, Untouched, Fresh, Past
<1>3. ASSUME NEW k \in Deliveries PROVE State(k)' = IF k \in there THEN "gone" ELSE State(k)
  <2>1. CASE k \in there
    BY <1>1, <1>2, <2>1, ShownNext
  <2>2. CASE k \notin there
    BY <1>1, <2>2, Shown, ShownNext DEF Exists
  <2>3. QED
    BY <2>1, <2>2
<1>4. \A k \in there : State(k) # "none"
  BY <1>2, Shown DEF FinalStates
<1>5. Promise!Forget(there)
  BY <1>3, <1>4 DEF Promise!Forget
<1>6. QED
  BY <1>5 DEF Promise!Next

\* A row that changes between open and concluded is one Conclude or one Reopen.
LEMMA ShowsOne ==
  ASSUME UNCHANGED <<first, copies>>, \A k \in Deliveries : Past(k)' = Past(k),
         NEW d \in Deliveries, Past(d), \A k \in Deliveries \ {d} : row'[k] = row[k],
         Exists(row[d]), Exists(row'[d]),
         \/ /\ row[d].status \notin FinalStates /\ row'[d].status \in FinalStates
            /\ row'[d].status = "delivered" => \E p \in Places : copies[d][p] > 0
         \/ row[d].status \in {"failed", "cancelled"} /\ row'[d].status \notin FinalStates
  PROVE  Promise!Next
<1>1. ASSUME NEW k \in Deliveries \ {d} PROVE State(k)' = State(k)
  BY <1>1, Shown, ShownNext DEF Exists
<1>2. CASE row[d].status \notin FinalStates
  <2>1. State(d) = "open" /\ State(d)' = row'[d].status
    BY <1>2, Shown, ShownNext DEF FinalStates
  <2>2. Promise!Conclude(d)
    BY <1>1, <1>2, <2>1 DEF FinalStates, Promise!Conclude, Promise!Become
  <2>3. QED
    BY <2>2 DEF Promise!Next
<1>3. CASE row[d].status \in FinalStates
  <2>1. State(d) = row[d].status /\ State(d)' = "open"
    BY <1>3, Shown, ShownNext DEF FinalStates
  <2>2. Promise!Reopen(d)
    BY <1>1, <1>3, <2>1 DEF FinalStates, Promise!Reopen, Promise!Become
  <2>3. QED
    BY <2>2 DEF Promise!Next
<1>4. QED
  BY <1>2, <1>3

-----------------------------------------------------------------------------
(* Every step is one of the promise, or none.                              *)

LEMMA PromiseStep ==
  ASSUME Races = {}, TypeOK, RegistrationInv, [Next]_vars
  PROVE  [Promise!Next]_(Promise!vars)
<1> USE DEF Promise!vars
<1>a. /\ TraceInv
      /\ \A w \in Workers : HeldRow(w) /\ ParkedRow(w) /\ PinnedAttempt(w) /\ AttemptShape(w)
      /\ \A d \in Deliveries : RescuedRow(d) /\ PinnedRow(d) /\ Untouched(d)
  BY DEF RegistrationInv, TraceInv, RowsAreHeld, PlacesArePinned
<1>same. ASSUME UNCHANGED <<first, copies, row>>, \A k \in Deliveries : Past(k)' = Past(k)
         PROVE  UNCHANGED Promise!vars
  BY <1>same, ShowsNothing
<1>rest. UNCHANGED <<resp, handoff>> => \A k \in Deliveries : Past(k)' = Past(k)
  BY DEF Past
\* A worker's delivery was handed off, and its row is open or gone while it has it.
<1>mine. ASSUME NEW w \in Workers, pc[w] # "idle" PROVE job[w] \in Deliveries /\ Past(job[w])
  BY <1>a, <1>mine DEF AttemptShape, Untouched, Fresh, Past
<1>open. ASSUME NEW w \in Workers, pc[w] \in Holding \cup {"park"}
         PROVE  /\ row[job[w]].status \in Unconcluded \cup {"absent"}
                /\ doc[w] \in Rows /\ (pc[w] \in Holding => doc[w].status = "in_progress")
                /\ pc[w] \in Holding => row[job[w]].status \in {"in_progress", "absent"}
  <2>1. pc[w] \in Holding => row[job[w]].status \in {"in_progress", "absent"}
    BY <1>a DEF HeldRow, Exists
  <2>2. pc[w] = "park" => row[job[w]].status \in {"retrying", "pending", "absent"}
    <3>1. Pending(doc[w]).status = "pending"
      BY RowFields DEF TypeOK
    <3>2. QED
      BY <1>a, <3>1, AbsentFields DEF ParkedRow
  <2>3. QED
    BY <1>a, <1>open, <2>1, <2>2 DEF HeldRow, Unconcluded, OpenStates, TypeOK
<1>1. ASSUME NEW d \in Deliveries, Submit(d) \/ EraseResponse(d) PROVE UNCHANGED Promise!vars
  <2>1. \A k \in Deliveries : Past(k)' = Past(k)
    BY <1>1 DEF Submit, EraseResponse, Past, TypeOK
  <2>2. QED
    BY <1>1, <1>same, <2>1 DEF Submit, EraseResponse
<1>2. ASSUME NEW d \in Deliveries, HandOff(d) \/ HandOffCrash(d) PROVE Promise!Next
  <2>1. /\ ~Past(d) /\ Past(d)' /\ ~Exists(row[d])
        /\ \A k \in Deliveries \ {d} : Past(k)' = Past(k)
    BY <1>2, <1>a DEF HandOff, HandOffCrash, Untouched, Fresh, Past, TypeOK
  <2>2. /\ \A k \in Deliveries \ {d} : row'[k] = row[k]
        /\ row'[d] = row[d] \/ row'[d].status = "pending"
    BY <1>2, <2>1 DEF HandOff, HandOffCrash, CreateIfAbsent, Blank, TypeOK
  <2>3. \A k \in Deliveries \ {d} : State(k)' = State(k)
    BY <2>1, <2>2, Shown, ShownNext DEF Exists
  <2>4. State(d) = "none" /\ State(d)' \in {"open", "gone"}
    BY <2>1, <2>2, Shown, ShownNext DEF Exists, FinalStates
  <2>5. Promise!Record(d)
    BY <1>2, <2>3, <2>4 DEF HandOff, HandOffCrash, Promise!Record, Promise!Become
  <2>6. QED
    BY <2>5 DEF Promise!Next
<1>3. ASSUME NEW w \in Workers,
             \/ \E d \in Deliveries : Fetch(w, d)
             \/ StartOff(w) \/ Lookup(w) \/ RequeueJob(w) \/ StartFails(w) \/ SaveFails(w) \/ Crash(w)
      PROVE  UNCHANGED Promise!vars
  BY <1>3, <1>same, <1>rest
     DEF Fetch, StartOff, Lookup, RequeueJob, StartFails, SaveFails, Crash
<1>4. ASSUME NEW w \in Workers, Park(w) PROVE UNCHANGED Promise!vars
  <2>1. Pending(doc[w]).status \in Unconcluded
    BY <1>4, <1>open, RowFields DEF Park, Unconcluded, OpenStates
  <2>2. QED
    BY <1>4, <1>mine, <1>open, <1>rest, <2>1, SavesNothing DEF Park
<1>5. ASSUME NEW w \in Workers, Start(w) PROVE UNCHANGED Promise!vars
  <2>1. CASE UNCHANGED row
    BY <1>5, <1>same, <1>rest, <2>1 DEF Start
  <2>2. CASE Claimable(job[w]) /\ row' = [row EXCEPT ![job[w]] = Claimed(@)]
    <3>1. \A k \in Deliveries : \/ row'[k].status = row[k].status
                                \/ row[k].status \in Unconcluded /\ row'[k].status \in Unconcluded
      BY <2>2, RowFields DEF Claimable, TypeOK, Unconcluded
    <3>2. QED
      BY <1>5, <1>rest, <3>1, ShowsNothing DEF Start
  <2>3. QED
    BY <1>5, <2>1, <2>2 DEF Start
<1>6. ASSUME NEW w \in Workers, Attempt(w) \/ Check(w) PROVE Promise!Next \/ UNCHANGED Promise!vars
  <2>1. UNCHANGED row \/ row' = DeleteRows({job[w]})
    BY <1>6 DEF Attempt, Check
  <2>2. UNCHANGED <<resp, handoff, first, copies>>
    BY <1>6 DEF Attempt, Check
  <2>3. QED
    BY <1>a, <1>same, <1>rest, <2>1, <2>2, ShowsDeletion
<1>7. ASSUME NEW w \in Workers, Snapshot(w) PROVE UNCHANGED Promise!vars
  <2>1. CASE UNCHANGED row
    BY <1>7, <1>same, <1>rest, <2>1 DEF Snapshot
  <2>2. CASE row' = SaveExisting(job[w], [doc[w] EXCEPT !.snap = place[w]])
    <3>1. [doc[w] EXCEPT !.snap = place[w]].status \in Unconcluded
      BY <1>7, <1>open, RowFields DEF Snapshot, Holding, Unconcluded
    <3>2. QED
      BY <1>7, <1>mine, <1>open, <1>rest, <2>2, <3>1, SavesNothing DEF Snapshot, Holding
  <2>3. QED
    BY <1>7, <2>1, <2>2 DEF Snapshot
<1>8. ASSUME NEW w \in Workers, Post(w) PROVE Promise!Next
  <2>1. job[w] \in Deliveries /\ Past(job[w]) /\ place[w] \in Places
    BY <1>8, <1>a, <1>mine DEF Post, AttemptShape
  <2>2. State(job[w]) \in {"open", "gone"}
    BY <1>8, <1>open, <2>1, Shown DEF Post, Holding, Exists, FinalStates
  <2>3. first[job[w]] # NoPlace => place[w] = first[job[w]]
    BY <1>8, <1>a DEF Post, PinnedAttempt, Holding
  <2>4. place[w] \in ObjectPlaces => \A q \in ObjectPlaces : copies[job[w]][q] = 0
    BY <1>8, <1>a DEF Post, PinnedAttempt
  <2>5. first' = IF place[w] \in ObjectPlaces THEN [first EXCEPT ![job[w]] = place[w]] ELSE first
    BY <1>8, <2>1, <2>3 DEF Post, TypeOK
  <2>6. \/ copies' = [copies EXCEPT ![job[w]][place[w]] = @ + 1]
        \/ UNCHANGED copies
    BY <1>8 DEF Post
  <2>7. \A k \in Deliveries : State(k)' = State(k)
    BY <1>8 DEF Post, State
  <2>8. Promise!Send(job[w], place[w])
    BY <2>1, <2>2, <2>3, <2>4, <2>5, <2>6, <2>7 DEF Promise!Send
  <2>9. QED
    BY <2>1, <2>8 DEF Promise!Next
<1>9. ASSUME NEW w \in Workers, Save(w) PROVE Promise!Next \/ UNCHANGED Promise!vars
  <2> DEFINE r == [doc[w] EXCEPT !.status = verdict[w]]
  <2>1. /\ job[w] \in Deliveries /\ Past(job[w]) /\ row' = SaveExisting(job[w], r)
        /\ UNCHANGED <<resp, handoff, first, copies>>
    BY <1>9, <1>mine DEF Save
  <2>2. /\ row[job[w]].status \in {"in_progress", "absent"}
        /\ r.status = verdict[w] /\ verdict[w] \in FinalStates \cup {"retrying"}
    BY <1>9, <1>a, <1>open, WorkerFacts, RowFields DEF Save, Holding
  <2>3. CASE verdict[w] = "retrying" \/ ~Exists(row[job[w]])
    <3>1. CASE verdict[w] = "retrying"
      BY <1>rest, <2>1, <2>2, <3>1, SavesNothing DEF Unconcluded, OpenStates
    <3>2. CASE ~Exists(row[job[w]])
      <4>1. UNCHANGED row
        BY <2>1, <3>2 DEF SaveExisting, TypeOK
      <4>2. QED
        BY <1>same, <1>rest, <2>1, <4>1
    <3>3. QED
      BY <2>3, <3>1, <3>2
  <2>4. CASE verdict[w] \in FinalStates /\ Exists(row[job[w]])
    <3>1. row'[job[w]] = r /\ \A k \in Deliveries \ {job[w]} : row'[k] = row[k]
      BY <2>1, <2>4 DEF SaveExisting, TypeOK
    <3>2. verdict[w] = "delivered" => \E p \in Places : copies[job[w]][p] > 0
      BY <1>9, <1>a DEF Save, PinnedAttempt
    <3>3. Exists(row'[job[w]])
      BY <2>2, <2>4, <3>1 DEF Exists, FinalStates
    <3>4. QED
      BY <1>rest, <2>1, <2>2, <2>4, <3>1, <3>2, <3>3, ShowsOne DEF FinalStates, Exists
  <2>5. QED
    BY <2>2, <2>3, <2>4
<1>10. ASSUME NEW d \in Deliveries, Retry(d) PROVE Promise!Next
  <2>1. /\ row[d].status \in {"failed", "cancelled"} /\ row'[d].status = "pending"
        /\ \A k \in Deliveries \ {d} : row'[k] = row[k]
        /\ UNCHANGED <<resp, handoff, first, copies>>
    <3>1. DOMAIN row[d] = {"status", "attempts", "manual", "snap"}
      BY <1>10 DEF Retry, Retryable, TypeOK, Rows, Row, Absent, Blank
    <3>2. QED
      BY <1>10, <3>1 DEF Retry, Retryable, TypeOK
  <2>2. Exists(row[d]) /\ Exists(row'[d])
    BY <2>1 DEF Exists
  <2>3. Past(d)
    BY <1>a, <2>2 DEF Untouched, Fresh, Past
  <2>4. QED
    BY <1>rest, <2>1, <2>2, <2>3, ShowsOne DEF FinalStates
<1>11. ASSUME NEW d \in Deliveries, SweepRead(d) PROVE UNCHANGED Promise!vars
  BY <1>11, <1>same, <1>rest DEF SweepRead
<1>12. ASSUME NEW d \in Deliveries, SweepSave(d) PROVE UNCHANGED Promise!vars
  <2>1. CASE rescue[d].status = "pending"
    BY <1>12, <1>same, <1>rest, <2>1 DEF SweepSave
  <2>2. CASE rescue[d].status \in {"in_progress", "retrying"}
    <3>1. row[d].status \in Unconcluded \cup {"absent"}
      BY <1>a, <2>2, AbsentFields DEF RescuedRow, Unconcluded, OpenStates
    <3>2. Pending(rescue[d]).status \in Unconcluded
      BY RowFields DEF TypeOK, Unconcluded, OpenStates
    <3>3. QED
      BY <1>12, <1>rest, <2>2, <3>1, <3>2, SavesNothing DEF SweepSave
  <2>3. QED
    BY <1>12, <1>a, <2>1, <2>2 DEF SweepSave, RescuedRow, OpenStates
<1>13. ASSUME NEW d \in Deliveries, SweepOrphan(d) PROVE Promise!Next
  BY <1>13, <1>a, <1>rest, ShowsDeletion DEF SweepOrphan
<1>14. ASSUME NEW d \in Deliveries, EraseRow(d) PROVE Promise!Next \/ UNCHANGED Promise!vars
  <2>1. \A k \in Deliveries : Past(k)' = Past(k)
    BY <1>14 DEF EraseRow, Past, TypeOK
  <2>2. QED
    BY <1>14, <1>a, <1>same, <2>1, ShowsDeletion DEF EraseRow
<1>15. CASE DeleteFormRows
  BY <1>15, <1>a, <1>rest, ShowsDeletion DEF DeleteFormRows
<1>16. CASE \/ EditForm \/ RemoveForm \/ DeleteRegistration \/ SwitchOff \/ SwitchOn \/ SweepCrash
            \/ \E s \in Services : MoveService(s) \/ DeleteService(s)
            \/ UNCHANGED vars
  BY <1>16, <1>same, <1>rest
     DEF EditForm, RemoveForm, DeleteRegistration, SwitchOff, SwitchOn, SweepCrash, MoveService,
         DeleteService, vars
<1>17. QED
  BY <1>1, <1>2, <1>3, <1>4, <1>5, <1>6, <1>7, <1>8, <1>9, <1>10, <1>11, <1>12, <1>13, <1>14,
     <1>15, <1>16 DEF Next, Submission, Job, Step, Sweeper, Sweep, Around

-----------------------------------------------------------------------------

\* The registration pipeline keeps its promise ("No duplicate objects",
\* docs/open-formulieren-registration.md): a delivery is delivered once and for good,
\* reopened only by hand, never brought back once its row was deleted, and the
\* Objects APIs hold one object of it at most, where its first request went.
THEOREM RegistrationPromiseIsKept ==
  ASSUME Races = {}
  PROVE  Spec => KeepsPromise
<1>1. Init => Promise!Init
  <2> SUFFICES ASSUME Init PROVE Promise!Init
    OBVIOUS
  <2>1. \A d \in Deliveries : State(d) = "none"
    BY Shown DEF Init, Past
  <2>2. QED
    BY <2>1 DEF Init, Promise!Init
<1>2. TypeOK /\ RegistrationInv /\ [Next]_vars => [Promise!Next]_(Promise!vars)
  BY PromiseStep
<1>3. Spec => []TypeOK
  BY RegistrationTypes
<1>4. QED
  BY RegistrationInvariant, <1>1, <1>2, <1>3, PTL DEF Spec, KeepsPromise, Promise!Spec
=============================================================================
