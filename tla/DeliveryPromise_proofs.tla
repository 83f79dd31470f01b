----------------------- MODULE DeliveryPromise_proofs -----------------------
(***************************************************************************)
(* WebhookDelivery implements DeliveryPromise: what the log shows of a     *)
(* delivery is one history of an abstract delivery, whatever workers, the  *)
(* sweep, editors, erasures and crashes do, as long as nobody the sweep    *)
(* gave up turns out to be late (Races = {}).                              *)
(*                                                                         *)
(* A step of the pipeline is a Record, a Send, a Conclude or a Forget of   *)
(* the promise, or changes nothing the log shows.                          *)
(***************************************************************************)
EXTENDS WebhookDelivery_proofs

USE NoHostAssumption, DeliveryAssumption

-----------------------------------------------------------------------------
(* What the log shows.                                                     *)

\* The four phases of a delivery, now and after a step.
LEMMA Shown ==
  ASSUME NEW l \in Logs
  PROVE  /\ shown[l] = NoHost => State(l) = "none"
         /\ shown[l] # NoHost /\ ~Exists(row[l]) => State(l) = "gone"
         /\ shown[l] # NoHost /\ row[l].status \in FinalStates => State(l) = row[l].status
         /\ shown[l] # NoHost /\ Exists(row[l]) /\ row[l].status \notin FinalStates
              => State(l) = "open"
<1>1. CASE shown[l] = NoHost
  BY <1>1 DEF State
<1>2. CASE shown[l] # NoHost /\ ~Exists(row[l])
  BY <1>2 DEF State, Exists, FinalStates
<1>3. CASE shown[l] # NoHost /\ Exists(row[l])
  BY <1>3 DEF State, Exists, FinalStates
<1>4. QED
  BY <1>1, <1>2, <1>3

LEMMA ShownNext ==
  ASSUME NEW l \in Logs
  PROVE  /\ shown'[l] = NoHost => State(l)' = "none"
         /\ shown'[l] # NoHost /\ ~Exists(row'[l]) => State(l)' = "gone"
         /\ shown'[l] # NoHost /\ row'[l].status \in FinalStates => State(l)' = row'[l].status
         /\ shown'[l] # NoHost /\ Exists(row'[l]) /\ row'[l].status \notin FinalStates
              => State(l)' = "open"
<1>1. CASE shown'[l] = NoHost
  BY <1>1 DEF State
<1>2. CASE shown'[l] # NoHost /\ ~Exists(row'[l])
  BY <1>2 DEF State, Exists, FinalStates
<1>3. CASE shown'[l] # NoHost /\ Exists(row'[l])
  BY <1>3 DEF State, Exists, FinalStates
<1>4. QED
  BY <1>1, <1>2, <1>3

Unconcluded == OpenStates \cup {"in_progress"}

\* A step between the states of an open row shows nothing.
LEMMA ShowsNothing ==
  ASSUME UNCHANGED <<shown, sent, accepted>>,
         \A k \in Logs : \/ row'[k].status = row[k].status
                         \/ row[k].status \in Unconcluded /\ row'[k].status \in Unconcluded
  PROVE  UNCHANGED Promise!vars
<1>1. ASSUME NEW k \in Logs PROVE State(k)' = State(k)
  BY Shown, ShownNext DEF Unconcluded, OpenStates, FinalStates, Exists
<1>2. QED
  BY <1>1 DEF Promise!vars

\* Deleting rows, of any deliveries, is one Forget.
LEMMA ShowsDeletion ==
  ASSUME TypeOK, CopiesAgree, UNCHANGED <<shown, sent, accepted>>,
         NEW gone, row' = DeleteRows(row, gone)
  PROVE  Promise!Next
<1> DEFINE there == {k \in Logs : k \in gone /\ Exists(row[k])}
<1>1. \A k \in Logs : /\ k \in there => ~Exists(row'[k])
                      /\ k \notin there => row'[k] = row[k] \/ (~Exists(row[k]) /\ ~Exists(row'[k]))
  BY DEF TypeOK, DeleteRows, Exists, Absent
<1>2. \A k \in there : shown[k] # NoHost
  BY DEF CopiesAgree, TraceAgrees, Fresh
<1>3. ASSUME NEW k \in Logs PROVE State(k)' = IF k \in there THEN "gone" ELSE State(k)
  <2>1. CASE k \in there
    BY <1>1, <1>2, <2>1, ShownNext
  <2>2. CASE k \notin there /\ row'[k] = row[k]
    BY <2>2 DEF State
  <2>3. CASE k \notin there /\ ~Exists(row[k]) /\ ~Exists(row'[k])
    BY <2>3, Shown, ShownNext
  <2>4. QED
    BY <1>1, <2>1, <2>2, <2>3
<1>4. \A k \in there : State(k) # "none"
  BY <1>2, Shown DEF FinalStates
<1>5. Promise!Forget(there)
  BY <1>3, <1>4 DEF Promise!Forget
<1>6. QED
  BY <1>5 DEF Promise!Next

\* A delivery recorded with a status it can start in is one Record.
LEMMA ShowsRecord ==
  ASSUME TypeOK, UNCHANGED <<sent, accepted>>,
         NEW l \in Logs, shown[l] = NoHost, NEW h \in Hosts, shown' = [shown EXCEPT ![l] = h],
         NEW s \in {"pending", "cancelled"}, row' = [row EXCEPT ![l] = NewRow(s, h)]
  PROVE  Promise!Next
<1>1. shown'[l] # NoHost /\ row'[l].status = s
  BY DEF TypeOK, NewRow
<1>2. State(l) = "none"
  BY Shown
<1>3. State(l)' = IF s = "pending" THEN "open" ELSE "cancelled"
  BY <1>1, ShownNext DEF Exists, FinalStates
<1>4. \A k \in Logs : k # l => State(k)' = State(k)
  BY DEF TypeOK, State
<1>5. Promise!Record(l)
  BY <1>2, <1>3, <1>4 DEF Promise!Record
<1>6. QED
  BY <1>5 DEF Promise!Next

-----------------------------------------------------------------------------
(* What is stored as delivered was accepted.                               *)

Accepts == \A w \in Workers :
             pc[w] = "save" /\ verdict[w] = "delivered" => accepted[job[w]] > 0

LEMMA AcceptsStep ==
  ASSUME TypeOK, CopiesAgree, Accepts, [Next]_vars
  PROVE  Accepts'
<1> SUFFICES ASSUME NEW v \in Workers, pc'[v] = "save", verdict'[v] = "delivered"
             PROVE  accepted'[job'[v]] > 0
  BY DEF Accepts
<1> USE DEF TypeOK, Goto
<1>a. pc[v] = "save" /\ verdict[v] = "delivered" => accepted[job[v]] > 0
  BY DEF Accepts
<1>b. \A w \in Workers : pc[w] # "idle" => job[w] \in Logs
  BY DEF CopiesAgree, AttemptAgrees
<1>same. ASSUME UNCHANGED <<pc, job, verdict, accepted>> PROVE accepted'[job'[v]] > 0
  BY <1>a, <1>same
<1>1. CASE Submission
  BY <1>1, <1>same DEF Submission, Submit, HandOffCrash, HandOff, SendTest, worker, history
<1>2. CASE Sweeper
  BY <1>2, <1>same DEF Sweeper, Sweep, SweepRead, SweepSave, SweepCrash, worker, history
<1>3. CASE Around
  BY <1>3, <1>same
     DEF Around, EditHook, DeleteHook, EraseResponse, EraseLogs, Purge, DeleteFormHooks,
         DeleteFormLogs, SwitchOff, SwitchOn, worker, history
<1>4. ASSUME NEW w \in Workers, Post(w) PROVE accepted'[job'[v]] > 0
  <2>1. job[w] \in Logs /\ accepted[job[w]] \in Nat
    BY <1>4, <1>b DEF Post
  <2>2. CASE v = w
    BY <1>4, <2>1, <2>2 DEF Post, Conclude, Transient
  <2>3. CASE v # w
    <3>1. pc[v] = "save" /\ verdict[v] = "delivered" /\ job'[v] = job[v]
      BY <1>4, <2>3 DEF Post, Conclude
    <3>2. accepted'[job[v]] \in {accepted[job[v]], accepted[job[v]] + 1}
      BY <1>4, <1>b, <2>1, <3>1 DEF Post
    <3>3. accepted[job[v]] \in Nat
      BY <1>b, <3>1
    <3>4. QED
      BY <1>a, <3>1, <3>2, <3>3
  <2>4. QED
    BY <2>2, <2>3
<1>5. ASSUME NEW w \in Workers, NEW l \in Logs, Fetch(w, l) PROVE accepted'[job'[v]] > 0
  BY <1>5, <1>a DEF Fetch, history
<1>6. ASSUME NEW w \in Workers,
             StartOff(w) \/ Park(w) \/ Start(w) \/ RequeueJob(w) \/ StartFails(w) \/ Crash(w)
      PROVE  accepted'[job'[v]] > 0
  BY <1>6, <1>a DEF StartOff, Park, Start, RequeueJob, StartFails, Crash, Release, history
<1>7. ASSUME NEW w \in Workers, Attempt(w) \/ Check(w) PROVE accepted'[job'[v]] > 0
  BY <1>7, <1>a DEF Attempt, Check, Conclude, Transient, Release
<1>8. ASSUME NEW w \in Workers, Save(w) PROVE accepted'[job'[v]] > 0
  BY <1>8, <1>a DEF Save, Release
<1>9. ASSUME NEW w \in Workers, SaveFails(w) PROVE accepted'[job'[v]] > 0
  BY <1>9, <1>a DEF SaveFails, Transient
<1>10. CASE UNCHANGED vars
  BY <1>10, <1>same DEF vars, worker, history
<1>11. QED
  BY <1>1, <1>2, <1>3, <1>4, <1>5, <1>6, <1>7, <1>8, <1>9, <1>10 DEF Next, Job, Step

-----------------------------------------------------------------------------
(* Every step of the pipeline is one of the promise, or shows nothing.     *)

LEMMA PromiseStep ==
  ASSUME Races = {}, TypeOK, CopiesAgree, RowsAreHeld, Accepts, [Next]_vars
  PROVE  [Promise!Next]_(Promise!vars)
<1> USE DEF TypeOK, Goto
<1>a. \A l \in Logs : TraceAgrees(l) /\ RescuedRow(l)
  BY DEF CopiesAgree, RowsAreHeld
<1>b. \A w \in Workers : AttemptAgrees(w) /\ HeldRow(w)
  BY DEF CopiesAgree, RowsAreHeld
<1>c. \A w \in Workers : pc[w] # "idle" => job[w] \in Logs
  BY <1>b DEF AttemptAgrees
<1>same. ASSUME UNCHANGED <<row, shown, sent, accepted>> PROVE UNCHANGED Promise!vars
  BY <1>same, ShowsNothing
<1>1. CASE Submission
  <2>1. ASSUME NEW r \in Responses, Submit(r) \/ HandOffCrash(r) PROVE UNCHANGED Promise!vars
    BY <2>1, <1>same DEF Submit, HandOffCrash, history
  <2>2. ASSUME NEW l \in Logs, HandOff(l) PROVE Promise!Next
    <3>1. shown[l] = NoHost /\ ~Exists(row[l]) /\ handoff[l] \in Hosts
      BY <1>a, <2>2 DEF HandOff, TraceAgrees, Fresh
    <3>2. \E s \in {"pending", "cancelled"} :
            row' = [row EXCEPT ![l] = NewRow(s, handoff[l])]
      BY <2>2, <3>1 DEF HandOff, CreateIfAbsent
    <3>3. QED
      BY <2>2, <3>1, <3>2, ShowsRecord DEF HandOff
  <2>3. ASSUME NEW l \in Logs, SendTest(l) PROVE Promise!Next
    <3>1. hook[HookOf(l)].host \in Hosts
      BY DEF Logs, HookOf
    <3>2. QED
      BY <2>3, <3>1, ShowsRecord DEF SendTest
  <2>4. QED
    BY <1>1, <2>1, <2>2, <2>3 DEF Submission
<1>2. ASSUME NEW w \in Workers, StartOff(w) PROVE UNCHANGED Promise!vars
  <2>1. row' = row \/ (/\ row[job[w]].status = "retrying"
                       /\ row' = SaveExisting(row, job[w], Parked(row[job[w]])))
    BY <1>2 DEF StartOff
  <2>2. job[w] \in Logs
    BY <1>2, <1>c DEF StartOff
  <2>3. Parked(row[job[w]]).status = "pending"
    BY <2>2, ParkedFields
  <2>4. \A k \in Logs : row'[k].status = row[k].status
          \/ (row[k].status = "retrying" /\ row'[k].status = "pending")
    BY <2>1, <2>2, <2>3 DEF SaveExisting
  <2>5. QED
    BY <1>2, <2>4, ShowsNothing DEF StartOff, Unconcluded, OpenStates
<1>3. ASSUME NEW w \in Workers, Start(w) PROVE UNCHANGED Promise!vars
  <2>1. job[w] \in Logs
    BY <1>3, <1>c DEF Start
  <2>2. \A k \in Logs : row'[k].status = row[k].status
          \/ (row[k].status \in OpenStates /\ row'[k].status = "in_progress")
    BY <1>3, <2>1 DEF Start, Claimable, Claim, ClaimedDoc
  <2>3. QED
    BY <1>3, <2>2, ShowsNothing DEF Start, Unconcluded
<1>4. ASSUME NEW w \in Workers, Attempt(w) \/ Check(w) PROVE [Promise!Next]_(Promise!vars)
  <2>1. UNCHANGED <<shown, sent, accepted>>
    BY <1>4 DEF Attempt, Check
  <2>2. CASE UNCHANGED row
    BY <2>1, <2>2, <1>same
  <2>3. CASE row' = DeleteRows(row, LogsOf(SubjectOf(job[w])))
    BY <2>1, <2>3, ShowsDeletion
  <2>4. QED
    BY <1>4, <2>2, <2>3 DEF Attempt, Check
<1>5. ASSUME NEW w \in Workers, Post(w) PROVE Promise!Next
  <2>1. job[w] \in Logs /\ pc[w] = "post"
    BY <1>5, <1>c DEF Post
  <2>2. shown[job[w]] # NoHost
    BY <1>a, <2>1 DEF TraceAgrees, Fresh
  <2>3. row[job[w]].status = "in_progress" \/ ~Exists(row[job[w]])
    BY <1>b, <2>1 DEF HeldRow, Holding, Exists, Absent
  <2>4. State(job[w]) \in {"open", "gone"}
    BY <2>1, <2>2, <2>3, Shown DEF Exists, FinalStates
  <2>5. \A k \in Logs : State(k)' = State(k)
    BY <1>5 DEF Post, State
  <2>6. Promise!Send(job[w])
    BY <1>5, <2>1, <2>4, <2>5 DEF Post, Promise!Send
  <2>7. QED
    BY <2>1, <2>6 DEF Promise!Next
<1>6. ASSUME NEW w \in Workers, Save(w) PROVE [Promise!Next]_(Promise!vars)
  <2> SUFFICES ASSUME NEW l \in Logs, l = job[w]
               PROVE  [Promise!Next]_(Promise!vars)
    BY <1>6, <1>c DEF Save
  <2>1. l = job[w] /\ pc[w] = "save" /\ verdict[w] \in FinalStates \cup {"retrying"}
    BY <1>6, WorkerFacts DEF Save
  <2>2. UNCHANGED <<shown, sent, accepted>>
    BY <1>6 DEF Save
  <2>3. row' = SaveExisting(row, l, [doc[w] EXCEPT !.status = verdict[w]])
    BY <1>6 DEF Save
  <2>4. CASE ~Exists(row[l])
    <3>1. row' = row
      BY <2>1, <2>3, <2>4 DEF SaveExisting
    <3>2. QED
      BY <2>2, <3>1, <1>same
  <2>5. CASE Exists(row[l])
    <3>1. row[l].status = "in_progress"
      BY <1>b, <2>1, <2>5 DEF HeldRow, Holding, Exists, Absent
    <3>2. /\ row'[l].status = verdict[w]
          /\ \A k \in Logs : k # l => row'[k] = row[k]
      <4>1. [doc[w] EXCEPT !.status = verdict[w]].status = verdict[w]
        BY DEF Rows, Row, Absent
      <4>2. QED
        BY <2>1, <2>3, <2>5, <4>1 DEF SaveExisting
    <3>3. CASE verdict[w] = "retrying"
      BY <2>2, <3>1, <3>2, <3>3, ShowsNothing DEF Unconcluded, OpenStates
    <3>4. CASE verdict[w] \in FinalStates
      <4>1. shown[l] # NoHost
        BY <1>a, <2>1 DEF TraceAgrees, Fresh
      <4>2. State(l) = "open" /\ State(l)' = verdict[w]
        <5>1. Exists(row[l]) /\ row[l].status \notin FinalStates
          BY <3>1 DEF Exists, FinalStates
        <5>2. shown'[l] # NoHost /\ row'[l].status \in FinalStates
          BY <2>2, <3>2, <3>4, <4>1
        <5>3. QED
          BY <2>1, <3>2, <4>1, <5>1, <5>2, Shown, ShownNext
      <4>3. \A k \in Logs : k # l => State(k)' = State(k)
        BY <2>2, <3>2 DEF State
      <4>4. verdict[w] = "delivered" => accepted[l] > 0
        BY <2>1 DEF Accepts
      <4>5. [k \in Logs |-> State(k)]' = [[k \in Logs |-> State(k)] EXCEPT ![l] = verdict[w]]
        BY <2>1, <4>2, <4>3
      <4>6. Promise!Conclude(l)
        BY <2>1, <2>2, <3>4, <4>2, <4>4, <4>5 DEF Promise!Conclude, FinalStates
      <4>7. QED
        BY <2>1, <4>6 DEF Promise!Next
    <3>5. QED
      BY <2>1, <3>3, <3>4
  <2>6. QED
    BY <2>4, <2>5
<1>7. ASSUME NEW w \in Workers, Park(w) PROVE FALSE
  BY <1>7, <1>b DEF Park, HeldRow
<1>8. ASSUME NEW w \in Workers,
             \/ RequeueJob(w) \/ StartFails(w) \/ SaveFails(w) \/ Crash(w)
             \/ \E l \in Logs : Fetch(w, l)
      PROVE  UNCHANGED Promise!vars
  BY <1>8, <1>same DEF RequeueJob, StartFails, SaveFails, Crash, Fetch, history
<1>9. ASSUME NEW l \in Logs, SweepSave(l) PROVE UNCHANGED Promise!vars
  <2>1. CASE UNCHANGED row
    BY <1>9, <2>1, <1>same DEF SweepSave, history
  <2>2. CASE ~UNCHANGED row
    <3>1. /\ rescue[l].status \in {"in_progress", "retrying"}
          /\ row' = SaveExisting(row, l, Parked(rescue[l]))
      BY <1>a, <1>9, <2>2 DEF SweepSave, RescuedRow, OpenStates
    <3>2. row[l] \in {rescue[l], Absent}
      BY <1>a, <3>1 DEF RescuedRow
    <3>3. \A k \in Logs : row'[k].status = row[k].status
            \/ (row[k].status \in {"in_progress", "retrying"} /\ row'[k].status = "pending")
      BY <3>1, <3>2, ParkedFields DEF SaveExisting, Exists, Absent
    <3>4. QED
      BY <1>9, <3>3, ShowsNothing DEF SweepSave, history, Unconcluded, OpenStates
  <2>3. QED
    BY <2>1, <2>2
<1>10. CASE SweepCrash \/ \E l \in Logs : SweepRead(l)
  BY <1>10, <1>same DEF SweepCrash, SweepRead, history
<1>11. ASSUME NEW r \in Responses, EraseLogs(r) PROVE [Promise!Next]_(Promise!vars)
  BY <1>11, <1>same, ShowsDeletion DEF EraseLogs, history
<1>12. ASSUME NEW l \in Logs, Purge(l) PROVE Promise!Next
  BY <1>12, ShowsDeletion DEF Purge, history
<1>13. CASE DeleteFormLogs
  BY <1>13, ShowsDeletion DEF DeleteFormLogs, history
<1>14. CASE \/ \E h \in Hooks : EditHook(h) \/ DeleteHook(h)
            \/ \E r \in Responses : EraseResponse(r)
            \/ DeleteFormHooks \/ SwitchOff \/ SwitchOn
  BY <1>14, <1>same
     DEF EditHook, DeleteHook, EraseResponse, DeleteFormHooks, SwitchOff, SwitchOn, history
<1>15. CASE UNCHANGED vars
  BY <1>15, <1>same DEF vars, history
<1>16. QED
  BY <1>1, <1>2, <1>3, <1>4, <1>5, <1>6, <1>7, <1>8, <1>9, <1>10, <1>11, <1>12, <1>13, <1>14,
     <1>15 DEF Next, Job, Step, Sweeper, Sweep, Around

-----------------------------------------------------------------------------

\* The delivery log keeps its promise (docs/webhooks.md, "Retries" and "Log"): a
\* delivery is open until it is concluded once, stands until its row is deleted,
\* `delivered` is the destination's word, and nothing concluded is sent.
THEOREM PromiseIsKept ==
  ASSUME Races = {}
  PROVE  Spec => KeepsPromise
<1>1. Init => Promise!Init
  <2> SUFFICES ASSUME Init PROVE Promise!Init
    OBVIOUS
  <2>1. \A l \in Logs : State(l) = "none"
    BY Shown DEF Init
  <2>2. QED
    BY <2>1 DEF Init, Promise!Init
<1>2. Init => Accepts
  BY DEF Init, Accepts
<1>3. TypeOK /\ DeliveryInv /\ Accepts /\ [Next]_vars => Accepts'
  BY AcceptsStep DEF DeliveryInv
<1>4. TypeOK /\ DeliveryInv /\ Accepts /\ [Next]_vars => [Promise!Next]_(Promise!vars)
  BY PromiseStep DEF DeliveryInv
<1>5. QED
  BY DeliveryInvariant, <1>1, <1>2, <1>3, <1>4, PTL DEF Spec, KeepsPromise, Promise!Spec
=============================================================================
