----------------------- MODULE WebhookDelivery_proofs -----------------------
(***************************************************************************)
(* Proofs about WebhookDelivery, for any numbers of hooks, submissions,    *)
(* test events, workers and troubles, and any MaxAttempts.                 *)
(*                                                                         *)
(* With every race admitted: the types, PinnedDestination, ErasureWins and *)
(* NoResurrection, from the invariant CopiesAgree.  With none of them:     *)
(* SingleSender, AttemptsBounded and RepeatsAreLosses, from DeliveryInv.   *)
(* Every lemma named ...Step has one step per action of Next.              *)
(***************************************************************************)
EXTENDS WebhookDelivery, TLAPS

USE NoHostAssumption, DeliveryAssumption

-----------------------------------------------------------------------------
(* The statements on the table and on the queue.                           *)

\* A row that is there keeps being one under every change of its status.
LEMMA DocTypes ==
  ASSUME NEW d \in Rows, Exists(d)
  PROVE  /\ d \in Row
         /\ \A s \in LogStatus : [d EXCEPT !.status = s] \in Row
         /\ Parked(d) \in Row
         /\ ClaimedDoc(d) \in Row
<1>1. d \in Row
  BY DEF Rows, Absent, Exists
<1>2. \A s \in LogStatus : [d EXCEPT !.status = s] \in Row
  BY <1>1 DEF Row
<1>3. Parked(d) \in Row
  BY <1>2 DEF Parked, LogStatus, OpenStates
<1>4. ClaimedDoc(d) \in Row
  BY <1>1 DEF Row, ClaimedDoc, LogStatus
<1>5. QED
  BY <1>1, <1>2, <1>3, <1>4

\* Parking changes nothing but the status.
LEMMA ParkedFields ==
  ASSUME NEW d \in Rows
  PROVE  /\ Parked(d).status = "pending"
         /\ Parked(d).attempts = d.attempts
         /\ Parked(d).host = d.host
  BY DEF Parked

\* A row's attempts are counted, and only one that is not there is Absent.
LEMMA RowFields ==
  ASSUME NEW d \in Rows
  PROVE  d.attempts \in Nat /\ (Exists(d) <=> d # Absent)
  BY DEF Rows, Row, Absent, Exists, LogStatus, OpenStates, FinalStates

\* The five statements leave a table of rows.
LEMMA TableTypes ==
  ASSUME NEW S, NEW log \in [S -> Rows], NEW l \in S
  PROVE  /\ \A d \in Row : SaveExisting(log, l, d) \in [S -> Rows]
         /\ \A d \in Row : CreateIfAbsent(log, l, d) \in [S -> Rows]
         /\ Exists(log[l]) => Claim(log, l) \in [S -> Rows]
         /\ \A gone : DeleteRows(log, gone) \in [S -> Rows]
<1>1. Exists(log[l]) => ClaimedDoc(log[l]) \in Rows
  BY DocTypes DEF Rows
<1>2. QED
  BY <1>1 DEF SaveExisting, CreateIfAbsent, Claim, DeleteRows, Rows

\* A new row is one, for a host.
LEMMA NewRowType ==
  ASSUME NEW s \in LogStatus, NEW h \in Hosts
  PROVE  NewRow(s, h) \in Row
  BY DEF NewRow, Row

\* A waiting job's run number stays within the runs a job has.
LEMMA QueueTypes ==
  ASSUME NEW S, NEW q \in [S -> 0 .. MaxAttempts], NEW l \in S, NEW n \in 0 .. MaxAttempts
  PROVE  /\ Defer(q, l) \in [S -> 0 .. MaxAttempts]
         /\ Fetched(q, l) \in [S -> 0 .. MaxAttempts]
         /\ Requeue(q, l, n, MaxAttempts) \in [S -> 0 .. MaxAttempts]
<1>1. MaxAttempts \in Nat \ {0}
  OBVIOUS
<1>2. QED
  BY DEF Defer, Fetched, Requeue, MayRetry, NoJob

-----------------------------------------------------------------------------
(* The types.                                                              *)

\* What a worker has at each place of an attempt.
LEMMA WorkerFacts ==
  ASSUME TypeOK, CopiesAgree, NEW w \in Workers
  PROVE  /\ pc[w] # "idle" => job[w] \in Logs
         /\ pc[w] \in Holding \cup {"park"} => doc[w] \in Row /\ Exists(doc[w])
         /\ pc[w] = "save" => verdict[w] \in FinalStates \cup {"retrying"}
<1>1. doc[w] \in Rows /\ verdict[w] \in Verdicts
  BY DEF TypeOK
<1>2. QED
  BY <1>1, DocTypes DEF CopiesAgree, AttemptAgrees, Verdicts

\* Every step keeps every variable in its type.
LEMMA TypeStep ==
  ASSUME TypeOK, CopiesAgree, [Next]_vars
  PROVE  TypeOK'
<1> DEFINE Table == [Logs -> Rows]
<1>save. \A l \in Logs : \A d \in Row : SaveExisting(row, l, d) \in Table
  BY TableTypes DEF TypeOK
<1>create. \A l \in Logs : \A d \in Row : CreateIfAbsent(row, l, d) \in Table
  BY TableTypes DEF TypeOK
<1>claim. \A l \in Logs : Exists(row[l]) => Claim(row, l) \in Table
  BY TableTypes DEF TypeOK
<1>delete. \A gone : DeleteRows(row, gone) \in Table
  BY DEF TypeOK, DeleteRows, Rows
<1>queue. \A l \in Logs : /\ Defer(todo, l) \in [Logs -> 0 .. MaxAttempts]
                         /\ Fetched(todo, l) \in [Logs -> 0 .. MaxAttempts]
  BY QueueTypes, 0 \in 0 .. MaxAttempts DEF TypeOK
<1>requeue. \A w \in Workers : job[w] \in Logs =>
              Requeue(todo, job[w], run[w], MaxAttempts) \in [Logs -> 0 .. MaxAttempts]
  BY QueueTypes DEF TypeOK
<1>new. \A s \in LogStatus, h \in Hosts : NewRow(s, h) \in Row
  BY NewRowType
<1> USE DEF TypeOK, worker, history, Trouble, Goto
<1>1. ASSUME NEW r \in Responses, Submit(r) PROVE TypeOK'
  BY <1>1 DEF Submit, LogsOf, Logs, HookOf
<1>2. ASSUME NEW r \in Responses, HandOffCrash(r) PROVE TypeOK'
  BY <1>2 DEF HandOffCrash
<1>3. ASSUME NEW l \in Logs, HandOff(l) PROVE TypeOK'
  <2>1. /\ NewRow("cancelled", handoff[l]) \in Row
        /\ NewRow("pending", handoff[l]) \in Row
    BY <1>3, <1>new DEF HandOff, LogStatus, OpenStates, FinalStates
  <2>2. row' \in Table
    BY <1>3, <1>create, <2>1 DEF HandOff
  <2>3. todo' \in [Logs -> 0 .. MaxAttempts]
    BY <1>3, <1>queue DEF HandOff, Queue
  <2>4. trouble' \in 0 .. MaxTrouble
    BY <1>3 DEF HandOff, Queue
  <2>5. QED
    BY <1>3, <2>2, <2>3, <2>4 DEF HandOff
<1>4. ASSUME NEW l \in Logs, SendTest(l) PROVE TypeOK'
  <2>1. hook[HookOf(l)].host \in Hosts
    BY DEF HookOf, Logs
  <2>2. NewRow("pending", hook[HookOf(l)].host) \in Row
    BY <1>new, <2>1 DEF LogStatus, OpenStates
  <2>3. row' \in Table
    BY <1>4, <2>2 DEF SendTest, Rows
  <2>4. todo' \in [Logs -> 0 .. MaxAttempts] /\ trouble' \in 0 .. MaxTrouble
    BY <1>4, <1>queue DEF SendTest, Queue
  <2>5. QED
    BY <1>4, <2>1, <2>3, <2>4 DEF SendTest
<1>5. ASSUME NEW w \in Workers, NEW l \in Logs, Fetch(w, l) PROVE TypeOK'
  BY <1>5, <1>queue DEF Fetch, Pcs
<1>released. ASSUME NEW w \in Workers, Release(w)
             PROVE  /\ pc' \in [Workers -> Pcs] /\ job' \in [Workers -> Logs \cup {NoLog}]
                    /\ run' \in [Workers -> 0 .. MaxAttempts]
                    /\ doc' \in [Workers -> Rows]
                    /\ dest' \in [Workers -> Hosts \cup {NoHost}]
                    /\ verdict' \in [Workers -> Verdicts]
                    /\ late' \in [Workers -> BOOLEAN]
  BY <1>released DEF Release, Pcs, Rows, Verdicts
<1>concluded. ASSUME NEW w \in Workers, NEW v \in FinalStates \cup {"retrying"}, Conclude(w, v)
              PROVE  pc' \in [Workers -> Pcs] /\ verdict' \in [Workers -> Verdicts]
  BY <1>concluded DEF Conclude, Pcs, Verdicts
<1>transient. \A d : Transient(d) \in FinalStates \cup {"retrying"}
  BY DEF Transient, FinalStates
<1>final. {"delivered", "failed", "cancelled"} = FinalStates
  BY DEF FinalStates
<1>hosts. \A l \in Logs : hook[HookOf(l)].host \in Hosts
  BY DEF HookOf, Logs
<1>6. ASSUME NEW w \in Workers, StartOff(w) PROVE TypeOK'
  <2>1. job[w] \in Logs
    BY <1>6, WorkerFacts DEF StartOff
  <2>2. row[job[w]].status = "retrying" => Parked(row[job[w]]) \in Row
    BY <2>1, DocTypes DEF Exists
  <2>3. CASE Release(w) /\ UNCHANGED row
    BY <1>6, <2>3, <1>released DEF StartOff
  <2>4. CASE /\ row[job[w]].status = "retrying"
             /\ row' = SaveExisting(row, job[w], Parked(row[job[w]]))
             /\ Release(w)
    BY <1>6, <2>1, <2>2, <2>4, <1>released, <1>save DEF StartOff
  <2>5. CASE /\ Goto(w, "park")
             /\ doc' = [doc EXCEPT ![w] = row[job[w]]]
             /\ UNCHANGED <<row, job, run, dest, verdict, late>>
    BY <1>6, <2>1, <2>5 DEF StartOff, Pcs
  <2>6. QED
    BY <1>6, <2>3, <2>4, <2>5 DEF StartOff
<1>7. ASSUME NEW w \in Workers, Park(w) PROVE TypeOK'
  <2>1. job[w] \in Logs /\ Parked(doc[w]) \in Row
    BY <1>7, WorkerFacts, DocTypes DEF Park
  <2>2. QED
    BY <1>7, <2>1, <1>save, <1>released DEF Park
<1>8. ASSUME NEW w \in Workers, Start(w) PROVE TypeOK'
  <2>1. job[w] \in Logs
    BY <1>8, WorkerFacts DEF Start
  <2>2. CASE Claimable(row, job[w], OpenStates)
    <3>1. Exists(row[job[w]])
      BY <2>2 DEF Claimable, OpenStates, Exists
    <3>2. ClaimedDoc(row[job[w]]) \in Rows /\ row' \in Table
      BY <1>8, <2>1, <2>2, <3>1, <1>claim, DocTypes DEF Start, Rows
    <3>3. Gone(job[w]) \in BOOLEAN
      BY DEF Gone, IsTest
    <3>4. QED
      BY <1>8, <2>2, <3>2, <3>3 DEF Start, Pcs
  <2>3. CASE ~Claimable(row, job[w], OpenStates)
    BY <1>8, <2>3, <1>released DEF Start
  <2>4. QED
    BY <2>2, <2>3
<1>9. ASSUME NEW w \in Workers, StartFails(w) PROVE TypeOK'
  BY <1>9 DEF StartFails, Pcs
<1>10. ASSUME NEW w \in Workers, Attempt(w) PROVE TypeOK'
  <2>1. CASE /\ \E v \in FinalStates \cup {"retrying"} : Conclude(w, v)
             /\ UNCHANGED <<row, job, run, doc, dest, late>>
    BY <1>10, <2>1, <1>concluded DEF Attempt
  <2>2. CASE row' = DeleteRows(row, LogsOf(SubjectOf(job[w]))) /\ Release(w)
    BY <1>10, <2>2, <1>delete, <1>released DEF Attempt
  <2>3. CASE /\ Goto(w, "check")
             /\ dest' = [dest EXCEPT ![w] = hook[HookOf(job[w])].host]
             /\ UNCHANGED <<row, job, run, doc, verdict, late>>
    BY <1>10, <2>3, <1>hosts, WorkerFacts DEF Attempt, Pcs
  <2>4. QED
    BY <1>10, <2>1, <2>2, <2>3, <1>transient, <1>final DEF Attempt
<1>11. ASSUME NEW w \in Workers, Check(w) PROVE TypeOK'
  <2>1. CASE Release(w) /\ UNCHANGED row
    BY <1>11, <2>1, <1>released DEF Check
  <2>2. CASE row' = DeleteRows(row, LogsOf(SubjectOf(job[w]))) /\ Release(w)
    BY <1>11, <2>2, <1>delete, <1>released DEF Check
  <2>3. CASE /\ \E v \in FinalStates \cup {"retrying"} : Conclude(w, v)
             /\ UNCHANGED <<row, job, run, doc, dest, late>>
    BY <1>11, <2>3, <1>concluded DEF Check
  <2>4. CASE Goto(w, "post") /\ UNCHANGED <<row, job, run, doc, dest, verdict, late>>
    BY <1>11, <2>4 DEF Check, Pcs
  <2>5. QED
    BY <1>11, <2>1, <2>2, <2>3, <2>4, <1>transient, <1>final DEF Check
<1>12. ASSUME NEW w \in Workers, Post(w) PROVE TypeOK'
  <2>1. job[w] \in Logs
    BY <1>12, WorkerFacts DEF Post
  <2>2. \E v \in FinalStates \cup {"retrying"} : Conclude(w, v)
    BY <1>12, <1>transient, <1>final DEF Post
  <2>3. sent' \in [Logs -> Nat] /\ accepted' \in [Logs -> Nat]
    BY <1>12, <2>1 DEF Post
  <2>4. QED
    BY <1>12, <2>2, <2>3, <1>concluded DEF Post
<1>13. ASSUME NEW w \in Workers, Save(w) PROVE TypeOK'
  <2>1. /\ job[w] \in Logs
        /\ verdict[w] \in LogStatus
        /\ doc[w] \in Rows /\ Exists(doc[w])
    BY <1>13, WorkerFacts DEF Save, LogStatus, OpenStates, FinalStates, Holding, Rows
  <2>2. [doc[w] EXCEPT !.status = verdict[w]] \in Row
    BY <2>1, DocTypes
  <2>3. row' \in Table
    BY <1>13, <2>1, <2>2, <1>save DEF Save
  <2>4. CASE verdict[w] = "retrying"
    BY <1>13, <2>3, <2>4 DEF Save, Pcs
  <2>5. CASE verdict[w] # "retrying"
    BY <1>13, <2>3, <2>5, <1>released DEF Save
  <2>6. QED
    BY <2>4, <2>5
<1>14. ASSUME NEW w \in Workers, SaveFails(w) PROVE TypeOK'
  <2>1. job[w] \in Logs /\ Transient(doc[w]) \in Verdicts
    BY <1>14, <1>transient, WorkerFacts DEF SaveFails, Verdicts
  <2>2. pc' \in [Workers -> Pcs] /\ verdict' \in [Workers -> Verdicts]
    BY <1>14, <2>1 DEF SaveFails, Pcs
  <2>3. lost' \in [Logs -> Nat] /\ trouble' \in 0 .. MaxTrouble
    BY <1>14, <2>1 DEF SaveFails
  <2>4. QED
    BY <1>14, <2>2, <2>3 DEF SaveFails
<1>15. ASSUME NEW w \in Workers, RequeueJob(w) PROVE TypeOK'
  BY <1>15, <1>requeue, <1>released, WorkerFacts DEF RequeueJob
<1>16. ASSUME NEW w \in Workers, Crash(w) PROVE TypeOK'
  <2>1. lost' \in [Logs -> Nat] /\ trouble' \in 0 .. MaxTrouble
    BY <1>16, WorkerFacts DEF Crash
  <2>2. QED
    BY <1>16, <2>1, <1>released DEF Crash
<1>17. ASSUME NEW l \in Logs, SweepRead(l) PROVE TypeOK'
  BY <1>17 DEF SweepRead
<1>18. ASSUME NEW l \in Logs, SweepSave(l) PROVE TypeOK'
  <2>1. Parked(rescue[l]) \in Row
    BY <1>18, DocTypes DEF SweepSave
  <2>2. row' \in Table /\ rescue' \in Table
    BY <1>18, <2>1, <1>save DEF SweepSave, Rows
  <2>3. todo' \in [Logs -> 0 .. MaxAttempts] /\ trouble' \in 0 .. MaxTrouble
    BY <1>18, <1>queue DEF SweepSave, Queue
  <2>4. QED
    BY <1>18, <2>2, <2>3 DEF SweepSave
<1>19. CASE SweepCrash
  BY <1>19 DEF SweepCrash, Rows
<1>20. ASSUME NEW h \in Hooks, EditHook(h) PROVE TypeOK'
  BY <1>20 DEF EditHook
<1>21. ASSUME NEW h \in Hooks, DeleteHook(h) PROVE TypeOK'
  <2>1. hook' \in [Hooks -> [state : {"absent", "off", "on"}, host : Hosts]]
    BY <1>21 DEF DeleteHook
  <2>2. QED
    BY <1>21, <2>1 DEF DeleteHook
<1>22. ASSUME NEW r \in Responses, EraseResponse(r) PROVE TypeOK'
  BY <1>22 DEF EraseResponse
<1>23. ASSUME NEW r \in Responses, EraseLogs(r) PROVE TypeOK'
  BY <1>23, <1>delete DEF EraseLogs
<1>24. ASSUME NEW l \in Logs, Purge(l) PROVE TypeOK'
  BY <1>24, <1>delete DEF Purge
<1>25. CASE DeleteFormHooks
  <2>1. hook' \in [Hooks -> [state : {"absent", "off", "on"}, host : Hosts]]
    BY <1>25 DEF DeleteFormHooks
  <2>2. QED
    BY <1>25, <2>1 DEF DeleteFormHooks
<1>26. CASE DeleteFormLogs
  BY <1>26, <1>delete DEF DeleteFormLogs
<1>27. CASE SwitchOff
  <2>1. trouble' \in 0 .. MaxTrouble
    BY <1>27 DEF SwitchOff
  <2>2. QED
    BY <1>27, <2>1, Zenon DEF SwitchOff
<1>28. CASE SwitchOn
  BY <1>28 DEF SwitchOn
<1>29. CASE UNCHANGED vars
  BY <1>29 DEF vars
<1>30. QED
  BY <1>1, <1>2, <1>3, <1>4, <1>5, <1>6, <1>7, <1>8, <1>9, <1>10, <1>11, <1>12,
     <1>13, <1>14, <1>15, <1>16, <1>17, <1>18, <1>19, <1>20, <1>21, <1>22, <1>23,
     <1>24, <1>25, <1>26, <1>27, <1>28, <1>29
     DEF Next, Submission, Job, Step, Sweeper, Sweep, Around

-----------------------------------------------------------------------------
(* The copies of a row.                                                    *)

\* Every step keeps the host a delivery was created for in every copy of its row.
LEMMA CopiesStep ==
  ASSUME TypeOK, TypeOK', CopiesAgree, [Next]_vars
  PROVE  CopiesAgree'
<1>a. \A l \in Logs : TraceAgrees(l)
  BY DEF CopiesAgree
<1>b. \A w \in Workers : AttemptAgrees(w)
  BY DEF CopiesAgree
<1> USE DEF TypeOK, worker, history, Goto, TraceAgrees, AttemptAgrees, Fresh, Holding
<1>1. ASSUME NEW r \in Responses, Submit(r) PROVE CopiesAgree'
  <2>1. ASSUME NEW k \in Logs PROVE TraceAgrees(k)'
    BY <1>a, <1>b, <1>1 DEF Submit, LogsOf, IsTest
  <2>2. ASSUME NEW v \in Workers PROVE AttemptAgrees(v)'
    BY <1>a, <1>b, <1>1 DEF Submit, LogsOf, IsTest, Gone
  <2>3. QED
    BY <2>1, <2>2 DEF CopiesAgree
<1>2. ASSUME NEW r \in Responses, HandOffCrash(r) PROVE CopiesAgree'
  <2>1. ASSUME NEW k \in Logs PROVE TraceAgrees(k)'
    BY <1>a, <1>b, <1>2 DEF HandOffCrash
  <2>2. ASSUME NEW v \in Workers PROVE AttemptAgrees(v)'
    BY <1>b, <1>2 DEF HandOffCrash, LogsOf, Gone
  <2>3. QED
    BY <2>1, <2>2 DEF CopiesAgree
<1>3. ASSUME NEW l \in Logs, HandOff(l) PROVE CopiesAgree'
  <2>1. ASSUME NEW k \in Logs PROVE TraceAgrees(k)'
    BY <1>a, <1>b, <1>3 DEF HandOff, CreateIfAbsent, NewRow, Exists, Queue, Defer
  <2>2. ASSUME NEW v \in Workers PROVE AttemptAgrees(v)'
    BY <1>a, <1>b, <1>3 DEF HandOff, CreateIfAbsent, NewRow, NoJob, Gone
  <2>3. QED
    BY <2>1, <2>2 DEF CopiesAgree
<1>4. ASSUME NEW l \in Logs, SendTest(l) PROVE CopiesAgree'
  <2>1. ASSUME NEW k \in Logs PROVE TraceAgrees(k)'
    <3>1. hook[HookOf(l)].host \in Hosts
      BY DEF HookOf, Logs
    <3>2. handoff[l] = NoHost
      BY <1>a, <1>4 DEF SendTest
    <3>3. CASE k = l
      BY <1>a, <1>4, <3>1, <3>2, <3>3 DEF SendTest, NewRow, Exists
    <3>4. CASE k # l
      BY <1>a, <1>4, <3>4 DEF SendTest, Exists, Queue, Defer
    <3>5. QED
      BY <3>3, <3>4
  <2>2. ASSUME NEW v \in Workers PROVE AttemptAgrees(v)'
    BY <1>a, <1>b, <1>4 DEF SendTest, NewRow, Exists, Gone
  <2>3. QED
    BY <2>1, <2>2 DEF CopiesAgree
<1>5. ASSUME NEW w \in Workers, NEW l \in Logs, Fetch(w, l) PROVE CopiesAgree'
  <2>1. ASSUME NEW k \in Logs PROVE TraceAgrees(k)'
    BY <1>a, <1>b, <1>5 DEF Fetch, Waiting, Fetched
  <2>2. ASSUME NEW v \in Workers PROVE AttemptAgrees(v)'
    BY <1>b, <1>5 DEF Fetch, Waiting, Fetched, NoJob, Gone
  <2>3. QED
    BY <2>1, <2>2 DEF CopiesAgree
<1>6. ASSUME NEW w \in Workers, StartOff(w) PROVE CopiesAgree'
  <2>1. ASSUME NEW k \in Logs PROVE TraceAgrees(k)'
    <3>1. job[w] \in Logs
      BY <1>b, <1>6 DEF StartOff
    <3>2. Exists(row'[k]) => Exists(row[k]) /\ row'[k].host = row[k].host
      BY <1>6, <3>1, ParkedFields DEF StartOff, SaveExisting, Exists
    <3>3. \A v \in Workers : job'[v] \in {job[v], NoLog}
      BY <1>6 DEF StartOff, Release
    <3>4. NoLog # k
      OBVIOUS
    <3>5. UNCHANGED <<shown, rescue, todo, handoff, resp>>
      BY <1>6 DEF StartOff
    <3>6. QED
      BY <1>a, <3>2, <3>3, <3>4, <3>5 DEF IsTest
  <2>2. ASSUME NEW v \in Workers PROVE AttemptAgrees(v)'
    BY <1>a, <1>b, <1>6 DEF StartOff, SaveExisting, Parked, Exists, Release, Conclude, Gone
  <2>3. QED
    BY <2>1, <2>2 DEF CopiesAgree
<1>7. ASSUME NEW w \in Workers, Park(w) PROVE CopiesAgree'
  <2>1. ASSUME NEW k \in Logs PROVE TraceAgrees(k)'
    BY <1>a, <1>b, <1>7 DEF Park, SaveExisting, Parked, Exists, Release, Conclude
  <2>2. ASSUME NEW v \in Workers PROVE AttemptAgrees(v)'
    BY <1>a, <1>b, <1>7 DEF Park, SaveExisting, Parked, Exists, Release, Conclude, Gone
  <2>3. QED
    BY <2>1, <2>2 DEF CopiesAgree
<1>8. ASSUME NEW w \in Workers, Start(w) PROVE CopiesAgree'
  <2>1. ASSUME NEW k \in Logs PROVE TraceAgrees(k)'
    BY <1>a, <1>b, <1>8 DEF Start, Exists, Release, Claimable, Claim, ClaimedDoc, OpenStates
  <2>2. ASSUME NEW v \in Workers PROVE AttemptAgrees(v)'
    BY <1>a, <1>b, <1>8 DEF Start, Exists, Release, Claimable, ClaimedDoc, OpenStates, Gone
  <2>3. QED
    BY <2>1, <2>2 DEF CopiesAgree
<1>9. ASSUME NEW w \in Workers, StartFails(w) PROVE CopiesAgree'
  <2>1. ASSUME NEW k \in Logs PROVE TraceAgrees(k)'
    BY <1>a, <1>b, <1>9 DEF StartFails, SaveExisting, Parked
  <2>2. ASSUME NEW v \in Workers PROVE AttemptAgrees(v)'
    BY <1>a, <1>b, <1>9 DEF StartFails, SaveExisting, Parked, Gone
  <2>3. QED
    BY <2>1, <2>2 DEF CopiesAgree
<1>10. ASSUME NEW w \in Workers, Attempt(w) PROVE CopiesAgree'
  <2>1. ASSUME NEW k \in Logs PROVE TraceAgrees(k)'
    BY <1>a, <1>b, <1>10 DEF Attempt, Exists, Release, DeleteRows, Absent
  <2>2. ASSUME NEW v \in Workers PROVE AttemptAgrees(v)'
    BY <1>a, <1>b, <1>10 DEF Attempt, Release, Conclude, Transient, Wanted, Gone
  <2>3. QED
    BY <2>1, <2>2 DEF CopiesAgree
<1>11. ASSUME NEW w \in Workers, Check(w) PROVE CopiesAgree'
  <2>1. ASSUME NEW k \in Logs PROVE TraceAgrees(k)'
    BY <1>a, <1>b, <1>11 DEF Check, Exists, Release, DeleteRows, Absent
  <2>2. ASSUME NEW v \in Workers PROVE AttemptAgrees(v)'
    BY <1>a, <1>b, <1>11 DEF Check, Release, Conclude, DeleteRows, Transient, Gone
  <2>3. QED
    BY <2>1, <2>2 DEF CopiesAgree
<1>12. ASSUME NEW w \in Workers, Post(w) PROVE CopiesAgree'
  <2>1. ASSUME NEW k \in Logs PROVE TraceAgrees(k)'
    BY <1>a, <1>b, <1>12 DEF Post, SaveExisting, Parked
  <2>2. ASSUME NEW v \in Workers PROVE AttemptAgrees(v)'
    BY <1>a, <1>b, <1>12 DEF Post, SaveExisting, Parked, Exists, Release, Conclude, Transient, Gone
  <2>3. QED
    BY <2>1, <2>2 DEF CopiesAgree
<1>13. ASSUME NEW w \in Workers, Save(w) PROVE CopiesAgree'
  <2>1. ASSUME NEW k \in Logs PROVE TraceAgrees(k)'
    BY <1>a, <1>b, <1>13 DEF Save, SaveExisting, Parked, Exists, Release, Conclude
  <2>2. ASSUME NEW v \in Workers PROVE AttemptAgrees(v)'
    BY <1>a, <1>b, <1>13 DEF Save, SaveExisting, Parked, Exists, Release, Conclude, Gone
  <2>3. QED
    BY <2>1, <2>2 DEF CopiesAgree
<1>14. ASSUME NEW w \in Workers, SaveFails(w) PROVE CopiesAgree'
  <2>1. ASSUME NEW k \in Logs PROVE TraceAgrees(k)'
    BY <1>a, <1>b, <1>14 DEF SaveFails, SaveExisting, Parked
  <2>2. ASSUME NEW v \in Workers PROVE AttemptAgrees(v)'
    BY <1>a, <1>b, <1>14 DEF SaveFails, SaveExisting, Parked, Transient, Gone
  <2>3. QED
    BY <2>1, <2>2 DEF CopiesAgree
<1>15. ASSUME NEW w \in Workers, RequeueJob(w) PROVE CopiesAgree'
  <2>1. ASSUME NEW k \in Logs PROVE TraceAgrees(k)'
    BY <1>a, <1>b, <1>15 DEF RequeueJob, SaveExisting, Parked, Exists, Release, Conclude, Requeue, NoJob
  <2>2. ASSUME NEW v \in Workers PROVE AttemptAgrees(v)'
    BY <1>a, <1>b, <1>15 DEF RequeueJob, Release, Gone
  <2>3. QED
    BY <2>1, <2>2 DEF CopiesAgree
<1>16. ASSUME NEW w \in Workers, Crash(w) PROVE CopiesAgree'
  <2>1. ASSUME NEW k \in Logs PROVE TraceAgrees(k)'
    BY <1>a, <1>b, <1>16 DEF Crash, SaveExisting, Parked, Exists, Release, Conclude
  <2>2. ASSUME NEW v \in Workers PROVE AttemptAgrees(v)'
    BY <1>a, <1>b, <1>16 DEF Crash, SaveExisting, Parked, Exists, Release, Conclude, Gone
  <2>3. QED
    BY <2>1, <2>2 DEF CopiesAgree
<1>17. ASSUME NEW l \in Logs, SweepRead(l) PROVE CopiesAgree'
  <2>1. ASSUME NEW k \in Logs PROVE TraceAgrees(k)'
    <3>1. Exists(row[l])
      BY <1>17 DEF SweepRead, Stuck, Exists
    <3>2. QED
      BY <1>a, <1>17, <3>1 DEF SweepRead
  <2>2. ASSUME NEW v \in Workers PROVE AttemptAgrees(v)'
    BY <1>b, <1>17 DEF SweepRead, Exists, Stuck, OpenStates, Gone
  <2>3. QED
    BY <2>1, <2>2 DEF CopiesAgree
<1>18. ASSUME NEW l \in Logs, SweepSave(l) PROVE CopiesAgree'
  <2>1. ASSUME NEW k \in Logs PROVE TraceAgrees(k)'
    <3>1. Exists(row'[k]) => Exists(row[k]) /\ row'[k].host \in {row[k].host, rescue[k].host}
      <4>1. Parked(rescue[l]).host = rescue[l].host
        BY ParkedFields
      <4>2. row' = row \/ row' = SaveExisting(row, l, Parked(rescue[l]))
        BY <1>18 DEF SweepSave
      <4>3. row'[k] = row[k] \/ (k = l /\ Exists(row[l]) /\ row'[k] = Parked(rescue[l]))
        BY <4>2 DEF SaveExisting
      <4>4. QED
        BY <4>1, <4>3
    <3>2. row'[k] = row[k] \/ k = l
      BY <1>18 DEF SweepSave, SaveExisting
    <3>3. Exists(rescue'[k]) => rescue'[k] = rescue[k]
      BY <1>18 DEF SweepSave, Exists, Absent
    <3>4. k # l => todo'[k] = todo[k]
      BY <1>18 DEF SweepSave, Queue, Defer
    <3>5. shown[l] # NoHost
      BY <1>a, <1>18 DEF SweepSave
    <3>6. QED
      BY <1>a, <1>18, <3>1, <3>2, <3>3, <3>4, <3>5 DEF SweepSave
  <2>2. ASSUME NEW v \in Workers PROVE AttemptAgrees(v)'
    BY <1>a, <1>b, <1>18 DEF SweepSave, Exists, SaveExisting, Absent, NoJob, Gone
  <2>3. QED
    BY <2>1, <2>2 DEF CopiesAgree
<1>19. CASE SweepCrash
  <2>1. ASSUME NEW k \in Logs PROVE TraceAgrees(k)'
    BY <1>a, <1>19 DEF SweepCrash, Exists, Absent
  <2>2. ASSUME NEW v \in Workers PROVE AttemptAgrees(v)'
    BY <1>b, <1>19 DEF SweepCrash, Exists, Absent, Gone
  <2>3. QED
    BY <2>1, <2>2 DEF CopiesAgree
<1>20. ASSUME NEW h \in Hooks, EditHook(h) PROVE CopiesAgree'
  <2>1. ASSUME NEW k \in Logs PROVE TraceAgrees(k)'
    BY <1>a, <1>20 DEF EditHook
  <2>2. ASSUME NEW v \in Workers PROVE AttemptAgrees(v)'
    BY <1>b, <1>20 DEF EditHook, Gone
  <2>3. QED
    BY <2>1, <2>2 DEF CopiesAgree
<1>21. ASSUME NEW h \in Hooks, DeleteHook(h) PROVE CopiesAgree'
  <2>1. ASSUME NEW k \in Logs PROVE TraceAgrees(k)'
    BY <1>a, <1>21 DEF DeleteHook
  <2>2. ASSUME NEW v \in Workers PROVE AttemptAgrees(v)'
    BY <1>b, <1>21 DEF DeleteHook, Gone
  <2>3. QED
    BY <2>1, <2>2 DEF CopiesAgree
<1>22. ASSUME NEW r \in Responses, EraseResponse(r) PROVE CopiesAgree'
  <2>1. ASSUME NEW k \in Logs PROVE TraceAgrees(k)'
    BY <1>a, <1>b, <1>22 DEF EraseResponse
  <2>2. ASSUME NEW v \in Workers PROVE AttemptAgrees(v)'
    <3>1. pc[v] \in {"attempt", "check"} /\ late'[v] =>
            late[v] \/ job[v] \in LogsOf(r)
      BY <1>22 DEF EraseResponse
    <3>2. pc[v] = "post" => (late'[v] <=> late[v])
      BY <1>22 DEF EraseResponse
    <3>3. job[v] \in LogsOf(r) => Gone(job[v])'
      BY <1>22 DEF EraseResponse, LogsOf, Gone, IsTest
    <3>4. pc[v] # "idle" /\ Gone(job[v]) => Gone(job[v])'
      BY <1>22 DEF EraseResponse, Gone
    <3>5. UNCHANGED <<pc, job, doc, dest, verdict, shown>>
      BY <1>22 DEF EraseResponse
    <3>6. QED
      BY <1>b, <3>1, <3>2, <3>3, <3>4, <3>5
  <2>3. QED
    BY <2>1, <2>2 DEF CopiesAgree
<1>23. ASSUME NEW r \in Responses, EraseLogs(r) PROVE CopiesAgree'
  <2>1. ASSUME NEW k \in Logs PROVE TraceAgrees(k)'
    BY <1>a, <1>b, <1>23 DEF EraseLogs, DeleteRows, Exists, Absent
  <2>2. ASSUME NEW v \in Workers PROVE AttemptAgrees(v)'
    BY <1>b, <1>23 DEF EraseLogs, DeleteRows, Exists, Absent, Gone
  <2>3. QED
    BY <2>1, <2>2 DEF CopiesAgree
<1>24. ASSUME NEW l \in Logs, Purge(l) PROVE CopiesAgree'
  <2>1. ASSUME NEW k \in Logs PROVE TraceAgrees(k)'
    BY <1>a, <1>b, <1>24 DEF Purge, DeleteRows, Exists, Absent
  <2>2. ASSUME NEW v \in Workers PROVE AttemptAgrees(v)'
    BY <1>b, <1>24 DEF Purge, DeleteRows, Exists, Absent, Gone
  <2>3. QED
    BY <2>1, <2>2 DEF CopiesAgree
<1>25. CASE DeleteFormHooks
  <2>1. ASSUME NEW k \in Logs PROVE TraceAgrees(k)'
    BY <1>a, <1>25 DEF DeleteFormHooks
  <2>2. ASSUME NEW v \in Workers PROVE AttemptAgrees(v)'
    BY <1>b, <1>25 DEF DeleteFormHooks, Gone
  <2>3. QED
    BY <2>1, <2>2 DEF CopiesAgree
<1>26. CASE DeleteFormLogs
  <2>1. ASSUME NEW k \in Logs PROVE TraceAgrees(k)'
    BY <1>a, <1>b, <1>26 DEF DeleteFormLogs, DeleteRows, Exists, Absent
  <2>2. ASSUME NEW v \in Workers PROVE AttemptAgrees(v)'
    BY <1>b, <1>26 DEF DeleteFormLogs, DeleteRows, Exists, Absent, Gone
  <2>3. QED
    BY <2>1, <2>2 DEF CopiesAgree
<1>27. CASE SwitchOff
  <2>1. ASSUME NEW k \in Logs PROVE TraceAgrees(k)'
    BY <1>a, <1>27 DEF SwitchOff
  <2>2. ASSUME NEW v \in Workers PROVE AttemptAgrees(v)'
    BY <1>b, <1>27 DEF SwitchOff, Gone
  <2>3. QED
    BY <2>1, <2>2 DEF CopiesAgree
<1>28. CASE SwitchOn
  <2>1. ASSUME NEW k \in Logs PROVE TraceAgrees(k)'
    BY <1>a, <1>28 DEF SwitchOn
  <2>2. ASSUME NEW v \in Workers PROVE AttemptAgrees(v)'
    BY <1>b, <1>28 DEF SwitchOn, Gone
  <2>3. QED
    BY <2>1, <2>2 DEF CopiesAgree
<1>29. CASE UNCHANGED vars
  BY <1>29 DEF vars, CopiesAgree, Gone
<1>30. QED
  BY <1>1, <1>2, <1>3, <1>4, <1>5, <1>6, <1>7, <1>8, <1>9, <1>10, <1>11, <1>12, <1>13, <1>14, <1>15, <1>16, <1>17, <1>18, <1>19, <1>20, <1>21, <1>22, <1>23, <1>24, <1>25, <1>26, <1>27, <1>28, <1>29
     DEF Next, Submission, Job, Step, Sweeper, Sweep, Around

\* Nothing was recorded, queued or taken yet.
LEMMA InitialState == Init => TypeOK /\ CopiesAgree
<1> SUFFICES ASSUME Init PROVE TypeOK /\ CopiesAgree
  OBVIOUS
<1>1. TypeOK
  BY DEF Init, TypeOK, Rows, Absent, NoJob, Pcs, Verdicts
<1>2. CopiesAgree
  BY DEF Init, CopiesAgree, TraceAgrees, AttemptAgrees, Fresh, Exists, Absent, Holding
<1>3. QED
  BY <1>1, <1>2

\* Types and copies together are inductive, whatever races the instance admits.
LEMMA CopiesInvariant == Spec => [](TypeOK /\ CopiesAgree)
<1>1. TypeOK /\ CopiesAgree /\ [Next]_vars => (TypeOK /\ CopiesAgree)'
  BY TypeStep, CopiesStep
<1>2. QED
  BY InitialState, <1>1, PTL DEF Spec

\* Every copy of a row (the table's, a worker's, the sweep's) is bound to the host
\* its delivery was created for, whatever is edited, erased or late.
THEOREM CopiesStayBound == Spec => []CopiesAgree
  BY CopiesInvariant, PTL

\* Every variable keeps its type.
THEOREM TypeCorrect == Spec => []TypeOK
  BY CopiesInvariant, PTL

\* A POST goes to the host the delivery was created for, or is not made: also when
\* the hook is edited during the attempt, or the row is rescued or parked late.
THEOREM DestinationIsPinned == Spec => []PinnedDestination
<1>1. CopiesAgree => PinnedDestination
  BY DEF CopiesAgree, AttemptAgrees, PinnedDestination
<1>2. QED
  BY CopiesInvariant, <1>1, PTL

\* An attempt whose submission is erased before its last look makes no POST.
THEOREM ErasureIsHonoured == Spec => []ErasureWins
<1>1. CopiesAgree => ErasureWins
  BY DEF CopiesAgree, AttemptAgrees, ErasureWins
<1>2. QED
  BY CopiesInvariant, <1>1, PTL

\* No step brings back the row of a delivery that was shown and deleted.
LEMMA DeletedStep ==
  ASSUME TypeOK, CopiesAgree, [Next]_vars, NEW k \in Logs
  PROVE  shown[k] # NoHost /\ ~Exists(row[k]) => ~Exists(row'[k])
<1> DEFINE Stays(l) == shown[l] # NoHost /\ ~Exists(row[l]) => ~Exists(row'[l])
<1> USE DEF TypeOK, Exists
<1>1. ASSUME NEW l \in Logs, HandOff(l) PROVE Stays(k)
  <2>1. shown[l] = NoHost
    BY <1>1 DEF HandOff, CopiesAgree, TraceAgrees
  <2>2. QED
    BY <1>1, <2>1 DEF HandOff, CreateIfAbsent
<1>2. ASSUME NEW l \in Logs, SendTest(l) PROVE Stays(k)
  BY <1>2 DEF SendTest
<1>3. ASSUME NEW l \in Logs, NEW d, row' = SaveExisting(row, l, d) PROVE Stays(k)
  BY <1>3 DEF SaveExisting
<1>4. ASSUME NEW gone, row' = DeleteRows(row, gone) PROVE Stays(k)
  BY <1>4 DEF DeleteRows, Absent
<1>5. ASSUME NEW w \in Workers, Step(w) PROVE Stays(k)
  <2>1. pc[w] # "idle" => job[w] \in Logs
    BY WorkerFacts
  <2>2. CASE Start(w)
    BY <2>2 DEF Start, Claim, Claimable, OpenStates
  <2>3. CASE ~Start(w)
    BY <1>3, <1>4, <1>5, <2>1, <2>3
       DEF Step, StartOff, Park, Attempt, Check, Post, Save, RequeueJob
  <2>4. QED
    BY <2>2, <2>3
<1>6. ASSUME NEW l \in Logs, SweepSave(l) PROVE Stays(k)
  BY <1>3, <1>6 DEF SweepSave
<1>7. ASSUME NEW r \in Responses, EraseLogs(r) PROVE Stays(k)
  BY <1>4, <1>7 DEF EraseLogs
<1>8. ASSUME NEW l \in Logs, Purge(l) PROVE Stays(k)
  BY <1>4, <1>8 DEF Purge
<1>9. CASE DeleteFormLogs
  BY <1>4, <1>9 DEF DeleteFormLogs
<1>10. CASE UNCHANGED row
  BY <1>10
<1>11. QED
  BY <1>1, <1>2, <1>5, <1>6, <1>7, <1>8, <1>9, <1>10
     DEF Next, Submission, Job, Sweeper, Sweep, Around, vars, Submit, HandOffCrash, Fetch,
         StartFails, SaveFails, Crash, SweepRead, SweepCrash, EditHook, DeleteHook,
         EraseResponse, DeleteFormHooks, SwitchOff, SwitchOn

\* Rows deleted by an erasure, a form's deletion or the purge stay deleted, under
\* the saves of running attempts, rescues and parked retries (save_existing).
THEOREM DeletedRowsStayDeleted == Spec => NoResurrection
<1>1. TypeOK /\ CopiesAgree /\ [Next]_vars
        => [\A l \in Logs : shown[l] # NoHost /\ ~Exists(row[l]) => ~Exists(row'[l])]_vars
  BY DeletedStep
<1>2. QED
  BY CopiesInvariant, <1>1, PTL DEF Spec, NoResurrection

-----------------------------------------------------------------------------
(* One worker to a row.                                                    *)

\* Without the races, every step leaves a claimed or rescued row to who has it.
LEMMA RowsStep ==
  ASSUME Races = {}, TypeOK, TypeOK', CopiesAgree, CopiesAgree', RowsAreHeld, [Next]_vars
  PROVE  RowsAreHeld'
<1>a. \A l \in Logs : TraceAgrees(l) /\ TraceAgrees(l)'
  BY DEF CopiesAgree
<1>b. \A w \in Workers : AttemptAgrees(w) /\ AttemptAgrees(w)'
  BY DEF CopiesAgree
<1>c. \A l \in Logs : RescuedRow(l)
  BY DEF RowsAreHeld
<1>d. \A w \in Workers : HeldRow(w)
  BY DEF RowsAreHeld
<1> USE DEF TypeOK, worker, history, Goto, HeldRow, RescuedRow, Held, Holds, Holding
<1>same. ASSUME UNCHANGED <<row, todo, pc, job, doc, rescue>> PROVE RowsAreHeld'
  BY <1>same DEF RowsAreHeld, Waiting
<1>1. ASSUME NEW r \in Responses, Submit(r) PROVE RowsAreHeld'
  BY <1>1, <1>same DEF Submit
<1>2. ASSUME NEW r \in Responses, HandOffCrash(r) PROVE RowsAreHeld'
  BY <1>2, <1>same DEF HandOffCrash
<1>3. ASSUME NEW l \in Logs, HandOff(l) PROVE RowsAreHeld'
  <2>1. ASSUME NEW v \in Workers PROVE HeldRow(v)'
    <3>1. \A u \in Workers : job[u] # l
      BY <1>a, <1>3 DEF HandOff, TraceAgrees, Fresh
    <3>2. \A k \in Logs : k # l => row'[k] = row[k]
      BY <1>3 DEF HandOff, CreateIfAbsent
    <3>3. QED
      BY <1>b, <1>d, <1>3, <3>1, <3>2 DEF HandOff, AttemptAgrees
  <2>2. ASSUME NEW k \in Logs PROVE RescuedRow(k)'
    BY <1>a, <1>b, <1>c, <1>d, <1>3
       DEF HandOff, CreateIfAbsent, Exists, Queue, Defer, TraceAgrees, Waiting
  <2>3. QED
    BY <2>1, <2>2 DEF RowsAreHeld
<1>4. ASSUME NEW l \in Logs, SendTest(l) PROVE RowsAreHeld'
  <2>1. ASSUME NEW v \in Workers PROVE HeldRow(v)'
    BY <1>a, <1>b, <1>c, <1>d, <1>4 DEF SendTest, Defer, NoJob, TraceAgrees, Fresh, Waiting
  <2>2. ASSUME NEW k \in Logs PROVE RescuedRow(k)'
    BY <1>a, <1>b, <1>c, <1>d, <1>4
       DEF SendTest, Exists, Queue, Defer, TraceAgrees, Fresh, Waiting
  <2>3. QED
    BY <2>1, <2>2 DEF RowsAreHeld
<1>5. ASSUME NEW w \in Workers, NEW l \in Logs, Fetch(w, l) PROVE RowsAreHeld'
  <2>1. ASSUME NEW v \in Workers PROVE HeldRow(v)'
    BY <1>d, <1>5 DEF Fetch
  <2>2. ASSUME NEW k \in Logs PROVE RescuedRow(k)'
    BY <1>a, <1>b, <1>c, <1>d, <1>5 DEF Fetch, Waiting, Fetched, NoJob
  <2>3. QED
    BY <2>1, <2>2 DEF RowsAreHeld
<1>6. ASSUME NEW w \in Workers, StartOff(w) PROVE RowsAreHeld'
  <2>1. ASSUME NEW v \in Workers PROVE HeldRow(v)'
    BY <1>a, <1>b, <1>c, <1>d, <1>6 DEF StartOff, SaveExisting, Parked, Exists, Release, Conclude, AttemptAgrees, Absent
  <2>2. ASSUME NEW k \in Logs PROVE RescuedRow(k)'
    <3>1. row'[k] = row[k] \/ (k = job[w] /\ row[k].status = "retrying")
      BY <1>6 DEF StartOff, SaveExisting
    <3>2. ~(rescue[k].status = "retrying" /\ k = job[w])
      BY <1>c
    <3>3. rescue[k].status = "in_progress" => row[k].status # "retrying"
      BY <1>c DEF Absent
    <3>4. ~Held(k) => ~Held(k)'
      BY <1>6 DEF StartOff, Release
    <3>5. \A v \in Workers : job'[v] \in {job[v], NoLog}
      BY <1>6 DEF StartOff, Release
    <3>6. NoLog # k /\ UNCHANGED <<rescue, todo>>
      BY <1>6 DEF StartOff
    <3>7. QED
      BY <1>c, <3>1, <3>2, <3>3, <3>4, <3>5, <3>6 DEF Waiting
  <2>3. QED
    BY <2>1, <2>2 DEF RowsAreHeld
<1>7. ASSUME NEW w \in Workers, Park(w) PROVE RowsAreHeld'
  <2>1. ASSUME NEW v \in Workers PROVE HeldRow(v)'
    BY <1>d, <1>7 DEF Park, Absent
  <2>2. ASSUME NEW k \in Logs PROVE RescuedRow(k)'
    BY <1>d, <1>7 DEF Park, Absent
  <2>3. QED
    BY <2>1, <2>2 DEF RowsAreHeld
<1>8. ASSUME NEW w \in Workers, Start(w) PROVE RowsAreHeld'
  <2>1. ASSUME NEW v \in Workers PROVE HeldRow(v)'
    BY <1>a, <1>b, <1>c, <1>d, <1>8
       DEF Start, Release, AttemptAgrees, Absent, Claimable, Claim, ClaimedDoc, OpenStates
  <2>2. ASSUME NEW k \in Logs PROVE RescuedRow(k)'
    BY <1>a, <1>b, <1>c, <1>d, <1>8
       DEF Start, Release, Absent, Claimable, Claim, ClaimedDoc, OpenStates
  <2>3. QED
    BY <2>1, <2>2 DEF RowsAreHeld
<1>9. ASSUME NEW w \in Workers, StartFails(w) PROVE RowsAreHeld'
  <2>1. ASSUME NEW v \in Workers PROVE HeldRow(v)'
    BY <1>d, <1>9 DEF StartFails, Absent
  <2>2. ASSUME NEW k \in Logs PROVE RescuedRow(k)'
    BY <1>a, <1>b, <1>c, <1>d, <1>9 DEF StartFails, Absent
  <2>3. QED
    BY <2>1, <2>2 DEF RowsAreHeld
<1>10. ASSUME NEW w \in Workers, Attempt(w) PROVE RowsAreHeld'
  <2>1. ASSUME NEW v \in Workers PROVE HeldRow(v)'
    BY <1>a, <1>b, <1>c, <1>d, <1>10 DEF Attempt, Release, Conclude, AttemptAgrees, Absent, DeleteRows, Transient
  <2>2. ASSUME NEW k \in Logs PROVE RescuedRow(k)'
    BY <1>a, <1>b, <1>c, <1>d, <1>10 DEF Attempt, Release, Conclude, AttemptAgrees, Absent, DeleteRows, Transient
  <2>3. QED
    BY <2>1, <2>2 DEF RowsAreHeld
<1>11. ASSUME NEW w \in Workers, Check(w) PROVE RowsAreHeld'
  <2>1. ASSUME NEW v \in Workers PROVE HeldRow(v)'
    <3>1. \A k \in Logs : row'[k] \in {row[k], Absent}
      BY <1>11 DEF Check, DeleteRows
    <3>2. QED
      BY <1>b, <1>d, <1>11, <3>1 DEF Check, AttemptAgrees, Release, Conclude
  <2>2. ASSUME NEW k \in Logs PROVE RescuedRow(k)'
    BY <1>a, <1>b, <1>c, <1>d, <1>11 DEF Check, Release, Conclude, AttemptAgrees, Absent, DeleteRows, Transient
  <2>3. QED
    BY <2>1, <2>2 DEF RowsAreHeld
<1>12. ASSUME NEW w \in Workers, Post(w) PROVE RowsAreHeld'
  <2>1. ASSUME NEW v \in Workers PROVE HeldRow(v)'
    BY <1>d, <1>12 DEF Post, Release, Conclude, AttemptAgrees, Absent, Transient
  <2>2. ASSUME NEW k \in Logs PROVE RescuedRow(k)'
    BY <1>a, <1>b, <1>c, <1>d, <1>12 DEF Post, Release, Conclude, AttemptAgrees, Absent, Transient
  <2>3. QED
    BY <2>1, <2>2 DEF RowsAreHeld
<1>13. ASSUME NEW w \in Workers, Save(w) PROVE RowsAreHeld'
  <2>1. ASSUME NEW v \in Workers PROVE HeldRow(v)'
    BY <1>d, <1>13 DEF Save, SaveExisting, Parked, Exists, Release, Conclude, AttemptAgrees, Absent
  <2>2. ASSUME NEW k \in Logs PROVE RescuedRow(k)'
    <3>1. job[w] \in Logs /\ Held(job[w])
      BY <1>b, <1>13 DEF Save, AttemptAgrees
    <3>2. k # job[w] => row'[k] = row[k]
      BY <1>13 DEF Save, SaveExisting
    <3>3. rescue[k].status \in {"in_progress", "retrying"} => k # job[w]
      BY <1>c, <3>1
    <3>4. ~Held(k) => ~Held(k)'
      BY <1>13 DEF Save, Release
    <3>5. \A v \in Workers : job'[v] \in {job[v], NoLog}
      BY <1>13 DEF Save, Release
    <3>6. NoLog # k /\ UNCHANGED <<rescue, todo>>
      BY <1>13 DEF Save
    <3>7. QED
      BY <1>c, <3>2, <3>3, <3>4, <3>5, <3>6
  <2>3. QED
    BY <2>1, <2>2 DEF RowsAreHeld
<1>14. ASSUME NEW w \in Workers, SaveFails(w) PROVE RowsAreHeld'
  <2>1. ASSUME NEW v \in Workers PROVE HeldRow(v)'
    BY <1>d, <1>14 DEF SaveFails, Absent, Transient
  <2>2. ASSUME NEW k \in Logs PROVE RescuedRow(k)'
    BY <1>a, <1>b, <1>c, <1>d, <1>14 DEF SaveFails, Absent, Transient
  <2>3. QED
    BY <2>1, <2>2 DEF RowsAreHeld
<1>15. ASSUME NEW w \in Workers, RequeueJob(w) PROVE RowsAreHeld'
  <2>1. ASSUME NEW v \in Workers PROVE HeldRow(v)'
    BY <1>d, <1>15 DEF RequeueJob, Release, Conclude, AttemptAgrees, Absent, Requeue, NoJob, Waiting
  <2>2. ASSUME NEW k \in Logs PROVE RescuedRow(k)'
    BY <1>a, <1>b, <1>c, <1>d, <1>15 DEF RequeueJob, Release, Conclude, AttemptAgrees, Absent, Requeue, NoJob, Waiting
  <2>3. QED
    BY <2>1, <2>2 DEF RowsAreHeld
<1>16. ASSUME NEW w \in Workers, Crash(w) PROVE RowsAreHeld'
  <2>1. ASSUME NEW v \in Workers PROVE HeldRow(v)'
    BY <1>d, <1>16 DEF Crash, Release, Conclude, AttemptAgrees, Absent
  <2>2. ASSUME NEW k \in Logs PROVE RescuedRow(k)'
    BY <1>a, <1>b, <1>c, <1>d, <1>16 DEF Crash, Release, Conclude, AttemptAgrees, Absent
  <2>3. QED
    BY <2>1, <2>2 DEF RowsAreHeld
<1>17. ASSUME NEW l \in Logs, SweepRead(l) PROVE RowsAreHeld'
  <2>1. ASSUME NEW v \in Workers PROVE HeldRow(v)'
    BY <1>d, <1>17 DEF SweepRead
  <2>2. ASSUME NEW k \in Logs PROVE RescuedRow(k)'
    BY <1>a, <1>b, <1>c, <1>d, <1>17 DEF SweepRead, Exists, Stuck, OpenStates
  <2>3. QED
    BY <2>1, <2>2 DEF RowsAreHeld
<1>18. ASSUME NEW l \in Logs, SweepSave(l) PROVE RowsAreHeld'
  <2>1. ASSUME NEW v \in Workers PROVE HeldRow(v)'
    <3>1. rescue[l].status \in {"in_progress", "retrying"} \/ row' = row
      BY <1>c, <1>18 DEF SweepSave, OpenStates
    <3>2. row' = row \/ ~Held(l)
      BY <1>c, <3>1
    <3>3. \A k \in Logs : k # l => row'[k] = row[k]
      BY <1>18 DEF SweepSave, SaveExisting
    <3>4. QED
      BY <1>b, <1>d, <1>18, <3>2, <3>3 DEF SweepSave, AttemptAgrees
  <2>2. ASSUME NEW k \in Logs PROVE RescuedRow(k)'
    BY <1>a, <1>b, <1>c, <1>d, <1>18
       DEF SweepSave, Exists, SaveExisting, Queue, Defer, Absent, Waiting
  <2>3. QED
    BY <2>1, <2>2 DEF RowsAreHeld
<1>19. CASE SweepCrash
  <2>1. ASSUME NEW v \in Workers PROVE HeldRow(v)'
    BY <1>d, <1>19 DEF SweepCrash
  <2>2. ASSUME NEW k \in Logs PROVE RescuedRow(k)'
    BY <1>19 DEF SweepCrash, Exists, Absent
  <2>3. QED
    BY <2>1, <2>2 DEF RowsAreHeld
<1>20. ASSUME NEW h \in Hooks, EditHook(h) PROVE RowsAreHeld'
  BY <1>20, <1>same DEF EditHook
<1>21. ASSUME NEW h \in Hooks, DeleteHook(h) PROVE RowsAreHeld'
  BY <1>21, <1>same DEF DeleteHook
<1>22. ASSUME NEW r \in Responses, EraseResponse(r) PROVE RowsAreHeld'
  BY <1>22, <1>same DEF EraseResponse
<1>23. ASSUME NEW r \in Responses, EraseLogs(r) PROVE RowsAreHeld'
  <2>1. ASSUME NEW v \in Workers PROVE HeldRow(v)'
    <3>1. \A k \in Logs : row'[k] \in {row[k], Absent}
      BY <1>23 DEF EraseLogs, DeleteRows
    <3>2. QED
      BY <1>b, <1>d, <1>23, <3>1 DEF EraseLogs, AttemptAgrees
  <2>2. ASSUME NEW k \in Logs PROVE RescuedRow(k)'
    BY <1>b, <1>c, <1>d, <1>23 DEF EraseLogs, DeleteRows, Exists, Absent
  <2>3. QED
    BY <2>1, <2>2 DEF RowsAreHeld
<1>24. ASSUME NEW l \in Logs, Purge(l) PROVE RowsAreHeld'
  <2>1. ASSUME NEW v \in Workers PROVE HeldRow(v)'
    <3>1. \A k \in Logs : row'[k] \in {row[k], Absent}
      BY <1>24 DEF Purge, DeleteRows
    <3>2. QED
      BY <1>b, <1>d, <1>24, <3>1 DEF Purge, AttemptAgrees
  <2>2. ASSUME NEW k \in Logs PROVE RescuedRow(k)'
    BY <1>b, <1>c, <1>d, <1>24 DEF Purge, DeleteRows, Exists, Absent
  <2>3. QED
    BY <2>1, <2>2 DEF RowsAreHeld
<1>25. CASE DeleteFormHooks
  BY <1>25, <1>same DEF DeleteFormHooks
<1>26. CASE DeleteFormLogs
  <2>1. ASSUME NEW v \in Workers PROVE HeldRow(v)'
    <3>1. \A k \in Logs : row'[k] \in {row[k], Absent}
      BY <1>26 DEF DeleteFormLogs, DeleteRows
    <3>2. QED
      BY <1>b, <1>d, <1>26, <3>1 DEF DeleteFormLogs, AttemptAgrees
  <2>2. ASSUME NEW k \in Logs PROVE RescuedRow(k)'
    BY <1>b, <1>c, <1>d, <1>26 DEF DeleteFormLogs, DeleteRows, Exists, Absent
  <2>3. QED
    BY <2>1, <2>2 DEF RowsAreHeld
<1>27. CASE SwitchOff
  BY <1>27, <1>same DEF SwitchOff
<1>28. CASE SwitchOn
  BY <1>28, <1>same DEF SwitchOn
<1>29. CASE UNCHANGED vars
  BY <1>29, <1>same DEF vars
<1>30. QED
  BY <1>1, <1>2, <1>3, <1>4, <1>5, <1>6, <1>7, <1>8, <1>9, <1>10, <1>11, <1>12, <1>13, <1>14, <1>15, <1>16, <1>17, <1>18, <1>19, <1>20, <1>21, <1>22, <1>23, <1>24, <1>25, <1>26, <1>27, <1>28, <1>29
     DEF Next, Submission, Job, Step, Sweeper, Sweep, Around

-----------------------------------------------------------------------------
(* Attempts and losses.                                                    *)

\* Without the races, every attempt is counted on the row or as lost.
LEMMA AttemptsStep ==
  ASSUME Races = {}, TypeOK, TypeOK', CopiesAgree, RowsAreHeld, AttemptsAreCounted, [Next]_vars
  PROVE  AttemptsAreCounted'
<1>a. \A l \in Logs : TraceAgrees(l)
  BY DEF CopiesAgree
<1>b. \A w \in Workers : /\ pc[w] # "idle" => job[w] \in Logs
                         /\ pc[w] = "idle" => job[w] = NoLog
  BY DEF CopiesAgree, AttemptAgrees
<1>c. \A l \in Logs : RescuedRow(l)
  BY DEF RowsAreHeld
<1>d. \A w \in Workers : HeldRow(w)
  BY DEF RowsAreHeld
<1>e. \A l \in Logs : CountedRow(l)
  BY DEF AttemptsAreCounted
<1>f. \A w \in Workers : CountedAttempt(w)
  BY DEF AttemptsAreCounted
<1>n. /\ MaxAttempts \in Nat
      /\ \A l \in Logs : /\ row[l].attempts \in Nat /\ row'[l].attempts \in Nat
                         /\ lost[l] \in Nat /\ sent[l] \in Nat
                         /\ lost'[l] \in Nat /\ sent'[l] \in Nat
      /\ \A w \in Workers : doc[w].attempts \in Nat /\ doc'[w].attempts \in Nat
  BY RowFields DEF TypeOK
<1> USE DEF TypeOK, worker, history, Goto, CountedRow, CountedAttempt, Held, Holds, Holding
<1>same. ASSUME UNCHANGED <<row, pc, job, doc, verdict, shown, sent, lost>> PROVE AttemptsAreCounted'
  BY <1>same DEF AttemptsAreCounted
<1>1. ASSUME NEW r \in Responses, Submit(r) PROVE AttemptsAreCounted'
  BY <1>1, <1>same DEF Submit
<1>2. ASSUME NEW r \in Responses, HandOffCrash(r) PROVE AttemptsAreCounted'
  BY <1>2, <1>same DEF HandOffCrash
<1>3. ASSUME NEW l \in Logs, HandOff(l) PROVE AttemptsAreCounted'
  <2>1. ASSUME NEW k \in Logs PROVE CountedRow(k)'
    BY <1>a, <1>b, <1>c, <1>d, <1>e, <1>f, <1>n, <1>3 DEF HandOff, CreateIfAbsent, NewRow, Exists, TraceAgrees, Fresh, OpenStates
  <2>2. ASSUME NEW v \in Workers PROVE CountedAttempt(v)'
    BY <1>d, <1>e, <1>f, <1>n, <1>3 DEF HandOff, TraceAgrees, Fresh, OpenStates
  <2>3. QED
    BY <2>1, <2>2 DEF AttemptsAreCounted
<1>4. ASSUME NEW l \in Logs, SendTest(l) PROVE AttemptsAreCounted'
  <2>1. ASSUME NEW k \in Logs PROVE CountedRow(k)'
    BY <1>d, <1>e, <1>f, <1>n, <1>4 DEF SendTest, NewRow, Exists, TraceAgrees, Fresh, OpenStates
  <2>2. ASSUME NEW v \in Workers PROVE CountedAttempt(v)'
    BY <1>d, <1>e, <1>f, <1>n, <1>4 DEF SendTest, Fresh, OpenStates
  <2>3. QED
    BY <2>1, <2>2 DEF AttemptsAreCounted
<1>5. ASSUME NEW w \in Workers, NEW l \in Logs, Fetch(w, l) PROVE AttemptsAreCounted'
  <2>1. ASSUME NEW k \in Logs PROVE CountedRow(k)'
    BY <1>e, <1>f, <1>n, <1>5 DEF Fetch
  <2>2. ASSUME NEW v \in Workers PROVE CountedAttempt(v)'
    BY <1>e, <1>f, <1>n, <1>5 DEF Fetch
  <2>3. QED
    BY <2>1, <2>2 DEF AttemptsAreCounted
<1>6. ASSUME NEW w \in Workers, StartOff(w) PROVE AttemptsAreCounted'
  <2>1. ASSUME NEW k \in Logs PROVE CountedRow(k)'
    <3>1. \/ row'[k] = row[k]
          \/ row[k].status = "retrying" /\ row'[k] = Parked(row[k])
      BY <1>6 DEF StartOff, SaveExisting
    <3>2. row[k].status = "retrying" /\ row'[k] = Parked(row[k]) =>
            row'[k].attempts = row[k].attempts /\ Exists(row[k])
      BY ParkedFields DEF Exists
    <3>3. Held(k)' <=> Held(k)
      <4>1. /\ pc[w] = "start"
            /\ pc' \in {[pc EXCEPT ![w] = "idle"], [pc EXCEPT ![w] = "park"]}
            /\ job' \in {job, [job EXCEPT ![w] = NoLog]}
        BY <1>6 DEF StartOff, Release
      <4>2. ASSUME NEW v \in Workers PROVE Holds(v, k)' <=> Holds(v, k)
        BY <4>1
      <4>3. QED
        BY <4>2, Zenon DEF Held
    <3>4. UNCHANGED <<shown, sent, lost>>
      BY <1>6 DEF StartOff
    <3>5. QED
      BY <1>e, <1>n, <3>1, <3>2, <3>3, <3>4 DEF OpenStates
  <2>2. ASSUME NEW v \in Workers PROVE CountedAttempt(v)'
    <3>1. pc'[w] \notin Holding
      BY <1>6 DEF StartOff, Release
    <3>2. v # w => /\ pc'[v] = pc[v] /\ job'[v] = job[v]
                   /\ doc'[v] = doc[v] /\ verdict'[v] = verdict[v]
      BY <1>6 DEF StartOff, Release
    <3>3. UNCHANGED <<sent, lost>>
      BY <1>6 DEF StartOff
    <3>4. QED
      BY <1>f, <3>1, <3>2, <3>3
  <2>3. QED
    BY <2>1, <2>2 DEF AttemptsAreCounted
<1>7. ASSUME NEW w \in Workers, Park(w) PROVE AttemptsAreCounted'
  <2>1. ASSUME NEW k \in Logs PROVE CountedRow(k)'
    BY <1>d, <1>e, <1>f, <1>n, <1>7 DEF Park, Release, Conclude, Absent, OpenStates, HeldRow
  <2>2. ASSUME NEW v \in Workers PROVE CountedAttempt(v)'
    BY <1>d, <1>e, <1>f, <1>n, <1>7 DEF Park, Release, Conclude, Absent, OpenStates, HeldRow
  <2>3. QED
    BY <2>1, <2>2 DEF AttemptsAreCounted
<1>8. ASSUME NEW w \in Workers, Start(w) PROVE AttemptsAreCounted'
  <2>1. ASSUME NEW k \in Logs PROVE CountedRow(k)'
    <3>1. UNCHANGED <<shown, sent, lost>> /\ job[w] \in Logs
      BY <1>b, <1>8 DEF Start
    <3>2. CASE Claimable(row, job[w], OpenStates) /\ k = job[w]
      <4>1. /\ row[k].status \in OpenStates /\ Exists(row[k])
            /\ row'[k] = ClaimedDoc(row[k])
        BY <1>8, <3>1, <3>2 DEF Start, Claimable, Claim, OpenStates, Exists
      <4>2. Held(k)'
        BY <1>8, <3>2 DEF Start
      <4>3. QED
        BY <1>e, <1>n, <3>1, <4>1, <4>2 DEF ClaimedDoc, OpenStates
    <3>3. CASE ~Claimable(row, job[w], OpenStates) \/ k # job[w]
      <4>1. row'[k] = row[k] /\ (Held(k)' <=> Held(k))
        BY <1>8, <3>3 DEF Start, Claim, Release
      <4>2. QED
        BY <1>e, <3>1, <4>1
    <3>4. QED
      BY <3>2, <3>3
  <2>2. ASSUME NEW v \in Workers PROVE CountedAttempt(v)'
    BY <1>a, <1>b, <1>c, <1>d, <1>e, <1>f, <1>n, <1>8
       DEF Start, Exists, Release, OpenStates, Claimable, Claim, ClaimedDoc
  <2>3. QED
    BY <2>1, <2>2 DEF AttemptsAreCounted
<1>9. ASSUME NEW w \in Workers, StartFails(w) PROVE AttemptsAreCounted'
  <2>1. ASSUME NEW k \in Logs PROVE CountedRow(k)'
    BY <1>d, <1>e, <1>f, <1>n, <1>9 DEF StartFails, Release, Conclude, Absent, OpenStates
  <2>2. ASSUME NEW v \in Workers PROVE CountedAttempt(v)'
    BY <1>d, <1>e, <1>f, <1>n, <1>9 DEF StartFails, Release, Conclude, Absent, OpenStates
  <2>3. QED
    BY <2>1, <2>2 DEF AttemptsAreCounted
<1>10. ASSUME NEW w \in Workers, Attempt(w) PROVE AttemptsAreCounted'
  <2>1. ASSUME NEW k \in Logs PROVE CountedRow(k)'
    <3>1. UNCHANGED <<shown, sent, lost>> /\ job[w] \in Logs
      BY <1>b, <1>10 DEF Attempt
    <3>2. \/ row'[k] = Absent
          \/ row'[k] = row[k] /\ (Held(k)' <=> Held(k))
          \/ row'[k] = row[k] /\ k = job[w] /\ ~Exists(row[k])
      BY <1>10 DEF Attempt, DeleteRows, LogsOf, Release, Conclude
    <3>3. QED
      BY <1>e, <3>1, <3>2 DEF Absent, Exists, OpenStates
  <2>2. ASSUME NEW v \in Workers PROVE CountedAttempt(v)'
    BY <1>d, <1>e, <1>f, <1>n, <1>10 DEF Attempt, Release, Conclude, Absent, OpenStates, DeleteRows, Transient, HeldRow
  <2>3. QED
    BY <2>1, <2>2 DEF AttemptsAreCounted
<1>11. ASSUME NEW w \in Workers, Check(w) PROVE AttemptsAreCounted'
  <2>1. ASSUME NEW k \in Logs PROVE CountedRow(k)'
    <3>1. UNCHANGED <<shown, sent, lost>> /\ job[w] \in Logs
      BY <1>b, <1>11 DEF Check
    <3>2. \/ row'[k] = Absent
          \/ row'[k] = row[k] /\ (Held(k)' <=> Held(k))
          \/ row'[k] = row[k] /\ k = job[w] /\ ~Exists(row[k])
      BY <1>11 DEF Check, DeleteRows, LogsOf, Release, Conclude
    <3>3. QED
      BY <1>e, <3>1, <3>2 DEF Absent, Exists, OpenStates
  <2>2. ASSUME NEW v \in Workers PROVE CountedAttempt(v)'
    BY <1>d, <1>e, <1>f, <1>n, <1>11 DEF Check, Release, Conclude, Absent, OpenStates, DeleteRows, Transient, HeldRow
  <2>3. QED
    BY <2>1, <2>2 DEF AttemptsAreCounted
<1>12. ASSUME NEW w \in Workers, Post(w) PROVE AttemptsAreCounted'
  <2>1. ASSUME NEW k \in Logs PROVE CountedRow(k)'
    <3>1. UNCHANGED <<row, shown, lost>> /\ job[w] \in Logs
      BY <1>b, <1>12 DEF Post
    <3>2. Held(k)' <=> Held(k)
      BY <1>12 DEF Post, Conclude
    <3>3. CASE k # job[w]
      BY <1>e, <1>12, <3>1, <3>2, <3>3 DEF Post
    <3>4. CASE k = job[w]
      <4>1. sent'[k] = sent[k] + 1 /\ Held(k)
        BY <1>12, <3>4 DEF Post
      <4>2. shown[k] # NoHost
        BY <1>a, <3>1, <3>4 DEF TraceAgrees, Fresh
      <4>3. /\ sent[k] < doc[w].attempts
            /\ doc[w].attempts <= MaxAttempts + lost[k]
            /\ row[k] \in {doc[w], Absent} /\ doc[w].status = "in_progress"
        BY <1>d, <1>f, <1>12, <3>4 DEF Post, HeldRow
      <4>4. QED
        BY <1>e, <1>n, <3>1, <3>2, <4>1, <4>2, <4>3 DEF Exists, Absent
    <3>5. QED
      BY <3>3, <3>4
  <2>2. ASSUME NEW v \in Workers PROVE CountedAttempt(v)'
    BY <1>d, <1>e, <1>f, <1>n, <1>12 DEF Post, Release, Conclude, Absent, OpenStates, Transient, HeldRow
  <2>3. QED
    BY <2>1, <2>2 DEF AttemptsAreCounted
<1>13. ASSUME NEW w \in Workers, Save(w) PROVE AttemptsAreCounted'
  <2>1. ASSUME NEW k \in Logs PROVE CountedRow(k)'
    <3>1. UNCHANGED <<shown, sent, lost>> /\ job[w] \in Logs
      BY <1>b, <1>13 DEF Save
    <3>2. CASE k # job[w] \/ ~Exists(row[k])
      <4>1. row'[k] = row[k] /\ (k # job[w] => (Held(k)' <=> Held(k)))
        BY <1>13, <3>2 DEF Save, SaveExisting, Release
      <4>2. QED
        BY <1>e, <3>1, <3>2, <4>1 DEF Exists, OpenStates
    <3>3. CASE k = job[w] /\ Exists(row[k])
      <4>1. row'[k] = [doc[w] EXCEPT !.status = verdict[w]]
        BY <1>13, <3>1, <3>3 DEF Save, SaveExisting
      <4>2. doc[w] \in Row /\ verdict[w] \in FinalStates \cup {"retrying"}
        BY <1>13, WorkerFacts DEF Save
      <4>3. row'[k].attempts = doc[w].attempts /\ row'[k].status = verdict[w]
        BY <4>1, <4>2 DEF Row
      <4>4. /\ sent[k] <= doc[w].attempts
            /\ doc[w].attempts <= MaxAttempts + lost[k]
            /\ verdict[w] = "retrying" => doc[w].attempts < MaxAttempts
        BY <1>f, <1>13, <3>3 DEF Save
      <4>5. QED
        BY <1>e, <1>n, <3>1, <4>2, <4>3, <4>4 DEF OpenStates, FinalStates
    <3>4. QED
      BY <3>2, <3>3
  <2>2. ASSUME NEW v \in Workers PROVE CountedAttempt(v)'
    BY <1>d, <1>e, <1>f, <1>n, <1>13 DEF Save, Release, Conclude, Absent, OpenStates, HeldRow
  <2>3. QED
    BY <2>1, <2>2 DEF AttemptsAreCounted
<1>14. ASSUME NEW w \in Workers, SaveFails(w) PROVE AttemptsAreCounted'
  <2>1. ASSUME NEW k \in Logs PROVE CountedRow(k)'
    BY <1>a, <1>b, <1>c, <1>d, <1>e, <1>f, <1>n, <1>14 DEF SaveFails, SaveExisting, Parked, Exists, Release, Conclude, Absent, OpenStates, Transient, HeldRow
  <2>2. ASSUME NEW v \in Workers PROVE CountedAttempt(v)'
    BY <1>d, <1>e, <1>f, <1>n, <1>14 DEF SaveFails, Release, Conclude, Absent, OpenStates, Transient, HeldRow
  <2>3. QED
    BY <2>1, <2>2 DEF AttemptsAreCounted
<1>15. ASSUME NEW w \in Workers, RequeueJob(w) PROVE AttemptsAreCounted'
  <2>1. ASSUME NEW k \in Logs PROVE CountedRow(k)'
    BY <1>d, <1>e, <1>f, <1>n, <1>15 DEF RequeueJob, Release, Conclude, Absent, OpenStates
  <2>2. ASSUME NEW v \in Workers PROVE CountedAttempt(v)'
    BY <1>d, <1>e, <1>f, <1>n, <1>15 DEF RequeueJob, Release, Conclude, Absent, OpenStates
  <2>3. QED
    BY <2>1, <2>2 DEF AttemptsAreCounted
<1>16. ASSUME NEW w \in Workers, Crash(w) PROVE AttemptsAreCounted'
  <2>1. ASSUME NEW k \in Logs PROVE CountedRow(k)'
    BY <1>d, <1>e, <1>f, <1>n, <1>16 DEF Crash, Release, Conclude, Absent, OpenStates, HeldRow
  <2>2. ASSUME NEW v \in Workers PROVE CountedAttempt(v)'
    BY <1>d, <1>e, <1>f, <1>n, <1>16 DEF Crash, Release, Conclude, Absent, OpenStates, HeldRow
  <2>3. QED
    BY <2>1, <2>2 DEF AttemptsAreCounted
<1>17. ASSUME NEW l \in Logs, SweepRead(l) PROVE AttemptsAreCounted'
  BY <1>17, <1>same DEF SweepRead
<1>18. ASSUME NEW l \in Logs, SweepSave(l) PROVE AttemptsAreCounted'
  <2>1. ASSUME NEW k \in Logs PROVE CountedRow(k)'
    <3>1. UNCHANGED <<shown, sent, lost>> /\ (Held(k)' <=> Held(k))
      BY <1>18 DEF SweepSave
    <3>2. CASE row'[k] = row[k]
      BY <1>e, <3>1, <3>2
    <3>3. CASE row'[k] # row[k]
      <4>1. /\ k = l /\ Exists(row[k])
            /\ rescue[k].status \in {"in_progress", "retrying"}
            /\ row'[k] = Parked(rescue[k])
        BY <1>c, <1>18, <3>3 DEF SweepSave, SaveExisting, RescuedRow, OpenStates
      <4>2. row[k] = rescue[k] /\ ~Held(k)
        BY <1>c, <4>1 DEF RescuedRow, Exists, Absent
      <4>3. row'[k].attempts = row[k].attempts /\ row'[k].status = "pending"
        BY <4>1, <4>2, ParkedFields
      <4>4. QED
        BY <1>e, <3>1, <4>1, <4>2, <4>3 DEF OpenStates
    <3>4. QED
      BY <3>2, <3>3
  <2>2. ASSUME NEW v \in Workers PROVE CountedAttempt(v)'
    BY <1>d, <1>e, <1>f, <1>n, <1>18 DEF SweepSave, Absent, OpenStates, RescuedRow
  <2>3. QED
    BY <2>1, <2>2 DEF AttemptsAreCounted
<1>19. CASE SweepCrash
  BY <1>19, <1>same DEF SweepCrash
<1>20. ASSUME NEW h \in Hooks, EditHook(h) PROVE AttemptsAreCounted'
  BY <1>20, <1>same DEF EditHook
<1>21. ASSUME NEW h \in Hooks, DeleteHook(h) PROVE AttemptsAreCounted'
  BY <1>21, <1>same DEF DeleteHook
<1>22. ASSUME NEW r \in Responses, EraseResponse(r) PROVE AttemptsAreCounted'
  BY <1>22, <1>same DEF EraseResponse
<1>23. ASSUME NEW r \in Responses, EraseLogs(r) PROVE AttemptsAreCounted'
  <2>1. ASSUME NEW k \in Logs PROVE CountedRow(k)'
    BY <1>d, <1>e, <1>f, <1>n, <1>23 DEF EraseLogs, DeleteRows, Exists, Absent, OpenStates
  <2>2. ASSUME NEW v \in Workers PROVE CountedAttempt(v)'
    BY <1>d, <1>e, <1>f, <1>n, <1>23 DEF EraseLogs, OpenStates
  <2>3. QED
    BY <2>1, <2>2 DEF AttemptsAreCounted
<1>24. ASSUME NEW l \in Logs, Purge(l) PROVE AttemptsAreCounted'
  <2>1. ASSUME NEW k \in Logs PROVE CountedRow(k)'
    BY <1>d, <1>e, <1>f, <1>n, <1>24 DEF Purge, DeleteRows, Exists, Absent, OpenStates
  <2>2. ASSUME NEW v \in Workers PROVE CountedAttempt(v)'
    BY <1>d, <1>e, <1>f, <1>n, <1>24 DEF Purge, OpenStates
  <2>3. QED
    BY <2>1, <2>2 DEF AttemptsAreCounted
<1>25. CASE DeleteFormHooks
  BY <1>25, <1>same DEF DeleteFormHooks
<1>26. CASE DeleteFormLogs
  <2>1. ASSUME NEW k \in Logs PROVE CountedRow(k)'
    BY <1>d, <1>e, <1>f, <1>n, <1>26 DEF DeleteFormLogs, DeleteRows, Exists, Absent, OpenStates
  <2>2. ASSUME NEW v \in Workers PROVE CountedAttempt(v)'
    BY <1>d, <1>e, <1>f, <1>n, <1>26 DEF DeleteFormLogs, OpenStates
  <2>3. QED
    BY <2>1, <2>2 DEF AttemptsAreCounted
<1>27. CASE SwitchOff
  BY <1>27, <1>same DEF SwitchOff
<1>28. CASE SwitchOn
  BY <1>28, <1>same DEF SwitchOn
<1>29. CASE UNCHANGED vars
  BY <1>29, <1>same DEF vars
<1>30. QED
  BY <1>1, <1>2, <1>3, <1>4, <1>5, <1>6, <1>7, <1>8, <1>9, <1>10, <1>11, <1>12, <1>13, <1>14, <1>15, <1>16, <1>17, <1>18, <1>19, <1>20, <1>21, <1>22, <1>23, <1>24, <1>25, <1>26, <1>27, <1>28, <1>29
     DEF Next, Submission, Job, Step, Sweeper, Sweep, Around

\* Without the races, a delivery the destination accepted is over, or a loss.
LEMMA AcceptancesStep ==
  ASSUME Races = {}, TypeOK, TypeOK', CopiesAgree, RowsAreHeld, AcceptancesAreCounted, [Next]_vars
  PROVE  AcceptancesAreCounted'
<1>a. \A l \in Logs : TraceAgrees(l)
  BY DEF CopiesAgree
<1>b. \A w \in Workers : /\ pc[w] # "idle" => job[w] \in Logs
                         /\ pc[w] = "idle" => job[w] = NoLog
  BY DEF CopiesAgree, AttemptAgrees
<1>c. \A l \in Logs : RescuedRow(l)
  BY DEF RowsAreHeld
<1>d. \A w \in Workers : HeldRow(w)
  BY DEF RowsAreHeld
<1>e. \A l \in Logs : AcceptedRow(l)
  BY DEF AcceptancesAreCounted
<1>f. \A w \in Workers : AcceptedAttempt(w)
  BY DEF AcceptancesAreCounted
<1>n. /\ MaxAttempts \in Nat
      /\ \A l \in Logs : /\ row[l].attempts \in Nat /\ row'[l].attempts \in Nat
                         /\ lost[l] \in Nat /\ accepted[l] \in Nat
                         /\ lost'[l] \in Nat /\ accepted'[l] \in Nat
      /\ \A w \in Workers : doc[w].attempts \in Nat /\ doc'[w].attempts \in Nat
  BY RowFields DEF TypeOK
<1> USE DEF TypeOK, worker, history, Goto, AcceptedRow, AcceptedAttempt, Held, Holds, Holding
<1>same. ASSUME UNCHANGED <<row, pc, job, doc, verdict, shown, accepted, lost>> PROVE AcceptancesAreCounted'
  BY <1>same DEF AcceptancesAreCounted
<1>1. ASSUME NEW r \in Responses, Submit(r) PROVE AcceptancesAreCounted'
  BY <1>1, <1>same DEF Submit
<1>2. ASSUME NEW r \in Responses, HandOffCrash(r) PROVE AcceptancesAreCounted'
  BY <1>2, <1>same DEF HandOffCrash
<1>3. ASSUME NEW l \in Logs, HandOff(l) PROVE AcceptancesAreCounted'
  <2>1. ASSUME NEW k \in Logs PROVE AcceptedRow(k)'
    BY <1>a, <1>b, <1>c, <1>d, <1>e, <1>f, <1>n, <1>3 DEF HandOff, CreateIfAbsent, NewRow, Exists, TraceAgrees, Fresh, OpenStates
  <2>2. ASSUME NEW v \in Workers PROVE AcceptedAttempt(v)'
    BY <1>d, <1>e, <1>f, <1>n, <1>3 DEF HandOff, TraceAgrees, Fresh, OpenStates
  <2>3. QED
    BY <2>1, <2>2 DEF AcceptancesAreCounted
<1>4. ASSUME NEW l \in Logs, SendTest(l) PROVE AcceptancesAreCounted'
  <2>1. ASSUME NEW k \in Logs PROVE AcceptedRow(k)'
    BY <1>d, <1>e, <1>f, <1>n, <1>4 DEF SendTest, Fresh, OpenStates
  <2>2. ASSUME NEW v \in Workers PROVE AcceptedAttempt(v)'
    BY <1>d, <1>e, <1>f, <1>n, <1>4 DEF SendTest, Fresh, OpenStates
  <2>3. QED
    BY <2>1, <2>2 DEF AcceptancesAreCounted
<1>5. ASSUME NEW w \in Workers, NEW l \in Logs, Fetch(w, l) PROVE AcceptancesAreCounted'
  <2>1. ASSUME NEW k \in Logs PROVE AcceptedRow(k)'
    BY <1>e, <1>f, <1>n, <1>5 DEF Fetch
  <2>2. ASSUME NEW v \in Workers PROVE AcceptedAttempt(v)'
    BY <1>e, <1>f, <1>n, <1>5 DEF Fetch
  <2>3. QED
    BY <2>1, <2>2 DEF AcceptancesAreCounted
<1>6. ASSUME NEW w \in Workers, StartOff(w) PROVE AcceptancesAreCounted'
  <2>1. ASSUME NEW k \in Logs PROVE AcceptedRow(k)'
    <3>1. \/ row'[k] = row[k]
          \/ row[k].status = "retrying" /\ row'[k] = Parked(row[k])
      BY <1>6 DEF StartOff, SaveExisting
    <3>2. row[k].status = "retrying" /\ row'[k] = Parked(row[k]) =>
            row'[k].attempts = row[k].attempts /\ Exists(row[k])
      BY ParkedFields DEF Exists
    <3>3. Held(k)' <=> Held(k)
      <4>1. /\ pc[w] = "start"
            /\ pc' \in {[pc EXCEPT ![w] = "idle"], [pc EXCEPT ![w] = "park"]}
            /\ job' \in {job, [job EXCEPT ![w] = NoLog]}
        BY <1>6 DEF StartOff, Release
      <4>2. ASSUME NEW v \in Workers PROVE Holds(v, k)' <=> Holds(v, k)
        BY <4>1
      <4>3. QED
        BY <4>2, Zenon DEF Held
    <3>4. UNCHANGED <<shown, accepted, lost>>
      BY <1>6 DEF StartOff
    <3>5. QED
      BY <1>e, <1>n, <3>1, <3>2, <3>3, <3>4 DEF OpenStates
  <2>2. ASSUME NEW v \in Workers PROVE AcceptedAttempt(v)'
    <3>1. pc'[w] \notin Holding
      BY <1>6 DEF StartOff, Release
    <3>2. v # w => /\ pc'[v] = pc[v] /\ job'[v] = job[v]
                   /\ doc'[v] = doc[v] /\ verdict'[v] = verdict[v]
      BY <1>6 DEF StartOff, Release
    <3>3. UNCHANGED <<accepted, lost>>
      BY <1>6 DEF StartOff
    <3>4. QED
      BY <1>f, <3>1, <3>2, <3>3
  <2>3. QED
    BY <2>1, <2>2 DEF AcceptancesAreCounted
<1>7. ASSUME NEW w \in Workers, Park(w) PROVE AcceptancesAreCounted'
  <2>1. ASSUME NEW k \in Logs PROVE AcceptedRow(k)'
    BY <1>d, <1>e, <1>f, <1>n, <1>7 DEF Park, Release, Conclude, Absent, OpenStates, HeldRow
  <2>2. ASSUME NEW v \in Workers PROVE AcceptedAttempt(v)'
    BY <1>d, <1>e, <1>f, <1>n, <1>7 DEF Park, Release, Conclude, Absent, OpenStates, HeldRow
  <2>3. QED
    BY <2>1, <2>2 DEF AcceptancesAreCounted
<1>8. ASSUME NEW w \in Workers, Start(w) PROVE AcceptancesAreCounted'
  <2>1. ASSUME NEW k \in Logs PROVE AcceptedRow(k)'
    <3>1. UNCHANGED <<shown, accepted, lost>> /\ job[w] \in Logs
      BY <1>b, <1>8 DEF Start
    <3>2. CASE Claimable(row, job[w], OpenStates) /\ k = job[w]
      <4>1. /\ row[k].status \in OpenStates /\ Exists(row[k])
            /\ row'[k] = ClaimedDoc(row[k])
        BY <1>8, <3>1, <3>2 DEF Start, Claimable, Claim, OpenStates, Exists
      <4>2. Held(k)'
        BY <1>8, <3>2 DEF Start
      <4>3. QED
        BY <1>e, <1>n, <3>1, <4>1, <4>2 DEF ClaimedDoc
    <3>3. CASE ~Claimable(row, job[w], OpenStates) \/ k # job[w]
      <4>1. row'[k] = row[k] /\ (Held(k)' <=> Held(k))
        BY <1>8, <3>3 DEF Start, Claim, Release
      <4>2. QED
        BY <1>e, <3>1, <4>1
    <3>4. QED
      BY <3>2, <3>3
  <2>2. ASSUME NEW v \in Workers PROVE AcceptedAttempt(v)'
    BY <1>a, <1>b, <1>c, <1>d, <1>e, <1>f, <1>n, <1>8 DEF Start, Release, Claimable
  <2>3. QED
    BY <2>1, <2>2 DEF AcceptancesAreCounted
<1>9. ASSUME NEW w \in Workers, StartFails(w) PROVE AcceptancesAreCounted'
  <2>1. ASSUME NEW k \in Logs PROVE AcceptedRow(k)'
    BY <1>d, <1>e, <1>f, <1>n, <1>9 DEF StartFails, Release, Conclude, Absent, OpenStates
  <2>2. ASSUME NEW v \in Workers PROVE AcceptedAttempt(v)'
    BY <1>d, <1>e, <1>f, <1>n, <1>9 DEF StartFails, Release, Conclude, Absent, OpenStates
  <2>3. QED
    BY <2>1, <2>2 DEF AcceptancesAreCounted
<1>10. ASSUME NEW w \in Workers, Attempt(w) PROVE AcceptancesAreCounted'
  <2>1. ASSUME NEW k \in Logs PROVE AcceptedRow(k)'
    <3>1. UNCHANGED <<shown, accepted, lost>> /\ job[w] \in Logs
      BY <1>b, <1>10 DEF Attempt
    <3>2. \/ row'[k] = Absent
          \/ row'[k] = row[k] /\ (Held(k)' <=> Held(k))
          \/ row'[k] = row[k] /\ k = job[w] /\ ~Exists(row[k])
      BY <1>10 DEF Attempt, DeleteRows, LogsOf, Release, Conclude
    <3>3. QED
      BY <1>e, <3>1, <3>2 DEF Absent, Exists, OpenStates
  <2>2. ASSUME NEW v \in Workers PROVE AcceptedAttempt(v)'
    BY <1>a, <1>b, <1>c, <1>d, <1>e, <1>f, <1>n, <1>10 DEF Attempt, Release, Conclude
  <2>3. QED
    BY <2>1, <2>2 DEF AcceptancesAreCounted
<1>11. ASSUME NEW w \in Workers, Check(w) PROVE AcceptancesAreCounted'
  <2>1. ASSUME NEW k \in Logs PROVE AcceptedRow(k)'
    <3>1. UNCHANGED <<shown, accepted, lost>> /\ job[w] \in Logs
      BY <1>b, <1>11 DEF Check
    <3>2. \/ row'[k] = Absent
          \/ row'[k] = row[k] /\ (Held(k)' <=> Held(k))
          \/ row'[k] = row[k] /\ k = job[w] /\ ~Exists(row[k])
      BY <1>11 DEF Check, DeleteRows, LogsOf, Release, Conclude
    <3>3. QED
      BY <1>e, <3>1, <3>2 DEF Absent, Exists, OpenStates
  <2>2. ASSUME NEW v \in Workers PROVE AcceptedAttempt(v)'
    BY <1>d, <1>e, <1>f, <1>n, <1>11 DEF Check, Release, Conclude, Absent, OpenStates, DeleteRows, Transient, HeldRow
  <2>3. QED
    BY <2>1, <2>2 DEF AcceptancesAreCounted
<1>12. ASSUME NEW w \in Workers, Post(w) PROVE AcceptancesAreCounted'
  <2>1. ASSUME NEW k \in Logs PROVE AcceptedRow(k)'
    <3>1. UNCHANGED <<row, shown, lost>> /\ job[w] \in Logs
      BY <1>b, <1>12 DEF Post
    <3>2. Held(k)' <=> Held(k)
      BY <1>12 DEF Post, Conclude
    <3>3. CASE k # job[w]
      BY <1>e, <1>12, <3>1, <3>2, <3>3 DEF Post
    <3>4. CASE k = job[w]
      <4>1. accepted'[k] \in {accepted[k], accepted[k] + 1} /\ Held(k)
        BY <1>12, <3>4 DEF Post
      <4>2. shown[k] # NoHost
        BY <1>a, <3>1, <3>4 DEF TraceAgrees, Fresh
      <4>3. /\ accepted[k] <= lost[k]
            /\ row[k] \in {doc[w], Absent} /\ doc[w].status = "in_progress"
        BY <1>d, <1>f, <1>12, <3>4 DEF Post, HeldRow
      <4>4. QED
        BY <1>n, <3>1, <3>2, <4>1, <4>2, <4>3 DEF Absent, OpenStates
    <3>5. QED
      BY <3>3, <3>4
  <2>2. ASSUME NEW v \in Workers PROVE AcceptedAttempt(v)'
    BY <1>a, <1>b, <1>c, <1>d, <1>e, <1>f, <1>n, <1>12 DEF Post, Conclude, HeldRow
  <2>3. QED
    BY <2>1, <2>2 DEF AcceptancesAreCounted
<1>13. ASSUME NEW w \in Workers, Save(w) PROVE AcceptancesAreCounted'
  <2>1. ASSUME NEW k \in Logs PROVE AcceptedRow(k)'
    <3>1. UNCHANGED <<shown, accepted, lost>> /\ job[w] \in Logs
      BY <1>b, <1>13 DEF Save
    <3>2. CASE k # job[w] \/ ~Exists(row[k])
      <4>1. row'[k] = row[k] /\ (k # job[w] => (Held(k)' <=> Held(k)))
        BY <1>13, <3>2 DEF Save, SaveExisting, Release
      <4>2. QED
        BY <1>e, <3>1, <3>2, <4>1 DEF Exists, OpenStates
    <3>3. CASE k = job[w] /\ Exists(row[k])
      <4>1. row'[k] = [doc[w] EXCEPT !.status = verdict[w]]
        BY <1>13, <3>1, <3>3 DEF Save, SaveExisting
      <4>2. doc[w] \in Row /\ verdict[w] \in FinalStates \cup {"retrying"}
        BY <1>13, WorkerFacts DEF Save
      <4>3. row'[k].status = verdict[w]
        BY <4>1, <4>2 DEF Row
      <4>4. verdict[w] # "delivered" => accepted[k] <= lost[k]
        BY <1>f, <1>13, <3>3 DEF Save
      <4>5. QED
        BY <1>e, <1>n, <3>1, <3>3, <4>2, <4>3, <4>4 DEF OpenStates, FinalStates
    <3>4. QED
      BY <3>2, <3>3
  <2>2. ASSUME NEW v \in Workers PROVE AcceptedAttempt(v)'
    BY <1>d, <1>e, <1>f, <1>n, <1>13 DEF Save, Release, Conclude, Absent, OpenStates, HeldRow
  <2>3. QED
    BY <2>1, <2>2 DEF AcceptancesAreCounted
<1>14. ASSUME NEW w \in Workers, SaveFails(w) PROVE AcceptancesAreCounted'
  <2>1. ASSUME NEW k \in Logs PROVE AcceptedRow(k)'
    BY <1>d, <1>e, <1>f, <1>n, <1>14 DEF SaveFails, Release, Conclude, Absent, OpenStates, Transient, HeldRow
  <2>2. ASSUME NEW v \in Workers PROVE AcceptedAttempt(v)'
    BY <1>d, <1>e, <1>f, <1>n, <1>14 DEF SaveFails, Release, Conclude, Absent, OpenStates, Transient, HeldRow
  <2>3. QED
    BY <2>1, <2>2 DEF AcceptancesAreCounted
<1>15. ASSUME NEW w \in Workers, RequeueJob(w) PROVE AcceptancesAreCounted'
  <2>1. ASSUME NEW k \in Logs PROVE AcceptedRow(k)'
    BY <1>d, <1>e, <1>f, <1>n, <1>15 DEF RequeueJob, Release, Conclude, Absent, OpenStates
  <2>2. ASSUME NEW v \in Workers PROVE AcceptedAttempt(v)'
    BY <1>d, <1>e, <1>f, <1>n, <1>15 DEF RequeueJob, Release, Conclude, Absent, OpenStates
  <2>3. QED
    BY <2>1, <2>2 DEF AcceptancesAreCounted
<1>16. ASSUME NEW w \in Workers, Crash(w) PROVE AcceptancesAreCounted'
  <2>1. ASSUME NEW k \in Logs PROVE AcceptedRow(k)'
    BY <1>d, <1>e, <1>f, <1>n, <1>16 DEF Crash, Release, Conclude, Absent, OpenStates, HeldRow
  <2>2. ASSUME NEW v \in Workers PROVE AcceptedAttempt(v)'
    BY <1>d, <1>e, <1>f, <1>n, <1>16 DEF Crash, Release, Conclude, Absent, OpenStates, HeldRow
  <2>3. QED
    BY <2>1, <2>2 DEF AcceptancesAreCounted
<1>17. ASSUME NEW l \in Logs, SweepRead(l) PROVE AcceptancesAreCounted'
  BY <1>17, <1>same DEF SweepRead
<1>18. ASSUME NEW l \in Logs, SweepSave(l) PROVE AcceptancesAreCounted'
  <2>1. ASSUME NEW k \in Logs PROVE AcceptedRow(k)'
    <3>1. UNCHANGED <<shown, accepted, lost>> /\ (Held(k)' <=> Held(k))
      BY <1>18 DEF SweepSave
    <3>2. CASE row'[k] = row[k]
      BY <1>e, <3>1, <3>2
    <3>3. CASE row'[k] # row[k]
      <4>1. /\ k = l /\ Exists(row[k])
            /\ rescue[k].status \in {"in_progress", "retrying"}
            /\ row'[k] = Parked(rescue[k])
        BY <1>c, <1>18, <3>3 DEF SweepSave, SaveExisting, RescuedRow, OpenStates
      <4>2. row[k] = rescue[k] /\ ~Held(k)
        BY <1>c, <4>1 DEF RescuedRow, Exists, Absent
      <4>3. row'[k].attempts = row[k].attempts /\ row'[k].status = "pending"
        BY <4>1, <4>2, ParkedFields
      <4>4. QED
        BY <1>e, <3>1, <4>1, <4>2, <4>3 DEF OpenStates
    <3>4. QED
      BY <3>2, <3>3
  <2>2. ASSUME NEW v \in Workers PROVE AcceptedAttempt(v)'
    BY <1>d, <1>e, <1>f, <1>n, <1>18 DEF SweepSave, Absent, OpenStates, RescuedRow
  <2>3. QED
    BY <2>1, <2>2 DEF AcceptancesAreCounted
<1>19. CASE SweepCrash
  BY <1>19, <1>same DEF SweepCrash
<1>20. ASSUME NEW h \in Hooks, EditHook(h) PROVE AcceptancesAreCounted'
  BY <1>20, <1>same DEF EditHook
<1>21. ASSUME NEW h \in Hooks, DeleteHook(h) PROVE AcceptancesAreCounted'
  BY <1>21, <1>same DEF DeleteHook
<1>22. ASSUME NEW r \in Responses, EraseResponse(r) PROVE AcceptancesAreCounted'
  BY <1>22, <1>same DEF EraseResponse
<1>23. ASSUME NEW r \in Responses, EraseLogs(r) PROVE AcceptancesAreCounted'
  <2>1. ASSUME NEW k \in Logs PROVE AcceptedRow(k)'
    BY <1>d, <1>e, <1>f, <1>n, <1>23 DEF EraseLogs, DeleteRows, Exists, Absent, OpenStates
  <2>2. ASSUME NEW v \in Workers PROVE AcceptedAttempt(v)'
    BY <1>d, <1>e, <1>f, <1>n, <1>23 DEF EraseLogs, OpenStates
  <2>3. QED
    BY <2>1, <2>2 DEF AcceptancesAreCounted
<1>24. ASSUME NEW l \in Logs, Purge(l) PROVE AcceptancesAreCounted'
  <2>1. ASSUME NEW k \in Logs PROVE AcceptedRow(k)'
    BY <1>d, <1>e, <1>f, <1>n, <1>24 DEF Purge, DeleteRows, Exists, Absent, OpenStates
  <2>2. ASSUME NEW v \in Workers PROVE AcceptedAttempt(v)'
    BY <1>d, <1>e, <1>f, <1>n, <1>24 DEF Purge, OpenStates
  <2>3. QED
    BY <2>1, <2>2 DEF AcceptancesAreCounted
<1>25. CASE DeleteFormHooks
  BY <1>25, <1>same DEF DeleteFormHooks
<1>26. CASE DeleteFormLogs
  <2>1. ASSUME NEW k \in Logs PROVE AcceptedRow(k)'
    BY <1>d, <1>e, <1>f, <1>n, <1>26 DEF DeleteFormLogs, DeleteRows, Exists, Absent, OpenStates
  <2>2. ASSUME NEW v \in Workers PROVE AcceptedAttempt(v)'
    BY <1>d, <1>e, <1>f, <1>n, <1>26 DEF DeleteFormLogs, OpenStates
  <2>3. QED
    BY <2>1, <2>2 DEF AcceptancesAreCounted
<1>27. CASE SwitchOff
  BY <1>27, <1>same DEF SwitchOff
<1>28. CASE SwitchOn
  BY <1>28, <1>same DEF SwitchOn
<1>29. CASE UNCHANGED vars
  BY <1>29, <1>same DEF vars
<1>30. QED
  BY <1>1, <1>2, <1>3, <1>4, <1>5, <1>6, <1>7, <1>8, <1>9, <1>10, <1>11, <1>12, <1>13, <1>14, <1>15, <1>16, <1>17, <1>18, <1>19, <1>20, <1>21, <1>22, <1>23, <1>24, <1>25, <1>26, <1>27, <1>28, <1>29
     DEF Next, Submission, Job, Step, Sweeper, Sweep, Around

-----------------------------------------------------------------------------
(* Without the races.                                                      *)

\* In the initial state nothing was claimed, rescued, sent or accepted.
LEMMA InitialInv == Init => RowsAreHeld /\ AttemptsAreCounted /\ AcceptancesAreCounted
<1> SUFFICES ASSUME Init
             PROVE  RowsAreHeld /\ AttemptsAreCounted /\ AcceptancesAreCounted
  OBVIOUS
<1> USE DEF Init, Exists, Absent, OpenStates, Holding
<1>1. RowsAreHeld
  BY DEF RowsAreHeld, HeldRow, RescuedRow
<1>2. MaxAttempts \in Nat
  OBVIOUS
<1>3. AttemptsAreCounted
  BY DEF AttemptsAreCounted, CountedRow, CountedAttempt
<1>4. AcceptancesAreCounted
  BY DEF AcceptancesAreCounted, AcceptedRow, AcceptedAttempt
<1>5. QED
  BY <1>1, <1>3, <1>4

\* The inductive invariant of a delivery nobody is late for.
LEMMA DeliveryInvariant ==
  ASSUME Races = {}
  PROVE  Spec => [](TypeOK /\ DeliveryInv)
<1>1. Init => TypeOK /\ DeliveryInv
  BY InitialState, InitialInv DEF DeliveryInv
<1>2. TypeOK /\ DeliveryInv /\ [Next]_vars => (TypeOK /\ DeliveryInv)'
  BY TypeStep, CopiesStep, RowsStep, AttemptsStep, AcceptancesStep DEF DeliveryInv
<1>3. QED
  BY <1>1, <1>2, PTL DEF Spec

\* Rows, copies, attempts and acceptances fit together after every step, when nobody
\* the sweep gave up turns out to be late.
THEOREM DeliveryInduction ==
  ASSUME Races = {}
  PROVE  Spec => []DeliveryInv
  BY DeliveryInvariant, PTL

\* "A queued job is claimed atomically, so two workers never send one delivery at
\* the same time": true of claims, the sweep, crashes, deletions and the switch
\* together, as long as no worker or job the sweep gave up turns out to be late.
THEOREM OneSender ==
  ASSUME Races = {}
  PROVE  Spec => []SingleSender
<1>1. DeliveryInv => SingleSender
  BY DEF DeliveryInv, RowsAreHeld, HeldRow, SingleSender, Holds
<1>2. QED
  BY DeliveryInvariant, <1>1, PTL

\* The attempts a row counts bound the requests made for it, whatever jobs are
\* queued afresh: only a lost attempt adds one.
THEOREM AttemptsAreBounded ==
  ASSUME Races = {}
  PROVE  Spec => []AttemptsBounded
<1>1. DeliveryInv => AttemptsBounded
  BY DEF DeliveryInv, AttemptsAreCounted, CountedRow, AttemptsBounded
<1>2. QED
  BY DeliveryInvariant, <1>1, PTL

\* A destination that accepted a delivery gets it again only after an attempt
\* whose end the row never learned.
THEOREM RepeatsNeedLosses ==
  ASSUME Races = {}
  PROVE  Spec => []RepeatsAreLosses
<1>1. DeliveryInv => RepeatsAreLosses
  BY DEF DeliveryInv, AcceptancesAreCounted, AcceptedRow, RepeatsAreLosses
<1>2. QED
  BY DeliveryInvariant, <1>1, PTL
\* docs/webhooks.md:207 ("never gives a delivery more than 6 attempts") is true of jobs
\* that are queued afresh after the switch was off, after a job was lost or by the
\* sweep, as long as no attempt was lost: finding 1 takes a worker that died, or a save
\* that failed, during an attempt, and nothing else.
THEOREM NoExtraAttemptWithoutLoss ==
  ASSUME Races = {}
  PROVE  Spec => []((\A l \in Logs : lost[l] = 0) => AtMostMaxAttempts)
<1>1. ASSUME TypeOK, DeliveryInv, NEW l \in Logs, lost[l] = 0
      PROVE  row[l].attempts <= MaxAttempts
  <2>1. CASE Exists(row[l])
    BY <1>1, <2>1 DEF DeliveryInv, AttemptsAreCounted, CountedRow, TypeOK
  <2>2. CASE ~Exists(row[l])
    BY <1>1, <2>2, RowFields, DeliveryAssumption DEF TypeOK, Absent
  <2>3. QED
    BY <2>1, <2>2
<1>2. TypeOK /\ DeliveryInv => ((\A l \in Logs : lost[l] = 0) => AtMostMaxAttempts)
  BY <1>1 DEF AtMostMaxAttempts
<1>3. QED
  BY DeliveryInvariant, <1>2, PTL
=============================================================================
