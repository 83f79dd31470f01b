-------------------------- MODULE TaskRunner_proofs --------------------------
(***************************************************************************)
(* Proofs about TaskRunner, for any tasks, resources, runners, admins,     *)
(* requests, batches and troubles, and runners as slow as they like        *)
(* (BodiesExclude alone assumes that none is).                             *)
(*                                                                         *)
(* A step is described three times, action by action: what it can do to a  *)
(* run (Moves), to the locks (LocksMove) and to where a runner is          *)
(* (Placed).  The properties follow from these descriptions and from       *)
(* RunnerInduction, the conjunction of all of them.                        *)
(***************************************************************************)
EXTENDS TaskRunner, TLAPS

USE TaskAssumption

-----------------------------------------------------------------------------
(* The types, and where every runner is.                                   *)

\* A process that looks for the next thing to do is in a state of its own again.
LEMMA ResetTypes ==
  ASSUME RunnerTypes, NEW w \in Runners, Reset(w), stopping' \in [Runners -> BOOLEAN]
  PROVE  RunnerTypes'
<1>1. pc' \in [Runners -> Pcs]
  BY DEF RunnerTypes, Reset, Goto, Pcs
<1>2. cur' \in [Runners -> Runs \cup {None}]
  BY DEF RunnerTypes, Reset
<1>3. at' \in [Runners -> 0 .. Batches] /\ tries' \in [Runners -> 0 .. FinishRetries]
  BY DEF RunnerTypes, Reset
<1>4. final' \in [Runners -> {"none"} \cup TerminalStates]
  BY DEF RunnerTypes, Reset
<1>5. lost' \in [Runners -> BOOLEAN]
  BY DEF RunnerTypes, Reset
<1>6. QED
  BY <1>1, <1>2, <1>3, <1>4, <1>5 DEF RunnerTypes

\* An inserted request is a row of the table, with the root of the run it resumes.
LEMMA InsertTypes ==
  ASSUME TypeOK, NEW i \in Runs, NEW t \in Tasks, NEW kind \in {"ok", "unsigned"},
         NEW p \in Runs \cup {None}, Insert(i, t, kind, p)
  PROVE  /\ state' \in [Runs -> {"none"} \cup ActiveStates \cup TerminalStates]
         /\ task' \in [Runs -> Tasks]
         /\ request' \in [Runs -> {"ok", "unsigned", "stale"}]
         /\ resumes' \in [Runs -> Runs \cup {None}]
         /\ root' \in [Runs -> Runs]
         /\ UNCHANGED <<cancel, owner, attempts, fresh, started, ended, early>>
<1>1. state' \in [Runs -> {"none"} \cup ActiveStates \cup TerminalStates]
  BY DEF TypeOK, TableTypes, Insert, ActiveStates
<1>2. task' \in [Runs -> Tasks] /\ request' \in [Runs -> {"ok", "unsigned", "stale"}]
  BY DEF TypeOK, TableTypes, Insert
<1>3. resumes' \in [Runs -> Runs \cup {None}]
  BY DEF TypeOK, TableTypes, Insert
<1>4. root' \in [Runs -> Runs]
  <2>1. (IF p = None THEN i ELSE root[p]) \in Runs
    BY DEF TypeOK, HistoryTypes
  <2>2. QED
    BY <2>1 DEF TypeOK, HistoryTypes, Insert
<1>5. QED
  BY <1>1, <1>2, <1>3, <1>4 DEF Insert

\* A runner may conclude any end a run can have.
LEMMA ConcludeTypes ==
  ASSUME RunnerTypes, NEW w \in Runners, NEW s \in TerminalStates, Conclude(w, s)
  PROVE  RunnerTypes'
BY DEF RunnerTypes, Conclude, Goto, Pcs, Executing

\* Troubles stay within their bound.
LEMMA TroubleTypes ==
  ASSUME NEW kind, trouble \in 0 .. MaxTrouble, Trouble(kind)
  PROVE  trouble' \in 0 .. MaxTrouble
BY DEF Trouble

\* Every step keeps every variable in its type.
LEMMA TypeStep ==
  ASSUME TypeOK, \A w \in Runners : Placed(w), [Next]_vars
  PROVE  TypeOK'
<1>a. TableTypes /\ RunnerTypes /\ HistoryTypes
  BY DEF TypeOK
<1>b. \A w \in Runners : Placed(w)
  OBVIOUS
<1>1. ASSUME NEW t \in Tasks, RequestRun(t) PROVE TypeOK'
  <2>1. PICK i \in Runs : \/ Insert(i, t, "ok", None) /\ UNCHANGED trouble
                          \/ Insert(i, t, "unsigned", None) /\ Trouble("bad request")
    BY <1>1 DEF RequestRun
  <2>2. PICK kind \in {"ok", "unsigned"} : Insert(i, t, kind, None)
    BY <2>1
  <2>3. UNCHANGED <<lock, ckpt, committed, runner, asking>>
    BY <1>1 DEF RequestRun
  <2>4. trouble' \in 0 .. MaxTrouble
    BY <2>1, <1>a, TroubleTypes DEF HistoryTypes
  <2>5. QED
    BY <2>2, <2>3, <2>4, <1>a, InsertTypes
       DEF TypeOK, TableTypes, RunnerTypes, HistoryTypes, runner
<1>2. ASSUME NEW a \in Admins, NEW p \in Runs, ResumeCheck(a, p) PROVE TypeOK'
  <2>1. TableTypes'
    BY <1>a, <1>2 DEF ResumeCheck, TableTypes, db
  <2>2. RunnerTypes'
    BY <1>a, <1>2 DEF ResumeCheck, RunnerTypes, runner
  <2>3. HistoryTypes'
    BY <1>a, <1>2 DEF ResumeCheck, HistoryTypes, history
  <2>4. QED
    BY <2>1, <2>2, <2>3 DEF TypeOK
<1>3. ASSUME NEW a \in Admins, ResumeInsert(a) PROVE TypeOK'
  <2>1. asking[a] \in Runs /\ task[asking[a]] \in Tasks
    BY <1>a, <1>3 DEF ResumeInsert, TableTypes, HistoryTypes
  <2>2. PICK i \in Runs : Insert(i, task[asking[a]], "ok", asking[a])
    BY <1>3 DEF ResumeInsert
  <2>3. /\ UNCHANGED <<lock, ckpt, committed, runner, trouble>>
        /\ asking' \in [Admins -> Runs \cup {None}]
    BY <1>a, <1>3 DEF ResumeInsert, HistoryTypes
  <2>4. QED
    BY <2>1, <2>2, <2>3, <1>a, InsertTypes
       DEF TypeOK, TableTypes, RunnerTypes, HistoryTypes, runner
<1>4. ASSUME NEW i \in Runs, RequestCancel(i) PROVE TypeOK'
  <2>1. TableTypes'
    BY <1>a, <1>4 DEF RequestCancel, TableTypes
  <2>2. RunnerTypes'
    BY <1>a, <1>4 DEF RequestCancel, RunnerTypes, runner
  <2>3. HistoryTypes'
    BY <1>a, <1>4, TroubleTypes DEF RequestCancel, HistoryTypes
  <2>4. QED
    BY <2>1, <2>2, <2>3 DEF TypeOK
<1>5. ASSUME NEW i \in Runs, RequestAges(i) PROVE TypeOK'
  <2>1. TableTypes'
    BY <1>a, <1>5 DEF RequestAges, TableTypes
  <2>2. RunnerTypes'
    BY <1>a, <1>5 DEF RequestAges, RunnerTypes, runner
  <2>3. HistoryTypes'
    BY <1>a, <1>5, TroubleTypes DEF RequestAges, HistoryTypes, history
  <2>4. QED
    BY <2>1, <2>2, <2>3 DEF TypeOK
<1>6. ASSUME NEW w \in Runners, Claim(w) PROVE TypeOK'
  <2>1. TableTypes'
    <3>1. UNCHANGED <<task, request, resumes, cancel, attempts, lock, ckpt, committed>>
      BY <1>6 DEF Claim
    <3>2. PICK i \in Runs :
            \/ \E s \in TerminalStates, n \in {0, 1} : EndUnclaimed(i, s, n)
            \/ /\ state' = [state EXCEPT ![i] = "running"]
               /\ owner' = [owner EXCEPT ![i] = w]
               /\ fresh' = [fresh EXCEPT ![i] = TRUE]
      BY <1>6 DEF Claim, TerminalStates, ResumableStates
    <3>3. state' \in [Runs -> {"none"} \cup ActiveStates \cup TerminalStates]
      BY <3>2, <1>a DEF EndUnclaimed, TableTypes, ActiveStates
    <3>4. owner' \in [Runs -> Runners \cup {NoRunner}]
      BY <3>2, <1>a DEF EndUnclaimed, TableTypes
    <3>5. fresh' \in [Runs -> BOOLEAN]
      BY <3>2, <1>a, Zenon DEF EndUnclaimed, TableTypes
    <3>6. QED
      BY <3>1, <3>3, <3>4, <3>5, <1>a DEF TableTypes
  <2>2. RunnerTypes'
    BY <1>a, <1>6 DEF Claim, EndUnclaimed, RunnerTypes, Goto, Pcs, Executing
  <2>3. HistoryTypes'
    BY <1>a, <1>6 DEF Claim, EndUnclaimed, HistoryTypes
  <2>4. QED
    BY <2>1, <2>2, <2>3 DEF TypeOK
<1>7. ASSUME NEW w \in Runners, ClaimFails(w) PROVE TypeOK'
  <2>1. TableTypes'
    BY <1>a, <1>7 DEF ClaimFails, Reached, Claimable, TableTypes
  <2>2. RunnerTypes'
    BY <1>a, <1>7 DEF ClaimFails, RunnerTypes, runner
  <2>3. HistoryTypes'
    BY <1>a, <1>7, TroubleTypes DEF ClaimFails, HistoryTypes, history
  <2>4. QED
    BY <2>1, <2>2, <2>3 DEF TypeOK
<1>8. ASSUME NEW w \in Runners, SettlePoisoned(w) PROVE TypeOK'
  <2>1. TableTypes'
    BY <1>a, <1>8 DEF SettlePoisoned, TableTypes, TerminalStates, ResumableStates
  <2>2. RunnerTypes'
    BY <1>a, <1>8 DEF SettlePoisoned, RunnerTypes, runner
  <2>3. HistoryTypes'
    BY <1>a, <1>8 DEF SettlePoisoned, HistoryTypes
  <2>4. QED
    BY <2>1, <2>2, <2>3 DEF TypeOK
<1>9. ASSUME NEW w \in Runners, Gate(w) PROVE TypeOK'
  <2>1. TableTypes'
    BY <1>a, <1>9 DEF Gate, TableTypes, db
  <2>2. RunnerTypes'
    BY <1>a, <1>9, ConcludeTypes DEF Gate, RunnerTypes, Goto, Pcs, Executing, TerminalStates
  <2>3. HistoryTypes'
    BY <1>a, <1>9 DEF Gate, HistoryTypes, history
  <2>4. QED
    BY <2>1, <2>2, <2>3 DEF TypeOK
<1>10. ASSUME NEW w \in Runners, Acquire(w) PROVE TypeOK'
  <2>1. TableTypes'
    BY <1>a, <1>10 DEF Acquire, LocksLeft, Placed, TableTypes, db
  <2>2. RunnerTypes'
    <3>1. CASE Reset(w) /\ UNCHANGED stopping
      BY <3>1, <1>a, ResetTypes DEF RunnerTypes
    <3>2. CASE Conclude(w, "refused")
      BY <3>2, <1>a, ConcludeTypes DEF TerminalStates
    <3>3. CASE /\ at' = [at EXCEPT ![w] = StartAt(cur[w])]
               /\ Goto(w, "body")
               /\ UNCHANGED <<cur, final, tries, lost, stopping>>
      <4>1. cur[w] \in Runs
        BY <1>b, <1>10 DEF Acquire, Placed
      <4>2. StartAt(cur[w]) \in 0 .. Batches
        BY <4>1, <1>a DEF StartAt, TableTypes
      <4>3. QED
        BY <4>2, <3>3, <1>a DEF RunnerTypes, Goto, Pcs, Executing, InBody
    <3>4. QED
      BY <3>1, <3>2, <3>3, <1>10 DEF Acquire
  <2>3. HistoryTypes'
    BY <1>a, <1>10 DEF Acquire, HistoryTypes, history
  <2>4. QED
    BY <2>1, <2>2, <2>3 DEF TypeOK
<1>11. ASSUME NEW w \in Runners, Body(w) PROVE TypeOK'
  <2>1. TableTypes'
    BY <1>a, <1>11 DEF Body, TableTypes, db
  <2>2. RunnerTypes'
    BY <1>a, <1>11, ConcludeTypes
       DEF Body, Outcome, Declined, RunnerTypes, Goto, Pcs, Executing, InBody, TerminalStates,
           ResumableStates
  <2>3. HistoryTypes'
    BY <1>a, <1>11 DEF Body, HistoryTypes, history
  <2>4. QED
    BY <2>1, <2>2, <2>3 DEF TypeOK
<1>12. ASSUME NEW w \in Runners, Work(w) PROVE TypeOK'
  <2>1. TableTypes'
    <3>1. cur[w] \in Runs /\ at[w] + 1 \in 1 .. Batches
      BY <1>a, <1>12 DEF Work, Placed, RunnerTypes
    <3>2. root[cur[w]] \in Runs
      BY <3>1, <1>a DEF HistoryTypes
    <3>3. committed' \in [Runs -> SUBSET (1 .. Batches)]
      BY <3>1, <1>a, <1>12 DEF Work, TableTypes
    <3>4. QED
      BY <3>3, <1>a, <1>12 DEF Work, TableTypes, db
  <2>2. RunnerTypes'
    BY <1>a, <1>12, ConcludeTypes
       DEF Work, Declined, RunnerTypes, Goto, Pcs, Executing, InBody, TerminalStates,
           ResumableStates
  <2>3. HistoryTypes'
    BY <1>a, <1>12 DEF Work, HistoryTypes, history
  <2>4. QED
    BY <2>1, <2>2, <2>3 DEF TypeOK
<1>13. ASSUME NEW w \in Runners, Mark(w) PROVE TypeOK'
  <2>1. TableTypes'
    <3>1. cur[w] \in Runs /\ at[w] + 1 \in 0 .. Batches
      BY <1>a, <1>13 DEF Mark, Placed, RunnerTypes
    <3>2. ckpt' \in [Runs -> 0 .. Batches]
      BY <3>1, <1>a, <1>13 DEF Mark, TableTypes
    <3>3. QED
      BY <3>2, <1>a, <1>13 DEF Mark, TableTypes, db
  <2>2. RunnerTypes'
    BY <1>a, <1>13, ResetTypes DEF Mark, Placed, RunnerTypes, Goto, Pcs, Executing, InBody
  <2>3. HistoryTypes'
    BY <1>a, <1>13 DEF Mark, HistoryTypes, history
  <2>4. QED
    BY <2>1, <2>2, <2>3 DEF TypeOK
<1>14. ASSUME NEW w \in Runners, Finish(w) PROVE TypeOK'
  <2>1. TableTypes'
    BY <1>a, <1>14, <1>b DEF Finish, FreeLocks, Placed, TableTypes
  <2>2. RunnerTypes'
    BY <1>a, <1>14, ResetTypes DEF Finish, RunnerTypes
  <2>3. HistoryTypes'
    BY <1>a, <1>14 DEF Finish, HistoryTypes
  <2>4. QED
    BY <2>1, <2>2, <2>3 DEF TypeOK
<1>15. ASSUME NEW w \in Runners, FinishFails(w) PROVE TypeOK'
  <2>1. TableTypes'
    BY <1>a, <1>15 DEF FinishFails, TableTypes, db
  <2>2. RunnerTypes'
    BY <1>a, <1>15, ResetTypes DEF FinishFails, RunnerTypes
  <2>3. HistoryTypes'
    BY <1>a, <1>15, TroubleTypes DEF FinishFails, HistoryTypes, history
  <2>4. QED
    BY <2>1, <2>2, <2>3 DEF TypeOK
<1>16. ASSUME NEW w \in Runners, Beat(w) PROVE TypeOK'
  <2>1. TableTypes'
    BY <1>a, <1>16 DEF Beat, TableTypes
  <2>2. RunnerTypes'
    BY <1>a, <1>16 DEF Beat, RunnerTypes
  <2>3. HistoryTypes'
    BY <1>a, <1>16 DEF Beat, HistoryTypes, history
  <2>4. QED
    BY <2>1, <2>2, <2>3 DEF TypeOK
<1>17. ASSUME NEW i \in Runs, Lapse(i) PROVE TypeOK'
  <2>1. TableTypes'
    BY <1>a, <1>17 DEF Lapse, TableTypes
  <2>2. RunnerTypes'
    BY <1>a, <1>17 DEF Lapse, RunnerTypes, runner
  <2>3. HistoryTypes'
    BY <1>a, <1>17 DEF Lapse, HistoryTypes, history
  <2>4. QED
    BY <2>1, <2>2, <2>3 DEF TypeOK
<1>18. ASSUME NEW w \in Runners, TakeoverRead(w) PROVE TypeOK'
  <2>1. TableTypes'
    BY <1>a, <1>18 DEF TakeoverRead, TableTypes, db
  <2>2. RunnerTypes'
    BY <1>a, <1>18 DEF TakeoverRead, RunnerTypes, Goto, Pcs
  <2>3. HistoryTypes'
    BY <1>a, <1>18 DEF TakeoverRead, HistoryTypes, history
  <2>4. QED
    BY <2>1, <2>2, <2>3 DEF TypeOK
<1>19. ASSUME NEW w \in Runners, Takeover(w) PROVE TypeOK'
  <2>1. TableTypes'
    BY <1>a, <1>19 DEF Takeover, FreeLocks, TableTypes, TerminalStates, ResumableStates
  <2>2. RunnerTypes'
    BY <1>a, <1>19, ResetTypes DEF Takeover, RunnerTypes
  <2>3. HistoryTypes'
    BY <1>a, <1>19 DEF Takeover, HistoryTypes
  <2>4. QED
    BY <2>1, <2>2, <2>3 DEF TypeOK
<1>20. ASSUME NEW w \in Runners, Crash(w) PROVE TypeOK'
  <2>1. TableTypes'
    BY <1>a, <1>20 DEF Crash, TableTypes, db
  <2>2. RunnerTypes'
    BY <1>a, <1>20, ResetTypes DEF Crash, RunnerTypes
  <2>3. HistoryTypes'
    BY <1>a, <1>20, TroubleTypes DEF Crash, HistoryTypes, history
  <2>4. QED
    BY <2>1, <2>2, <2>3 DEF TypeOK
<1>21. ASSUME NEW w \in Runners, Stop(w) PROVE TypeOK'
  <2>1. TableTypes'
    BY <1>a, <1>21 DEF Stop, TableTypes, db
  <2>2. RunnerTypes'
    BY <1>a, <1>21 DEF Stop, RunnerTypes
  <2>3. HistoryTypes'
    BY <1>a, <1>21, TroubleTypes DEF Stop, HistoryTypes, history
  <2>4. QED
    BY <2>1, <2>2, <2>3 DEF TypeOK
<1>22. ASSUME NEW w \in Runners, Restart(w) PROVE TypeOK'
  <2>1. TableTypes'
    BY <1>a, <1>22 DEF Restart, TableTypes, db
  <2>2. RunnerTypes'
    BY <1>a, <1>22 DEF Restart, RunnerTypes
  <2>3. HistoryTypes'
    BY <1>a, <1>22 DEF Restart, HistoryTypes, history
  <2>4. QED
    BY <2>1, <2>2, <2>3 DEF TypeOK
<1>23. CASE UNCHANGED vars
  BY <1>23 DEF vars, db, runner, history, TypeOK, TableTypes, RunnerTypes, HistoryTypes
<1>24. QED
  BY <1>1, <1>2, <1>3, <1>4, <1>5, <1>6, <1>7, <1>8, <1>9, <1>10, <1>11, <1>12, <1>13,
     <1>14, <1>15, <1>16, <1>17, <1>18, <1>19, <1>20, <1>21, <1>22, <1>23
     DEF Next, Portal, Process, Execute, Serve

-----------------------------------------------------------------------------
(* What a step can do to a run.                                            *)

Identity(i) == <<task[i], resumes[i], root[i], request[i]>>

Moves(i) ==
  /\ state[i] \in TerminalStates => state'[i] = state[i]
  /\ state[i] = "running" => state'[i] \in {"running"} \cup TerminalStates
  /\ state[i] = "queued" => state'[i] # "none"
  /\ state'[i] = "running" =>
       state[i] = "running" \/ (state[i] = "queued" /\ Admitted(i) /\ UNCHANGED Identity(i))
  /\ state'[i] = "succeeded" =>
       \/ state[i] = "succeeded"
       \/ \E w \in Runners : /\ pc[w] = "finish" /\ final[w] = "succeeded"
                             /\ Owned(w) /\ cur[w] = i
  /\ state[i] # "queued" => owner'[i] = owner[i]
  /\ Began(i) => UNCHANGED Identity(i)

\* A run goes from queued to running to an end and never back, keeps its owner
\* while it runs, and what it is does not change once it began.
LEMMA RunsMove ==
  ASSUME TypeOK, \A w \in Runners : Placed(w), [Next]_vars, NEW i \in Runs
  PROVE  Moves(i)
<1>a. TableTypes /\ RunnerTypes /\ HistoryTypes
  BY DEF TypeOK
<1>1. ASSUME NEW t \in Tasks, RequestRun(t) PROVE Moves(i)
  <2>1. PICK j \in Runs : Insert(j, t, "ok", None) \/ Insert(j, t, "unsigned", None)
    BY <1>1 DEF RequestRun
  <2>2. state[j] = "none" /\ state'[j] = "queued"
    BY <2>1, <1>a DEF Insert, Unused, TableTypes
  <2>3. i # j => UNCHANGED <<state[i], Identity(i)>>
    BY <2>1, <1>a DEF Insert, Identity, TableTypes, HistoryTypes
  <2>4. UNCHANGED owner
    BY <2>1 DEF Insert
  <2>5. QED
    BY <2>2, <2>3, <2>4 DEF Moves, Began, TerminalStates, ResumableStates
<1>2. ASSUME NEW a \in Admins, NEW p \in Runs, ResumeCheck(a, p) PROVE Moves(i)
  BY <1>2 DEF ResumeCheck, Moves, Identity, db, history
<1>3. ASSUME NEW a \in Admins, ResumeInsert(a) PROVE Moves(i)
  BY <1>3
     DEF ResumeInsert, Moves, Began, Identity, TerminalStates, ResumableStates, Insert,
         Unused
<1>4. ASSUME NEW k \in Runs, RequestCancel(k) PROVE Moves(i)
  BY <1>4 DEF RequestCancel, Moves, Identity
<1>5. ASSUME NEW k \in Runs, RequestAges(k) PROVE Moves(i)
  BY <1>a, <1>5 DEF RequestAges, Moves, Began, Identity, history, TableTypes
<1>6. ASSUME NEW w \in Runners, Claim(w) PROVE Moves(i)
  BY <1>a, <1>6
     DEF Claim, Moves, Identity, TableTypes, TerminalStates, ResumableStates, Oldest,
         Claimable, EndUnclaimed
<1>7. ASSUME NEW w \in Runners, ClaimFails(w) PROVE Moves(i)
  BY <1>7 DEF ClaimFails, Moves, Identity, history
<1>8. ASSUME NEW w \in Runners, SettlePoisoned(w) PROVE Moves(i)
  BY <1>8 DEF SettlePoisoned, Moves, Identity, TerminalStates, ResumableStates, Poisoned
<1>9. ASSUME NEW w \in Runners, Gate(w) PROVE Moves(i)
  BY <1>9 DEF Gate, Moves, Identity, db, history
<1>10. ASSUME NEW w \in Runners, Acquire(w) PROVE Moves(i)
  BY <1>10 DEF Acquire, Moves, Identity, db, history
<1>11. ASSUME NEW w \in Runners, Body(w) PROVE Moves(i)
  BY <1>11 DEF Body, Moves, Identity, db, history
<1>12. ASSUME NEW w \in Runners, Work(w) PROVE Moves(i)
  BY <1>12 DEF Work, Moves, Identity, db, history
<1>13. ASSUME NEW w \in Runners, Mark(w) PROVE Moves(i)
  BY <1>13 DEF Mark, Moves, Identity, db, history
<1>14. ASSUME NEW w \in Runners, Finish(w) PROVE Moves(i)
  BY <1>a, <1>14
     DEF Finish, Moves, Identity, TableTypes, TerminalStates, ResumableStates, Owned, Placed
<1>15. ASSUME NEW w \in Runners, FinishFails(w) PROVE Moves(i)
  BY <1>15 DEF FinishFails, Moves, Identity, db, history
<1>16. ASSUME NEW w \in Runners, Beat(w) PROVE Moves(i)
  BY <1>16 DEF Beat, Moves, Identity, history
<1>17. ASSUME NEW k \in Runs, Lapse(k) PROVE Moves(i)
  BY <1>17 DEF Lapse, Moves, Identity, history
<1>18. ASSUME NEW w \in Runners, TakeoverRead(w) PROVE Moves(i)
  BY <1>18 DEF TakeoverRead, Moves, Identity, db, history
<1>19. ASSUME NEW w \in Runners, Takeover(w) PROVE Moves(i)
  BY <1>a, <1>19 DEF Takeover, Moves, Identity, TableTypes, TerminalStates, ResumableStates
<1>20. ASSUME NEW w \in Runners, Crash(w) PROVE Moves(i)
  BY <1>20 DEF Crash, Moves, Identity, db, history
<1>21. ASSUME NEW w \in Runners, Stop(w) PROVE Moves(i)
  BY <1>21 DEF Stop, Moves, Identity, db, history
<1>22. ASSUME NEW w \in Runners, Restart(w) PROVE Moves(i)
  BY <1>22 DEF Restart, Moves, Identity, db, history
<1>23. CASE UNCHANGED vars
  BY <1>23 DEF vars, db, history, Moves, Identity
<1>24. QED
  BY <1>1, <1>2, <1>3, <1>4, <1>5, <1>6, <1>7, <1>8, <1>9, <1>10, <1>11, <1>12, <1>13,
     <1>14, <1>15, <1>16, <1>17, <1>18, <1>19, <1>20, <1>21, <1>22, <1>23
     DEF Next, Portal, Process, Execute, Serve

-----------------------------------------------------------------------------
(* Where the runners are.                                                  *)

\* A runner that does not move stays where it is placed, whatever others do to its run.
LEMMA StaysPlaced ==
  ASSUME TypeOK, NEW v \in Runners, Placed(v), \A i \in Runs : Moves(i),
         UNCHANGED <<pc[v], cur[v], at[v], final[v], lost[v]>>
  PROVE  Placed(v)'
BY DEF TypeOK, TableTypes, RunnerTypes, Placed, Moves, Began, Owned, Executing, InBody,
       ActiveStates, TerminalStates, ResumableStates

\* So does one that goes on executing the same run.
LEMMA GoesOn ==
  ASSUME TypeOK, NEW w \in Runners, Placed(w), \A i \in Runs : Moves(i),
         UNCHANGED <<cur[w], lost[w]>>, pc[w] \in Executing, pc'[w] \in Executing,
         pc'[w] \in {"work", "mark"} => at'[w] < Batches,
         pc'[w] = "finish" => final'[w] \in TerminalStates
  PROVE  Placed(w)'
<1>1. cur[w] \in Runs /\ Began(cur[w]) /\ Moves(cur[w])
  BY DEF Placed, Executing, InBody
<1>2. cur'[w] \in Runs /\ Began(cur[w])'
  BY <1>1 DEF TypeOK, TableTypes, Moves, Began, ActiveStates, TerminalStates, ResumableStates
<1>3. lost[w] => ~Owned(w)'
  BY <1>1 DEF Placed, Moves, Began, Owned
<1>4. QED
  BY <1>2, <1>3 DEF Placed, Began

\* A runner that is reset is idle, and no other runner moved.
LEMMA ResetPlaces ==
  ASSUME TypeOK, NEW w \in Runners, Reset(w)
  PROVE  /\ Placed(w)'
         /\ \A v \in Runners \ {w} : UNCHANGED <<pc[v], cur[v], at[v], final[v], lost[v]>>
BY DEF TypeOK, RunnerTypes, Placed, Reset, Goto

\* A runner that concludes is about to finish, and no other runner moved.
LEMMA ConcludePlaces ==
  ASSUME TypeOK, NEW w \in Runners, NEW s \in TerminalStates, Conclude(w, s)
  PROVE  /\ pc'[w] = "finish" /\ final'[w] \in TerminalStates /\ UNCHANGED <<cur[w], lost[w]>>
         /\ \A v \in Runners \ {w} : UNCHANGED <<pc[v], cur[v], at[v], final[v], lost[v]>>
BY DEF TypeOK, RunnerTypes, Conclude, Goto

\* Where a runner is says what it knows of its run, after every step.
LEMMA PlacedStep ==
  ASSUME TypeOK, \A w \in Runners : Placed(w), [Next]_vars, NEW v \in Runners
  PROVE  Placed(v)'
<1>a. TableTypes /\ RunnerTypes /\ HistoryTypes
  BY DEF TypeOK
<1>b. \A i \in Runs : Moves(i)
  BY RunsMove
<1>c. UNCHANGED <<pc[v], cur[v], at[v], final[v], lost[v]>> => Placed(v)'
  BY <1>b, StaysPlaced
<1>1. ASSUME NEW t \in Tasks, RequestRun(t) PROVE Placed(v)'
  BY <1>c, <1>1 DEF RequestRun, runner, Insert
<1>2. ASSUME NEW a \in Admins, NEW p \in Runs, ResumeCheck(a, p) PROVE Placed(v)'
  BY <1>c, <1>2 DEF ResumeCheck, runner
<1>3. ASSUME NEW a \in Admins, ResumeInsert(a) PROVE Placed(v)'
  BY <1>c, <1>3 DEF ResumeInsert, runner, Insert
<1>4. ASSUME NEW k \in Runs, RequestCancel(k) PROVE Placed(v)'
  BY <1>c, <1>4 DEF RequestCancel, runner
<1>5. ASSUME NEW k \in Runs, RequestAges(k) PROVE Placed(v)'
  BY <1>c, <1>5 DEF RequestAges, runner
<1>6. ASSUME NEW w \in Runners, Claim(w) PROVE Placed(v)'
  <2>1. CASE v # w
    BY <2>1, <1>a, <1>6, <1>c DEF Claim, RunnerTypes, Goto, EndUnclaimed
  <2>2. CASE v = w
    <3>1. ~lost[w] /\ UNCHANGED <<lost, at, final>>
      BY <1>6 DEF Claim, Placed, Executing, InBody
    <3>2. CASE UNCHANGED <<pc, cur>>
      BY <2>2, <3>1, <3>2, <1>c
    <3>3. ASSUME NEW i \in Runs, pc' = [pc EXCEPT ![w] = "gate"],
                 cur' = [cur EXCEPT ![w] = i], state' = [state EXCEPT ![i] = "running"]
          PROVE  Placed(w)'
      BY <3>1, <3>3, <1>a DEF TableTypes, RunnerTypes, Placed, Began
    <3>4. QED
      BY <2>2, <3>2, <3>3, <1>6 DEF Claim, EndUnclaimed, Goto
  <2>3. QED
    BY <2>1, <2>2
<1>7. ASSUME NEW w \in Runners, ClaimFails(w) PROVE Placed(v)'
  BY <1>c, <1>7 DEF ClaimFails, runner
<1>8. ASSUME NEW w \in Runners, SettlePoisoned(w) PROVE Placed(v)'
  BY <1>c, <1>8 DEF SettlePoisoned, runner
<1>9. ASSUME NEW w \in Runners, Gate(w) PROVE Placed(v)'
  <2>1. CASE v # w
    BY <2>1, <1>a, <1>9, ConcludePlaces, <1>c DEF Gate, RunnerTypes, Goto, TerminalStates
  <2>2. CASE v = w
    <3>1. Placed(w) /\ pc[w] \in Executing
      BY <1>9 DEF Gate, Executing, InBody
    <3>2. CASE Conclude(w, "refused")
      BY <2>2, <3>1, <3>2, <1>b, GoesOn, ConcludePlaces DEF TerminalStates, Executing
    <3>3. CASE Goto(w, "acquire") /\ UNCHANGED <<cur, lost>>
      BY <2>2, <3>1, <3>3, <1>a, <1>b, GoesOn DEF RunnerTypes, Goto, Executing
    <3>4. QED
      BY <3>2, <3>3, <1>9 DEF Gate
  <2>3. QED
    BY <2>1, <2>2
<1>10. ASSUME NEW w \in Runners, Acquire(w) PROVE Placed(v)'
  <2>1. CASE v # w
    BY <2>1, <1>a, <1>10, ResetPlaces, ConcludePlaces, <1>c
       DEF Acquire, RunnerTypes, Goto, TerminalStates
  <2>2. CASE v = w
    <3>1. Placed(w) /\ pc[w] \in Executing
      BY <1>10 DEF Acquire, Executing, InBody
    <3>2. CASE Conclude(w, "refused")
      BY <2>2, <3>1, <3>2, <1>b, GoesOn, ConcludePlaces DEF TerminalStates, Executing
    <3>3. CASE Goto(w, "body") /\ UNCHANGED <<cur, lost>>
      BY <2>2, <3>1, <3>3, <1>a, <1>b, GoesOn DEF RunnerTypes, Goto, Executing, InBody
    <3>4. CASE Reset(w)
      BY <2>2, <3>4, ResetPlaces
    <3>5. QED
      BY <3>2, <3>3, <3>4, <1>10 DEF Acquire
  <2>3. QED
    BY <2>1, <2>2
<1>11. ASSUME NEW w \in Runners, Body(w) PROVE Placed(v)'
  <2>1. CASE v # w
    BY <2>1, <1>a, <1>11, ConcludePlaces, <1>c
       DEF Body, Declined, RunnerTypes, Goto, Outcome, TerminalStates, ResumableStates
  <2>2. CASE v = w
    <3>1. Placed(w) /\ pc[w] \in Executing
      BY <1>11 DEF Body, Executing, InBody
    <3>2. ASSUME NEW s \in TerminalStates, Conclude(w, s) PROVE Placed(w)'
      BY <3>1, <3>2, <1>b, GoesOn, ConcludePlaces DEF Executing
    <3>3. CASE at[w] < Batches /\ Goto(w, "work") /\ UNCHANGED <<cur, at, lost>>
      BY <2>2, <3>1, <3>3, <1>a, <1>b, GoesOn DEF RunnerTypes, Goto, Executing, InBody
    <3>4. QED
      BY <2>2, <3>2, <3>3, <1>11 DEF Body, Outcome, Declined, TerminalStates, ResumableStates
  <2>3. QED
    BY <2>1, <2>2
<1>12. ASSUME NEW w \in Runners, Work(w) PROVE Placed(v)'
  <2>1. CASE v # w
    BY <2>1, <1>a, <1>12, ConcludePlaces, <1>c
       DEF Work, Declined, RunnerTypes, Goto, TerminalStates, ResumableStates
  <2>2. CASE v = w
    <3>1. Placed(w) /\ pc[w] \in Executing
      BY <1>12 DEF Work, Executing, InBody
    <3>2. ASSUME NEW s \in TerminalStates, Conclude(w, s) PROVE Placed(w)'
      BY <3>1, <3>2, <1>b, GoesOn, ConcludePlaces DEF Executing
    <3>3. CASE Goto(w, "mark") /\ UNCHANGED <<cur, at, lost>>
      <4>1. at[w] < Batches
        BY <1>12 DEF Work, Placed
      <4>2. QED
        BY <2>2, <3>1, <3>3, <4>1, <1>a, <1>b, GoesOn DEF RunnerTypes, Goto, Executing, InBody
    <3>4. QED
      BY <2>2, <3>2, <3>3, <1>12 DEF Work, Declined, TerminalStates, ResumableStates
  <2>3. QED
    BY <2>1, <2>2
<1>13. ASSUME NEW w \in Runners, Mark(w) PROVE Placed(v)'
  <2>1. CASE v # w
    BY <2>1, <1>a, <1>13, ResetPlaces, <1>c DEF Mark, RunnerTypes, Goto
  <2>2. CASE v = w
    <3>1. Placed(w) /\ pc[w] \in Executing
      BY <1>13 DEF Mark, Executing, InBody
    <3>2. CASE Reset(w)
      BY <2>2, <3>2, ResetPlaces
    <3>3. CASE Goto(w, "body") /\ UNCHANGED <<cur, lost>>
      BY <2>2, <3>1, <3>3, <1>a, <1>b, GoesOn DEF RunnerTypes, Goto, Executing, InBody
    <3>4. QED
      BY <3>2, <3>3, <1>13 DEF Mark
  <2>3. QED
    BY <2>1, <2>2
<1>14. ASSUME NEW w \in Runners, Finish(w) PROVE Placed(v)'
  <2>1. CASE v # w
    BY <1>14, ResetPlaces, <1>c DEF Finish
  <2>2. CASE v = w
    BY <2>2, <1>14, ResetPlaces DEF Finish
  <2>3. QED
    BY <2>1, <2>2
<1>15. ASSUME NEW w \in Runners, FinishFails(w) PROVE Placed(v)'
  <2>1. CASE v # w
    BY <1>15, ResetPlaces, <1>c DEF FinishFails
  <2>2. CASE v = w
    <3>1. Placed(w) /\ pc[w] \in Executing
      BY <1>15 DEF FinishFails, Executing, InBody
    <3>2. CASE Reset(w)
      BY <2>2, <3>2, ResetPlaces
    <3>3. CASE UNCHANGED <<pc, cur, at, final, lost>>
      BY <2>2, <3>3, <1>c
    <3>4. QED
      BY <3>2, <3>3, <1>15 DEF FinishFails
  <2>3. QED
    BY <2>1, <2>2
<1>16. ASSUME NEW w \in Runners, Beat(w) PROVE Placed(v)'
  <2>1. CASE v # w
    BY <2>1, <1>a, <1>16, <1>c DEF Beat, RunnerTypes
  <2>2. CASE v = w
    BY <1>a, <1>b, <1>16 DEF Beat, RunnerTypes, Placed, Began, Owned
  <2>3. QED
    BY <2>1, <2>2
<1>17. ASSUME NEW k \in Runs, Lapse(k) PROVE Placed(v)'
  BY <1>c, <1>17 DEF Lapse, runner
<1>18. ASSUME NEW w \in Runners, TakeoverRead(w) PROVE Placed(v)'
  <2>1. CASE v # w
    BY <2>1, <1>18, <1>c DEF TakeoverRead, Goto
  <2>2. CASE v = w
    <3>1. PICK i \in Runs : state[i] = "running" /\ cur' = [cur EXCEPT ![w] = i]
      BY <1>18 DEF TakeoverRead
    <3>2. ~lost[w] /\ UNCHANGED <<state, lost>> /\ pc' = [pc EXCEPT ![w] = "takeover"]
      BY <1>18 DEF TakeoverRead, Goto, db, Placed, Executing, InBody
    <3>3. QED
      BY <2>2, <3>1, <3>2, <1>a DEF RunnerTypes, Placed, Began
  <2>3. QED
    BY <2>1, <2>2
<1>19. ASSUME NEW w \in Runners, Takeover(w) PROVE Placed(v)'
  <2>1. CASE v # w
    BY <1>19, ResetPlaces, <1>c DEF Takeover
  <2>2. CASE v = w
    BY <2>2, <1>19, ResetPlaces DEF Takeover
  <2>3. QED
    BY <2>1, <2>2
<1>20. ASSUME NEW w \in Runners, Crash(w) PROVE Placed(v)'
  <2>1. CASE v # w
    BY <1>20, ResetPlaces, <1>c DEF Crash
  <2>2. CASE v = w
    BY <2>2, <1>20, ResetPlaces DEF Crash
  <2>3. QED
    BY <2>1, <2>2
<1>21. ASSUME NEW w \in Runners, Stop(w) PROVE Placed(v)'
  BY <1>c, <1>21 DEF Stop, runner
<1>22. ASSUME NEW w \in Runners, Restart(w) PROVE Placed(v)'
  BY <1>c, <1>22 DEF Restart, runner
<1>23. CASE UNCHANGED vars
  BY <1>c, <1>23 DEF vars, runner
<1>24. QED
  BY <1>1, <1>2, <1>3, <1>4, <1>5, <1>6, <1>7, <1>8, <1>9, <1>10, <1>11, <1>12, <1>13,
     <1>14, <1>15, <1>16, <1>17, <1>18, <1>19, <1>20, <1>21, <1>22, <1>23
     DEF Next, Portal, Process, Execute, Serve

-----------------------------------------------------------------------------
(* The locks.                                                              *)

Frees(k) ==
  /\ lock' = FreeLocks(k)
  /\ state'[k] # "running"
  /\ \A i \in Runs \ {k} : state'[i] = state[i]

Takes(w) ==
  /\ pc[w] = "acquire" /\ pc'[w] = "body" /\ Owned(w)
  /\ UNCHANGED <<state, owner, task, cur>>
  /\ \A n \in LockNames(task[cur[w]]) : LocksLeft[n] = None
  /\ lock' = [n \in Locks |-> IF n \in LockNames(task[cur[w]]) THEN cur[w] ELSE LocksLeft[n]]

LocksMove ==
  \/ UNCHANGED lock /\ \A i \in Runs : state[i] = "running" => state'[i] = "running"
  \/ \E k \in Runs : Frees(k)
  \/ \E w \in Runners : Takes(w)

EntersBody(v) ==
  pc'[v] \in InBody => Takes(v) \/ (pc[v] \in InBody /\ cur'[v] = cur[v])

\* Locks are taken by a runner that owns its run and finds them free, freed with
\* the run they belong to, and a run ends with its locks.
LEMMA LocksAreMoved ==
  ASSUME TypeOK, \A w \in Runners : Placed(w), [Next]_vars
  PROVE  LocksMove
<1>a. TableTypes /\ RunnerTypes /\ HistoryTypes
  BY DEF TypeOK
<1>1. ASSUME NEW t \in Tasks, RequestRun(t) PROVE LocksMove
  BY <1>a, <1>1 DEF RequestRun, LocksMove, TableTypes, Insert, Unused
<1>2. ASSUME NEW a \in Admins, NEW p \in Runs, ResumeCheck(a, p) PROVE LocksMove
  BY <1>2 DEF ResumeCheck, LocksMove, db
<1>3. ASSUME NEW a \in Admins, ResumeInsert(a) PROVE LocksMove
  BY <1>3 DEF ResumeInsert, LocksMove, Insert, Unused
<1>4. ASSUME NEW k \in Runs, RequestCancel(k) PROVE LocksMove
  BY <1>4 DEF RequestCancel, LocksMove
<1>5. ASSUME NEW k \in Runs, RequestAges(k) PROVE LocksMove
  BY <1>5 DEF RequestAges, LocksMove
<1>6. ASSUME NEW w \in Runners, Claim(w) PROVE LocksMove
  BY <1>a, <1>6 DEF Claim, LocksMove, TableTypes, Oldest, Claimable, EndUnclaimed
<1>7. ASSUME NEW w \in Runners, ClaimFails(w) PROVE LocksMove
  BY <1>7 DEF ClaimFails, LocksMove
<1>8. ASSUME NEW w \in Runners, SettlePoisoned(w) PROVE LocksMove
  BY <1>8 DEF SettlePoisoned, LocksMove, Poisoned
<1>9. ASSUME NEW w \in Runners, Gate(w) PROVE LocksMove
  BY <1>9 DEF Gate, LocksMove, db
<1>10. ASSUME NEW w \in Runners, Acquire(w) PROVE LocksMove
  BY <1>10, <1>a DEF Acquire, LocksMove, Takes, Goto, RunnerTypes, db
<1>11. ASSUME NEW w \in Runners, Body(w) PROVE LocksMove
  BY <1>11 DEF Body, LocksMove, db
<1>12. ASSUME NEW w \in Runners, Work(w) PROVE LocksMove
  BY <1>12 DEF Work, LocksMove, db
<1>13. ASSUME NEW w \in Runners, Mark(w) PROVE LocksMove
  BY <1>13 DEF Mark, LocksMove, db
<1>14. ASSUME NEW w \in Runners, Finish(w) PROVE LocksMove
  <2>1. cur[w] \in Runs
    BY <1>14 DEF Finish, Placed
  <2>2. CASE UNCHANGED <<state, lock>>
    BY <2>2 DEF LocksMove
  <2>3. CASE ~UNCHANGED <<state, lock>>
    <3>1. Frees(cur[w])
      BY <2>3, <1>a, <1>14
         DEF Finish, Frees, Placed, TableTypes, TerminalStates, ResumableStates
    <3>2. QED
      BY <2>1, <3>1 DEF LocksMove
  <2>4. QED
    BY <2>2, <2>3
<1>15. ASSUME NEW w \in Runners, FinishFails(w) PROVE LocksMove
  BY <1>15 DEF FinishFails, LocksMove, db
<1>16. ASSUME NEW w \in Runners, Beat(w) PROVE LocksMove
  BY <1>16 DEF Beat, LocksMove
<1>17. ASSUME NEW k \in Runs, Lapse(k) PROVE LocksMove
  BY <1>17 DEF Lapse, LocksMove
<1>18. ASSUME NEW w \in Runners, TakeoverRead(w) PROVE LocksMove
  BY <1>18 DEF TakeoverRead, LocksMove, db
<1>19. ASSUME NEW w \in Runners, Takeover(w) PROVE LocksMove
  <2>1. cur[w] \in Runs
    BY <1>19 DEF Takeover, Placed
  <2>2. CASE UNCHANGED <<state, lock>>
    BY <2>2 DEF LocksMove
  <2>3. CASE ~UNCHANGED <<state, lock>>
    <3>1. Frees(cur[w])
      BY <2>3, <1>a, <1>19 DEF Takeover, Frees, Placed, TableTypes
    <3>2. QED
      BY <2>1, <3>1 DEF LocksMove
  <2>4. QED
    BY <2>2, <2>3
<1>20. ASSUME NEW w \in Runners, Crash(w) PROVE LocksMove
  BY <1>20 DEF Crash, LocksMove, db
<1>21. ASSUME NEW w \in Runners, Stop(w) PROVE LocksMove
  BY <1>21 DEF Stop, LocksMove, db
<1>22. ASSUME NEW w \in Runners, Restart(w) PROVE LocksMove
  BY <1>22 DEF Restart, LocksMove, db
<1>23. CASE UNCHANGED vars
  BY <1>23 DEF vars, db, LocksMove
<1>24. QED
  BY <1>1, <1>2, <1>3, <1>4, <1>5, <1>6, <1>7, <1>8, <1>9, <1>10, <1>11, <1>12, <1>13,
     <1>14, <1>15, <1>16, <1>17, <1>18, <1>19, <1>20, <1>21, <1>22, <1>23
     DEF Next, Portal, Process, Execute, Serve

\* A runner gets into the body of its run by taking the locks, and in no other way.
LEMMA BodiesAreEntered ==
  ASSUME TypeOK, [Next]_vars, NEW v \in Runners
  PROVE  EntersBody(v)
<1>a. TableTypes /\ RunnerTypes
  BY DEF TypeOK
<1>1. ASSUME NEW t \in Tasks, RequestRun(t) PROVE EntersBody(v)
  BY <1>1 DEF RequestRun, EntersBody, runner
<1>2. ASSUME NEW a \in Admins, NEW p \in Runs, ResumeCheck(a, p) PROVE EntersBody(v)
  BY <1>2 DEF ResumeCheck, EntersBody, runner
<1>3. ASSUME NEW a \in Admins, ResumeInsert(a) PROVE EntersBody(v)
  BY <1>3 DEF ResumeInsert, EntersBody, runner
<1>4. ASSUME NEW k \in Runs, RequestCancel(k) PROVE EntersBody(v)
  BY <1>4 DEF RequestCancel, EntersBody, runner
<1>5. ASSUME NEW k \in Runs, RequestAges(k) PROVE EntersBody(v)
  BY <1>5 DEF RequestAges, EntersBody, runner
<1>6. ASSUME NEW w \in Runners, Claim(w) PROVE EntersBody(v)
  BY <1>a, <1>6 DEF Claim, EntersBody, RunnerTypes, InBody, Goto, EndUnclaimed
<1>7. ASSUME NEW w \in Runners, ClaimFails(w) PROVE EntersBody(v)
  BY <1>7 DEF ClaimFails, EntersBody, runner
<1>8. ASSUME NEW w \in Runners, SettlePoisoned(w) PROVE EntersBody(v)
  BY <1>8 DEF SettlePoisoned, EntersBody, runner
<1>9. ASSUME NEW w \in Runners, Gate(w) PROVE EntersBody(v)
  BY <1>a, <1>9 DEF Gate, EntersBody, RunnerTypes, InBody, Goto, Conclude
<1>10. ASSUME NEW w \in Runners, Acquire(w) PROVE EntersBody(v)
  BY <1>a, <1>10 DEF Acquire, EntersBody, RunnerTypes, InBody, Goto, Conclude, Reset, Takes, db
<1>11. ASSUME NEW w \in Runners, Body(w) PROVE EntersBody(v)
  BY <1>a, <1>11 DEF Body, EntersBody, RunnerTypes, InBody, Goto, Conclude
<1>12. ASSUME NEW w \in Runners, Work(w) PROVE EntersBody(v)
  BY <1>a, <1>12 DEF Work, EntersBody, RunnerTypes, InBody, Goto, Conclude
<1>13. ASSUME NEW w \in Runners, Mark(w) PROVE EntersBody(v)
  BY <1>a, <1>13 DEF Mark, EntersBody, RunnerTypes, InBody, Goto, Reset
<1>14. ASSUME NEW w \in Runners, Finish(w) PROVE EntersBody(v)
  BY <1>14 DEF Finish, EntersBody, InBody, Goto, Reset
<1>15. ASSUME NEW w \in Runners, FinishFails(w) PROVE EntersBody(v)
  BY <1>a, <1>15 DEF FinishFails, EntersBody, RunnerTypes, InBody, Goto, Reset
<1>16. ASSUME NEW w \in Runners, Beat(w) PROVE EntersBody(v)
  BY <1>16 DEF Beat, EntersBody, runner
<1>17. ASSUME NEW k \in Runs, Lapse(k) PROVE EntersBody(v)
  BY <1>17 DEF Lapse, EntersBody, runner
<1>18. ASSUME NEW w \in Runners, TakeoverRead(w) PROVE EntersBody(v)
  BY <1>18 DEF TakeoverRead, EntersBody, InBody, Goto
<1>19. ASSUME NEW w \in Runners, Takeover(w) PROVE EntersBody(v)
  BY <1>19 DEF Takeover, EntersBody, InBody, Goto, Reset
<1>20. ASSUME NEW w \in Runners, Crash(w) PROVE EntersBody(v)
  BY <1>a, <1>20 DEF Crash, EntersBody, RunnerTypes, InBody, Goto, Reset
<1>21. ASSUME NEW w \in Runners, Stop(w) PROVE EntersBody(v)
  BY <1>21 DEF Stop, EntersBody, runner
<1>22. ASSUME NEW w \in Runners, Restart(w) PROVE EntersBody(v)
  BY <1>22 DEF Restart, EntersBody, runner
<1>23. CASE UNCHANGED vars
  BY <1>23 DEF vars, runner, EntersBody
<1>24. QED
  BY <1>1, <1>2, <1>3, <1>4, <1>5, <1>6, <1>7, <1>8, <1>9, <1>10, <1>11, <1>12, <1>13,
     <1>14, <1>15, <1>16, <1>17, <1>18, <1>19, <1>20, <1>21, <1>22, <1>23
     DEF Next, Portal, Process, Execute, Serve

\* A lock's holder is running, and a body under its lease holds all of its task's
\* locks: a takeover, a late finish or a clearing of stale locks takes none of them.
LEMMA LocksStep ==
  ASSUME TypeOK, \A w \in Runners : Placed(w), NoOrphanLocks,
         \A w \in Runners : LockedBody(w), [Next]_vars
  PROVE  NoOrphanLocks' /\ \A w \in Runners : LockedBody(w)'
<1>a. TableTypes /\ RunnerTypes
  BY DEF TypeOK
<1>1. LocksMove
  BY LocksAreMoved
<1>2. NoOrphanLocks'
  <2>1. CASE UNCHANGED lock /\ \A i \in Runs : state[i] = "running" => state'[i] = "running"
    BY <1>a, <2>1 DEF NoOrphanLocks, TableTypes
  <2>2. ASSUME NEW k \in Runs, Frees(k) PROVE NoOrphanLocks'
    BY <1>a, <2>2 DEF NoOrphanLocks, Frees, FreeLocks, TableTypes
  <2>3. ASSUME NEW w \in Runners, Takes(w) PROVE NoOrphanLocks'
    BY <2>3 DEF NoOrphanLocks, Takes, LocksLeft, Owned
  <2>4. QED
    BY <1>1, <2>1, <2>2, <2>3 DEF LocksMove
<1>3. ASSUME NEW v \in Runners, pc'[v] \in InBody, Owned(v)' PROVE Holds(v)'
  <2>1. CASE Takes(v)
    <3>1. cur[v] \in Runs /\ task[cur[v]] \in Tasks
      BY <2>1, <1>a DEF Takes, Placed, TableTypes
    <3>2. LockNames(task[cur[v]]) \subseteq Locks
      BY <3>1 DEF Locks
    <3>3. QED
      BY <2>1, <3>2 DEF Takes, Holds
  <2>2. CASE pc[v] \in InBody /\ cur'[v] = cur[v]
    <3>1. cur[v] \in Runs /\ Began(cur[v]) /\ Moves(cur[v]) /\ task[cur[v]] \in Tasks
      BY <2>2, <1>a, RunsMove DEF Placed, InBody, TableTypes
    <3>2. Owned(v) /\ task'[cur[v]] = task[cur[v]]
      BY <2>2, <3>1, <1>3 DEF Owned, Moves, Began, Identity
    <3>3. \A n \in LockNames(task[cur[v]]) : lock[n] = cur[v] /\ n \in Locks
      BY <2>2, <3>1, <3>2 DEF LockedBody, Holds, Locks
    <3>4. \A n \in LockNames(task[cur[v]]) : lock'[n] = cur[v]
      <4>1. ASSUME NEW k \in Runs, Frees(k), NEW n \in LockNames(task[cur[v]])
            PROVE  lock'[n] = cur[v]
        BY <2>2, <3>3, <4>1, <1>3 DEF Frees, FreeLocks, Owned
      <4>2. ASSUME NEW w \in Runners, Takes(w), NEW n \in LockNames(task[cur[v]])
            PROVE  lock'[n] = cur[v]
        <5>1. LocksLeft[n] = cur[v] /\ cur[v] # None
          BY <3>1, <3>2, <3>3 DEF LocksLeft, Owned, Runs, None
        <5>2. QED
          BY <3>3, <4>2, <5>1 DEF Takes
      <4>3. QED
        BY <1>1, <3>3, <4>1, <4>2 DEF LocksMove
    <3>5. QED
      BY <2>2, <3>2, <3>4 DEF Holds
  <2>3. QED
    BY <2>1, <2>2, <1>3, BodiesAreEntered DEF EntersBody
<1>4. QED
  BY <1>2, <1>3 DEF LockedBody

-----------------------------------------------------------------------------
(* What was committed.                                                     *)

\* Batches are committed by Work alone, and never undone.
LEMMA CommittedGrows ==
  ASSUME TypeOK, [Next]_vars, NEW r \in Runs
  PROVE  committed[r] \subseteq committed'[r]
<1>1. ASSUME NEW w \in Runners, Work(w) PROVE committed[r] \subseteq committed'[r]
  BY <1>1 DEF Work, TypeOK, TableTypes
<1>2. (\E w \in Runners : Work(w)) \/ UNCHANGED committed
  BY DEF vars, Next, Portal, Process, Execute, Serve, RequestRun, ResumeCheck, ResumeInsert,
         RequestCancel, RequestAges, Claim, ClaimFails, SettlePoisoned, Gate, Acquire, Body,
         Work, Mark, Finish, FinishFails, Beat, Lapse, TakeoverRead, Takeover, Crash, Stop,
         Restart
<1>3. QED
  BY <1>1, <1>2

DoneAfter(i, n) == 1 .. n \subseteq committed'[root'[i]]

\* What has been committed for a run that began stays committed.
LEMMA DoneStays ==
  ASSUME TypeOK, \A w \in Runners : Placed(w), [Next]_vars,
         NEW i \in Runs, Began(i), NEW n, Done(i, n)
  PROVE  DoneAfter(i, n)
<1>1. root[i] \in Runs /\ root'[i] = root[i]
  BY RunsMove DEF TypeOK, HistoryTypes, Moves, Identity
<1>2. QED
  BY <1>1, CommittedGrows DEF Done, DoneAfter

Asks == \A a \in Admins : asking[a] # None => Began(asking[a])

\* A run that began stays begun.
LEMMA BeganStays ==
  ASSUME TypeOK, \A w \in Runners : Placed(w), [Next]_vars, NEW i \in Runs, Began(i)
  PROVE  Began(i)'
BY RunsMove DEF TypeOK, TableTypes, Moves, Began, ActiveStates, TerminalStates, ResumableStates

\* The portal resumes runs that began.
LEMMA AsksStep ==
  ASSUME TypeOK, \A w \in Runners : Placed(w), Asks, [Next]_vars
  PROVE  Asks'
<1>1. \/ UNCHANGED asking
      \/ \E a \in Admins, p \in Runs :
           state[p] \in ResumableStates /\ asking' = [asking EXCEPT ![a] = p]
      \/ \E a \in Admins : asking' = [asking EXCEPT ![a] = None]
  BY DEF vars, Next, Portal, Process, Execute, Serve, RequestRun, ResumeCheck, ResumeInsert,
         RequestCancel, RequestAges, Claim, ClaimFails, SettlePoisoned, Gate, Acquire, Body,
         Work, Mark, Finish, FinishFails, Beat, Lapse, TakeoverRead, Takeover, Crash, Stop,
         Restart
<1>2. \A p \in Runs : state[p] \in ResumableStates => Began(p)
  BY DEF Began, ResumableStates
<1>3. \A a \in Admins : asking'[a] = asking[a] \/ asking'[a] = None \/ Began(asking'[a])
  BY <1>1, <1>2 DEF TypeOK, HistoryTypes
<1>4. ASSUME NEW a \in Admins, asking'[a] # None PROVE Began(asking[a])'
  <2>1. asking'[a] \in Runs
    BY <1>4, TypeStep DEF TypeOK, HistoryTypes
  <2>2. Began(asking'[a])
    BY <1>3, <1>4 DEF Asks
  <2>3. \A i \in Runs : Began(i) => state'[i] \notin {"none", "queued"}
    BY BeganStays DEF Began
  <2>4. QED
    BY <2>1, <2>2, <2>3 DEF Began
<1>5. QED
  BY <1>4 DEF Asks

\* What is on record of a run: nothing before it begins, a cancellation that was
\* asked for, a signature if it runs, and the run it resumes.
LEMMA RecordedStep ==
  ASSUME TypeOK, \A w \in Runners : Placed(w), Asks, \A i \in Runs : Recorded(i),
         [Next]_vars, NEW i \in Runs
  PROVE  Recorded(i)'
<1>a. TableTypes /\ RunnerTypes /\ HistoryTypes
  BY DEF TypeOK
<1>b. \A j \in Runs : Moves(j)
  BY RunsMove
<1>1. ASSUME ~Began(i)' PROVE started'[i] = 0 /\ ckpt'[i] = 0
  <2>1. ~Began(i) /\ started[i] = 0 /\ ckpt[i] = 0
    BY <1>1, BeganStays DEF Recorded
  <2>2. started'[i] = started[i]
    <3>1. \/ UNCHANGED started
          \/ \E k \in Runs : started' = [started EXCEPT ![k] = @ + 1]
                           /\ state' = [state EXCEPT ![k] = "running"]
      BY ZenonT(60) DEF vars, db, history, Next, Portal, Process, Execute, Serve, RequestRun,
             ResumeCheck, ResumeInsert, RequestCancel, RequestAges, Claim, ClaimFails,
             SettlePoisoned, Gate, Acquire, Body, Work, Mark, Finish, FinishFails, Beat,
             Lapse, TakeoverRead, Takeover, Crash, Stop, Restart, Insert, EndUnclaimed
    <3>2. QED
      BY <3>1, <1>1, <1>a DEF TableTypes, HistoryTypes, Began
  <2>3. ckpt'[i] = ckpt[i]
    <3>1. \/ UNCHANGED ckpt
          \/ \E w \in Runners : pc[w] = "mark" /\ ckpt' = [ckpt EXCEPT ![cur[w]] = at[w] + 1]
      BY ZenonT(60) DEF vars, db, history, Next, Portal, Process, Execute, Serve, RequestRun,
             ResumeCheck, ResumeInsert, RequestCancel, RequestAges, Claim, ClaimFails,
             SettlePoisoned, Gate, Acquire, Body, Work, Mark, Finish, FinishFails, Beat,
             Lapse, TakeoverRead, Takeover, Crash, Stop, Restart
    <3>2. QED
      BY <3>1, <2>1, <1>a DEF TableTypes, Placed
  <2>4. QED
    BY <2>1, <2>2, <2>3
<1>2. early'[i] => cancel'[i]
  <2>1. \/ UNCHANGED <<early, cancel>>
        \/ \E k \in Runs : /\ cancel' = [cancel EXCEPT ![k] = TRUE]
                           /\ early' = [early EXCEPT ![k] = state[k] = "queued"]
    BY ZenonT(60) DEF vars, db, history, Next, Portal, Process, Execute, Serve, RequestRun,
           ResumeCheck, ResumeInsert, RequestCancel, RequestAges, Claim, ClaimFails,
           SettlePoisoned, Gate, Acquire, Body, Work, Mark, Finish, FinishFails, Beat,
           Lapse, TakeoverRead, Takeover, Crash, Stop, Restart, Insert
  <2>2. CASE UNCHANGED <<early, cancel>>
    BY <2>2 DEF Recorded
  <2>3. ASSUME NEW k \in Runs, cancel' = [cancel EXCEPT ![k] = TRUE],
               early' = [early EXCEPT ![k] = state[k] = "queued"]
        PROVE  early'[i] => cancel'[i]
    <3>1. cancel'[k] /\ (i # k => UNCHANGED <<early[i], cancel[i]>>)
      BY <2>3, <1>a DEF TableTypes, HistoryTypes
    <3>2. QED
      BY <3>1 DEF Recorded
  <2>4. QED
    BY <2>1, <2>2, <2>3
<1>3. ASSUME state'[i] = "running" PROVE request'[i] # "unsigned"
  <2>1. CASE state[i] = "running"
    BY <2>1, <1>b DEF Recorded, Moves, Began, Identity
  <2>2. CASE Admitted(i) /\ UNCHANGED Identity(i)
    BY <2>2 DEF Admitted, Identity
  <2>3. QED
    BY <2>1, <2>2, <1>3, <1>b DEF Moves
<1>4. ASSUME resumes'[i] # None
      PROVE  Began(resumes[i])' /\ root'[i] = root'[resumes'[i]]
  <2>1. resumes'[i] \in Runs
    BY <1>4, TypeStep DEF TypeOK, TableTypes
  <2>2. Began(resumes'[i]) /\ root'[i] = root[resumes'[i]]
    <3>1. \/ UNCHANGED <<resumes, root>>
          \/ \E k \in Runs : \E t, kind : Insert(k, t, kind, None)
          \/ \E a \in Admins, k \in Runs : \E t :
               asking[a] # None /\ Insert(k, t, "ok", asking[a])
      BY ZenonT(60)
         DEF vars, db, history, Next, Portal, Process, Execute, Serve, RequestRun, ResumeCheck,
             ResumeInsert, RequestCancel, RequestAges, Claim, ClaimFails, SettlePoisoned, Gate,
             Acquire, Body, Work, Mark, Finish, FinishFails, Beat, Lapse, TakeoverRead,
             Takeover, Crash, Stop, Restart
    <3>2. CASE UNCHANGED <<resumes, root>>
      BY <3>2, <1>4 DEF Recorded
    <3>3. ASSUME NEW k \in Runs, NEW t, NEW kind, Insert(k, t, kind, None)
          PROVE  Began(resumes'[i]) /\ root'[i] = root[resumes'[i]]
      BY <3>3, <1>4, <1>a DEF Insert, Recorded, TableTypes
    <3>4. ASSUME NEW a \in Admins, NEW k \in Runs, NEW t, asking[a] # None,
                 Insert(k, t, "ok", asking[a])
          PROVE  Began(resumes'[i]) /\ root'[i] = root[resumes'[i]]
      BY <3>4, <1>4, <1>a DEF Insert, Asks, Recorded, TableTypes, HistoryTypes
    <3>5. QED
      BY <3>1, <3>2, <3>3, <3>4
  <2>3. root'[resumes'[i]] = root[resumes'[i]] /\ Began(resumes[i])'
    <3>1. \A j \in Runs : Began(j) => root'[j] = root[j] /\ state'[j] \notin {"none", "queued"}
      BY <1>b, BeganStays DEF Moves, Began, Identity
    <3>2. QED
      BY <3>1, <2>1, <2>2 DEF Began
  <2>4. QED
    BY <2>2, <2>3
<1>5. QED
  BY <1>1, <1>2, <1>3, <1>4 DEF Recorded

\* A checkpoint is only ever written for a batch that has been committed.
LEMMA SavedStep ==
  ASSUME TypeOK, \A w \in Runners : Placed(w) /\ Committed(w),
         \A i \in Runs : Recorded(i) /\ Saved(i), [Next]_vars, NEW i \in Runs
  PROVE  Saved(i)'
<1>a. TableTypes /\ RunnerTypes
  BY DEF TypeOK
<1>1. CASE ~Began(i) /\ ckpt'[i] = ckpt[i]
  BY <1>1 DEF Recorded, Saved, Done
<1>2. CASE Began(i) /\ ckpt'[i] = ckpt[i]
  BY <1>2, DoneStays DEF Saved, Done, DoneAfter
<1>3. CASE ckpt'[i] # ckpt[i]
  <2>1. PICK w \in Runners : pc[w] = "mark" /\ ckpt' = [ckpt EXCEPT ![cur[w]] = at[w] + 1]
    BY <1>3, ZenonT(60)
       DEF vars, Next, Portal, Process, Execute, Serve, RequestRun, ResumeCheck, ResumeInsert,
           RequestCancel, RequestAges, Claim, ClaimFails, SettlePoisoned, Gate, Acquire, Body,
           Work, Mark, Finish, FinishFails, Beat, Lapse, TakeoverRead, Takeover, Crash, Stop,
           Restart
  <2>2. cur[w] = i /\ Began(i) /\ ckpt'[i] = at[w] + 1 /\ Done(i, at[w] + 1)
    BY <2>1, <1>3 DEF Placed, Committed
  <2>3. QED
    BY <2>2, DoneStays DEF Saved, Done, DoneAfter
<1>4. QED
  BY <1>1, <1>2, <1>3

\* A runner that does not move has committed what it had, and still owns its run at
\* most.
LEMMA CommittedStays ==
  ASSUME TypeOK, \A w \in Runners : Placed(w), [Next]_vars, NEW v \in Runners, Committed(v),
         UNCHANGED <<pc[v], cur[v], at[v], final[v]>>
  PROVE  Committed(v)'
<1>1. CASE pc[v] \notin InBody \cup {"finish"}
  BY <1>1 DEF Committed, InBody
<1>2. CASE pc[v] \in InBody \cup {"finish"}
  <2>1. cur[v] \in Runs /\ Began(cur[v])
    BY <1>2 DEF Placed, InBody
  <2>2. Owned(v)' => Owned(v)
    BY <2>1, RunsMove DEF Owned, Moves, Began
  <2>3. \A n : Done(cur[v], n) => DoneAfter(cur[v], n)
    BY <2>1, DoneStays
  <2>4. QED
    BY <2>2, <2>3 DEF Committed, Done, DoneAfter
<1>3. QED
  BY <1>1, <1>2

\* A runner in its body has committed every batch up to the one it is at, and one
\* that is about to record success, under its lease, all of them.
LEMMA CommittedStep ==
  ASSUME TypeOK, \A w \in Runners : Placed(w) /\ Committed(w),
         \A i \in Runs : Recorded(i) /\ Saved(i), [Next]_vars, NEW v \in Runners
  PROVE  Committed(v)'
<1>a. TableTypes /\ RunnerTypes /\ HistoryTypes
  BY DEF TypeOK
<1>1. \/ UNCHANGED <<pc[v], cur[v], at[v], final[v]>>
      \/ pc'[v] \in {"idle", "gate", "takeover"}
      \/ Gate(v) \/ Acquire(v) \/ Body(v) \/ Work(v) \/ Mark(v)
  <2>1. CASE \E w \in Runners : Gate(w) \/ Acquire(w) \/ Body(w) \/ Work(w) \/ Mark(w)
    BY <2>1, <1>a DEF Gate, Acquire, Body, Work, Mark, Conclude, Reset, Goto, RunnerTypes
  <2>2. CASE \E w \in Runners : \/ Claim(w) \/ TakeoverRead(w) \/ Takeover(w) \/ Finish(w)
                                 \/ FinishFails(w) \/ Crash(w)
    BY <2>2, <1>a
       DEF Claim, EndUnclaimed, TakeoverRead, Takeover, Finish, FinishFails, Crash, Reset, Goto,
           RunnerTypes
  <2>3. CASE UNCHANGED <<pc, cur, at, final>>
    BY <2>3
  <2>4. QED
    BY <2>1, <2>2, <2>3
       DEF vars, runner, Next, Portal, Process, Execute, Serve, RequestRun, ResumeCheck,
           ResumeInsert, RequestCancel, RequestAges, ClaimFails, SettlePoisoned, Beat, Lapse,
           Stop, Restart
<1>2. CASE UNCHANGED <<pc[v], cur[v], at[v], final[v]>>
  BY <1>2, CommittedStays
<1>3. CASE pc'[v] \in {"idle", "gate", "takeover"}
  BY <1>3 DEF Committed, InBody
<1>4. ASSUME pc[v] \in Executing
      PROVE  cur[v] \in Runs /\ Began(cur[v]) /\ \A n : Done(cur[v], n) => DoneAfter(cur[v], n)
  BY <1>4, DoneStays DEF Placed, Executing, InBody
<1>5. CASE Gate(v)
  BY <1>5, <1>a DEF Gate, Conclude, Goto, RunnerTypes, Committed, InBody
<1>6. CASE Acquire(v)
  <2>1. CASE pc'[v] # "body"
    BY <1>6, <2>1, <1>a DEF Acquire, Conclude, Reset, Goto, RunnerTypes, Committed, InBody
  <2>2. CASE pc'[v] = "body"
    <3>1. at'[v] = StartAt(cur[v]) /\ cur'[v] = cur[v]
      BY <1>6, <2>2, <1>a DEF Acquire, Conclude, Reset, Goto, RunnerTypes
    <3>2. Done(cur[v], StartAt(cur[v]))
      <4>1. CASE resumes[cur[v]] = None
        BY <4>1 DEF Done, StartAt
      <4>2. CASE resumes[cur[v]] # None
        <5>1. cur[v] \in Runs
          BY <1>4, <1>6 DEF Acquire, Executing
        <5>2. resumes[cur[v]] \in Runs /\ root[cur[v]] = root[resumes[cur[v]]]
          BY <4>2, <5>1, <1>a DEF TableTypes, Recorded
        <5>3. Done(resumes[cur[v]], ckpt[resumes[cur[v]]])
          BY <5>2 DEF Saved
        <5>4. QED
          BY <4>2, <5>2, <5>3 DEF Done, StartAt
      <4>3. QED
        BY <4>1, <4>2
    <3>3. DoneAfter(cur[v], StartAt(cur[v]))
      BY <3>2, <1>4, <1>6 DEF Acquire, Executing
    <3>4. QED
      BY <2>2, <3>1, <3>3 DEF Committed, Done, DoneAfter
  <2>3. QED
    BY <2>1, <2>2
<1>7. CASE Body(v)
  <2>1. Done(cur[v], at[v]) /\ DoneAfter(cur[v], at[v])
    BY <1>4, <1>7 DEF Body, Executing, InBody, Committed
  <2>2. CASE pc'[v] = "work"
    BY <1>7, <2>1, <2>2 DEF Body, Conclude, Committed, Done, DoneAfter
  <2>3. CASE Conclude(v, Outcome(v)) /\ lost[v]
    BY <2>3, <1>a, PlacedStep DEF Conclude, Goto, RunnerTypes, Committed, Placed, InBody
  <2>4. CASE Conclude(v, Outcome(v)) /\ ~lost[v]
    BY <2>4, <1>a DEF Conclude, Goto, RunnerTypes, Committed, Outcome, InBody
  <2>5. CASE Conclude(v, "succeeded") /\ at[v] = Batches
    BY <2>1, <2>5, <1>a DEF Conclude, Goto, RunnerTypes, Committed, Done, DoneAfter
  <2>6. CASE \E s \in Declined : Conclude(v, s)
    BY <2>6, <1>a DEF Declined, Conclude, Goto, RunnerTypes, Committed, InBody
  <2>7. QED
    BY <1>7, <2>2, <2>3, <2>4, <2>5, <2>6, <1>a DEF Body, Goto, RunnerTypes
<1>8. CASE Work(v)
  <2>1. CASE \E s \in Declined : Conclude(v, s)
    BY <2>1, <1>a DEF Declined, Conclude, Goto, RunnerTypes, Committed, InBody
  <2>2. CASE /\ committed' = [committed EXCEPT ![root[cur[v]]] = @ \cup {at[v] + 1}]
             /\ Goto(v, "mark") /\ UNCHANGED <<cur, at>>
    <3>1. DoneAfter(cur[v], at[v])
      BY <1>4, <1>8 DEF Work, Executing, InBody, Committed
    <3>2. at[v] + 1 \in committed'[root[cur[v]]] /\ UNCHANGED root
      BY <1>4, <1>8, <2>2, <1>a DEF Work, history, Executing, InBody, TableTypes, HistoryTypes
    <3>3. DoneAfter(cur[v], at[v] + 1)
      BY <3>1, <3>2, <1>a DEF DoneAfter, RunnerTypes
    <3>4. QED
      BY <2>2, <3>3, <1>a DEF Goto, RunnerTypes, Committed, Done, DoneAfter
  <2>3. QED
    BY <1>8, <2>1, <2>2 DEF Work
<1>9. CASE Mark(v)
  <2>1. Done(cur[v], at[v] + 1) /\ DoneAfter(cur[v], at[v] + 1)
    BY <1>4, <1>9 DEF Mark, Executing, InBody, Committed
  <2>2. QED
    BY <1>9, <2>1, <1>a DEF Mark, Reset, Goto, RunnerTypes, Committed, Done, DoneAfter
<1>10. QED
  BY <1>1, <1>2, <1>3, <1>5, <1>6, <1>7, <1>8, <1>9

-----------------------------------------------------------------------------
(* What is recorded of a run's end.                                        *)

Rows(i) == IF state[i] \in TerminalStates /\ ~Quarantined(i) THEN 1 ELSE 0

\* The row task.run.finished is written with the end of a run, and never again.
LEMMA EndedStep ==
  ASSUME TypeOK, \A w \in Runners : Placed(w), \A i \in Runs : Recorded(i),
         EndedOnce, [Next]_vars, NEW i \in Runs
  PROVE  ended'[i] = Rows(i)'
<1>a. TableTypes /\ RunnerTypes /\ HistoryTypes
  BY DEF TypeOK
<1>b. ended[i] = Rows(i)
  BY DEF EndedOnce, Rows
<1>c. UNCHANGED <<state[i], request[i], ended[i]>> => ended'[i] = Rows(i)'
  BY <1>b DEF Rows, Quarantined
<1>1. ASSUME NEW t \in Tasks, RequestRun(t) PROVE ended'[i] = Rows(i)'
  <2>1. PICK j \in Runs : Insert(j, t, "ok", None) \/ Insert(j, t, "unsigned", None)
    BY <1>1 DEF RequestRun
  <2>2. QED
    BY <2>1, <1>a, <1>b
       DEF Insert, Unused, TableTypes, Rows, Quarantined, TerminalStates, ResumableStates
<1>2. ASSUME NEW a \in Admins, NEW p \in Runs, ResumeCheck(a, p) PROVE ended'[i] = Rows(i)'
  BY <1>2, <1>c DEF ResumeCheck, db, history
<1>3. ASSUME NEW a \in Admins, ResumeInsert(a) PROVE ended'[i] = Rows(i)'
  BY <1>3, <1>b
     DEF ResumeInsert, Insert, Unused, Rows, Quarantined, TerminalStates, ResumableStates
<1>4. ASSUME NEW k \in Runs, RequestCancel(k) PROVE ended'[i] = Rows(i)'
  BY <1>4, <1>c DEF RequestCancel, db, history
<1>5. ASSUME NEW k \in Runs, RequestAges(k) PROVE ended'[i] = Rows(i)'
  BY <1>5, <1>a, <1>b DEF RequestAges, history, TableTypes, Rows, Quarantined
<1>6. ASSUME NEW w \in Runners, Claim(w) PROVE ended'[i] = Rows(i)'
  BY <1>6, <1>a, <1>b
     DEF Claim, Oldest, Claimable, EndUnclaimed, TableTypes, HistoryTypes, Rows, Quarantined,
         TerminalStates, ResumableStates
<1>7. ASSUME NEW w \in Runners, ClaimFails(w) PROVE ended'[i] = Rows(i)'
  BY <1>7, <1>c DEF ClaimFails, db, history
<1>8. ASSUME NEW w \in Runners, SettlePoisoned(w) PROVE ended'[i] = Rows(i)'
  BY <1>8, <1>a, <1>b
     DEF SettlePoisoned, Poisoned, TableTypes, HistoryTypes, Rows, Quarantined,
         TerminalStates, ResumableStates
<1>9. ASSUME NEW w \in Runners, Gate(w) PROVE ended'[i] = Rows(i)'
  BY <1>9, <1>c DEF Gate, db, history
<1>10. ASSUME NEW w \in Runners, Acquire(w) PROVE ended'[i] = Rows(i)'
  BY <1>10, <1>c DEF Acquire, db, history
<1>11. ASSUME NEW w \in Runners, Body(w) PROVE ended'[i] = Rows(i)'
  BY <1>11, <1>c DEF Body, db, history
<1>12. ASSUME NEW w \in Runners, Work(w) PROVE ended'[i] = Rows(i)'
  BY <1>12, <1>c DEF Work, db, history
<1>13. ASSUME NEW w \in Runners, Mark(w) PROVE ended'[i] = Rows(i)'
  BY <1>13, <1>c DEF Mark, db, history
<1>14. ASSUME NEW w \in Runners, Finish(w) PROVE ended'[i] = Rows(i)'
  BY <1>14, <1>a, <1>b
     DEF Finish, Owned, Placed, Recorded, TableTypes, HistoryTypes, Rows, Quarantined,
         TerminalStates, ResumableStates
<1>15. ASSUME NEW w \in Runners, FinishFails(w) PROVE ended'[i] = Rows(i)'
  BY <1>15, <1>c DEF FinishFails, db, history
<1>16. ASSUME NEW w \in Runners, Beat(w) PROVE ended'[i] = Rows(i)'
  BY <1>16, <1>c DEF Beat, db, history
<1>17. ASSUME NEW k \in Runs, Lapse(k) PROVE ended'[i] = Rows(i)'
  BY <1>17, <1>c DEF Lapse, db, history
<1>18. ASSUME NEW w \in Runners, TakeoverRead(w) PROVE ended'[i] = Rows(i)'
  BY <1>18, <1>c DEF TakeoverRead, db, history
<1>19. ASSUME NEW w \in Runners, Takeover(w) PROVE ended'[i] = Rows(i)'
  BY <1>19, <1>a, <1>b
     DEF Takeover, TableTypes, HistoryTypes, Rows, Quarantined, TerminalStates,
         ResumableStates
<1>20. ASSUME NEW w \in Runners, Crash(w) PROVE ended'[i] = Rows(i)'
  BY <1>20, <1>c DEF Crash, db, history
<1>21. ASSUME NEW w \in Runners, Stop(w) PROVE ended'[i] = Rows(i)'
  BY <1>21, <1>c DEF Stop, db, history
<1>22. ASSUME NEW w \in Runners, Restart(w) PROVE ended'[i] = Rows(i)'
  BY <1>22, <1>c DEF Restart, db, history
<1>23. CASE UNCHANGED vars
  BY <1>23, <1>c DEF vars, db, history
<1>24. QED
  BY <1>1, <1>2, <1>3, <1>4, <1>5, <1>6, <1>7, <1>8, <1>9, <1>10, <1>11, <1>12, <1>13,
     <1>14, <1>15, <1>16, <1>17, <1>18, <1>19, <1>20, <1>21, <1>22, <1>23
     DEF Next, Portal, Process, Execute, Serve

\* A run that was cancelled while it was queued is never started.
LEMMA CancelledStep ==
  ASSUME TypeOK, \A i \in Runs : Recorded(i), CancelledBeforeStart, [Next]_vars
  PROVE  CancelledBeforeStart'
<1>a. TableTypes /\ HistoryTypes
  BY DEF TypeOK
<1>1. \/ UNCHANGED <<early, started>>
      \/ \E k \in Runs : /\ early' = [early EXCEPT ![k] = state[k] = "queued"]
                         /\ UNCHANGED started
      \/ \E k \in Runs : /\ ~cancel[k] /\ started' = [started EXCEPT ![k] = @ + 1]
                         /\ UNCHANGED early
  <2>1. CASE \E w \in Runners : Claim(w)
    BY <2>1 DEF Claim, EndUnclaimed, Admitted
  <2>2. CASE \E k \in Runs : RequestCancel(k)
    BY <2>2 DEF RequestCancel
  <2>3. CASE ~(\E w \in Runners : Claim(w)) /\ ~(\E k \in Runs : RequestCancel(k))
    BY <2>3, ZenonT(60)
       DEF vars, history, Next, Portal, Process, Execute, Serve, RequestRun, ResumeCheck,
           ResumeInsert, RequestAges, ClaimFails, SettlePoisoned, Gate, Acquire, Body, Work,
           Mark, Finish, FinishFails, Beat, Lapse, TakeoverRead, Takeover, Crash, Stop, Restart,
           Insert
  <2>4. QED
    BY <2>1, <2>2, <2>3
<1>2. ASSUME NEW k \in Runs, early' = [early EXCEPT ![k] = state[k] = "queued"],
             UNCHANGED started
      PROVE  CancelledBeforeStart'
  <2>1. \A i \in Runs : early'[i] => early[i] \/ state[i] = "queued"
    BY <1>2, <1>a DEF HistoryTypes
  <2>2. QED
    BY <2>1, <1>2 DEF CancelledBeforeStart, Recorded, Began
<1>3. ASSUME NEW k \in Runs, ~cancel[k], started' = [started EXCEPT ![k] = @ + 1],
             UNCHANGED early
      PROVE  CancelledBeforeStart'
  BY <1>3, <1>a DEF CancelledBeforeStart, Recorded, HistoryTypes
<1>4. QED
  BY <1>1, <1>2, <1>3 DEF CancelledBeforeStart

\* Success is recorded by a runner that has every batch behind it.
LEMMA SucceededStep ==
  ASSUME TypeOK, \A w \in Runners : Placed(w) /\ Committed(w), SucceededIsComplete,
         [Next]_vars
  PROVE  SucceededIsComplete'
<1>1. ASSUME NEW i \in Runs, state'[i] = "succeeded" PROVE committed'[root'[i]] = 1 .. Batches
  <2>1. Began(i) /\ Done(i, Batches)
    BY <1>1, RunsMove DEF Moves, Began, Owned, SucceededIsComplete, Committed, Done
  <2>2. root'[i] \in Runs /\ committed'[root'[i]] \subseteq 1 .. Batches
    BY TypeStep DEF TypeOK, TableTypes, HistoryTypes
  <2>3. QED
    BY <2>1, <2>2, DoneStays DEF DoneAfter
<1>2. QED
  BY <1>1 DEF SucceededIsComplete

-----------------------------------------------------------------------------
(* The inductive invariant, and what it shows.                             *)

RunnerInduction ==
  /\ TypeOK
  /\ RunnerInv
  /\ NoOrphanLocks
  /\ EndedOnce
  /\ CancelledBeforeStart
  /\ SucceededIsComplete

\* Nothing has been requested yet.
LEMMA InductionInit == Init => RunnerInduction
<1> SUFFICES ASSUME Init PROVE RunnerInduction
  OBVIOUS
<1>1. TypeOK
  <2>1. (CHOOSE t \in Tasks : TRUE) \in Tasks
    OBVIOUS
  <2>2. TableTypes
    BY <2>1 DEF Init, TableTypes
  <2>3. RunnerTypes
    BY DEF Init, RunnerTypes, Pcs
  <2>4. HistoryTypes
    BY DEF Init, HistoryTypes
  <2>5. QED
    BY <2>2, <2>3, <2>4 DEF TypeOK
<1>2. RunnerInv
  BY DEF Init, RunnerInv, Placed, LockedBody, Committed, Recorded, Saved, Done, InBody
<1>3. NoOrphanLocks /\ EndedOnce /\ CancelledBeforeStart /\ SucceededIsComplete
  BY DEF Init, NoOrphanLocks, EndedOnce, CancelledBeforeStart, SucceededIsComplete,
         TerminalStates, ResumableStates
<1>4. QED
  BY <1>1, <1>2, <1>3 DEF RunnerInduction

\* Each part of the invariant is kept by the lemma about it.
LEMMA InductionStep == RunnerInduction /\ [Next]_vars => RunnerInduction'
<1> SUFFICES ASSUME RunnerInduction, [Next]_vars PROVE RunnerInduction'
  OBVIOUS
<1>1. /\ TypeOK /\ Asks
      /\ \A w \in Runners : Placed(w) /\ LockedBody(w) /\ Committed(w)
      /\ \A i \in Runs : Recorded(i) /\ Saved(i)
  BY DEF RunnerInduction, RunnerInv, Asks
<1>2. NoOrphanLocks /\ EndedOnce /\ CancelledBeforeStart /\ SucceededIsComplete
  BY DEF RunnerInduction
<1>3. TypeOK'
  BY <1>1, TypeStep
<1>4. NoOrphanLocks' /\ \A w \in Runners : LockedBody(w)'
  BY <1>1, <1>2, LocksStep
<1>5. \A w \in Runners : Placed(w)'
  BY <1>1, PlacedStep
<1>6. \A w \in Runners : Committed(w)'
  BY <1>1, CommittedStep
<1>7. \A i \in Runs : Recorded(i)'
  BY <1>1, RecordedStep
<1>8. \A i \in Runs : Saved(i)'
  BY <1>1, SavedStep
<1>9. Asks'
  BY <1>1, AsksStep
<1>10. RunnerInv'
  BY <1>4, <1>5, <1>6, <1>7, <1>8, <1>9 DEF RunnerInv, Asks
<1>11. EndedOnce'
  BY <1>1, <1>2, EndedStep DEF EndedOnce, Rows
<1>12. CancelledBeforeStart' /\ SucceededIsComplete'
  BY <1>1, <1>2, CancelledStep, SucceededStep
<1>13. QED
  BY <1>3, <1>4, <1>10, <1>11, <1>12 DEF RunnerInduction

\* The inductive invariant of the task runner holds in every reachable state.
THEOREM RunnerInvariance == Spec => []RunnerInduction
BY InductionInit, InductionStep, PTL DEF Spec

\* Runners, their locks, checkpoints and records fit together after every step, also
\* those of a runner that was taken over and does not know it yet.
THEOREM RunnersFit == Spec => []RunnerInv
<1>1. RunnerInduction => RunnerInv
  BY DEF RunnerInduction
<1>2. QED
  BY <1>1, RunnerInvariance, PTL

\* Every variable keeps its type: attempts, retries, batches and troubles stay within
\* the bounds of the code, whatever fails.
THEOREM TasksTypeCorrect == Spec => []TypeOK
BY RunnerInvariance, PTL DEF RunnerInduction

\* No lock outlives the run that holds it: finish, takeover and the clearing of
\* stale locks by the next runner never leave a task refused for ever.
THEOREM LocksDieWithTheirRun == Spec => []NoOrphanLocks
BY RunnerInvariance, PTL DEF RunnerInduction

\* Bodies that hold their locks under their leases do not conflict.
LEMMA OwnedBodiesExclude == RunnerInduction => ExclusiveLeases
<1>1. ASSUME RunnerInduction, NEW v \in Runners, NEW w \in Runners,
             pc[v] \in InBody, pc[w] \in InBody, Owned(v), Owned(w),
             Conflict(cur[v], cur[w])
      PROVE  v = w
  <2>1. Holds(v) /\ Holds(w)
    BY <1>1 DEF RunnerInduction, RunnerInv, LockedBody
  <2>2. cur[v] = cur[w]
    BY <1>1, <2>1 DEF Holds, Conflict
  <2>3. QED
    BY <1>1, <2>2 DEF Owned
<1>2. QED
  BY <1>1 DEF ExclusiveLeases

\* With slow runners, crashes and takeovers of any number, two bodies that share a
\* task, a resource or the mutating lock never both hold their lease.
THEOREM LeasesExclude == Spec => []ExclusiveLeases
BY OwnedBodiesExclude, RunnerInvariance, PTL

\* Each end of a run is audited once, whoever ended it.
THEOREM EndsAreAudited == Spec => []EndedOnce
BY RunnerInvariance, PTL DEF RunnerInduction

\* A run cancelled in the queue never starts, however claims, failures and
\* takeovers interleave with the request.
THEOREM CancelIsHonoured == Spec => []CancelledBeforeStart
BY RunnerInvariance, PTL DEF RunnerInduction

\* A run that says it succeeded has every batch committed, by itself or by the
\* chain of runs it resumes.
THEOREM SuccessIsComplete == Spec => []SucceededIsComplete
BY RunnerInvariance, PTL DEF RunnerInduction

\* No late finish, takeover, claim or resume changes how a run ended.
THEOREM EndsAreFinal == Spec => EndIsFinal
<1>1. RunnerInduction /\ [Next]_vars
      => [\A i \in Runs : state[i] \in TerminalStates => state'[i] = state[i]]_vars
  BY RunsMove DEF RunnerInduction, RunnerInv, Moves
<1>2. QED
  BY <1>1, RunnerInvariance, PTL DEF Spec, EndIsFinal

-----------------------------------------------------------------------------
(* Runners that are never slow.                                            *)

Lives(w) == pc[w] \in Executing => Owned(w) /\ fresh[cur[w]]

\* A runner whose run neither ends nor goes stale keeps it.
LEMMA LivesStays ==
  ASSUME TypeOK, NEW v \in Runners, Placed(v), Lives(v), \A i \in Runs : Moves(i),
         UNCHANGED cur[v], pc'[v] \in Executing => pc[v] \in Executing,
         pc[v] \in Executing =>
           UNCHANGED <<state[cur[v]], fresh[cur[v]]>>
  PROVE  Lives(v)'
<1>1. CASE pc[v] \in Executing
  <2>1. cur[v] \in Runs /\ Moves(cur[v]) /\ Began(cur[v])
    BY <1>1 DEF Placed, Executing, InBody
  <2>2. QED
    BY <2>1 DEF Lives, Owned, Moves
<1>2. CASE pc[v] \notin Executing
  BY <1>2 DEF Lives
<1>3. QED
  BY <1>1, <1>2

\* Where a lease lapses only under a dead runner, a live one keeps its lease until
\* it has recorded the end.
LEMMA LivesStep ==
  ASSUME ~SlowRunners, TypeOK, \A w \in Runners : Placed(w) /\ Lives(w), [Next]_vars,
         NEW v \in Runners
  PROVE  Lives(v)'
<1>a. TableTypes /\ RunnerTypes /\ HistoryTypes
  BY DEF TypeOK
<1>b. \A i \in Runs : Moves(i)
  BY RunsMove
<1>c. /\ UNCHANGED cur[v]
      /\ pc'[v] \in Executing => pc[v] \in Executing
      /\ pc[v] \in Executing => UNCHANGED <<state[cur[v]], fresh[cur[v]]>>
      => Lives(v)'
  BY <1>b, LivesStays
<1>d. pc[v] \in Executing => /\ cur[v] \in Runs /\ state[cur[v]] = "running"
                             /\ fresh[cur[v]] /\ owner[cur[v]] = v
  BY DEF Lives, Owned, Placed, Executing, InBody
<1>1. ASSUME NEW t \in Tasks, RequestRun(t) PROVE Lives(v)'
  <2>1. PICK j \in Runs : Insert(j, t, "ok", None) \/ Insert(j, t, "unsigned", None)
    BY <1>1 DEF RequestRun
  <2>2. UNCHANGED runner
    BY <1>1 DEF RequestRun
  <2>3. QED
    BY <2>1, <2>2, <1>a, <1>c, <1>d DEF Insert, Unused, runner, TableTypes
<1>2. ASSUME NEW a \in Admins, NEW p \in Runs, ResumeCheck(a, p) PROVE Lives(v)'
  BY <1>2, <1>c DEF ResumeCheck, db, runner
<1>3. ASSUME NEW a \in Admins, ResumeInsert(a) PROVE Lives(v)'
  BY <1>3, <1>c, <1>d DEF ResumeInsert, Insert, Unused, runner
<1>4. ASSUME NEW k \in Runs, RequestCancel(k) PROVE Lives(v)'
  BY <1>4, <1>c DEF RequestCancel, runner
<1>5. ASSUME NEW k \in Runs, RequestAges(k) PROVE Lives(v)'
  BY <1>5, <1>c DEF RequestAges, runner
<1>6. ASSUME NEW w \in Runners, Claim(w) PROVE Lives(v)'
  <2>1. PICK k \in Runs :
          /\ state[k] = "queued" /\ \A j \in Runs \ {k} : state'[j] = state[j]
          /\ \/ UNCHANGED <<pc, cur, fresh>>
             \/ /\ state'[k] = "running" /\ owner'[k] = w
                /\ fresh' = [fresh EXCEPT ![k] = TRUE]
                /\ pc' = [pc EXCEPT ![w] = "gate"] /\ cur' = [cur EXCEPT ![w] = k]
    BY <1>6, <1>a DEF Claim, Oldest, Claimable, EndUnclaimed, Goto, TableTypes
  <2>2. CASE v # w
    BY <2>1, <2>2, <1>a, <1>c, <1>d DEF TableTypes, RunnerTypes
  <2>3. CASE v = w /\ UNCHANGED <<pc, cur, fresh>>
    BY <2>1, <2>3, <1>c, <1>d
  <2>4. CASE v = w /\ ~UNCHANGED <<pc, cur, fresh>>
    BY <2>1, <2>4, <1>a DEF TableTypes, RunnerTypes, Lives, Owned
  <2>5. QED
    BY <2>2, <2>3, <2>4
<1>7. ASSUME NEW w \in Runners, ClaimFails(w) PROVE Lives(v)'
  BY <1>7, <1>c DEF ClaimFails, runner
<1>8. ASSUME NEW w \in Runners, SettlePoisoned(w) PROVE Lives(v)'
  BY <1>8, <1>c, <1>d DEF SettlePoisoned, runner, Poisoned
<1>9. ASSUME NEW w \in Runners, Gate(w) PROVE Lives(v)'
  <2>1. CASE pc'[v] \in Executing
    BY <1>9, <1>a, <1>c DEF Gate, db, Goto, Conclude, RunnerTypes, Executing
  <2>2. CASE pc'[v] \notin Executing
    BY <2>2 DEF Lives
  <2>3. QED
    BY <2>1, <2>2
<1>10. ASSUME NEW w \in Runners, Acquire(w) PROVE Lives(v)'
  <2>1. CASE pc'[v] \in Executing
    BY <2>1, <1>10, <1>a, <1>c
       DEF Acquire, db, Goto, Reset, Conclude, RunnerTypes, Executing, InBody
  <2>2. CASE pc'[v] \notin Executing
    BY <2>2 DEF Lives
  <2>3. QED
    BY <2>1, <2>2
<1>11. ASSUME NEW w \in Runners, Body(w) PROVE Lives(v)'
  <2>1. CASE pc'[v] \in Executing
    BY <1>11, <1>a, <1>c DEF Body, db, Goto, Conclude, RunnerTypes, Executing, InBody
  <2>2. CASE pc'[v] \notin Executing
    BY <2>2 DEF Lives
  <2>3. QED
    BY <2>1, <2>2
<1>12. ASSUME NEW w \in Runners, Work(w) PROVE Lives(v)'
  <2>1. CASE pc'[v] \in Executing
    BY <1>12, <1>a, <1>c DEF Work, db, Goto, Conclude, RunnerTypes, Executing, InBody
  <2>2. CASE pc'[v] \notin Executing
    BY <2>2 DEF Lives
  <2>3. QED
    BY <2>1, <2>2
<1>13. ASSUME NEW w \in Runners, Mark(w) PROVE Lives(v)'
  <2>1. CASE pc'[v] \in Executing
    BY <2>1, <1>13, <1>a, <1>c DEF Mark, db, Goto, Reset, RunnerTypes, Executing, InBody
  <2>2. CASE pc'[v] \notin Executing
    BY <2>2 DEF Lives
  <2>3. QED
    BY <2>1, <2>2
<1>14. ASSUME NEW w \in Runners, Finish(w) PROVE Lives(v)'
  <2>1. CASE v # w
    BY <2>1, <1>14, <1>a, <1>c, <1>d DEF Finish, Owned, Reset, Goto, TableTypes
  <2>2. CASE v = w
    BY <2>2, <1>14, <1>a DEF Finish, Reset, Goto, RunnerTypes, Lives, Executing, InBody
  <2>3. QED
    BY <2>1, <2>2
<1>15. ASSUME NEW w \in Runners, FinishFails(w) PROVE Lives(v)'
  <2>1. CASE pc'[v] \in Executing
    BY <2>1, <1>15, <1>a, <1>c DEF FinishFails, db, Goto, Reset, RunnerTypes, Executing, InBody
  <2>2. CASE pc'[v] \notin Executing
    BY <2>2 DEF Lives
  <2>3. QED
    BY <2>1, <2>2
<1>16. ASSUME NEW w \in Runners, Beat(w) PROVE Lives(v)'
  BY <1>16, <1>a, <1>c, <1>d DEF Beat, TableTypes
<1>17. ASSUME NEW k \in Runs, Lapse(k) PROVE Lives(v)'
  BY <1>17, <1>a, <1>c, <1>d DEF Lapse, runner, Executes, TableTypes
<1>18. ASSUME NEW w \in Runners, TakeoverRead(w) PROVE Lives(v)'
  <2>1. CASE v # w
    BY <2>1, <1>18, <1>c DEF TakeoverRead, db, Goto
  <2>2. CASE v = w
    BY <2>2, <1>18 DEF TakeoverRead, Goto, Lives, Executing, InBody
  <2>3. QED
    BY <2>1, <2>2
<1>19. ASSUME NEW w \in Runners, Takeover(w) PROVE Lives(v)'
  <2>1. CASE v # w
    BY <2>1, <1>19, <1>a, <1>c, <1>d DEF Takeover, Reset, Goto, TableTypes
  <2>2. CASE v = w
    BY <2>2, <1>19 DEF Takeover, Reset, Goto, Lives, Executing, InBody
  <2>3. QED
    BY <2>1, <2>2
<1>20. ASSUME NEW w \in Runners, Crash(w) PROVE Lives(v)'
  <2>1. CASE pc'[v] \in Executing
    BY <2>1, <1>20, <1>a, <1>c DEF Crash, db, Goto, Reset, RunnerTypes, Executing, InBody
  <2>2. CASE pc'[v] \notin Executing
    BY <2>2 DEF Lives
  <2>3. QED
    BY <2>1, <2>2
<1>21. ASSUME NEW w \in Runners, Stop(w) PROVE Lives(v)'
  BY <1>21, <1>c DEF Stop, db
<1>22. ASSUME NEW w \in Runners, Restart(w) PROVE Lives(v)'
  BY <1>22, <1>c DEF Restart, db
<1>23. CASE UNCHANGED vars
  BY <1>23, <1>c DEF vars, db, runner
<1>24. QED
  BY <1>1, <1>2, <1>3, <1>4, <1>5, <1>6, <1>7, <1>8, <1>9, <1>10, <1>11, <1>12, <1>13,
     <1>14, <1>15, <1>16, <1>17, <1>18, <1>19, <1>20, <1>21, <1>22, <1>23
     DEF Next, Portal, Process, Execute, Serve

\* Where only dead runners lose a lease, two bodies that share a lock do not even
\* overlap: a taken-over run has no body left anywhere.
THEOREM BodiesExclude ==
  ASSUME ~SlowRunners PROVE Spec => []ExclusiveBodies
<1>1. Init => \A w \in Runners : Lives(w)
  BY DEF Init, Lives, Executing, InBody
<1>2. RunnerInduction /\ (\A w \in Runners : Lives(w)) /\ [Next]_vars
      => (\A w \in Runners : Lives(w))'
  BY LivesStep DEF RunnerInduction, RunnerInv
<1>3. RunnerInduction /\ (\A w \in Runners : Lives(w)) => ExclusiveBodies
  BY OwnedBodiesExclude DEF Lives, ExclusiveBodies, ExclusiveLeases, Executing
<1>4. QED
  BY <1>1, <1>2, <1>3, RunnerInvariance, PTL DEF Spec

-----------------------------------------------------------------------------
(* One admin at a time.                                                    *)

Counts(i) == state[i] \in ActiveStates \cup {"succeeded"}

\* A resume is of the task it goes on with, and while one of a task that is not safe
\* to replay counts, there is no other; none does when the portal is about to insert one.
ResumeInv ==
  /\ \A i \in Runs : resumes[i] # None => task[i] = task[resumes[i]]
  /\ \A i, j \in Runs :
       i # j /\ resumes[i] # None /\ resumes[i] = resumes[j] /\ Counts(i) /\ Counts(j)
         => task[i] \in Idempotent
  /\ \A a \in Admins, i \in Runs :
       asking[a] # None /\ resumes[i] = asking[a] /\ Counts(i) => task[i] \in Idempotent

\* What a step does to resumes: it inserts one run, or none and lets no run count
\* that did not.
LEMMA ResumesMove ==
  ASSUME TypeOK, \A w \in Runners : Placed(w), [Next]_vars
  PROVE  \/ /\ UNCHANGED <<task, resumes, asking>>
            /\ \A i \in Runs : Counts(i)' => Counts(i)
         \/ \E a \in Admins, p \in Runs : ResumeCheck(a, p)
         \/ \E a \in Admins : ResumeInsert(a)
         \/ \E t \in Tasks : RequestRun(t)
<1>a. TableTypes /\ RunnerTypes
  BY DEF TypeOK
<1>1. CASE UNCHANGED <<task, resumes, asking, state>>
  BY <1>1 DEF Counts
<1>2. ASSUME NEW w \in Runners, Claim(w) \/ SettlePoisoned(w)
      PROVE  UNCHANGED <<task, resumes, asking>> /\ \A i \in Runs : Counts(i)' => Counts(i)
  BY <1>2, <1>a
     DEF Claim, EndUnclaimed, Oldest, Claimable, SettlePoisoned, Counts, ActiveStates,
         TableTypes
<1>3. ASSUME NEW w \in Runners, Finish(w) \/ Takeover(w)
      PROVE  UNCHANGED <<task, resumes, asking>> /\ \A i \in Runs : Counts(i)' => Counts(i)
  BY <1>3, <1>a DEF Finish, Takeover, Owned, Counts, ActiveStates, TableTypes
<1>4. QED
  BY <1>1, <1>2, <1>3
     DEF vars, db, Next, Portal, Process, Execute, Serve, RequestCancel, RequestAges,
         ClaimFails, Gate, Acquire, Body, Work, Mark, FinishFails, Beat, Lapse, TakeoverRead,
         Crash, Stop, Restart

\* With one admin what the check of a resume saw still holds when it is inserted.
LEMMA ResumeStep ==
  ASSUME \A a, b \in Admins : a = b,
         TypeOK, \A w \in Runners : Placed(w), \A i \in Runs : Recorded(i),
         Asks, ResumeInv, [Next]_vars
  PROVE  ResumeInv'
<1>a. TableTypes /\ RunnerTypes /\ HistoryTypes
  BY DEF TypeOK
<1>b. \A i \in Runs : i # None
  BY DEF Runs, None
<1>1. CASE UNCHANGED <<task, resumes, asking>> /\ \A i \in Runs : Counts(i)' => Counts(i)
  BY <1>1 DEF ResumeInv
<1>2. ASSUME NEW a \in Admins, NEW p \in Runs, ResumeCheck(a, p) PROVE ResumeInv'
  <2>1. UNCHANGED <<state, task, resumes>> /\ asking' = [asking EXCEPT ![a] = p]
    BY <1>2 DEF ResumeCheck, db
  <2>2. \A i \in Runs : resumes[i] = p /\ Counts(i) => task[p] \in Idempotent
    BY <1>2 DEF ResumeCheck, Counts, Replayed
  <2>3. \A b \in Admins, i \in Runs :
          asking'[b] # None /\ resumes[i] = asking'[b] /\ Counts(i) => task[i] \in Idempotent
    BY <1>a, <1>b, <2>1, <2>2 DEF ResumeInv, HistoryTypes
  <2>4. QED
    BY <2>1, <2>3 DEF ResumeInv, Counts
<1>3. ASSUME NEW i \in Runs, NEW t \in Tasks, NEW kind, NEW p \in Runs \cup {None},
             Insert(i, t, kind, p), p # None => Began(p) /\ t = task[p],
             \/ p = None /\ UNCHANGED asking
             \/ /\ \A b \in Admins : asking'[b] = None
                /\ \A j \in Runs : resumes[j] = p /\ Counts(j) => task[j] \in Idempotent
      PROVE  ResumeInv'
  <2>1. /\ state[i] = "none" /\ task' = [task EXCEPT ![i] = t]
        /\ resumes' = [resumes EXCEPT ![i] = p] /\ state' = [state EXCEPT ![i] = "queued"]
    BY <1>3 DEF Insert, Unused
  <2>2. ASSUME NEW j \in Runs, resumes'[j] # None PROVE task'[j] = task'[resumes'[j]]
    <3>1. \A k \in Runs : Began(k) => k # i
      BY <2>1 DEF Began
    <3>2. QED
      BY <1>3, <1>a, <2>1, <2>2, <3>1 DEF ResumeInv, Recorded, TableTypes
  <2>3. ASSUME NEW j \in Runs, NEW k \in Runs, j # k, resumes'[j] # None,
               resumes'[j] = resumes'[k], Counts(j)', Counts(k)'
        PROVE  task'[j] \in Idempotent
    <3>1. CASE j # i /\ k # i
      BY <1>a, <2>1, <2>3, <3>1 DEF ResumeInv, Counts, TableTypes
    <3>2. CASE j = i
      <4>1. resumes[k] = p /\ p # None /\ Counts(k)
        BY <1>a, <2>1, <2>3, <3>2 DEF Counts, TableTypes
      <4>2. task[k] \in Idempotent /\ task[k] = task[p]
        BY <1>3, <4>1 DEF ResumeInv
      <4>3. QED
        BY <1>3, <1>a, <2>1, <3>2, <4>1, <4>2 DEF TableTypes
    <3>3. CASE k = i
      <4>1. resumes[j] = p /\ p # None /\ Counts(j) /\ j # i
        BY <1>a, <2>1, <2>3, <3>3 DEF Counts, TableTypes
      <4>2. QED
        BY <1>3, <1>a, <2>1, <4>1 DEF TableTypes
    <3>4. QED
      BY <3>1, <3>2, <3>3
  <2>4. ASSUME NEW b \in Admins, NEW j \in Runs, asking'[b] # None, resumes'[j] = asking'[b],
               Counts(j)'
        PROVE  task'[j] \in Idempotent
    <3>1. p = None /\ UNCHANGED asking
      BY <1>3, <2>4
    <3>2. j # i
      BY <1>a, <2>1, <2>4, <3>1 DEF TableTypes
    <3>3. resumes[j] = asking[b] /\ Counts(j) /\ task'[j] = task[j]
      BY <1>a, <2>1, <2>4, <3>1, <3>2 DEF Counts, TableTypes
    <3>4. QED
      BY <2>4, <3>1, <3>3 DEF ResumeInv
  <2>5. QED
    BY <2>2, <2>3, <2>4 DEF ResumeInv
<1>4. ASSUME NEW t \in Tasks, RequestRun(t) PROVE ResumeInv'
  <2>1. PICK i \in Runs, kind \in {"ok", "unsigned"} : Insert(i, t, kind, None)
    BY <1>4 DEF RequestRun
  <2>2. UNCHANGED asking
    BY <1>4 DEF RequestRun
  <2>3. QED
    BY <1>3, <2>1, <2>2
<1>5. ASSUME NEW a \in Admins, ResumeInsert(a) PROVE ResumeInv'
  <2>1. PICK i \in Runs : Insert(i, task[asking[a]], "ok", asking[a])
    BY <1>5 DEF ResumeInsert
  <2>2. asking[a] \in Runs /\ task[asking[a]] \in Tasks /\ Began(asking[a])
    BY <1>5, <1>a DEF ResumeInsert, Asks, TableTypes, HistoryTypes
  <2>3. \A b \in Admins : asking'[b] = None
    BY <1>5, <1>a DEF ResumeInsert, HistoryTypes
  <2>4. \A j \in Runs : resumes[j] = asking[a] /\ Counts(j) => task[j] \in Idempotent
    BY <1>5 DEF ResumeInsert, ResumeInv
  <2>5. QED
    BY <1>3, <2>1, <2>2, <2>3, <2>4
<1>6. QED
  BY <1>1, <1>2, <1>4, <1>5, ResumesMove

\* "A second resume of a run is refused once an earlier resume of it has succeeded"
\* (spec.py:134) holds as long as one admin at a time resumes: what is wrong in
\* finding 2 is the race of two requests between check and insert, and nothing else.
THEOREM OneAdminResumesOnce ==
  ASSUME \A a, b \in Admins : a = b
  PROVE  Spec => []ResumedOnce
<1>1. Init => ResumeInv
  BY DEF Init, ResumeInv, Counts, ActiveStates
<1>2. RunnerInduction /\ ResumeInv /\ [Next]_vars => ResumeInv'
  BY ResumeStep DEF RunnerInduction, RunnerInv, Asks
<1>3. ResumeInv => ResumedOnce
  BY DEF ResumeInv, ResumedOnce, Counts
<1>4. QED
  BY <1>1, <1>2, <1>3, RunnerInvariance, PTL DEF Spec
=============================================================================
