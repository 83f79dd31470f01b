---------------------------- MODULE RunLife_proofs ----------------------------
(***************************************************************************)
(* TaskRunner implements RunLife: a run lives as the portal tells it,      *)
(* however many runners execute, stall, die, take over and come back.      *)
(*                                                                         *)
(* A step of the tables is a Request, an AskCancel, a Begin, a TurnAway, a *)
(* Take, a Commit or an End, or changes nothing the portal shows.  What    *)
(* this needs beyond RunnerInduction is LifeInv: a runner that executes a  *)
(* run owns it or was taken over, what it is about to record is what it    *)
(* went through, and the portal resumes runs that ended.                   *)
(***************************************************************************)
EXTENDS TaskRunner_proofs

USE TaskAssumption

-----------------------------------------------------------------------------
(* What a step can do to a runner and its run.                             *)

Goes(v) ==
  pc'[v] \in Executing => Claim(v) \/ (pc[v] \in Executing /\ UNCHANGED cur[v])

\* A runner executes a run because it claimed it, and no other run after that.
LEMMA RunnersGo ==
  ASSUME TypeOK, [Next]_vars, NEW v \in Runners
  PROVE  Goes(v)
<1>a. RunnerTypes
  BY DEF TypeOK
<1>1. CASE \E w \in Runners : \/ Gate(w) \/ Acquire(w) \/ Body(w) \/ Work(w) \/ Mark(w)
                              \/ FinishFails(w) \/ Crash(w)
  BY <1>1, <1>a
     DEF Gate, Acquire, Body, Work, Mark, FinishFails, Crash, Conclude, Reset, Goto,
         RunnerTypes, Goes, Executing, InBody
<1>2. CASE \E w \in Runners : Finish(w) \/ TakeoverRead(w) \/ Takeover(w)
  BY <1>2, <1>a
     DEF Finish, TakeoverRead, Takeover, Reset, Goto, RunnerTypes, Goes, Executing, InBody
<1>3. CASE \E w \in Runners : Claim(w)
  BY <1>3, <1>a DEF Claim, EndUnclaimed, Goto, RunnerTypes, Goes
<1>4. CASE UNCHANGED <<pc, cur>>
  BY <1>4 DEF Goes
<1>5. QED
  BY <1>1, <1>2, <1>3, <1>4
     DEF vars, runner, Next, Portal, Process, Execute, Serve, RequestRun, ResumeCheck,
         ResumeInsert, RequestCancel, RequestAges, ClaimFails, SettlePoisoned, Beat, Lapse,
         Stop, Restart

Leaves(i) ==
  state[i] = "running" =>
    \/ state'[i] \in {"running", "interrupted"}
    \/ \E w \in Runners : pc[w] = "finish" /\ Owned(w) /\ cur[w] = i /\ pc'[w] = "idle"

\* A running run is ended by a takeover, or by the runner that owns it.
LEMMA RunsLeave ==
  ASSUME TypeOK, [Next]_vars, NEW i \in Runs
  PROVE  Leaves(i)
<1>a. TableTypes /\ RunnerTypes
  BY DEF TypeOK
<1>1. ASSUME NEW w \in Runners, Finish(w) PROVE Leaves(i)
  BY <1>1, <1>a DEF Finish, Reset, Goto, Leaves, TableTypes, RunnerTypes
<1>2. ASSUME NEW w \in Runners, Takeover(w) PROVE Leaves(i)
  BY <1>2, <1>a DEF Takeover, Leaves, TableTypes
<1>3. ASSUME NEW w \in Runners, Claim(w) \/ SettlePoisoned(w) PROVE Leaves(i)
  BY <1>3, <1>a DEF Claim, EndUnclaimed, SettlePoisoned, Poisoned, Oldest, Claimable, Leaves, TableTypes
<1>4. CASE (\E t \in Tasks : RequestRun(t)) \/ \E a \in Admins : ResumeInsert(a)
  BY <1>4, <1>a DEF RequestRun, ResumeInsert, Insert, Unused, Leaves, TableTypes
<1>5. CASE UNCHANGED state
  BY <1>5 DEF Leaves
<1>6. QED
  BY <1>1, <1>2, <1>3, <1>4, <1>5
     DEF vars, db, Next, Portal, Process, Execute, Serve, ResumeCheck, RequestCancel,
         RequestAges, ClaimFails, Gate, Acquire, Body, Work, Mark, FinishFails, Beat, Lapse,
         TakeoverRead, Crash, Stop, Restart

\* A runner that executes a run owns it, and if the run is over it was taken over.
LEMMA EngagedStep ==
  ASSUME TypeOK, \A w \in Runners : Placed(w) /\ Engaged(w), [Next]_vars, NEW v \in Runners
  PROVE  Engaged(v)'
<1>a. TableTypes /\ RunnerTypes
  BY DEF TypeOK
<1> SUFFICES ASSUME pc'[v] \in Executing
             PROVE  owner'[cur'[v]] = v /\ state'[cur'[v]] \in {"running", "interrupted"}
  BY DEF Engaged
<1>1. CASE Claim(v)
  <2>1. pc[v] = "idle"
    BY <1>1 DEF Claim
  <2>2. QED
    BY <1>1, <2>1, <1>a DEF Claim, EndUnclaimed, Goto, TableTypes, RunnerTypes, Executing, InBody
<1>2. CASE pc[v] \in Executing /\ UNCHANGED cur[v]
  <2>1. cur[v] \in Runs /\ Moves(cur[v]) /\ Leaves(cur[v]) /\ Began(cur[v])
    BY <1>2, RunsMove, RunsLeave DEF Placed, Executing, InBody
  <2>2. owner[cur[v]] = v /\ state[cur[v]] \in {"running", "interrupted"}
    BY <1>2 DEF Engaged
  <2>3. owner'[cur[v]] = v
    BY <2>1, <2>2 DEF Moves, Began
  <2>4. CASE state[cur[v]] = "interrupted"
    BY <1>2, <2>1, <2>3, <2>4 DEF Moves, TerminalStates, ResumableStates
  <2>5. CASE state[cur[v]] = "running"
    <3>1. ASSUME NEW w \in Runners, Owned(w), cur[w] = cur[v] PROVE w = v
      BY <2>2, <3>1 DEF Owned
    <3>2. state'[cur[v]] \in {"running", "interrupted"}
      BY <2>1, <2>5, <3>1 DEF Leaves, Executing, InBody
    <3>3. QED
      BY <1>2, <2>3, <3>2
  <2>6. QED
    BY <2>2, <2>4, <2>5
<1>3. QED
  BY <1>1, <1>2, RunnersGo DEF Goes

\* The portal resumes runs that ended and can be resumed, however late the insert.
LEMMA AskedStep ==
  ASSUME TypeOK, \A w \in Runners : Placed(w), [Next]_vars,
         \A a \in Admins : asking[a] # None =>
           state[asking[a]] \in ResumableStates /\ task[asking[a]] \in Resumable,
         NEW a \in Admins, asking'[a] # None
  PROVE  state'[asking'[a]] \in ResumableStates /\ task'[asking'[a]] \in Resumable
<1>a. HistoryTypes
  BY DEF TypeOK
<1>1. \/ UNCHANGED asking
      \/ \E b \in Admins, p \in Runs :
           /\ state[p] \in ResumableStates /\ task[p] \in Resumable
           /\ asking' = [asking EXCEPT ![b] = p]
      \/ \E b \in Admins : asking' = [asking EXCEPT ![b] = None]
  BY
     DEF vars, Next, Portal, Process, Execute, Serve, RequestRun, ResumeCheck, ResumeInsert,
         RequestCancel, RequestAges, Claim, ClaimFails, SettlePoisoned, Gate, Acquire, Body,
         Work, Mark, Finish, FinishFails, Beat, Lapse, TakeoverRead, Takeover, Crash, Stop,
         Restart
<1>2. /\ asking'[a] \in Runs
      /\ state[asking'[a]] \in ResumableStates /\ task[asking'[a]] \in Resumable
  BY <1>1, <1>a DEF HistoryTypes
<1>3. PICK p \in Runs : p = asking'[a]
  BY <1>2
<1>4. Moves(p) /\ state[p] \in ResumableStates /\ task[p] \in Resumable
  BY <1>2, <1>3, RunsMove
<1>5. state'[p] \in ResumableStates /\ task'[p] \in Resumable
  BY <1>4 DEF Moves, Began, Identity, TerminalStates, ResumableStates
<1>6. QED
  BY <1>3, <1>5

-----------------------------------------------------------------------------
(* What a runner is about to record.                                       *)

\* A run that keeps its lease keeps its locks, and gets none but by taking them.
LEMMA LocksStay ==
  ASSUME TypeOK, \A w \in Runners : Placed(w), [Next]_vars, NEW v \in Runners,
         cur[v] \in Runs, Began(cur[v]), UNCHANGED cur[v], Owned(v)'
  PROVE  /\ Owned(v)
         /\ Holds(v) => Holds(v)'
         /\ (\A n \in Locks : lock[n] # cur[v]) /\ ~Takes(v) => \A n \in Locks : lock'[n] # cur[v]
<1>a. TableTypes /\ RunnerTypes
  BY DEF TypeOK
<1>1. Moves(cur[v]) /\ LocksMove /\ task[cur[v]] \in Tasks
  BY <1>a, RunsMove, LocksAreMoved DEF TableTypes
<1>2. Owned(v) /\ task'[cur[v]] = task[cur[v]]
  BY <1>1 DEF Owned, Moves, Began, Identity
<1>3. ASSUME Holds(v) PROVE Holds(v)'
  <2>1. \A n \in LockNames(task[cur[v]]) : lock[n] = cur[v] /\ n \in Locks
    BY <1>1, <1>3 DEF Holds, Locks
  <2>2. ASSUME NEW k \in Runs, Frees(k), NEW n \in LockNames(task[cur[v]])
        PROVE  lock'[n] = cur[v]
    BY <2>1, <2>2 DEF Frees, FreeLocks, Owned
  <2>3. ASSUME NEW w \in Runners, Takes(w), NEW n \in LockNames(task[cur[v]])
        PROVE  lock'[n] = cur[v]
    <3>1. LocksLeft[n] = cur[v] /\ cur[v] # None
      BY <1>2, <2>1 DEF LocksLeft, Owned, Runs, None
    <3>2. QED
      BY <2>1, <2>3, <3>1 DEF Takes
  <2>4. \A n \in LockNames(task[cur[v]]) : lock'[n] = cur[v]
    BY <1>1, <2>1, <2>2, <2>3 DEF LocksMove
  <2>5. QED
    BY <1>2, <2>4 DEF Holds
<1>4. ASSUME \A n \in Locks : lock[n] # cur[v], ~Takes(v), NEW n \in Locks
      PROVE  lock'[n] # cur[v]
  <2>1. cur[v] # None
    BY DEF Runs, None
  <2>2. ASSUME NEW k \in Runs, Frees(k) PROVE lock'[n] # cur[v]
    BY <1>4, <2>1, <2>2 DEF Frees, FreeLocks
  <2>3. ASSUME NEW w \in Runners, Takes(w) PROVE lock'[n] # cur[v]
    <3>1. cur[w] # cur[v]
      BY <1>2, <1>4, <2>3 DEF Takes, Owned
    <3>2. QED
      BY <1>4, <2>1, <2>3, <3>1 DEF Takes, LocksLeft
  <2>4. QED
    BY <1>1, <1>4, <2>2, <2>3 DEF LocksMove
<1>5. QED
  BY <1>2, <1>3, <1>4

BeforeBody(v) == pc[v] \in {"gate", "acquire"}
Refused(v)    == pc[v] = "finish" /\ final[v] = "refused"
AfterBody(v)  == pc[v] = "finish" /\ final[v] \in {"succeeded", "failed", "cancelled"}

Comes(v) ==
  /\ BeforeBody(v)' => Claim(v) \/ (BeforeBody(v) /\ UNCHANGED cur[v])
  /\ Refused(v)' =>
       /\ Refused(v) \/ (BeforeBody(v) /\ ~Takes(v)) \/ pc[v] \in InBody
       /\ UNCHANGED cur[v]
  /\ AfterBody(v)'  => (AfterBody(v) \/ pc[v] \in InBody) /\ UNCHANGED cur[v]
  /\ pc'[v] = "finish" /\ final'[v] = "cancelled" =>
       \/ pc[v] = "finish" /\ final[v] = "cancelled"
       \/ Body(v) /\ (lost[v] \/ cancel[cur[v]])

\* A runner is before its body until it took the locks, after it when it has been in
\* it, and refused from either.
LEMMA RunnersCome ==
  ASSUME TypeOK, \A w \in Runners : Placed(w), [Next]_vars, NEW v \in Runners
  PROVE  Comes(v)
<1>a. RunnerTypes
  BY DEF TypeOK
<1>1. ASSUME NEW w \in Runners, Gate(w) PROVE Comes(v)
  BY <1>1, <1>a DEF Gate, Takes, Conclude, Goto, RunnerTypes, Comes, BeforeBody, Refused, AfterBody
<1>2. ASSUME NEW w \in Runners, Acquire(w) PROVE Comes(v)
  BY <1>2, <1>a
     DEF Acquire, Takes, Conclude, Reset, Goto, RunnerTypes, Comes, BeforeBody, Refused, AfterBody
<1>3. ASSUME NEW w \in Runners, Body(w) PROVE Comes(v)
  BY <1>3, <1>a
     DEF Body, Declined, Stopped, Outcome, Conclude, Goto, RunnerTypes, Comes, BeforeBody, Refused, AfterBody,
         InBody
<1>4. ASSUME NEW w \in Runners, Work(w) \/ Mark(w) PROVE Comes(v)
  BY <1>4, <1>a
     DEF Work, Declined, Mark, Conclude, Reset, Goto, RunnerTypes, Comes, BeforeBody, Refused, AfterBody, InBody
<1>5. ASSUME NEW w \in Runners, FinishFails(w) \/ Crash(w) \/ Finish(w) PROVE Comes(v)
  BY <1>5, <1>a
     DEF FinishFails, Crash, Finish, Reset, Goto, RunnerTypes, Comes, BeforeBody, Refused, AfterBody
<1>6. ASSUME NEW w \in Runners, TakeoverRead(w) \/ Takeover(w) PROVE Comes(v)
  BY <1>6, <1>a
     DEF TakeoverRead, Takeover, Reset, Goto, RunnerTypes, Comes, BeforeBody, Refused, AfterBody
<1>7. ASSUME NEW w \in Runners, Claim(w) PROVE Comes(v)
  BY <1>7, <1>a
     DEF Claim, EndUnclaimed, Goto, RunnerTypes, Comes, BeforeBody, Refused, AfterBody
<1>8. CASE UNCHANGED <<pc, cur, final>>
  BY <1>8 DEF Comes, BeforeBody, Refused, AfterBody
<1>9. QED
  BY <1>1, <1>2, <1>3, <1>4, <1>5, <1>6, <1>7, <1>8
     DEF vars, runner, Next, Portal, Process, Execute, Serve, RequestRun, ResumeCheck,
         ResumeInsert, RequestCancel, RequestAges, ClaimFails, SettlePoisoned, Beat, Lapse,
         Stop, Restart

\* A cancellation that was asked for is not taken back.
LEMMA CancelStays ==
  ASSUME TypeOK, [Next]_vars, NEW i \in Runs, cancel[i]
  PROVE  cancel'[i]
<1>1. UNCHANGED cancel \/ \E k \in Runs : cancel' = [cancel EXCEPT ![k] = TRUE]
  BY
     DEF vars, db, Next, Portal, Process, Execute, Serve, RequestRun, ResumeCheck, ResumeInsert,
         Insert, RequestCancel, RequestAges, Claim, ClaimFails, SettlePoisoned, Gate, Acquire,
         Body, Work, Mark, Finish, FinishFails, Beat, Lapse, TakeoverRead, Takeover, Crash,
         Stop, Restart
<1>2. QED
  BY <1>1 DEF TypeOK, TableTypes

\* What a runner is about to record is what it went through, as long as its lease is
\* intact: others take none of its locks and give it none.
LEMMA ReportedStep ==
  ASSUME TypeOK, NoOrphanLocks, [Next]_vars,
         \A w \in Runners : Placed(w) /\ LockedBody(w) /\ Reported(w), NEW v \in Runners
  PROVE  Reported(v)'
<1>a. TableTypes /\ RunnerTypes
  BY DEF TypeOK
<1>1. ASSUME BeforeBody(v)', Owned(v)', NEW n \in Locks PROVE lock'[n] # cur'[v]
  <2>1. CASE Claim(v)
    <3>1. PICK i \in Runs : cur'[v] = i /\ state[i] = "queued" /\ UNCHANGED lock
      BY <1>1, <2>1, <1>a
         DEF Claim, EndUnclaimed, Oldest, Claimable, Goto, RunnerTypes, BeforeBody
    <3>2. QED
      BY <3>1 DEF NoOrphanLocks, Runs, None
  <2>2. CASE BeforeBody(v) /\ UNCHANGED cur[v]
    <3>1. cur[v] \in Runs /\ Began(cur[v]) /\ ~Takes(v)
      BY <1>1, <2>2 DEF Placed, BeforeBody, Takes
    <3>2. \A m \in Locks : lock[m] # cur[v]
      BY <1>1, <2>2, <3>1, LocksStay DEF Reported, BeforeBody, Unlocked
    <3>3. QED
      BY <1>1, <2>2, <3>1, <3>2, LocksStay
  <2>3. QED
    BY <1>1, <2>1, <2>2, RunnersCome DEF Comes
<1>2. ASSUME AfterBody(v)', Owned(v)' PROVE Holds(v)'
  <2>1. (AfterBody(v) \/ pc[v] \in InBody) /\ UNCHANGED cur[v]
    BY <1>2, RunnersCome DEF Comes
  <2>2. cur[v] \in Runs /\ Began(cur[v])
    BY <2>1 DEF Placed, AfterBody, InBody
  <2>3. Holds(v)
    BY <1>2, <2>1, <2>2, LocksStay DEF Reported, AfterBody, LockedBody
  <2>4. QED
    BY <1>2, <2>1, <2>2, <2>3, LocksStay
<1>3. ASSUME Refused(v)', Owned(v)' PROVE Unlocked(v)' \/ Holds(v)'
  <2>1. /\ Refused(v) \/ (BeforeBody(v) /\ ~Takes(v)) \/ pc[v] \in InBody
        /\ UNCHANGED cur[v]
    BY <1>3, RunnersCome DEF Comes
  <2>2. cur[v] \in Runs /\ Began(cur[v])
    BY <2>1 DEF Placed, Refused, BeforeBody, InBody
  <2>3. ~Takes(v)
    BY <2>1 DEF Takes, Refused, InBody
  <2>4. Unlocked(v) \/ Holds(v)
    BY <1>3, <2>1, <2>2, LocksStay DEF Reported, Refused, BeforeBody, LockedBody
  <2>5. QED
    BY <1>3, <2>1, <2>2, <2>3, <2>4, LocksStay DEF Unlocked
<1>4. ASSUME pc'[v] = "finish", final'[v] = "cancelled" PROVE cancel'[cur'[v]]
  <2>1. UNCHANGED cur[v]
    BY <1>4, RunnersCome DEF Comes, AfterBody
  <2>2. pc[v] \in Executing
    BY <1>4, RunnersCome DEF Comes, Body, Executing, InBody
  <2>3. cur[v] \in Runs
    BY <2>2 DEF Placed, Executing, InBody
  <2>4. CASE cancel[cur[v]]
    BY <2>1, <2>3, <2>4, CancelStays
  <2>5. CASE Body(v) /\ lost[v]
    BY <1>4, <2>5, <1>a DEF Body, Stopped, Outcome, Declined, Conclude, Goto, RunnerTypes
  <2>6. QED
    BY <1>4, <2>4, <2>5, RunnersCome DEF Comes, Reported
<1>5. QED
  BY <1>1, <1>2, <1>3, <1>4 DEF Reported, BeforeBody, AfterBody, Refused, Unlocked

LifeInduction ==
  RunnerInduction /\ LifeInv /\ (SlowRunners \/ \A w \in Runners : Lives(w))

LEMMA LifeInit == Init => LifeInduction
BY InductionInit DEF Init, LifeInduction, LifeInv, Engaged, Reported, Lives, Executing, InBody

LEMMA LifeInductionStep == LifeInduction /\ [Next]_vars => LifeInduction'
<1> SUFFICES ASSUME LifeInduction, [Next]_vars PROVE LifeInduction'
  OBVIOUS
<1>1. /\ TypeOK /\ NoOrphanLocks
      /\ \A w \in Runners : Placed(w) /\ LockedBody(w) /\ Engaged(w) /\ Reported(w)
      /\ \A a \in Admins : asking[a] # None =>
           state[asking[a]] \in ResumableStates /\ task[asking[a]] \in Resumable
  BY DEF LifeInduction, LifeInv, RunnerInduction, RunnerInv
<1>2. \A w \in Runners : Engaged(w)' /\ Reported(w)'
  BY <1>1, EngagedStep, ReportedStep
<1>3. \A a \in Admins : asking'[a] # None =>
        state'[asking'[a]] \in ResumableStates /\ task'[asking'[a]] \in Resumable
  BY <1>1, AskedStep
<1>4. SlowRunners \/ \A w \in Runners : Lives(w)'
  BY <1>1, LivesStep DEF LifeInduction
<1>5. QED
  BY <1>2, <1>3, <1>4, InductionStep DEF LifeInduction, LifeInv

-----------------------------------------------------------------------------
(* Every step is one of the life of a run, or none.                        *)

Shows == [i \in Runs |-> request[i] # "unsigned"]

\* A step that changes nothing but processes, leases and checkpoints shows nothing.
LEMMA LifeUnchanged ==
  ASSUME UNCHANGED <<state, task, request, cancel, root, committed, lock, ended>>
  PROVE  UNCHANGED Life!vars
BY DEF Life!vars

\* A run that ends before it begins is a TurnAway.
LEMMA LifeTurnsAway ==
  ASSUME TypeOK, NEW i \in Runs, state[i] = "queued",
         UNCHANGED <<task, request, cancel, root, committed, lock>>,
         NEW s \in {"refused", "cancelled", "failed"}, state' = [state EXCEPT ![i] = s],
         s = "cancelled" => cancel[i],
         s = "refused" => ~(cancel[i] /\ request[i] # "unsigned"),
         ended' = [ended EXCEPT ![i] = IF s = "refused" /\ request[i] = "unsigned" THEN 0 ELSE 1]
  PROVE  Life!TurnAway(i, s)
BY DEF Life!TurnAway, Life!Become

\* A run that ends after it began gives up its locks and is audited with it: an End.
LEMMA LifeEnds ==
  ASSUME TypeOK, EndedOnce, NEW i \in Runs, state[i] = "running",
         UNCHANGED <<task, request, cancel, root, committed>>,
         NEW s \in TerminalStates, state' = [state EXCEPT ![i] = s],
         lock' = FreeLocks(i), ended' = [ended EXCEPT ![i] = @ + 1],
         s \in {"succeeded", "failed", "cancelled"} => \A n \in LockNames(task[i]) : lock[n] = i,
         s = "succeeded" => committed[root[i]] = 1 .. Batches,
         s = "cancelled" => cancel[i],
         s = "refused" =>
           (\A n \in Locks : lock[n] # i) \/ (\A n \in LockNames(task[i]) : lock[n] = i)
  PROVE  Life!End(i, s)
<1>1. ended[i] = 0 /\ ended' = [ended EXCEPT ![i] = 1]
  <2>1. state[i] \notin TerminalStates
    BY DEF TerminalStates, ResumableStates
  <2>2. ended[i] = 0
    BY <2>1 DEF EndedOnce
  <2>3. QED
    BY <2>2
<1>2. task[i] \in Tasks
  BY DEF TypeOK, TableTypes
<1>3. Life!HoldsAll(i) <=> \A n \in LockNames(task[i]) : lock[n] = i
  BY <1>2 DEF Life!HoldsAll
<1>4. s \in {"succeeded", "refused"} \cup Life!CanResume
  BY DEF TerminalStates, ResumableStates, Life!CanResume
<1>5. QED
  BY <1>1, <1>3, <1>4 DEF Life!End, Life!Become, Life!HoldsNone, FreeLocks

LEMMA LifeStep ==
  ASSUME LifeInduction, [Next]_vars
  PROVE  [Life!Next]_(Life!vars)
<1>a. /\ TypeOK /\ TableTypes /\ RunnerTypes /\ HistoryTypes /\ NoOrphanLocks /\ EndedOnce
      /\ \A w \in Runners : Placed(w) /\ LockedBody(w) /\ Committed(w)
      /\ \A w \in Runners : Engaged(w) /\ Reported(w)
  BY DEF LifeInduction, LifeInv, RunnerInduction, RunnerInv, TypeOK
<1>b. \A i \in Runs, s \in TerminalStates : Life!TurnAway(i, s) \/ Life!End(i, s) => Life!Next
  BY DEF Life!Next, TerminalStates, ResumableStates, Life!CanResume
<1>1. ASSUME NEW t \in Tasks, RequestRun(t) PROVE Life!Next
  <2>1. PICK i \in Runs, k \in {"ok", "unsigned"} : Insert(i, t, k, None)
    BY <1>1 DEF RequestRun
  <2>2. UNCHANGED <<cancel, committed, lock, ended>>
    BY <1>1, <2>1 DEF RequestRun, Insert
  <2>3. Shows' = [Shows EXCEPT ![i] = (k = "ok")]
    BY <2>1, <1>a DEF Insert, Shows, TableTypes
  <2>4. Life!Request(i)
    BY <2>1, <2>2, <2>3, <1>a
       DEF Insert, Unused, Shows, TableTypes, HistoryTypes, Life!Request, Life!Become
  <2>5. QED
    BY <2>4 DEF Life!Next
<1>2. ASSUME NEW a \in Admins, ResumeInsert(a) PROVE Life!Next
  <2>1. PICK i \in Runs : Insert(i, task[asking[a]], "ok", asking[a])
    BY <1>2 DEF ResumeInsert
  <2>2. UNCHANGED <<cancel, committed, lock, ended>>
    BY <1>2, <2>1 DEF ResumeInsert, Insert
  <2>3. PICK p \in Runs : p = asking[a] /\ state[p] \in ResumableStates /\ task[p] \in Resumable
    BY <1>2, <1>a DEF ResumeInsert, LifeInduction, LifeInv, HistoryTypes
  <2>4. Shows' = [Shows EXCEPT ![i] = TRUE]
    BY <2>1, <1>a DEF Insert, Shows, TableTypes
  <2>5. p # None
    BY DEF Runs, None
  <2>6. Life!Request(i)
    BY <2>1, <2>2, <2>3, <2>4, <2>5, <1>a
       DEF Insert, Unused, Shows, ResumableStates, Life!Request, Life!Become, Life!CanResume
  <2>7. QED
    BY <2>6 DEF Life!Next
<1>3. ASSUME NEW i \in Runs, RequestCancel(i) PROVE Life!Next
  <2>1. Life!AskCancel(i)
    BY <1>3 DEF RequestCancel, ActiveStates, Life!AskCancel, Life!Active
  <2>2. QED
    BY <2>1 DEF Life!Next
<1>4. ASSUME NEW i \in Runs, RequestAges(i) PROVE UNCHANGED Life!vars
  <2>1. Shows' = Shows
    BY <1>4, <1>a DEF RequestAges, Shows, TableTypes
  <2>2. QED
    BY <1>4, <2>1 DEF RequestAges, history, Shows, Life!vars
<1>5. ASSUME NEW w \in Runners, Claim(w) PROVE Life!Next
  <2>1. PICK i \in Runs :
          /\ Oldest(i)
          /\ \/ request[i] = "unsigned" /\ EndUnclaimed(i, "refused", 0)
             \/ request[i] # "unsigned" /\ cancel[i] /\ EndUnclaimed(i, "cancelled", 1)
             \/ request[i] = "stale" /\ ~cancel[i] /\ EndUnclaimed(i, "refused", 1)
             \/ Admitted(i) /\ state' = [state EXCEPT ![i] = "running"] /\ UNCHANGED ended
    BY <1>5 DEF Claim
  <2>2. state[i] = "queued" /\ UNCHANGED <<task, request, cancel, root, committed, lock>>
    BY <1>5, <2>1 DEF Claim, Oldest, Claimable
  <2>3. ended[i] = 0
    BY <2>2, <1>a DEF EndedOnce, TerminalStates, ResumableStates
  <2>4. CASE Admitted(i) /\ state' = [state EXCEPT ![i] = "running"] /\ UNCHANGED ended
    <3>1. Life!Begin(i)
      BY <2>2, <2>4 DEF Admitted, Life!Begin, Life!Become
    <3>2. QED
      BY <3>1 DEF Life!Next
  <2>5. CASE request[i] = "unsigned" /\ EndUnclaimed(i, "refused", 0)
    <3>1. ended' = [ended EXCEPT ![i] = 0]
      BY <2>3, <2>5, <1>a DEF EndUnclaimed, HistoryTypes
    <3>2. Life!TurnAway(i, "refused")
      BY <2>2, <2>5, <3>1, <1>a, LifeTurnsAway DEF EndUnclaimed
    <3>3. QED
      BY <3>2, <1>b DEF TerminalStates
  <2>6. CASE request[i] # "unsigned" /\ cancel[i] /\ EndUnclaimed(i, "cancelled", 1)
    <3>1. ended' = [ended EXCEPT ![i] = 1]
      BY <2>3, <2>6, <1>a DEF EndUnclaimed, HistoryTypes
    <3>2. Life!TurnAway(i, "cancelled")
      BY <2>2, <2>6, <3>1, <1>a, LifeTurnsAway DEF EndUnclaimed
    <3>3. QED
      BY <3>2, <1>b DEF TerminalStates, ResumableStates
  <2>7. CASE request[i] = "stale" /\ ~cancel[i] /\ EndUnclaimed(i, "refused", 1)
    <3>1. ended' = [ended EXCEPT ![i] = 1]
      BY <2>3, <2>7, <1>a DEF EndUnclaimed, HistoryTypes
    <3>2. Life!TurnAway(i, "refused")
      BY <2>2, <2>7, <3>1, <1>a, LifeTurnsAway DEF EndUnclaimed
    <3>3. QED
      BY <3>2, <1>b DEF TerminalStates
  <2>8. QED
    BY <2>1, <2>4, <2>5, <2>6, <2>7
<1>6. ASSUME NEW w \in Runners, SettlePoisoned(w) PROVE Life!Next
  <2>1. PICK i \in Runs : /\ Poisoned(i) /\ state' = [state EXCEPT ![i] = "failed"]
                          /\ ended' = [ended EXCEPT ![i] = @ + 1]
    BY <1>6 DEF SettlePoisoned
  <2>2. state[i] = "queued" /\ ended[i] = 0
    BY <2>1, <1>a DEF Poisoned, EndedOnce, TerminalStates, ResumableStates
  <2>3. ended' = [ended EXCEPT ![i] = 1]
    BY <2>1, <2>2, <1>a DEF HistoryTypes
  <2>4. Life!TurnAway(i, "failed")
    BY <1>6, <2>1, <2>2, <2>3, <1>a, LifeTurnsAway DEF SettlePoisoned
  <2>5. QED
    BY <2>4, <1>b DEF TerminalStates, ResumableStates
<1>7. ASSUME NEW w \in Runners, Acquire(w) PROVE Life!Next \/ UNCHANGED Life!vars
  <2>1. UNCHANGED <<state, task, request, cancel, root, committed, ended>>
    BY <1>7 DEF Acquire, db, history
  <2>2. CASE UNCHANGED lock
    BY <2>1, <2>2, LifeUnchanged
  <2>3. CASE /\ Owned(w) /\ \A n \in LockNames(task[cur[w]]) : LocksLeft[n] = None
             /\ lock' = [n \in Locks |->
                           IF n \in LockNames(task[cur[w]]) THEN cur[w] ELSE LocksLeft[n]]
    <3>1. cur[w] \in Runs /\ task[cur[w]] \in Tasks /\ state[cur[w]] = "running"
      BY <1>7, <2>3, <1>a DEF Acquire, Placed, Owned, TableTypes
    <3>2. \A n \in Locks : LocksLeft[n] = lock[n]
      BY <1>a DEF LocksLeft, NoOrphanLocks
    <3>3. LockNames(task[cur[w]]) \subseteq Locks
      BY <3>1 DEF Locks
    <3>4. \A n \in Locks : lock[n] # cur[w]
      BY <1>7, <2>3, <1>a DEF Acquire, Reported, Unlocked
    <3>5. Life!Take(cur[w])
      BY <2>1, <2>3, <3>1, <3>2, <3>3, <3>4 DEF Life!Take, Life!HoldsNone
    <3>6. QED
      BY <3>1, <3>5 DEF Life!Next
  <2>4. QED
    BY <1>7, <2>2, <2>3 DEF Acquire
<1>8. ASSUME NEW w \in Runners, Work(w) PROVE Life!Next \/ UNCHANGED Life!vars
  <2>1. UNCHANGED <<state, task, request, cancel, root, lock, ended>>
    BY <1>8 DEF Work, db, history
  <2>2. CASE UNCHANGED committed
    BY <2>1, <2>2, LifeUnchanged
  <2>3. CASE committed' = [committed EXCEPT ![root[cur[w]]] = @ \cup {at[w] + 1}]
    <3>1. cur[w] \in Runs /\ task[cur[w]] \in Tasks /\ at[w] + 1 \in 1 .. Batches
      BY <1>8, <1>a DEF Work, Placed, TableTypes, RunnerTypes
    <3>2. owner[cur[w]] = w /\ state[cur[w]] \in {"running", "interrupted"}
      BY <1>8, <1>a DEF Work, Engaged, Executing, InBody
    <3>3. 1 .. ((at[w] + 1) - 1) \subseteq committed[root[cur[w]]]
      BY <1>8, <1>a DEF Work, Committed, Done, InBody, RunnerTypes
    <3>4. CASE state[cur[w]] = "running"
      <4>1. \A n \in LockNames(task[cur[w]]) : lock[n] = cur[w]
        BY <1>8, <3>2, <3>4, <1>a DEF Work, LockedBody, Owned, Holds, InBody
      <4>2. Life!Commit(cur[w], at[w] + 1)
        BY <2>1, <2>3, <3>1, <3>3, <3>4, <4>1 DEF Life!Commit, Life!HoldsAll
      <4>3. QED
        BY <3>1, <4>2 DEF Life!Next
    <3>5. CASE SlowRunners /\ state[cur[w]] = "interrupted"
      <4>1. Life!Commit(cur[w], at[w] + 1)
        BY <2>1, <2>3, <3>3, <3>5 DEF Life!Commit
      <4>2. QED
        BY <3>1, <4>1 DEF Life!Next
    <3>6. state[cur[w]] = "interrupted" => SlowRunners
      BY <1>8 DEF LifeInduction, Lives, Owned, Work, Executing, InBody
    <3>7. QED
      BY <3>2, <3>4, <3>5, <3>6
  <2>4. QED
    BY <1>8, <2>2, <2>3 DEF Work
<1>9. ASSUME NEW w \in Runners, Finish(w) PROVE Life!Next \/ UNCHANGED Life!vars
  <2>1. UNCHANGED <<task, request, cancel, root, committed>>
    BY <1>9 DEF Finish
  <2>2. CASE ~Owned(w)
    BY <1>9, <2>1, <2>2, LifeUnchanged DEF Finish
  <2>3. CASE Owned(w)
    <3>1. cur[w] \in Runs /\ final[w] \in TerminalStates /\ state[cur[w]] = "running"
      BY <1>9, <2>3, <1>a DEF Finish, Placed, Owned
    <3>2. /\ final[w] \in {"succeeded", "failed", "cancelled"}
               => \A n \in LockNames(task[cur[w]]) : lock[n] = cur[w]
          /\ final[w] = "cancelled" => cancel[cur[w]]
          /\ final[w] = "refused" =>
               \/ \A n \in Locks : lock[n] # cur[w]
               \/ \A n \in LockNames(task[cur[w]]) : lock[n] = cur[w]
      BY <1>9, <2>3, <1>a DEF Finish, Reported, Holds, Unlocked
    <3>3. final[w] = "succeeded" => committed[root[cur[w]]] = 1 .. Batches
      BY <1>9, <2>3, <3>1, <1>a DEF Finish, Committed, Done, TableTypes, HistoryTypes
    <3>4. Life!End(cur[w], final[w])
      BY <1>9, <2>1, <2>3, <3>1, <3>2, <3>3, <1>a, LifeEnds DEF Finish
    <3>5. QED
      BY <3>1, <3>4, <1>b
  <2>4. QED
    BY <2>2, <2>3
<1>10. ASSUME NEW w \in Runners, Takeover(w) PROVE Life!Next \/ UNCHANGED Life!vars
  <2>1. UNCHANGED <<task, request, cancel, root, committed>>
    BY <1>10 DEF Takeover
  <2>2. CASE UNCHANGED <<state, lock, ended>>
    BY <2>1, <2>2, LifeUnchanged
  <2>3. CASE state[cur[w]] = "running" /\ ~UNCHANGED <<state, lock, ended>>
    <3>1. cur[w] \in Runs
      BY <1>10, <1>a DEF Takeover, Placed
    <3>2. Life!End(cur[w], "interrupted")
      BY <1>10, <2>1, <2>3, <3>1, <1>a, LifeEnds DEF Takeover, TerminalStates, ResumableStates
    <3>3. QED
      BY <3>1, <3>2, <1>b DEF TerminalStates, ResumableStates
  <2>4. QED
    BY <1>10, <2>2, <2>3 DEF Takeover
<1>11. CASE UNCHANGED <<state, task, request, cancel, root, committed, lock, ended>>
  BY <1>11, LifeUnchanged
<1>12. QED
  BY <1>1, <1>2, <1>3, <1>4, <1>5, <1>6, <1>7, <1>8, <1>9, <1>10, <1>11
     DEF vars, db, history, Next, Portal, Process, Execute, Serve, ResumeCheck, ClaimFails,
         Gate, Body, Mark, FinishFails, Beat, Lapse, TakeoverRead, Crash, Stop, Restart

-----------------------------------------------------------------------------

\* What LifeInv says of runners and of the portal holds in every reachable state.
THEOREM LifeInvariance == Spec => []LifeInduction
BY LifeInit, LifeInductionStep, PTL DEF Spec

\* The task runner implements the life of a run the portal tells: any number of
\* runners, of any speed, and any interleaving of claims, failures, takeovers,
\* resumes and cancellations show one run that begins at most once, commits in order
\* under all its locks, and ends once with its audit row.
THEOREM LifeIsKept == Spec => KeepsLife
<1>1. Init => Life!Init
  <2>1. (CHOOSE t \in Tasks : TRUE) \in Tasks
    OBVIOUS
  <2>2. Init => task \in [Runs -> Tasks]
    BY <2>1 DEF Init
  <2>3. Init => [i \in Runs |-> request[i] # "unsigned"] = [i \in Runs |-> TRUE]
    BY DEF Init
  <2>4. QED
    BY <2>2, <2>3, Zenon DEF Init, Life!Init
<1>2. LifeInduction /\ [Next]_vars => [Life!Next]_(Life!vars)
  BY LifeStep
<1>3. QED
  BY <1>1, <1>2, LifeInvariance, PTL DEF Spec, KeepsLife, Life!Spec
=============================================================================
