------------------------------- MODULE RunLife -------------------------------
(***************************************************************************)
(* What the admin portal promises of a run (docs/admin.md and the comments *)
(* of tasks/spec.py and tasks/runner), with no runners, leases, heartbeats *)
(* or checkpoints: a run is requested, begins at most once, takes all the  *)
(* locks of its task or none, commits batches in order while it holds      *)
(* them, and ends once: its state, its audit row and the release of its    *)
(* locks are one step, and `succeeded` stands for every batch.             *)
(***************************************************************************)
EXTENDS Naturals

CONSTANTS Runs, Tasks, Resumable, Batches,
          Locks, Needs,  \* the locks a task needs
          Nobody,        \* holds a free lock
          Overrun        \* whether the work of a run that was cut off may still land

VARIABLES state, task,
          signed,  \* the portal wrote the request
          asked,   \* a cancellation was asked for
          chain,   \* the first of the runs it resumes
          done,    \* batches committed for a chain
          holder,  \* the run that holds a lock
          rows     \* audit rows of a run's end

vars == <<state, task, signed, asked, chain, done, holder, rows>>

Active    == {"queued", "running"}
CanResume == {"failed", "interrupted", "cancelled"}

Init ==
  /\ state = [i \in Runs |-> "none"]
  /\ task \in [Runs -> Tasks]
  /\ signed = [i \in Runs |-> TRUE]
  /\ asked = [i \in Runs |-> FALSE]
  /\ chain = [i \in Runs |-> i]
  /\ done = [i \in Runs |-> {}]
  /\ holder = [n \in Locks |-> Nobody]
  /\ rows = [i \in Runs |-> 0]

Become(i, s) == state' = [state EXCEPT ![i] = s]

\* A new run, signed or not, or one that goes on with a run that ended.
Request(i) ==
  /\ state[i] = "none"
  /\ Become(i, "queued")
  /\ \/ \E t \in Tasks, s \in BOOLEAN :
          /\ task' = [task EXCEPT ![i] = t]
          /\ signed' = [signed EXCEPT ![i] = s]
          /\ chain' = [chain EXCEPT ![i] = i]
     \/ \E p \in Runs :
          /\ state[p] \in CanResume /\ task[p] \in Resumable
          /\ task' = [task EXCEPT ![i] = task[p]]
          /\ signed' = [signed EXCEPT ![i] = TRUE]
          /\ chain' = [chain EXCEPT ![i] = chain[p]]
  /\ UNCHANGED <<asked, done, holder, rows>>

AskCancel(i) ==
  /\ state[i] \in Active
  /\ asked' = [asked EXCEPT ![i] = TRUE]
  /\ UNCHANGED <<state, task, signed, chain, done, holder, rows>>

Begin(i) ==
  /\ state[i] = "queued" /\ signed[i] /\ ~asked[i]
  /\ Become(i, "running")
  /\ UNCHANGED <<task, signed, asked, chain, done, holder, rows>>

\* A run that ends before it begins is on record, but for the refusal of a
\* request that nobody signed.
TurnAway(i, s) ==
  /\ state[i] = "queued"
  /\ s \in {"refused", "cancelled", "failed"}
  /\ s = "cancelled" => asked[i]
  /\ s = "refused" => ~(asked[i] /\ signed[i])
  /\ Become(i, s)
  /\ rows' = [rows EXCEPT ![i] = IF s = "refused" /\ ~signed[i] THEN 0 ELSE 1]
  /\ UNCHANGED <<task, signed, asked, chain, done, holder>>

HoldsAll(i)  == state[i] = "running" /\ \A n \in Needs[task[i]] : holder[n] = i
HoldsNone(i) == \A n \in Locks : holder[n] # i

Take(i) ==
  /\ state[i] = "running" /\ HoldsNone(i)
  /\ \A n \in Needs[task[i]] : holder[n] = Nobody
  /\ holder' = [n \in Locks |-> IF n \in Needs[task[i]] THEN i ELSE holder[n]]
  /\ UNCHANGED <<state, task, signed, asked, chain, done, rows>>

Commit(i, b) ==
  /\ HoldsAll(i) \/ (Overrun /\ state[i] = "interrupted")
  /\ 1 .. (b - 1) \subseteq done[chain[i]]
  /\ done' = [done EXCEPT ![chain[i]] = @ \cup {b}]
  /\ UNCHANGED <<state, task, signed, asked, chain, holder, rows>>

\* A run is refused before it has locks, or by its body, which has them all; it can
\* be interrupted at any time.
End(i, s) ==
  /\ state[i] = "running"
  /\ s \in {"succeeded", "refused"} \cup CanResume
  /\ s \in {"succeeded", "failed", "cancelled"} => HoldsAll(i)
  /\ s = "succeeded" => done[chain[i]] = 1 .. Batches
  /\ s = "cancelled" => asked[i]
  /\ s = "refused" => HoldsNone(i) \/ HoldsAll(i)
  /\ Become(i, s)
  /\ holder' = [n \in Locks |-> IF holder[n] = i THEN Nobody ELSE holder[n]]
  /\ rows' = [rows EXCEPT ![i] = 1]
  /\ UNCHANGED <<task, signed, asked, chain, done>>

Next == \E i \in Runs :
          \/ Request(i) \/ AskCancel(i) \/ Begin(i) \/ Take(i)
          \/ \E s \in {"succeeded", "refused"} \cup CanResume : TurnAway(i, s) \/ End(i, s)
          \/ \E b \in 1 .. Batches : Commit(i, b)

Spec == Init /\ [][Next]_vars
=============================================================================
