------------------------------- MODULE JobQueue ------------------------------
(***************************************************************************)
(* The part of the job queue (procrastinate, an external library on        *)
(* Postgres) a delivery job relies on.  `queue` maps a log id to the run   *)
(* number of the job waiting for it (1 for a job deferred afresh, n + 1    *)
(* for one retried after its n-th run); 0 says that no job waits.          *)
(*                                                                         *)
(* The queueing lock `deliver_webhook:<log id>` is unique among WAITING    *)
(* jobs only: once a worker took the job, a second one can be deferred.    *)
(* A job whose worker dies stays in the state `doing`; nothing in src/     *)
(* takes it up again, so here it simply is no longer waiting.              *)
(***************************************************************************)
EXTENDS Naturals

NoJob == 0

Waiting(queue, l) == queue[l] # NoJob

\* defer_async with a queueing lock; AlreadyEnqueued is swallowed.
Defer(queue, l) == [queue EXCEPT ![l] = IF @ = NoJob THEN 1 ELSE @]

Fetched(queue, l) == [queue EXCEPT ![l] = NoJob]

\* (The schedule with one run too many.)
MayRetryOnceMore(run, maxRuns) == run <= maxRuns

\* The retry strategy: none once the last run of the job has failed.
MayRetry(run, maxRuns) == run < maxRuns

\* The library puts the same job back in the queue with its next run number,
\* unless the queueing lock is taken by a job deferred meanwhile.
Requeue(queue, l, run, maxRuns) ==
  [queue EXCEPT ![l] = IF @ = NoJob /\ MayRetry(run, maxRuns) THEN run + 1 ELSE @]
=============================================================================
