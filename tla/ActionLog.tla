------------------------------ MODULE ActionLog ------------------------------
(***************************************************************************)
(* The table `action_logs`: one row per run of a form's action (a webhook, *)
(* an email, a Sheets append).  Every kind of action goes through the same *)
(* five statements of PostgresActionLogRepository, each one transaction;   *)
(* they are the operators below, on a table `log` that maps every log id   *)
(* to its row.  A row that is not in the table is Absent.                  *)
(*                                                                         *)
(* What a row holds is reduced to what a later step reads back: its        *)
(* status, the attempts counted so far and the host it is bound to.        *)
(***************************************************************************)
EXTENDS Naturals

CONSTANTS Hosts,   \* the destinations a row can be bound to
          NoHost   \* no destination

ASSUME NoHostAssumption == NoHost \notin Hosts

OpenStates  == {"pending", "retrying"}
FinalStates == {"delivered", "failed", "cancelled"}
LogStatus   == OpenStates \cup {"in_progress"} \cup FinalStates

Row    == [status : LogStatus, attempts : Nat, host : Hosts]
Absent == [status |-> "absent", attempts |-> 0, host |-> NoHost]
Rows   == Row \cup {Absent}

Exists(r) == r.status # "absent"

NewRow(status, host) == [status |-> status, attempts |-> 0, host |-> host]

\* INSERT ... ON CONFLICT DO NOTHING: the first run of a pair wins.
CreateIfAbsent(log, l, r) ==
  [log EXCEPT ![l] = IF Exists(@) THEN @ ELSE r]

\* (A save that inserts what it does not find: what save_existing must not be.)
UpsertInstead(log, l, doc) == [log EXCEPT ![l] = doc]

\* UPDATE ... WHERE id: the whole document is stored over whatever the row
\* says now; a row that is gone is not brought back.
SaveExisting(log, l, doc) ==
  [log EXCEPT ![l] = IF Exists(@) THEN doc ELSE @]

\* (A claim that takes the row in whatever state it is.)
ClaimableInAnyState(log, l, allowed) == Exists(log[l])

\* SELECT ... FOR UPDATE of an allowed status, then in_progress with one
\* attempt more.
Claimable(log, l, allowed) == log[l].status \in allowed
ClaimedDoc(doc) ==
  [status |-> "in_progress", attempts |-> doc.attempts + 1, host |-> doc.host]
Claim(log, l) == [log EXCEPT ![l] = ClaimedDoc(@)]

\* DELETE ... WHERE: the rows of a response, of a form, of before a cutoff.
DeleteRows(log, gone) ==
  [l \in DOMAIN log |-> IF l \in gone THEN Absent ELSE log[l]]
=============================================================================
