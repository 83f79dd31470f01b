---------------------------- MODULE SessionPromise ----------------------------
(***************************************************************************)
(* What the cookies of an account promise (the module comment of           *)
(* app/services/session_service.py), with no requests in progress: every   *)
(* refresh is one step.  A session begins once and ends once; while it     *)
(* lives, the holder of its current refresh token may exchange it for the  *)
(* next one, and only that hands out a refresh token; access is given for  *)
(* one lifetime, to a session that lives or on the strength of access that *)
(* has not run out.                                                        *)
(***************************************************************************)
EXTENDS Naturals

CONSTANTS Ids, AccessLife, SessionLife

VARIABLES now,
          phase,   \* of each session: none, live or over
          number,  \* of its current refresh token
          tokens,  \* the refresh tokens handed out
          access   \* when its access runs out

vars == <<now, phase, number, tokens, access>>

Init ==
  /\ now = 0
  /\ phase = [s \in Ids |-> "none"]
  /\ number = [s \in Ids |-> 0]
  /\ tokens = {}
  /\ access = [s \in Ids |-> 0]

GiveAccess(s) == access' = [access EXCEPT ![s] = now + AccessLife]

HandOut(s, n) == tokens' = tokens \cup {[sid |-> s, jti |-> n, exp |-> now + SessionLife]}

Begin(s) ==
  /\ phase[s] = "none"
  /\ phase' = [phase EXCEPT ![s] = "live"]
  /\ GiveAccess(s) /\ HandOut(s, 0)
  /\ UNCHANGED <<now, number>>

Rotate(s) ==
  /\ phase[s] = "live"
  /\ \E t \in tokens : t.sid = s /\ t.jti = number[s]
  /\ number' = [number EXCEPT ![s] = @ + 1]
  /\ GiveAccess(s) /\ HandOut(s, number[s] + 1)
  /\ UNCHANGED <<now, phase>>

Renew(s) ==
  /\ phase[s] = "live" \/ access[s] > now
  /\ GiveAccess(s)
  /\ UNCHANGED <<now, phase, number, tokens>>

End(which) ==
  /\ \A s \in which : phase[s] = "live"
  /\ phase' = [s \in Ids |-> IF s \in which THEN "over" ELSE phase[s]]
  /\ UNCHANGED <<now, number, tokens, access>>

Tick ==
  /\ now' = now + 1
  /\ UNCHANGED <<phase, number, tokens, access>>

Next == \/ \E s \in Ids : Begin(s) \/ Rotate(s) \/ Renew(s)
        \/ \E which \in SUBSET Ids : End(which)
        \/ Tick

Spec == Init /\ [][Next]_vars
=============================================================================
