------------------------------- MODULE Sessions -------------------------------
(***************************************************************************)
(* The sessions behind the cookie tokens (app/services/session_service.py, *)
(* PostgresSessionRepository in app/repositories/postgres/identity.py) of  *)
(* one account: sign-in, refresh with and without rotation, revocation,    *)
(* and the deletion of the account.                                        *)
(*                                                                         *)
(* A refresh reads the session, asks auth for the user and then changes    *)
(* the session under its lock, so other requests run in between:           *)
(*                                                                         *)
(*   idle -> asking -> [rotate] -> touch -> idle                           *)
(*      \-> replayed -> idle    \-> refused -> idle                        *)
(*                                                                         *)
(* The refresh tokens of a session are numbered (its jti); every token     *)
(* that was handed out may be presented, by whoever has it, until it       *)
(* expires.  Of the access tokens of a session only the latest expiry      *)
(* matters: they are verified without a look at the session.               *)
(***************************************************************************)
EXTENDS Integers

CONSTANTS Ids, Requests, NoToken,
          AccessLife,    \* ACCESS_TOKEN_EXPIRY_IN_MINUTES
          SessionLife,   \* REFRESH_TOKEN_EXPIRY_IN_DAYS
          Grace,         \* REFRESH_REUSE_GRACE_SECONDS
          MaxTime, MaxRotations, MaxReissues   \* bounds of a run

ASSUME SessionAssumption ==
  /\ AccessLife \in Nat /\ SessionLife \in Nat /\ Grace \in Nat
  /\ MaxTime \in Nat /\ MaxRotations \in Nat /\ MaxReissues \in Nat

Token == [sid : Ids, jti : Nat, exp : Nat]

ASSUME TokenAssumption == NoToken \notin Token

VARIABLES
  now,
  account,    \* the user in auth and the deletion of the account
  state, jti, rotated, expires,   \* the session records
  issued,     \* the refresh tokens handed out
  access,     \* when the last access token of a session expires
  pc, token, rotate,              \* the requests in progress
  \* history
  exchanges,  \* which token was exchanged for which
  ended,      \* when the session was revoked or deleted
  late,       \* the time that access tokens re-issued after that have added
  reissues

record   == <<state, jti, rotated, expires>>
requests == <<pc, token, rotate>>
history  == <<exchanges, ended, late, reissues>>
vars == <<now, account, record, issued, access, requests, history>>

Init ==
  /\ now = 0
  /\ account = "there"
  /\ state = [s \in Ids |-> "none"] /\ jti = [s \in Ids |-> 0]
  /\ rotated = [s \in Ids |-> 0] /\ expires = [s \in Ids |-> 0]
  /\ issued = {}
  /\ access = [s \in Ids |-> 0]
  /\ pc = [r \in Requests |-> "idle"]
  /\ token = [r \in Requests |-> NoToken]
  /\ rotate = [r \in Requests |-> FALSE]
  /\ exchanges = {}
  /\ ended = [s \in Ids |-> 0] /\ late = [s \in Ids |-> 0] /\ reissues = 0

Live(s) == state[s] = "live"
Over(s) == state[s] \in {"revoked", "gone"}

-----------------------------------------------------------------------------
(* Tokens.                                                                  *)

\* (An access token that lives as long as the session.)
AccessExpiryOfSession == now + SessionLife

AccessExpiry == now + AccessLife

\* set_access_token_to_response.
IssueAccess(s) == access' = [access EXCEPT ![s] = AccessExpiry]

\* set_refresh_token_to_response, for the number and expiry on the record.
IssueRefresh(s, n) ==
  issued' = issued \cup {[sid |-> s, jti |-> n, exp |-> now + SessionLife]}

-----------------------------------------------------------------------------
(* Sign-in: the user proves who they are, then the session is stored.       *)

SignIn(r) ==
  /\ pc[r] = "idle" /\ account = "there"
  /\ pc' = [pc EXCEPT ![r] = "signing"]
  /\ UNCHANGED <<now, account, record, issued, access, token, rotate, history>>

Start(r, s) ==
  /\ pc[r] = "signing" /\ state[s] = "none"
  /\ state' = [state EXCEPT ![s] = "live"]
  /\ expires' = [expires EXCEPT ![s] = now + SessionLife]
  /\ IssueAccess(s) /\ IssueRefresh(s, 0)
  /\ pc' = [pc EXCEPT ![r] = "idle"]
  /\ UNCHANGED <<now, account, jti, rotated, token, rotate, history>>

-----------------------------------------------------------------------------
(* Refresh.                                                                 *)

Done(r) ==
  /\ pc' = [pc EXCEPT ![r] = "idle"]
  /\ token' = [token EXCEPT ![r] = NoToken]
  /\ rotate' = [rotate EXCEPT ![r] = FALSE]

\* _in_grace: the token the last rotation replaced, for a while.
InGrace(t) ==
  /\ t.jti + 1 = jti[t.sid]
  /\ now - rotated[t.sid] <= Grace

\* The session is read and the token judged: POST /auth/refresh wants a
\* rotation, the implicit refresh does not; a replaced token never gets one.
Read(r, t, wanted) ==
  /\ pc[r] = "idle"
  /\ t.exp > now /\ Live(t.sid) /\ expires[t.sid] > now
  /\ pc' = [pc EXCEPT ![r] =
       IF t.jti = jti[t.sid] \/ InGrace(t) THEN "asking" ELSE "replayed"]
  /\ token' = [token EXCEPT ![r] = t]
  /\ rotate' = [rotate EXCEPT ![r] = wanted /\ t.jti = jti[t.sid]]
  /\ UNCHANGED <<now, account, record, issued, access, history>>

\* (A refresh that takes the user from the token.)
HadUser == TRUE

\* GET /auth/status finds the user.
HasUser == account = "there"

\* _current_user and the single sign-on policy: auth has the user, no longer has
\* it, or does not answer; the policy may end the session too.
Ask(r) ==
  /\ pc[r] = "asking"
  /\ \/ /\ HasUser
        /\ pc' = [pc EXCEPT ![r] = IF rotate[r] THEN "rotate" ELSE "touch"]
        /\ UNCHANGED <<token, rotate>>
     \/ pc' = [pc EXCEPT ![r] = "refused"] /\ UNCHANGED <<token, rotate>>
     \/ Done(r)
  /\ UNCHANGED <<now, account, record, issued, access, history>>

\* _update_live with the revoker: only a live session changes.
EndAll(which) ==
  LET Ends(s) == s \in which /\ Live(s) IN
  /\ state' = [s \in Ids |-> IF Ends(s) THEN "revoked" ELSE state[s]]
  /\ ended' = [s \in Ids |-> IF Ends(s) THEN now ELSE ended[s]]

\* A replayed token, a user auth does not have and the policy end the session.
Refuse(r) ==
  /\ pc[r] \in {"replayed", "refused"}
  /\ EndAll({token[r].sid})
  /\ Done(r)
  /\ UNCHANGED <<now, account, jti, rotated, expires, issued, access, exchanges, late,
                 reissues>>

\* (A rotation that does not look at what became of the session.)
CurrentEvenIfOver(t) == t.jti = jti[t.sid]

\* (A rotation of whatever token is current by now.)
CurrentAtTheRead(t) == Live(t.sid)

\* The condition of rotate's update.
Current(t) == Live(t.sid) /\ t.jti = jti[t.sid]

\* The rotation, for the request that read the current token and is the first.
Rotate(r) ==
  LET t == token[r] IN
  /\ pc[r] = "rotate"
  /\ IF Current(t)
     THEN /\ jti[t.sid] < MaxRotations
          /\ state' = [state EXCEPT ![t.sid] = "live"]
          /\ jti' = [jti EXCEPT ![t.sid] = @ + 1]
          /\ rotated' = [rotated EXCEPT ![t.sid] = now]
          /\ expires' = [expires EXCEPT ![t.sid] = now + SessionLife]
          /\ IssueAccess(t.sid) /\ IssueRefresh(t.sid, jti[t.sid] + 1)
          /\ exchanges' = exchanges \cup
               {[sid |-> t.sid, old |-> t.jti, new |-> jti[t.sid] + 1]}
          /\ Done(r)
     ELSE /\ pc' = [pc EXCEPT ![r] = "touch"]
          /\ UNCHANGED <<record, issued, access, exchanges, token, rotate>>
  /\ UNCHANGED <<now, account, ended, late, reissues>>

\* (A refresh that goes by what it read before it asked auth.)
FoundBefore(t) == TRUE

\* The condition of touch's update.
Found(t) == Live(t.sid)

\* touch: no rotation, but the session must still be live.
Touch(r) ==
  /\ pc[r] = "touch"
  /\ IF Found(token[r]) THEN IssueAccess(token[r].sid) ELSE UNCHANGED access
  /\ Done(r)
  /\ UNCHANGED <<now, account, record, issued, history>>

\* The routes that give a signed-in user a new access token of the same session
\* (a redeemed coupon, a price suggestion, a second factor, a connected
\* provider): the token that came with the request is enough.
Reissue(s) ==
  /\ access[s] > now /\ reissues < MaxReissues
  /\ IssueAccess(s)
  /\ reissues' = reissues + 1
  /\ late' = [late EXCEPT ![s] = IF Over(s) THEN @ + AccessLife ELSE @]
  /\ UNCHANGED <<now, account, record, issued, requests, exchanges, ended>>

-----------------------------------------------------------------------------
(* The end of sessions.                                                     *)

\* Logout, a session signed out from the list, a sign-in that replaces it, logout
\* everywhere (else), the directory, the request to delete the account.
Revoke(which) ==
  /\ \E s \in which : Live(s)
  /\ EndAll(which)
  /\ UNCHANGED <<now, account, jti, rotated, expires, issued, access, requests,
                 exchanges, late, reissues>>

\* The rows of `which` are deleted.
Delete(which) ==
  LET Goes(s) == s \in which /\ state[s] # "none" IN
  /\ state' = [s \in Ids |-> IF Goes(s) THEN "gone" ELSE state[s]]
  /\ ended' = [s \in Ids |-> IF Goes(s) /\ Live(s) THEN now ELSE ended[s]]

\* delete_expired, on the list of sessions and before a logout everywhere.
Sweep ==
  /\ \E s \in Ids : state[s] \in {"live", "revoked"} /\ expires[s] <= now
  /\ Delete({s \in Ids : expires[s] <= now})
  /\ UNCHANGED <<now, account, jti, rotated, expires, issued, access, requests,
                 exchanges, late, reissues>>

\* The account goes from auth first ...
DeleteAccount ==
  /\ account = "there" /\ account' = "gone"
  /\ UNCHANGED <<now, record, issued, access, requests, history>>

\* ... then its sessions; a retried job does so again.
EraseSessions ==
  /\ account # "there"
  /\ Delete(Ids)
  /\ account' = "erased"
  /\ UNCHANGED <<now, jti, rotated, expires, issued, access, requests, exchanges, late,
                 reissues>>

Tick ==
  /\ now < MaxTime /\ now' = now + 1
  /\ UNCHANGED <<account, record, issued, access, requests, history>>

-----------------------------------------------------------------------------
Handle(r) ==
  \/ SignIn(r) \/ Ask(r) \/ Refuse(r) \/ Rotate(r) \/ Touch(r)
  \/ \E s \in Ids : Start(r, s)
  \/ \E t \in issued, wanted \in BOOLEAN : Read(r, t, wanted)

Next ==
  \/ \E r \in Requests : Handle(r)
  \/ \E s \in Ids : Reissue(s)
  \/ \E which \in SUBSET Ids : Revoke(which)
  \/ Sweep \/ DeleteAccount \/ EraseSessions \/ Tick

Spec == Init /\ [][Next]_vars
-----------------------------------------------------------------------------
(* Properties.                                                             *)

Labels == {"idle", "signing", "asking", "rotate", "touch", "replayed", "refused"}

Exchange == [sid : Ids, old : Nat, new : Nat]

\* Types: no access token outlives the lifetime the settings give it.
TypeOK ==
  /\ now \in Nat /\ account \in {"there", "gone", "erased"} /\ reissues \in Nat
  /\ state \in [Ids -> {"none", "live", "revoked", "gone"}]
  /\ jti \in [Ids -> Nat] /\ rotated \in [Ids -> Nat] /\ expires \in [Ids -> Nat]
  /\ issued \in SUBSET Token /\ exchanges \in SUBSET Exchange
  /\ access \in [Ids -> Nat] /\ \A s \in Ids : access[s] <= now + AccessLife
  /\ pc \in [Requests -> Labels]
  /\ token \in [Requests -> Token \cup {NoToken}]
  /\ rotate \in [Requests -> BOOLEAN]
  /\ ended \in [Ids -> Nat] /\ late \in [Ids -> Nat]

\* A refresh token is exchanged for at most one new one, however many requests
\* present it at once: two holders never both go on with the session.
ExchangedOnce ==
  \A x, y \in exchanges : x.sid = y.sid /\ x.old = y.old => x = y

\* A session that was revoked or deleted, whatever requests were in progress,
\* gives no access after one lifetime of an access token, but for the tokens
\* that were re-issued from the last ones.
EndsInTime ==
  \A s \in Ids : Over(s) => access[s] <= ended[s] + AccessLife + late[s]

\* What session_service.py:7 says: "revoking a session ends it within one
\* access-token lifetime".
EndsInOneLifetime == \A s \in Ids : Over(s) => access[s] <= ended[s] + AccessLife

\* Once the sessions of a deleted account are erased, no refresh in progress can
\* still get a token: its session is over, and auth no longer has the user.
GoneUserIsOut ==
  account = "erased" =>
    \A r \in Requests : pc[r] \in {"rotate", "touch"} => Over(token[r].sid)

\* A session that is over stays over, and none of its tokens is exchanged any more.
StaysOver(s) == Over(s) => Over(s)' /\ jti'[s] = jti[s]

OverIsFinal == [][\A s \in Ids : StaysOver(s)]_vars

-----------------------------------------------------------------------------
(* The inductive invariant.                                                *)

\* A token belongs to a session that exists, and its number to the past.
TokensKnown == \A t \in issued : state[t.sid] # "none" /\ t.jti <= jti[t.sid]

\* A request in progress has a token that was issued.
RequestsHold ==
  \A r \in Requests :
    /\ pc[r] \in {"idle", "signing"} <=> token[r] = NoToken
    /\ token[r] # NoToken => token[r] \in issued

\* Exchanges go from one number to the next.
Numbered == \A x \in exchanges : x.new = x.old + 1 /\ x.old < jti[x.sid]

\* No session ended in the future, none had an access token before its start.
InThePast ==
  \A s \in Ids :
    /\ ended[s] <= now
    /\ state[s] = "none" => jti[s] = 0 /\ access[s] = 0

SessionInv ==
  /\ TypeOK /\ TokensKnown /\ RequestsHold /\ Numbered /\ InThePast
  /\ EndsInTime /\ GoneUserIsOut

-----------------------------------------------------------------------------
(* Sessions, as SessionPromise promises them.                              *)

Phase(s) == CASE state[s] \in {"none", "live"} -> state[s]
              [] OTHER -> "over"

Promise == INSTANCE SessionPromise WITH
  phase <- [s \in Ids |-> Phase(s)], number <- jti, tokens <- issued

\* Refreshes that read a session, wait for auth and then change it, next to other
\* refreshes, replays, sign-outs, sweeps and the deletion of the account, do to the
\* session and to who holds its tokens what refreshes of one step would do.
KeepsPromise == Promise!Spec
=============================================================================
