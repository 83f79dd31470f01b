---------------------------- MODULE Sessions_proofs ---------------------------
(***************************************************************************)
(* Proofs about Sessions, for any sessions, requests, lifetimes and        *)
(* bounds.  One inductive invariant, SessionInv, carries all of them: that *)
(* the number of a token goes up by one with every exchange makes the      *)
(* exchanges unique, and that a request in progress has a token of a       *)
(* session that exists is what makes the deletion of an account final.     *)
(***************************************************************************)
EXTENDS Sessions, TLAPS

\* The invariant holds at the start.
LEMMA InitSession == Init => SessionInv
<1> SUFFICES ASSUME Init PROVE SessionInv
  OBVIOUS
<1> USE SessionAssumption, TokenAssumption DEF Init
<1>1. TypeOK
  BY DEF TypeOK, Labels
<1>2. RequestsHold /\ EndsInTime /\ GoneUserIsOut /\ InThePast
  BY DEF RequestsHold, EndsInTime, GoneUserIsOut, InThePast, Over
<1>3. TokensKnown /\ Numbered
  BY DEF TokensKnown, Numbered
<1> QED
  BY <1>1, <1>2, <1>3 DEF SessionInv

\* A request in progress has a token that was issued, of a session that exists.
LEMMA Holds ==
  ASSUME SessionInv, NEW r \in Requests, pc[r] \notin {"idle", "signing"}
  PROVE  /\ token[r] \in Token /\ token[r] \in issued
         /\ token[r].sid \in Ids /\ token[r].jti \in Nat
         /\ token[r].jti <= jti[token[r].sid] /\ state[token[r].sid] # "none"
<1>1. token[r] \in Token /\ token[r] \in issued
  BY DEF SessionInv, TypeOK, RequestsHold
<1> QED
  BY <1>1 DEF SessionInv, Token, TokensKnown

-----------------------------------------------------------------------------
(* Every step keeps the invariant.                                          *)

\* Signing in only begins.
LEMMA SignInStep ==
  ASSUME SessionInv, NEW r \in Requests, SignIn(r)
  PROVE  SessionInv'
<1> USE SessionAssumption, TokenAssumption DEF SessionInv, record, requests, history
<1>1. TypeOK'
  BY DEF TypeOK, SignIn, Labels, Token, Exchange
<1>2. TokensKnown'
  BY DEF TypeOK, TokensKnown, SignIn
<1>3. RequestsHold'
  BY DEF TypeOK, RequestsHold, SignIn
<1>4. Numbered'
  BY DEF TypeOK, Numbered, SignIn
<1>5. InThePast'
  BY DEF TypeOK, InThePast, SignIn
<1>6. EndsInTime'
  BY DEF TypeOK, EndsInTime, SignIn, Over
<1>7. GoneUserIsOut'
  BY DEF TypeOK, GoneUserIsOut, SignIn, Over
<1> QED
  BY <1>1, <1>2, <1>3, <1>4, <1>5, <1>6, <1>7

\* A new session begins with its first tokens.
LEMMA StartStep ==
  ASSUME SessionInv, NEW r \in Requests, NEW s \in Ids, Start(r, s)
  PROVE  SessionInv'
<1> USE SessionAssumption, TokenAssumption DEF SessionInv, record, requests, history
<1>1. TypeOK'
  BY DEF TypeOK, Start, IssueAccess, IssueRefresh, AccessExpiry, Labels, Token, Exchange
<1>2. TokensKnown'
  BY DEF TypeOK, TokensKnown, Start, IssueAccess, IssueRefresh, AccessExpiry
<1>3. RequestsHold'
  BY DEF TypeOK, RequestsHold, Start, IssueAccess, IssueRefresh, AccessExpiry
<1>4. Numbered'
  BY DEF TypeOK, Numbered, Start, IssueAccess, IssueRefresh, AccessExpiry
<1>5. InThePast'
  BY DEF TypeOK, InThePast, Start, IssueAccess, IssueRefresh, AccessExpiry
<1>6. EndsInTime'
  BY DEF TypeOK, EndsInTime, Start, IssueAccess, IssueRefresh, AccessExpiry, Over
<1>7. GoneUserIsOut'
  BY DEF TypeOK, GoneUserIsOut, Start, IssueAccess, IssueRefresh, AccessExpiry, Over
<1> QED
  BY <1>1, <1>2, <1>3, <1>4, <1>5, <1>6, <1>7

\* A refresh takes up a token that was issued.
LEMMA ReadStep ==
  ASSUME SessionInv, NEW r \in Requests, NEW t \in issued, NEW wanted \in BOOLEAN, Read(r, t, wanted)
  PROVE  SessionInv'
<1> USE SessionAssumption, TokenAssumption DEF SessionInv, record, requests, history
<1>1. TypeOK'
  BY DEF TypeOK, Read, Live, Labels, Token, Exchange
<1>2. TokensKnown'
  BY DEF TypeOK, TokensKnown, Read, Live
<1>3. RequestsHold'
  BY DEF TypeOK, RequestsHold, Read, Live
<1>4. Numbered'
  BY DEF TypeOK, Numbered, Read, Live
<1>5. InThePast'
  BY DEF TypeOK, InThePast, Read, Live
<1>6. EndsInTime'
  BY DEF TypeOK, EndsInTime, Read, Live, Over
<1>7. GoneUserIsOut'
  BY DEF TypeOK, GoneUserIsOut, Read, Live, Over
<1> QED
  BY <1>1, <1>2, <1>3, <1>4, <1>5, <1>6, <1>7

\* Asking auth lets no request of a gone user on.
LEMMA AskStep ==
  ASSUME SessionInv, NEW r \in Requests, Ask(r)
  PROVE  SessionInv'
<1> USE SessionAssumption, TokenAssumption DEF SessionInv, record, requests, history
<1>1. TypeOK'
  BY DEF TypeOK, Ask, Done, HasUser, Labels, Token, Exchange
<1>2. TokensKnown'
  BY DEF TypeOK, TokensKnown, Ask, Done, HasUser
<1>3. RequestsHold'
  BY DEF TypeOK, RequestsHold, Ask, Done, HasUser
<1>4. Numbered'
  BY DEF TypeOK, Numbered, Ask, Done, HasUser
<1>5. InThePast'
  BY DEF TypeOK, InThePast, Ask, Done, HasUser
<1>6. EndsInTime'
  BY DEF TypeOK, EndsInTime, Ask, Done, HasUser, Over
<1>7. GoneUserIsOut'
  BY DEF TypeOK, GoneUserIsOut, Ask, Done, HasUser, Over
<1> QED
  BY <1>1, <1>2, <1>3, <1>4, <1>5, <1>6, <1>7

\* A refused refresh ends the session now.
LEMMA RefuseStep ==
  ASSUME SessionInv, NEW r \in Requests, Refuse(r)
  PROVE  SessionInv'
<1> USE SessionAssumption, TokenAssumption DEF SessionInv, record, requests, history
<1>1. TypeOK'
  BY DEF TypeOK, Refuse, EndAll, Done, Live, Labels, Token, Exchange
<1>2. TokensKnown'
  <2>1. \A s \in Ids : state[s] # "none" => state'[s] # "none"
    BY DEF TypeOK, Refuse, EndAll, Done, Live
  <2>2. UNCHANGED <<issued, jti>>
    BY DEF Refuse
  <2> QED
    BY <2>1, <2>2 DEF TokensKnown, TypeOK, Token
<1>3. RequestsHold'
  BY DEF TypeOK, RequestsHold, Refuse, EndAll, Done, Live
<1>4. Numbered'
  BY DEF TypeOK, Numbered, Refuse, EndAll, Done, Live
<1>5. InThePast'
  BY DEF TypeOK, InThePast, Refuse, EndAll, Done, Live
<1>6. EndsInTime'
  BY DEF TypeOK, EndsInTime, Refuse, EndAll, Done, Live, Over
<1>7. GoneUserIsOut'
  <2>1. \A s \in Ids : Over(s) => Over(s)'
    BY DEF TypeOK, Over, Refuse, EndAll, Done, Live
  <2>2. UNCHANGED account /\ \A x \in Requests : pc'[x] \in {"rotate", "touch"} =>
                               pc[x] = pc'[x] /\ token[x] = token'[x]
    BY DEF TypeOK, Refuse, EndAll, Done, Live
  <2>3. \A x \in Requests : pc[x] \in {"rotate", "touch"} => token[x].sid \in Ids
    BY Holds
  <2> QED
    BY <2>1, <2>2, <2>3 DEF GoneUserIsOut
<1> QED
  BY <1>1, <1>2, <1>3, <1>4, <1>5, <1>6, <1>7

\* A rotation goes from the current number to the next, of a live session.
LEMMA RotateStep ==
  ASSUME SessionInv, NEW r \in Requests, Rotate(r)
  PROVE  SessionInv'
<1> USE SessionAssumption, TokenAssumption DEF SessionInv, record, requests, history
<1>1. TypeOK'
  <2>1. token[r].sid \in Ids /\ token[r].jti \in Nat
    BY Holds DEF Rotate
  <2>2. CASE Current(token[r])
    <3>1. issued' \in SUBSET Token
      BY <2>1, <2>2 DEF TypeOK, Rotate, IssueRefresh, Token
    <3>2. exchanges' \in SUBSET Exchange
      BY <2>1, <2>2 DEF TypeOK, Rotate, Exchange
    <3>3. access' = [access EXCEPT ![token[r].sid] = now + AccessLife] /\ now' = now
      BY <2>2 DEF Rotate, IssueAccess, AccessExpiry
    <3>4. access' \in [Ids -> Nat] /\ \A s \in Ids : access'[s] <= now' + AccessLife
      BY <2>1, <3>3 DEF TypeOK
    <3>5. /\ state' \in [Ids -> {"none", "live", "revoked", "gone"}]
          /\ jti' \in [Ids -> Nat] /\ rotated' \in [Ids -> Nat]
          /\ expires' \in [Ids -> Nat]
      BY <2>1, <2>2 DEF TypeOK, Rotate
    <3>6. /\ pc' \in [Requests -> Labels] /\ token' \in [Requests -> Token \cup {NoToken}]
          /\ rotate' \in [Requests -> BOOLEAN]
      BY <2>2 DEF TypeOK, Rotate, Done, Labels
    <3> QED
      BY <2>2, <3>1, <3>2, <3>3, <3>4, <3>5, <3>6 DEF TypeOK, Rotate
  <2>3. CASE ~Current(token[r])
    BY <2>3 DEF TypeOK, Rotate, Labels
  <2> QED
    BY <2>2, <2>3
<1>2. TokensKnown'
  <2>1. token[r].sid \in Ids /\ token[r].jti \in Nat
    BY Holds DEF Rotate
  <2>2. \A s \in Ids : jti[s] <= jti'[s] /\ (state[s] # "none" => state'[s] # "none")
    BY <2>1 DEF TypeOK, Rotate
  <2>3. \A t \in issued' : \/ t \in issued
                          \/ /\ t.sid = token[r].sid /\ t.jti = jti'[token[r].sid]
                             /\ state'[token[r].sid] # "none"
    BY <2>1 DEF TypeOK, Rotate, IssueRefresh
  <2>4. ASSUME NEW t \in issued
        PROVE  state'[t.sid] # "none" /\ t.jti <= jti'[t.sid]
    <3>1. t.sid \in Ids /\ t.jti \in Nat /\ state[t.sid] # "none" /\ t.jti <= jti[t.sid]
      BY DEF TypeOK, TokensKnown, Token
    <3>2. jti[t.sid] \in Nat /\ jti'[t.sid] \in Nat
      BY <2>1, <3>1 DEF TypeOK, Rotate
    <3> QED
      BY <2>2, <3>1, <3>2
  <2>5. jti'[token[r].sid] \in Nat
    BY <2>1 DEF TypeOK, Rotate
  <2> QED
    BY <2>3, <2>4, <2>5 DEF TokensKnown
<1>3. RequestsHold'
  BY DEF TypeOK, RequestsHold, Rotate, IssueRefresh, Done
<1>4. Numbered'
  <2>1. token[r].sid \in Ids /\ token[r].jti \in Nat
    BY Holds DEF Rotate
  <2>2. CASE Current(token[r])
    BY <2>1, <2>2 DEF TypeOK, Numbered, Rotate, Current, Exchange
  <2>3. CASE ~Current(token[r])
    BY <2>3 DEF Numbered, Rotate, record
  <2> QED
    BY <2>2, <2>3
<1>5. InThePast'
  BY DEF TypeOK, InThePast, Rotate, IssueAccess
<1>6. EndsInTime'
  BY DEF TypeOK, EndsInTime, Rotate, IssueAccess, Over
<1>7. GoneUserIsOut'
  BY DEF TypeOK, GoneUserIsOut, Rotate, Current, Live, Over
<1> QED
  BY <1>1, <1>2, <1>3, <1>4, <1>5, <1>6, <1>7

\* A touched session is live.
LEMMA TouchStep ==
  ASSUME SessionInv, NEW r \in Requests, Touch(r)
  PROVE  SessionInv'
<1> USE SessionAssumption, TokenAssumption DEF SessionInv, record, requests, history
<1>1. TypeOK'
  BY DEF TypeOK, Touch, IssueAccess, AccessExpiry, Done, Labels
<1>2. TokensKnown'
  BY DEF TypeOK, TokensKnown, Touch, Found, Live, IssueAccess, AccessExpiry, Done
<1>3. RequestsHold'
  BY DEF TypeOK, RequestsHold, Touch, Found, Live, IssueAccess, AccessExpiry, Done
<1>4. Numbered'
  BY DEF TypeOK, Numbered, Touch, Found, Live, IssueAccess, AccessExpiry, Done
<1>5. InThePast'
  BY DEF TypeOK, InThePast, Touch, Found, Live, IssueAccess, AccessExpiry, Done
<1>6. EndsInTime'
  BY DEF TypeOK, EndsInTime, Touch, Found, Live, IssueAccess, Over
<1>7. GoneUserIsOut'
  BY DEF TypeOK, GoneUserIsOut, Touch, Done, Over
<1> QED
  BY <1>1, <1>2, <1>3, <1>4, <1>5, <1>6, <1>7

\* A re-issued token lives no longer than the last one and one lifetime more.
LEMMA ReissueStep ==
  ASSUME SessionInv, NEW s \in Ids, Reissue(s)
  PROVE  SessionInv'
<1> USE SessionAssumption, TokenAssumption DEF SessionInv, record, requests, history
<1>1. TypeOK'
  BY DEF TypeOK, Reissue, IssueAccess, AccessExpiry, Labels, Token, Exchange
<1>2. TokensKnown'
  BY DEF TypeOK, TokensKnown, Reissue, IssueAccess, AccessExpiry
<1>3. RequestsHold'
  BY DEF TypeOK, RequestsHold, Reissue, IssueAccess, AccessExpiry
<1>4. Numbered'
  BY DEF TypeOK, Numbered, Reissue, IssueAccess, AccessExpiry
<1>5. InThePast'
  BY DEF TypeOK, InThePast, Reissue, IssueAccess, AccessExpiry
<1>6. EndsInTime'
  BY DEF TypeOK, EndsInTime, Reissue, IssueAccess, AccessExpiry, Over
<1>7. GoneUserIsOut'
  BY DEF TypeOK, GoneUserIsOut, Reissue, IssueAccess, AccessExpiry, Over
<1> QED
  BY <1>1, <1>2, <1>3, <1>4, <1>5, <1>6, <1>7

\* A revocation ends live sessions now.
LEMMA RevokeStep ==
  ASSUME SessionInv, NEW which \in SUBSET Ids, Revoke(which)
  PROVE  SessionInv'
<1> USE SessionAssumption, TokenAssumption DEF SessionInv, record, requests, history
<1>1. TypeOK'
  BY DEF TypeOK, Revoke, EndAll, Live, Labels, Token, Exchange
<1>2. TokensKnown'
  <2>1. \A s \in Ids : state[s] # "none" => state'[s] # "none"
    BY DEF TypeOK, Revoke, EndAll, Live
  <2>2. UNCHANGED <<issued, jti>>
    BY DEF Revoke
  <2> QED
    BY <2>1, <2>2 DEF TokensKnown, TypeOK, Token
<1>3. RequestsHold'
  BY DEF TypeOK, RequestsHold, Revoke, EndAll, Live
<1>4. Numbered'
  BY DEF TypeOK, Numbered, Revoke, EndAll, Live
<1>5. InThePast'
  BY DEF TypeOK, InThePast, Revoke, EndAll, Live
<1>6. EndsInTime'
  BY DEF TypeOK, EndsInTime, Revoke, EndAll, Live, Over
<1>7. GoneUserIsOut'
  <2>1. \A s \in Ids : Over(s) => Over(s)'
    BY DEF TypeOK, Over, Revoke, EndAll, Live
  <2>2. UNCHANGED account /\ \A x \in Requests : pc'[x] \in {"rotate", "touch"} =>
                               pc[x] = pc'[x] /\ token[x] = token'[x]
    BY DEF TypeOK, Revoke, EndAll, Live
  <2>3. \A x \in Requests : pc[x] \in {"rotate", "touch"} => token[x].sid \in Ids
    BY Holds
  <2> QED
    BY <2>1, <2>2, <2>3 DEF GoneUserIsOut
<1> QED
  BY <1>1, <1>2, <1>3, <1>4, <1>5, <1>6, <1>7

\* So does the deletion of expired ones ...
LEMMA SweepStep ==
  ASSUME SessionInv, Sweep
  PROVE  SessionInv'
<1> USE SessionAssumption, TokenAssumption DEF SessionInv, record, requests, history
<1>1. TypeOK'
  BY DEF TypeOK, Sweep, Delete, Live, Labels, Token, Exchange
<1>2. TokensKnown'
  <2>1. \A s \in Ids : state[s] # "none" => state'[s] # "none"
    BY DEF TypeOK, Sweep, Delete, Live
  <2>2. UNCHANGED <<issued, jti>>
    BY DEF Sweep
  <2> QED
    BY <2>1, <2>2 DEF TokensKnown, TypeOK, Token
<1>3. RequestsHold'
  BY DEF TypeOK, RequestsHold, Sweep, Delete, Live
<1>4. Numbered'
  BY DEF TypeOK, Numbered, Sweep, Delete, Live
<1>5. InThePast'
  BY DEF TypeOK, InThePast, Sweep, Delete, Live
<1>6. EndsInTime'
  BY DEF TypeOK, EndsInTime, Sweep, Delete, Live, Over
<1>7. GoneUserIsOut'
  <2>1. \A s \in Ids : Over(s) => Over(s)'
    BY DEF TypeOK, Over, Sweep, Delete, Live
  <2>2. UNCHANGED account /\ \A x \in Requests : pc'[x] \in {"rotate", "touch"} =>
                               pc[x] = pc'[x] /\ token[x] = token'[x]
    BY DEF TypeOK, Sweep, Delete, Live
  <2>3. \A x \in Requests : pc[x] \in {"rotate", "touch"} => token[x].sid \in Ids
    BY Holds
  <2> QED
    BY <2>1, <2>2, <2>3 DEF GoneUserIsOut
<1> QED
  BY <1>1, <1>2, <1>3, <1>4, <1>5, <1>6, <1>7

\* ... the account goes ...
LEMMA DeleteAccountStep ==
  ASSUME SessionInv, DeleteAccount
  PROVE  SessionInv'
<1> USE SessionAssumption, TokenAssumption DEF SessionInv, record, requests, history
<1>1. TypeOK'
  BY DEF TypeOK, DeleteAccount, Labels, Token, Exchange
<1>2. TokensKnown'
  BY DEF TypeOK, TokensKnown, DeleteAccount
<1>3. RequestsHold'
  BY DEF TypeOK, RequestsHold, DeleteAccount
<1>4. Numbered'
  BY DEF TypeOK, Numbered, DeleteAccount
<1>5. InThePast'
  BY DEF TypeOK, InThePast, DeleteAccount
<1>6. EndsInTime'
  BY DEF TypeOK, EndsInTime, DeleteAccount, Over
<1>7. GoneUserIsOut'
  BY DEF TypeOK, GoneUserIsOut, DeleteAccount, Over
<1> QED
  BY <1>1, <1>2, <1>3, <1>4, <1>5, <1>6, <1>7

\* ... and with the erasure every session is over.
LEMMA EraseSessionsStep ==
  ASSUME SessionInv, EraseSessions
  PROVE  SessionInv'
<1> USE SessionAssumption, TokenAssumption DEF SessionInv, record, requests, history
<1>1. TypeOK'
  BY DEF TypeOK, EraseSessions, Delete, Live, Labels, Token, Exchange
<1>2. TokensKnown'
  <2>1. \A s \in Ids : state[s] # "none" => state'[s] # "none"
    BY DEF TypeOK, EraseSessions, Delete, Live
  <2>2. UNCHANGED <<issued, jti>>
    BY DEF EraseSessions
  <2> QED
    BY <2>1, <2>2 DEF TokensKnown, TypeOK, Token
<1>3. RequestsHold'
  BY DEF TypeOK, RequestsHold, EraseSessions, Delete, Live
<1>4. Numbered'
  BY DEF TypeOK, Numbered, EraseSessions, Delete, Live
<1>5. InThePast'
  BY DEF TypeOK, InThePast, EraseSessions, Delete, Live
<1>6. EndsInTime'
  BY DEF TypeOK, EndsInTime, EraseSessions, Delete, Live, Over
<1>7. GoneUserIsOut'
  <2>1. \A s \in Ids : state[s] # "none" => Over(s)'
    BY DEF TypeOK, Over, Live, EraseSessions, Delete
  <2>2. \A x \in Requests : pc[x] \in {"rotate", "touch"} =>
            token[x].sid \in Ids /\ state[token[x].sid] # "none"
    BY Holds
  <2> QED
    BY <2>1, <2>2 DEF GoneUserIsOut, EraseSessions
<1> QED
  BY <1>1, <1>2, <1>3, <1>4, <1>5, <1>6, <1>7

\* Time passes.
LEMMA TickStep ==
  ASSUME SessionInv, Tick
  PROVE  SessionInv'
<1> USE SessionAssumption, TokenAssumption DEF SessionInv, record, requests, history
<1>1. TypeOK'
  BY DEF TypeOK, Tick, Labels, Token, Exchange
<1>2. TokensKnown'
  BY DEF TypeOK, TokensKnown, Tick
<1>3. RequestsHold'
  BY DEF TypeOK, RequestsHold, Tick
<1>4. Numbered'
  BY DEF TypeOK, Numbered, Tick
<1>5. InThePast'
  BY DEF TypeOK, InThePast, Tick
<1>6. EndsInTime'
  BY DEF TypeOK, EndsInTime, Tick, Over
<1>7. GoneUserIsOut'
  BY DEF TypeOK, GoneUserIsOut, Tick, Over
<1> QED
  BY <1>1, <1>2, <1>3, <1>4, <1>5, <1>6, <1>7

\* Every step keeps the invariant.
LEMMA SessionStep ==
  ASSUME SessionInv, [Next]_vars
  PROVE  SessionInv'
<1>1. CASE Next
  BY <1>1, SignInStep, StartStep, ReadStep, AskStep, RefuseStep, RotateStep, TouchStep,
     ReissueStep, RevokeStep, SweepStep, DeleteAccountStep, EraseSessionsStep, TickStep
  DEF Next, Handle
<1>2. CASE UNCHANGED vars
  BY <1>2
     DEF vars, record, requests, history, SessionInv, TypeOK, TokensKnown, RequestsHold,
         Numbered, InThePast, EndsInTime, GoneUserIsOut, Over
<1> QED
  BY <1>1, <1>2

-----------------------------------------------------------------------------
(* The theorems.                                                            *)

\* The inductive invariant holds in every reachable state.
THEOREM SessionInduction == Spec => []SessionInv
<1>1. Init => SessionInv
  BY InitSession
<1>2. SessionInv /\ [Next]_vars => SessionInv'
  BY SessionStep
<1> QED
  BY <1>1, <1>2, PTL DEF Spec

\* Every reachable state is well typed, and no access token outlives its lifetime.
THEOREM SessionTypes == Spec => []TypeOK
<1>1. SessionInv => TypeOK
  BY DEF SessionInv
<1> QED
  BY <1>1, SessionInduction, PTL

\* A refresh token is exchanged at most once, with any number of parallel requests.
THEOREM TokensExchangeOnce == Spec => []ExchangedOnce
<1>1. SessionInv => ExchangedOnce
  <2> SUFFICES ASSUME SessionInv, NEW x \in exchanges, NEW y \in exchanges,
                      x.sid = y.sid, x.old = y.old
               PROVE  x = y
    BY DEF ExchangedOnce
  <2>1. x \in Exchange /\ y \in Exchange
    BY DEF SessionInv, TypeOK
  <2>2. x.new = y.new
    BY DEF SessionInv, Numbered
  <2> QED
    BY <2>1, <2>2 DEF Exchange
<1> QED
  BY <1>1, SessionInduction, PTL

\* A session that is over gives no access after one lifetime of an access token,
\* but for what was re-issued from its last tokens.
THEOREM SessionsEndInTime == Spec => []EndsInTime
<1>1. SessionInv => EndsInTime
  BY DEF SessionInv
<1> QED
  BY <1>1, SessionInduction, PTL

\* No refresh in progress outlives the erasure of an account's sessions.
THEOREM ErasedAccountIsOut == Spec => []GoneUserIsOut
<1>1. SessionInv => GoneUserIsOut
  BY DEF SessionInv
<1> QED
  BY <1>1, SessionInduction, PTL

\* A session that is over stays over and hands out no refresh token.
THEOREM SessionsStayOver == Spec => OverIsFinal
<1>1. ASSUME SessionInv, Next
      PROVE  \A s \in Ids : StaysOver(s)
  <2> SUFFICES ASSUME NEW s \in Ids, Over(s) PROVE Over(s)' /\ jti'[s] = jti[s]
    BY DEF StaysOver
  <2> USE DEF Over
  <2>1. ASSUME NEW r \in Requests, SignIn(r) \/ Ask(r) \/ Touch(r)
        PROVE  Over(s)' /\ jti'[s] = jti[s]
    BY <2>1 DEF SignIn, Ask, Touch, record
  <2>2. ASSUME NEW r \in Requests, NEW t \in issued, NEW wanted \in BOOLEAN,
               Read(r, t, wanted)
        PROVE  Over(s)' /\ jti'[s] = jti[s]
    BY <2>2 DEF Read, record
  <2>3. ASSUME NEW r \in Requests, NEW x \in Ids, Start(r, x)
        PROVE  Over(s)' /\ jti'[s] = jti[s]
    BY <2>3 DEF Start, SessionInv, TypeOK
  <2>4. ASSUME NEW r \in Requests, Refuse(r)
        PROVE  Over(s)' /\ jti'[s] = jti[s]
    BY <2>4 DEF Refuse, EndAll, Live
  <2>5. ASSUME NEW r \in Requests, Rotate(r)
        PROVE  Over(s)' /\ jti'[s] = jti[s]
    <3>1. token[r].sid \in Ids
      BY <1>1, <2>5, Holds DEF Rotate
    <3> QED
      BY <1>1, <2>5, <3>1 DEF Rotate, Current, Live, record, SessionInv, TypeOK
  <2>6. ASSUME NEW x \in Ids, Reissue(x)
        PROVE  Over(s)' /\ jti'[s] = jti[s]
    BY <2>6 DEF Reissue, record
  <2>7. ASSUME NEW which \in SUBSET Ids, Revoke(which)
        PROVE  Over(s)' /\ jti'[s] = jti[s]
    BY <2>7 DEF Revoke, EndAll, Live
  <2>8. ASSUME Sweep \/ EraseSessions
        PROVE  Over(s)' /\ jti'[s] = jti[s]
    BY <2>8 DEF Sweep, EraseSessions, Delete, Live
  <2>9. ASSUME DeleteAccount \/ Tick
        PROVE  Over(s)' /\ jti'[s] = jti[s]
    BY <2>9 DEF DeleteAccount, Tick, record
  <2> QED
    BY <1>1, <2>1, <2>2, <2>3, <2>4, <2>5, <2>6, <2>7, <2>8, <2>9 DEF Next, Handle
<1>2. SessionInv /\ [Next]_vars => [\A s \in Ids : StaysOver(s)]_vars
  BY <1>1
<1> QED
  BY <1>2, SessionInduction, PTL DEF Spec, OverIsFinal

-----------------------------------------------------------------------------
(* Without the routes that re-issue.                                       *)

\* What session_service.py:7 says holds of everything but those routes: where no
\* route gives an access token on the strength of another, a session that is over
\* gives no access after one lifetime of an access token.
THEOREM EndsInOneLifetimeWithoutReissue ==
  ASSUME MaxReissues = 0
  PROVE  Spec => []EndsInOneLifetime
<1> DEFINE NoneLate == \A s \in Ids : late[s] = 0
<1>1. Init => NoneLate
  BY DEF Init
<1>2. ASSUME SessionInv, NoneLate, [Next]_vars
      PROVE  NoneLate'
  <2>1. ~\E s \in Ids : Reissue(s)
    BY <1>2, SessionAssumption DEF Reissue, SessionInv, TypeOK
  <2>2. late' = late
    BY <1>2, <2>1, ZenonT(30)
       DEF Next, Handle, SignIn, Ask, Refuse, Rotate, Touch, Start, Read, Revoke, Sweep,
           DeleteAccount, EraseSessions, Tick, history, vars
  <2> QED
    BY <1>2, <2>2
<1>3. SessionInv /\ NoneLate => EndsInOneLifetime
  BY SessionAssumption DEF SessionInv, TypeOK, EndsInTime, EndsInOneLifetime
<1>4. SessionInv /\ NoneLate /\ [Next]_vars => NoneLate'
  BY <1>2
<1> QED
  BY <1>1, <1>3, <1>4, SessionInduction, PTL DEF Spec
-----------------------------------------------------------------------------
(* The promise of the sessions.                                            *)

\* A step that ends live sessions and touches nothing else the promise shows is an
\* end of them, or shows nothing when there are none.
LEMMA EndsThem ==
  ASSUME SessionInv, NEW which \in SUBSET Ids, UNCHANGED <<now, jti, issued, access>>,
         \A s \in Ids : Phase(s)' = IF s \in which /\ Live(s) THEN "over" ELSE Phase(s)
  PROVE  Promise!Next
<1> DEFINE ends == {s \in which : Live(s)}
<1>1. ends \in SUBSET Ids /\ \A s \in ends : Phase(s) = "live"
  BY DEF Phase, Live
<1>2. [s \in Ids |-> Phase(s)]' = [s \in Ids |-> IF s \in ends THEN "over" ELSE Phase(s)]
  BY <1>1
<1>3. Promise!End(ends)
  BY <1>1, <1>2 DEF Promise!End
<1> QED
  BY <1>1, <1>3 DEF Promise!Next

\* A step that changes no session's phase shows the same phases.
LEMMA SamePhases ==
  ASSUME UNCHANGED state
  PROVE  /\ \A s \in Ids : Phase(s)' = Phase(s)
         /\ [s \in Ids |-> Phase(s)]' = [s \in Ids |-> Phase(s)]
<1>1. \A s \in Ids : Phase(s)' = Phase(s)
  BY DEF Phase
<1> QED
  BY <1>1

\* A sign-in that stores a session begins it.
LEMMA StartBegins ==
  ASSUME SessionInv, NEW r \in Requests, NEW s \in Ids, Start(r, s)
  PROVE  Promise!Next
<1>1. jti[s] = 0 /\ Phase(s) = "none"
  BY DEF SessionInv, InThePast, Start, Phase
<1>2. [x \in Ids |-> Phase(x)]' = [[x \in Ids |-> Phase(x)] EXCEPT ![s] = "live"]
  BY DEF Start, Phase, SessionInv, TypeOK
<1>3. Promise!Begin(s)
  BY <1>1, <1>2
     DEF Promise!Begin, Promise!GiveAccess, Promise!HandOut, Start, IssueAccess, AccessExpiry,
         IssueRefresh
<1> QED
  BY <1>3 DEF Promise!Next

\* A rotation that finds its token current exchanges it, in one step; that it found it
\* current before it asked auth counts for nothing.
LEMMA RotateRotates ==
  ASSUME SessionInv, NEW r \in Requests, Rotate(r)
  PROVE  Promise!Next \/ UNCHANGED Promise!vars
<1> DEFINE s == token[r].sid
<1>1. s \in Ids /\ token[r] \in issued
  BY Holds DEF Rotate
<1>2. CASE Current(token[r])
  <2>1. Phase(s) = "live" /\ token[r].jti = jti[s]
    BY <1>2 DEF Current, Live, Phase
  <2>2. UNCHANGED state
    BY <1>1, <1>2 DEF Rotate, Current, Live, SessionInv, TypeOK
  <2>3. Promise!Rotate(s)
    BY <1>1, <1>2, <2>1, <2>2, SamePhases
       DEF Promise!Rotate, Promise!GiveAccess, Promise!HandOut, Rotate, IssueAccess,
           AccessExpiry, IssueRefresh
  <2> QED
    BY <1>1, <2>3 DEF Promise!Next
<1>3. CASE ~Current(token[r])
  BY <1>3, SamePhases DEF Rotate, record, Promise!vars
<1> QED
  BY <1>2, <1>3

\* A touch that finds the session live renews its access.
LEMMA TouchRenews ==
  ASSUME SessionInv, NEW r \in Requests, Touch(r)
  PROVE  Promise!Next \/ UNCHANGED Promise!vars
<1> DEFINE s == token[r].sid
<1>1. s \in Ids
  BY Holds DEF Touch
<1>2. CASE Found(token[r])
  <2>1. Phase(s) = "live"
    BY <1>2 DEF Found, Live, Phase
  <2>2. Promise!Renew(s)
    BY <1>1, <1>2, <2>1, SamePhases
       DEF Promise!Renew, Promise!GiveAccess, Touch, record, IssueAccess, AccessExpiry
  <2> QED
    BY <1>1, <2>2 DEF Promise!Next
<1>3. CASE ~Found(token[r])
  BY <1>3, SamePhases DEF Touch, record, Promise!vars
<1> QED
  BY <1>2, <1>3

\* What Delete shows: the live sessions are over, the others already were.
LEMMA DeleteShows ==
  ASSUME SessionInv, NEW which \in SUBSET Ids, Delete(which)
  PROVE  \A s \in Ids : Phase(s)' = IF s \in which /\ Live(s) THEN "over" ELSE Phase(s)
  BY DEF Delete, Phase, Live, SessionInv, TypeOK

\* Every step of the sessions is one of the promise's, or shows nothing.
LEMMA PromiseStep ==
  ASSUME SessionInv, [Next]_vars
  PROVE  [Promise!Next]_(Promise!vars)
<1>1. ASSUME NEW r \in Requests, SignIn(r) \/ Ask(r) PROVE UNCHANGED Promise!vars
  BY <1>1, SamePhases DEF SignIn, Ask, record, Promise!vars
<1>2. ASSUME NEW r \in Requests, NEW t \in issued, NEW wanted \in BOOLEAN, Read(r, t, wanted)
      PROVE  UNCHANGED Promise!vars
  BY <1>2, SamePhases DEF Read, record, Promise!vars
<1>3. ASSUME NEW r \in Requests, Refuse(r) PROVE Promise!Next
  <2>1. {token[r].sid} \in SUBSET Ids
    BY <1>3, Holds DEF Refuse
  <2>2. \A s \in Ids :
          Phase(s)' = IF s \in {token[r].sid} /\ Live(s) THEN "over" ELSE Phase(s)
    BY <1>3 DEF Refuse, EndAll, Phase, Live
  <2> QED
    BY <1>3, <2>1, <2>2, EndsThem DEF Refuse
<1>4. ASSUME NEW s \in Ids, Reissue(s) PROVE Promise!Next
  <2>1. Promise!Renew(s)
    BY <1>4, SamePhases
       DEF Promise!Renew, Promise!GiveAccess, Reissue, record, IssueAccess, AccessExpiry
  <2> QED
    BY <2>1 DEF Promise!Next
<1>5. ASSUME NEW which \in SUBSET Ids, Revoke(which) PROVE Promise!Next
  <2>1. \A s \in Ids : Phase(s)' = IF s \in which /\ Live(s) THEN "over" ELSE Phase(s)
    BY <1>5 DEF Revoke, EndAll, Phase, Live
  <2> QED
    BY <1>5, <2>1, EndsThem DEF Revoke
<1>6. CASE Sweep
  <2> DEFINE which == {s \in Ids : expires[s] <= now}
  <2>1. \A s \in Ids : Phase(s)' = IF s \in which /\ Live(s) THEN "over" ELSE Phase(s)
    BY <1>6, DeleteShows DEF Sweep
  <2> QED
    BY <1>6, <2>1, EndsThem DEF Sweep
<1>7. CASE EraseSessions
  BY <1>7, DeleteShows, EndsThem DEF EraseSessions
<1>8. CASE DeleteAccount \/ UNCHANGED vars
  BY <1>8, SamePhases DEF DeleteAccount, record, vars, Promise!vars
<1>9. CASE Tick
  BY <1>9, SamePhases DEF Tick, record, Promise!Tick, Promise!Next
<1> QED
  BY <1>1, <1>2, <1>3, <1>4, <1>5, <1>6, <1>7, <1>8, <1>9, StartBegins, RotateRotates,
     TouchRenews DEF Next, Handle

\* What session_service.py promises of the cookies, for any number of requests in
\* progress at once: they do to a session what refreshes of one step would do, so it
\* begins and ends once, its current refresh token alone is exchanged, and access is
\* given on the strength of a live session or of access that has not run out.
THEOREM SessionPromiseIsKept == Spec => KeepsPromise
<1>1. Init => Promise!Init
  BY DEF Init, Phase, Promise!Init
<1>2. SessionInv /\ [Next]_vars => [Promise!Next]_(Promise!vars)
  BY PromiseStep
<1> QED
  BY <1>1, <1>2, SessionInduction, PTL DEF Spec, KeepsPromise, Promise!Spec
=============================================================================
