-------------------------- MODULE AccountAccess_proofs --------------------------
(***************************************************************************)
(* Proofs about AccountAccess, for any numbers of requests, token pairs    *)
(* and links and any access-token lifetime.                                *)
(***************************************************************************)
EXTENDS AccountAccess, TLAPS

USE LifetimeAssumption, NoneAssumption

\* No request, no session, no link: the invariant holds of the fresh account.
LEMMA InitInv == Init => AccessInv
<1> SUFFICES ASSUME Init PROVE AccessInv
    OBVIOUS
<1>1. TypeOK
  <2>1. since \in 0..access_token_expire /\ faults \in 0..MaxFaults
    BY DEF Init
  <2>2. /\ ttl \in [Token -> 0..access_token_expire]
        /\ straddled \in [Token -> BOOLEAN] /\ straddles \in [Request -> BOOLEAN]
    BY SMT DEF Init
  <2> QED
    BY <2>1, <2>2, Zenon DEF Init, TypeOK, Age
<1>2. RequestsTyped /\ HeldIssued
    BY DEF Init, RequestsTyped, HeldIssued
<1>3. OldSessionsEnd /\ OpenersStraddle /\ LeftoversExplained
    BY DEF Init, OldSessionsEnd, OpenersStraddle, LeftoversExplained, Leftover, Opening
<1>4. OutdatedTimesOut
    BY DEF Init, OutdatedTimesOut, Outdated
<1> QED
    BY <1>1, <1>2, <1>3, <1>4 DEF AccessInv, Typed

\* A step keeps the types and what requests carry.
LEMMA StepTyped == Typed /\ [Next]_vars => Typed'
<1> SUFFICES ASSUME Typed, [Next]_vars PROVE Typed'
    OBVIOUS
<1> USE DEF Typed, TypeOK, RequestsTyped, HeldIssued, Age
<1>1. ASSUME NEW r \in Request, Login(r) PROVE Typed'
    BY <1>1, SMT DEF Login, Begin, tables, clients
<1>2. ASSUME NEW r \in Request, NEW t \in Token, Refresh(r, t) PROVE Typed'
    BY <1>2, SMT DEF Refresh, Begin, tables, clients
<1>3. ASSUME NEW r \in Request, NEW t \in Token, Reuse(r, t) PROVE Typed'
    BY <1>3, SMT DEF Reuse, Begin, tables, clients
<1>4. ASSUME NEW r \in Request, NEW t \in Token, LogoutAll(r, t) PROVE Typed'
    BY <1>4, SMT DEF LogoutAll, Begin, tables, clients
<1>5. ASSUME NEW r \in Request, Forgot(r) PROVE Typed'
    BY <1>5, SMT DEF Forgot, Begin, tables
<1>6. ASSUME NEW r \in Request, NEW l \in Link, Reset(r, l) PROVE Typed'
    BY <1>6, SMT DEF Reset, ResetStep, Begin, tables, clients
<1>7. ASSUME NEW r \in Request, Revoke(r) PROVE Typed'
    BY <1>7, SMT DEF Revoke, Goto, clients, ages
<1>8. ASSUME NEW r \in Request, Issue(r) PROVE Typed'
    BY <1>8, SMT DEF Issue, clients
<1>16. ASSUME NEW r \in Request, Mint(r) PROVE Typed'
    BY <1>16, SMT DEF Mint, Goto, AccessLifetime, tables, ages
<1>9. ASSUME NEW r \in Request, Save(r) PROVE Typed'
    BY <1>9, SMT DEF Save, Goto, ResetStep, Replaced, Opening, clients
<1>10. ASSUME NEW r \in Request, RevokeAll(r) PROVE Typed'
  <2>1. CASE op[r] = "reset"
    <3>1. /\ straddles' = [q \in Request |->
                            straddles[q] \/ (Opening(q) /\ proof[q] = "replaced")]
          /\ straddled' = [t \in Token |-> Straddled(t)]
      BY <1>10, <2>1 DEF RevokeAll
    <3>2. straddles' \in [Request -> BOOLEAN] /\ straddled' \in [Token -> BOOLEAN]
      BY <3>1, Zenon DEF Straddled
    <3>3. \A a \in Age : Settled(a) \in Age
      BY DEF Settled
    <3>4. age' \in [Token -> Age] /\ proof' \in [Request -> Age]
      BY <1>10, <2>1, <3>3 DEF RevokeAll
    <3>5. since' \in 0..access_token_expire /\ interrupted' \in BOOLEAN
      <4>1. since' = 0
        BY <1>10, <2>1 DEF RevokeAll
      <4>2. interrupted' = FALSE
        BY <1>10, <2>1 DEF RevokeAll
      <4>3. interrupted' \in BOOLEAN
        BY <4>2, Zenon
      <4> QED
        BY <4>1, <4>3
    <3>6. /\ row' \in [Token -> {"unissued", "live", "revoked"}]
          /\ \A t \in Token : row'[t] = "unissued" <=> row[t] = "unissued"
          /\ at' = [at EXCEPT ![r] = "idle"]
          /\ op' = [op EXCEPT ![r] = "none"]
          /\ arg' = [arg EXCEPT ![r] = None]
          /\ UNCHANGED <<password_reset_token_hash, ttl, held, mailed, faults>>
      BY <1>10, <2>1 DEF RevokeAll, Goto, ResetStep, clients
    <3>7. TypeOK'
      BY <3>2, <3>4, <3>5, <3>6
    <3>8. RequestsTyped' /\ HeldIssued'
      BY <2>1, <3>6
    <3> QED
      BY <3>7, <3>8
  <2>2. CASE op[r] # "reset"
    BY <1>10, <2>2 DEF RevokeAll, Goto, ResetStep, clients, ages
  <2> QED
    BY <2>1, <2>2
<1>11. ASSUME NEW r \in Request, Mail(r) PROVE Typed'
    BY <1>11, SMT DEF Mail, Goto, tables, ages
<1>12. ASSUME NEW r \in Request, Receive(r) PROVE Typed'
    BY <1>12, SMT DEF Receive, Finish, Goto, tables
<1>13. ASSUME NEW r \in Request, Fault(r) PROVE Typed'
    BY <1>13, SMT DEF Fault, Finish, Goto, tables, clients
<1>14. CASE Tick
  <2>1. ttl' \in [Token -> 0..access_token_expire] /\ since' \in 0..access_token_expire
    BY <1>14 DEF Tick
  <2> QED
    BY <1>14, <2>1 DEF Tick, tables, locals
<1>15. CASE UNCHANGED vars
    BY <1>15 DEF vars, tables, clients, locals, ages
<1> QED
    BY <1>1, <1>2, <1>3, <1>4, <1>5, <1>6, <1>7, <1>8, <1>9, <1>10, <1>11, <1>12, <1>13,
       <1>14, <1>15, <1>16 DEF Next, Arrive, Progress

\* What is opened, about to be, or about to get its access token with a settled
\* password straddles.
LEMMA StepStraddle == AccessInv /\ [Next]_vars => OldSessionsEnd' /\ OpenersStraddle'
<1> SUFFICES ASSUME AccessInv, [Next]_vars PROVE OldSessionsEnd' /\ OpenersStraddle'
    OBVIOUS
<1> USE DEF AccessInv, Typed, TypeOK, RequestsTyped, OldSessionsEnd, OpenersStraddle, Opening
<1>1. ASSUME NEW r \in Request, Login(r) PROVE OldSessionsEnd' /\ OpenersStraddle'
    BY <1>1, SMT DEF Login, Begin, tables, clients
<1>2. ASSUME NEW r \in Request, NEW t \in Token, Refresh(r, t) PROVE OldSessionsEnd' /\ OpenersStraddle'
    BY <1>2, SMT DEF Refresh, Usable, Begin, tables, clients
<1>3. ASSUME NEW r \in Request, NEW t \in Token, Reuse(r, t) PROVE OldSessionsEnd' /\ OpenersStraddle'
    BY <1>3, SMT DEF Reuse, Begin, tables, clients
<1>4. ASSUME NEW r \in Request, NEW t \in Token, LogoutAll(r, t) PROVE OldSessionsEnd' /\ OpenersStraddle'
    BY <1>4, SMT DEF LogoutAll, Begin, tables, clients
<1>5. ASSUME NEW r \in Request, Forgot(r) PROVE OldSessionsEnd' /\ OpenersStraddle'
    BY <1>5, SMT DEF Forgot, Begin, tables
<1>6. ASSUME NEW r \in Request, NEW l \in Link, Reset(r, l) PROVE OldSessionsEnd' /\ OpenersStraddle'
    BY <1>6, SMT DEF Reset, ResetStep, Begin, tables, clients
<1>7. ASSUME NEW r \in Request, Revoke(r) PROVE OldSessionsEnd' /\ OpenersStraddle'
    BY <1>7, SMT DEF Revoke, Goto, clients, ages
<1>8. ASSUME NEW r \in Request, Issue(r) PROVE OldSessionsEnd' /\ OpenersStraddle'
    BY <1>8, SMT DEF Issue, clients
<1>16. ASSUME NEW r \in Request, Mint(r) PROVE OldSessionsEnd' /\ OpenersStraddle'
    BY <1>16, SMT DEF Mint, Goto, AccessLifetime, tables, ages
<1>9. ASSUME NEW r \in Request, Save(r) PROVE OldSessionsEnd' /\ OpenersStraddle'
    BY <1>9, SMT DEF Save, Goto, ResetStep, Replaced, clients
<1>10. ASSUME NEW r \in Request, RevokeAll(r) PROVE OldSessionsEnd' /\ OpenersStraddle'
  <2>1. \A t \in Token : row'[t] # "live"
    BY <1>10 DEF RevokeAll
  <2>2. \A q \in Request : Opening(q)' <=> Opening(q)
    BY <1>10 DEF RevokeAll, Goto, ResetStep
  <2>3. CASE op[r] = "reset"
    <3>1. /\ straddles' = [q \in Request |->
                            straddles[q] \/ (Opening(q) /\ proof[q] = "replaced")]
          /\ straddled' = [t \in Token |-> Straddled(t)]
          /\ age' = [t \in Token |-> Settled(age[t])]
          /\ proof' = [q \in Request |-> Settled(proof[q])]
      BY <1>10, <2>3 DEF RevokeAll
    <3>2. \A q \in Request : at'[q] = "mint" => at[q] = "mint" /\ arg'[q] = arg[q]
      BY <1>10, <2>3 DEF RevokeAll, Goto, ResetStep
    <3>3. ASSUME NEW q \in Request, Opening(q)', proof'[q] = "settled" PROVE straddles'[q]
      <4>1. Opening(q) /\ proof[q] \in {"replaced", "settled"}
        BY <2>2, <3>1, <3>3 DEF Settled
      <4> QED
        BY <3>1, <4>1, Zenon
    <3>4. ASSUME NEW q \in Request, at'[q] = "mint", age'[arg'[q]] = "settled"
          PROVE  straddled'[arg'[q]]
      <4>1. at[q] = "mint" /\ arg[q] \in Token /\ arg'[q] = arg[q]
        BY <3>2, <3>4
      <4>2. age[arg[q]] \in {"replaced", "settled"}
        BY <3>1, <3>4, <4>1 DEF Settled
      <4>3. Straddled(arg[q])
        BY <4>1, <4>2 DEF Straddled
      <4> QED
        BY <3>1, <4>1, <4>3
    <3> QED
      BY <2>1, <3>3, <3>4
  <2>4. CASE op[r] # "reset"
    <3>1. UNCHANGED <<age, proof, straddled, straddles>>
      BY <1>10, <2>4 DEF RevokeAll, ages
    <3>2. \A q \in Request : at'[q] = "mint" => at[q] = "mint" /\ arg'[q] = arg[q]
      BY <1>10, <2>4 DEF RevokeAll, Goto
    <3> QED
      BY <2>1, <2>2, <3>1, <3>2
  <2> QED
    BY <2>3, <2>4
<1>11. ASSUME NEW r \in Request, Mail(r) PROVE OldSessionsEnd' /\ OpenersStraddle'
    BY <1>11, SMT DEF Mail, Goto, tables, ages
<1>12. ASSUME NEW r \in Request, Receive(r) PROVE OldSessionsEnd' /\ OpenersStraddle'
    BY <1>12, SMT DEF Receive, Finish, Goto, tables
<1>13. ASSUME NEW r \in Request, Fault(r) PROVE OldSessionsEnd' /\ OpenersStraddle'
    BY <1>13, SMT DEF Fault, Finish, Goto, tables, clients
<1>14. CASE Tick
    BY <1>14, SMT DEF Tick, tables, locals
<1>15. CASE UNCHANGED vars
    BY <1>15 DEF vars, tables, clients, locals, ages
<1> QED
    BY <1>1, <1>2, <1>3, <1>4, <1>5, <1>6, <1>7, <1>8, <1>9, <1>10, <1>11, <1>12, <1>13,
       <1>14, <1>15, <1>16 DEF Next, Arrive, Progress

\* A replaced password leaves nothing behind but under a reset, or after a fault in one.
LEMMA StepLeftovers == AccessInv /\ [Next]_vars => LeftoversExplained'
<1> SUFFICES ASSUME AccessInv, [Next]_vars PROVE LeftoversExplained'
    OBVIOUS
<1> USE DEF AccessInv, Typed, TypeOK, RequestsTyped, LeftoversExplained, Leftover, Opening
<1>1. ASSUME NEW r \in Request, Login(r) PROVE LeftoversExplained'
    BY <1>1, SMT DEF Login, Begin, tables, clients
<1>2. ASSUME NEW r \in Request, NEW t \in Token, Refresh(r, t) PROVE LeftoversExplained'
    BY <1>2, SMT DEF Refresh, Usable, Begin, tables, clients
<1>3. ASSUME NEW r \in Request, NEW t \in Token, Reuse(r, t) PROVE LeftoversExplained'
    BY <1>3, SMT DEF Reuse, Begin, tables, clients
<1>4. ASSUME NEW r \in Request, NEW t \in Token, LogoutAll(r, t) PROVE LeftoversExplained'
    BY <1>4, SMT DEF LogoutAll, Begin, tables, clients
<1>5. ASSUME NEW r \in Request, Forgot(r) PROVE LeftoversExplained'
    BY <1>5, SMT DEF Forgot, Begin, tables
<1>6. ASSUME NEW r \in Request, NEW l \in Link, Reset(r, l) PROVE LeftoversExplained'
    BY <1>6, SMT DEF Reset, ResetStep, Begin, tables, clients
<1>7. ASSUME NEW r \in Request, Revoke(r) PROVE LeftoversExplained'
    BY <1>7, SMT DEF Revoke, Goto, clients, ages
<1>8. ASSUME NEW r \in Request, Issue(r) PROVE LeftoversExplained'
    BY <1>8, SMT DEF Issue, clients
<1>16. ASSUME NEW r \in Request, Mint(r) PROVE LeftoversExplained'
    BY <1>16, SMT DEF Mint, Goto, AccessLifetime, tables, ages
<1>9. ASSUME NEW r \in Request, Save(r) PROVE LeftoversExplained'
    BY <1>9, SMT DEF Save, Goto, ResetStep, Replaced, clients
<1>10. ASSUME NEW r \in Request, RevokeAll(r) PROVE LeftoversExplained'
  <2>1. \A t \in Token : row'[t] # "live"
    BY <1>10 DEF RevokeAll
  <2>2. \A q \in Request : Opening(q)' <=> Opening(q)
    BY <1>10 DEF RevokeAll, Goto, ResetStep
  <2>3. CASE op[r] = "reset"
    <3>1. \A q \in Request : proof'[q] # "replaced"
      BY <1>10, <2>3 DEF RevokeAll, Settled
    <3> QED
      BY <2>1, <3>1
  <2>4. CASE op[r] # "reset"
    <3>1. /\ UNCHANGED <<proof, interrupted>>
          /\ \A q \in Request : q # r => at'[q] = at[q] /\ op'[q] = op[q]
      BY <1>10, <2>4 DEF RevokeAll, Goto, ages
    <3> QED
      BY <2>1, <2>2, <2>4, <3>1
  <2> QED
    BY <2>3, <2>4
<1>11. ASSUME NEW r \in Request, Mail(r) PROVE LeftoversExplained'
    BY <1>11, SMT DEF Mail, Goto, tables, ages
<1>12. ASSUME NEW r \in Request, Receive(r) PROVE LeftoversExplained'
    BY <1>12, SMT DEF Receive, Finish, Goto, tables
<1>13. ASSUME NEW r \in Request, Fault(r) PROVE LeftoversExplained'
  <2>1. Leftover' => Leftover
    BY <1>13 DEF Fault, Finish, Goto, tables
  <2>2. CASE at[r] = "revokeAll" /\ op[r] = "reset"
    <3>1. interrupted'
      BY <1>13, <2>2 DEF Fault
    <3> QED
      BY <3>1
  <2>3. CASE ~(at[r] = "revokeAll" /\ op[r] = "reset")
    <3>1. interrupted => interrupted'
      BY <1>13 DEF Fault
    <3>2. \A q \in Request : q # r => at'[q] = at[q] /\ op'[q] = op[q]
      BY <1>13 DEF Fault, Finish, Goto
    <3> QED
      BY <2>1, <2>3, <3>1, <3>2
  <2> QED
    BY <2>2, <2>3
<1>14. CASE Tick
    BY <1>14, SMT DEF Tick, tables, locals
<1>15. CASE UNCHANGED vars
    BY <1>15 DEF vars, tables, clients, locals, ages
<1> QED
    BY <1>1, <1>2, <1>3, <1>4, <1>5, <1>6, <1>7, <1>8, <1>9, <1>10, <1>11, <1>12, <1>13,
       <1>14, <1>15, <1>16 DEF Next, Arrive, Progress

\* What an outdated access token has left and the time since the reset add up to a
\* lifetime at most: none is minted any more.
LEMMA StepTimesOut == AccessInv /\ [Next]_vars => OutdatedTimesOut'
<1> SUFFICES ASSUME AccessInv, [Next]_vars PROVE OutdatedTimesOut'
    OBVIOUS
<1> USE DEF AccessInv, Typed, TypeOK, RequestsTyped, OutdatedTimesOut, Outdated, OpenersStraddle, Opening
<1>1. ASSUME NEW r \in Request, Login(r) PROVE OutdatedTimesOut'
    BY <1>1, SMT DEF Login, Begin, tables, clients
<1>2. ASSUME NEW r \in Request, NEW t \in Token, Refresh(r, t) PROVE OutdatedTimesOut'
    BY <1>2, SMT DEF Refresh, Usable, Begin, tables, clients
<1>3. ASSUME NEW r \in Request, NEW t \in Token, Reuse(r, t) PROVE OutdatedTimesOut'
    BY <1>3, SMT DEF Reuse, Begin, tables, clients
<1>4. ASSUME NEW r \in Request, NEW t \in Token, LogoutAll(r, t) PROVE OutdatedTimesOut'
    BY <1>4, SMT DEF LogoutAll, Begin, tables, clients
<1>5. ASSUME NEW r \in Request, Forgot(r) PROVE OutdatedTimesOut'
    BY <1>5, SMT DEF Forgot, Begin, tables
<1>6. ASSUME NEW r \in Request, NEW l \in Link, Reset(r, l) PROVE OutdatedTimesOut'
    BY <1>6, SMT DEF Reset, ResetStep, Begin, tables, clients
<1>7. ASSUME NEW r \in Request, Revoke(r) PROVE OutdatedTimesOut'
    BY <1>7, SMT DEF Revoke, Goto, clients, ages
<1>8. ASSUME NEW r \in Request, Issue(r) PROVE OutdatedTimesOut'
    BY <1>8, SMT DEF Issue, clients
<1>16. ASSUME NEW r \in Request, Mint(r) PROVE OutdatedTimesOut'
    BY <1>16, SMT DEF Mint, Goto, AccessLifetime, tables, ages
<1>9. ASSUME NEW r \in Request, Save(r) PROVE OutdatedTimesOut'
    BY <1>9, SMT DEF Save, Goto, ResetStep, Replaced, clients
<1>10. ASSUME NEW r \in Request, RevokeAll(r) PROVE OutdatedTimesOut'
  <2>1. CASE op[r] = "reset"
    <3>1. since' = 0 /\ ttl' = ttl
      BY <1>10, <2>1 DEF RevokeAll, clients
    <3> QED
      BY <3>1
  <2>2. CASE op[r] # "reset"
    <3>1. UNCHANGED <<since, ttl, age, straddled>>
      BY <1>10, <2>2 DEF RevokeAll, clients, ages
    <3>2. \A t \in Token : row'[t] # "unissued" => row[t] # "unissued"
      BY <1>10 DEF RevokeAll
    <3> QED
      BY <3>1, <3>2
  <2> QED
    BY <2>1, <2>2
<1>11. ASSUME NEW r \in Request, Mail(r) PROVE OutdatedTimesOut'
    BY <1>11, SMT DEF Mail, Goto, tables, ages
<1>12. ASSUME NEW r \in Request, Receive(r) PROVE OutdatedTimesOut'
    BY <1>12, SMT DEF Receive, Finish, Goto, tables
<1>13. ASSUME NEW r \in Request, Fault(r) PROVE OutdatedTimesOut'
    BY <1>13, SMT DEF Fault, Finish, Goto, tables, clients
<1>14. CASE Tick
    BY <1>14, SMT DEF Tick, tables, locals
<1>15. CASE UNCHANGED vars
    BY <1>15 DEF vars, tables, clients, locals, ages
<1> QED
    BY <1>1, <1>2, <1>3, <1>4, <1>5, <1>6, <1>7, <1>8, <1>9, <1>10, <1>11, <1>12, <1>13,
       <1>14, <1>15, <1>16 DEF Next, Arrive, Progress

(* The invariant. *)

\* AccessInv holds in every reachable state.
THEOREM AccessInvariance == Spec => []AccessInv
<1>1. AccessInv /\ [Next]_vars => AccessInv'
    BY StepTyped, StepStraddle, StepLeftovers, StepTimesOut DEF AccessInv
<1> QED
    BY InitInv, <1>1, PTL DEF Spec

\* The variables keep their types.
THEOREM TypeCorrect == Spec => []TypeOK
    BY AccessInvariance, PTL DEF AccessInv, Typed

\* Of the sessions of a password that a reset replaced and revoked, only those a
\* request carried across the revocation are alive.
THEOREM ResetEndsOldSessions == Spec => []OldSessionsEnd
    BY AccessInvariance, PTL DEF AccessInv

\* A replaced password is good for a session only while a reset is between its two
\* commits, or after one died there.
THEOREM LeftoversHaveACause == Spec => []LeftoversExplained
    BY AccessInvariance, PTL DEF AccessInv

\* An access token of a replaced password, minted before a reset revoked, lets requests
\* in for less than one lifetime from the revocation.
THEOREM StaleAccessEnds == Spec => StaleAccessIsBrief
<1>1. AccessInv /\ [Next]_vars =>
        [\A r \in Request :
          op[r] = "none" /\ op'[r] = "logoutAll" /\ Outdated(arg'[r])
              => since < access_token_expire]_vars
  <2> SUFFICES ASSUME AccessInv, Next, NEW r \in Request,
                      op[r] = "none", op'[r] = "logoutAll", Outdated(arg'[r])
               PROVE  since < access_token_expire
    BY DEF vars
  <2>1. PICK t \in Token : LogoutAll(r, t)
    <3> USE DEF AccessInv, Typed, TypeOK
    <3>1. ASSUME NEW q \in Request, Login(q) \/ Forgot(q) \/ \E l \in Link : Reset(q, l) PROVE FALSE
      BY <3>1 DEF Login, Forgot, Reset, Begin
    <3>2. ASSUME NEW q \in Request, NEW t \in Token, Refresh(q, t) \/ Reuse(q, t) PROVE FALSE
      BY <3>2 DEF Refresh, Reuse, Begin
    <3>3. ASSUME NEW q \in Request, Revoke(q) \/ Issue(q) \/ Mint(q) \/ Save(q) \/ RevokeAll(q) \/ Mail(q)
          PROVE  FALSE
      BY <3>3 DEF Revoke, Issue, Mint, Save, RevokeAll, Mail, Goto
    <3>4. ASSUME NEW q \in Request, Receive(q) \/ Fault(q) PROVE FALSE
      BY <3>4 DEF Receive, Fault, Finish, Goto
    <3>5. ~Tick
      BY DEF Tick, locals
    <3>6. ASSUME NEW q \in Request, NEW t \in Token, LogoutAll(q, t) PROVE q = r
      BY <3>6 DEF LogoutAll, Begin
    <3> QED
      BY <3>1, <3>2, <3>3, <3>4, <3>5, <3>6 DEF Next, Arrive, Progress
  <2>2. arg'[r] = t /\ ttl[t] > 0
    BY <2>1 DEF LogoutAll, Decodes, Begin, AccessInv, Typed, TypeOK
  <2> QED
    BY <2>2 DEF AccessInv, OutdatedTimesOut, Typed, TypeOK
<1> QED
    BY AccessInvariance, <1>1, PTL DEF Spec, StaleAccessIsBrief

------------------------------------------------------------------------------
(* The sessions of one account implement the ledger of refresh tokens.  The *)
(* ledger remembers what each token was given for, which no request here    *)
(* does: `from` records it, and no step depends on it.                      *)

VARIABLE from

\* An insert gives a token for the one presented, None for a sign-in.
Recorded(r) == Issue(r) /\ from' = [from EXCEPT ![arg'[r]] = arg[r]]

HistorySpec ==
    /\ Init /\ from = [t \in Token |-> None]
    /\ [][/\ Next
          /\ \/ \E r \in Request : Recorded(r)
             \/ UNCHANGED from /\ \A r \in Request : ~Issue(r)]_<<vars, from>>

\* Every token is the account's from its insert on; what is revoked has ended.
Status == [t \in Token |-> IF row[t] = "revoked" THEN "ended" ELSE row[t]]
Holder == [t \in Token |-> IF row[t] = "unissued" THEN None ELSE "owner"]

Ledger == INSTANCE SessionLedger WITH User <- {"owner"}, status <- Status, holder <- Holder

\* A request about to insert a row presented nothing, or a token revoked since.
RevokedBeforeIssue ==
    \A r \in Request : at[r] = "issue" =>
        IF op[r] = "login" THEN arg[r] = None ELSE row[arg[r]] = "revoked"

HistoryInv == Typed /\ RevokedBeforeIssue

\* A rotation revokes before it inserts, and no revocation is undone.
LEMMA StepRevoked == HistoryInv /\ [Next]_vars => HistoryInv'
<1> SUFFICES ASSUME HistoryInv, [Next]_vars PROVE HistoryInv'
    OBVIOUS
<1>1. Typed'
    BY StepTyped DEF HistoryInv
<1> USE DEF HistoryInv, Typed, TypeOK, RequestsTyped, RevokedBeforeIssue
<1>2. ASSUME NEW r \in Request, Arrive(r) PROVE RevokedBeforeIssue'
    BY <1>2, SMT DEF Arrive, Login, Refresh, Reuse, LogoutAll, Forgot, Reset, ResetStep, Begin,
                     tables
<1>3. ASSUME NEW r \in Request, Revoke(r) PROVE RevokedBeforeIssue'
    BY <1>3, SMT DEF Revoke, Goto
<1>4. ASSUME NEW r \in Request, Issue(r) PROVE RevokedBeforeIssue'
    BY <1>4, SMT DEF Issue
<1>5. ASSUME NEW r \in Request, Mint(r) \/ Save(r) \/ Mail(r) PROVE RevokedBeforeIssue'
    BY <1>5, SMT DEF Mint, Save, Mail, Goto, ResetStep, tables
<1>6. ASSUME NEW r \in Request, RevokeAll(r) PROVE RevokedBeforeIssue'
    BY <1>6, SMT DEF RevokeAll, Goto, ResetStep
<1>7. ASSUME NEW r \in Request, Receive(r) \/ Fault(r) PROVE RevokedBeforeIssue'
    BY <1>7, SMT DEF Receive, Fault, Finish, Goto, tables
<1>8. ASSUME Tick \/ UNCHANGED vars PROVE RevokedBeforeIssue'
    BY <1>8 DEF Tick, vars, tables, locals
<1>9. RevokedBeforeIssue'
    BY <1>2, <1>3, <1>4, <1>5, <1>6, <1>7, <1>8 DEF Next, Progress
<1> QED
    BY <1>1, <1>9 DEF HistoryInv

\* Every step of the requests, recorded, is a step of the ledger or a stutter.
LEMMA LedgerStep ==
    ASSUME HistoryInv,
           \/ Next /\ \E r \in Request : Recorded(r)
           \/ Next /\ UNCHANGED from /\ \A r \in Request : ~Issue(r)
           \/ UNCHANGED <<vars, from>>
    PROVE  [Ledger!Next]_Ledger!ledger
<1> USE DEF HistoryInv, Typed, TypeOK, RequestsTyped
<1>1. ASSUME NEW r \in Request, Recorded(r) PROVE Ledger!Next
  <2>1. PICK t \in Token : /\ row[t] = "unissued"
                           /\ row' = [row EXCEPT ![t] = "live"]
                           /\ arg' = [arg EXCEPT ![r] = t]
    BY <1>1 DEF Recorded, Issue
  <2>2. arg'[r] = t /\ from' = [from EXCEPT ![t] = arg[r]] /\ at[r] = "issue"
    BY <1>1, <2>1 DEF Recorded, Issue
  <2>3. /\ arg[r] \in Token \cup {None}
        /\ arg[r] # None => Status[arg[r]] = "ended" /\ Holder[arg[r]] = "owner"
    BY <2>2 DEF RevokedBeforeIssue, Status, Holder
  <2>4. Ledger!Grant(t, "owner", arg[r])
    BY <2>1, <2>2, <2>3 DEF Ledger!Grant, Status, Holder
  <2> QED
    BY <2>3, <2>4 DEF Ledger!Next
<1>2. ASSUME UNCHANGED from, NEW r \in Request, Revoke(r) PROVE [Ledger!Next]_Ledger!ledger
  <2>1. arg[r] \in Token /\ row[arg[r]] \in {"live", "revoked"}
    BY <1>2 DEF Revoke
  <2>2. CASE row[arg[r]] = "live"
    <3>1. arg[r] \in Ledger!Live("owner")
      BY <2>1, <2>2 DEF Ledger!Live, Status, Holder
    <3>2. Ledger!End({arg[r]})
      BY <1>2, <2>1, <2>2 DEF Revoke, Ledger!End, Status, Holder
    <3> QED
      BY <3>1, <3>2 DEF Ledger!Next
  <2>3. CASE row[arg[r]] = "revoked"
    <3>1. row' = row
      BY <1>2, <2>1, <2>3 DEF Revoke
    <3> QED
      BY <1>2, <3>1 DEF Ledger!ledger, Status, Holder
  <2> QED
    BY <2>1, <2>2, <2>3
<1>3. ASSUME UNCHANGED from, NEW r \in Request, RevokeAll(r) PROVE Ledger!Next
  <2>1. Ledger!End(Ledger!Live("owner"))
    BY <1>3 DEF RevokeAll, Ledger!End, Ledger!Live, Status, Holder
  <2> QED
    BY <2>1 DEF Ledger!Next
<1>4. ASSUME UNCHANGED <<row, from>> PROVE UNCHANGED Ledger!ledger
  BY <1>4 DEF Ledger!ledger, Status, Holder
<1>5. ASSUME Next, UNCHANGED from, \A r \in Request : ~Issue(r) PROVE [Ledger!Next]_Ledger!ledger
  BY <1>2, <1>3, <1>4, <1>5
     DEF Next, Arrive, Progress, Tick, Login, Refresh, Reuse, LogoutAll, Forgot, Reset, Mint, Save,
         Mail, Receive, Fault, tables
<1> QED
  BY <1>1, <1>4, <1>5 DEF vars, tables

\* The requests of one account, with resets, crashes and lost answers, implement the
\* ledger: a token is granted once, by a sign-in or for a token that a rotation has
\* ended, and what a reset or a logout has ended is never granted again.
THEOREM Refinement == HistorySpec => Ledger!Spec
<1>1. Init /\ from = [t \in Token |-> None] => HistoryInv /\ Ledger!Init
  <2>1. Init => HistoryInv
    BY InitInv DEF AccessInv, HistoryInv, RevokedBeforeIssue, Init
  <2> QED
    BY <2>1 DEF Init, Ledger!Init, Status, Holder
<1> DEFINE Step == /\ Next
                   /\ \/ \E r \in Request : Recorded(r)
                      \/ UNCHANGED from /\ \A r \in Request : ~Issue(r)
<1>2. HistoryInv /\ [Step]_<<vars, from>> => HistoryInv'
  BY StepRevoked
<1>3. HistoryInv /\ [Step]_<<vars, from>> => [Ledger!Next]_Ledger!ledger
  BY LedgerStep
<1> QED
  BY <1>1, <1>2, <1>3, PTL DEF HistorySpec, Ledger!Spec
==============================================================================
