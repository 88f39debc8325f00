------------------------ MODULE RefreshSessions_proofs ------------------------
(* What holds of RefreshSessions for every number of users, tokens and requests. *)
EXTENDS RefreshSessions, TLAPS

(***************************************************************************)
(* Types.                                                                  *)
(***************************************************************************)

\* The lookup of refresh() leads to one of three control points.
LEMMA AfterLookupShape ==
    ASSUME NEW t \in Token
    PROVE  /\ AfterLookup(t) \in {"answer", "revokeAll", "revoke"}
           /\ AfterLookup(t) = "revokeAll" => row[t] = "revoked"
           /\ AfterLookup(t) = "revoke" => row[t] # "revoked" /\ row[t] # "deleted"
BY DEF AfterLookup

\* A revocation only ever moves a row from live to revoked.
LEMMA RevokeRowShape ==
    ASSUME TypeOK, NEW t
    PROVE  /\ RevokeRow(t) \in [Token -> {"unissued", "live", "revoked", "deleted"}]
           /\ \A x \in Token : RevokeRow(t)[x] # row[x]
                                 => row[x] = "live" /\ RevokeRow(t)[x] = "revoked"
           /\ Backend = "sqlalchemy" /\ t \in Token => RevokeRow(t)[t] # "live"
BY DEF TypeOK, RevokeRow, UpdatesAwaited

\* Neither does the revocation of a user's rows, and it leaves none of them live.
LEMMA RevokeRowsOfShape ==
    ASSUME TypeOK, NEW u
    PROVE  /\ RevokeRowsOf(u) \in [Token -> {"unissued", "live", "revoked", "deleted"}]
           /\ \A x \in Token : RevokeRowsOf(u)[x] # row[x]
                                 => row[x] = "live" /\ RevokeRowsOf(u)[x] = "revoked"
           /\ Backend = "sqlalchemy" =>
                \A x \in Token : owner[x] = u => RevokeRowsOf(u)[x] # "live"
BY DEF TypeOK, RevokeRowsOf, UpdatesAwaited, Outstanding

\* One step keeps the types.
LEMMA TypeStep == TypeOK /\ [Next]_vars => TypeOK'
<1> SUFFICES ASSUME TypeOK, [Next]_vars PROVE TypeOK'
  OBVIOUS
<1> USE DEF rows, locals, clients, Points, Ops
<1>1. ASSUME NEW r \in Request, NEW u \in User, SignIn(r, u) PROVE TypeOK'
  BY <1>1 DEF TypeOK, SignIn, Begin
<1>2. ASSUME NEW r \in Request, NEW t \in Token, RefreshLookup(r, t) PROVE TypeOK'
  BY <1>2, AfterLookupShape DEF TypeOK, RefreshLookup, Begin, Outstanding
<1>3. ASSUME NEW r \in Request, NEW t \in Token, LogoutLookup(r, t) PROVE TypeOK'
  BY <1>3 DEF TypeOK, LogoutLookup, Begin
<1>4. ASSUME NEW r \in Request, NEW u \in User, EndAll(r, u) PROVE TypeOK'
  BY <1>4 DEF TypeOK, EndAll, Begin, Outstanding
<1>5. ASSUME NEW r \in Request, Revoke(r) PROVE TypeOK'
  BY <1>5, RevokeRowShape DEF TypeOK, Revoke, Goto
<1>6. ASSUME NEW r \in Request, RevokeAll(r) PROVE TypeOK'
  BY <1>6, RevokeRowsOfShape DEF TypeOK, RevokeAll, Goto
<1>7. ASSUME NEW r \in Request, GetUser(r) PROVE TypeOK'
  BY <1>7 DEF TypeOK, GetUser, Goto
<1>8. ASSUME NEW r \in Request, Issue(r) PROVE TypeOK'
  BY <1>8 DEF TypeOK, Issue
<1>9. ASSUME NEW r \in Request, IssueRefused(r) PROVE TypeOK'
  BY <1>9 DEF TypeOK, IssueRefused, Goto
<1>10. ASSUME NEW r \in Request, Receive(r) PROVE TypeOK'
  BY <1>10 DEF TypeOK, Receive, Finish
<1>11. ASSUME NEW r \in Request, Fault(r) PROVE TypeOK'
  BY <1>11 DEF TypeOK, Fault, Crash, LoseAnswer, Finish
<1>12. ASSUME NEW u \in User, NEW s \in {"active", "inactive"}, SetActive(u, s)
      PROVE TypeOK'
  BY <1>12 DEF TypeOK, SetActive
<1>13. ASSUME NEW u \in User, DeleteUser(u) PROVE TypeOK'
  BY <1>13 DEF TypeOK, DeleteUser
<1>14. ASSUME NEW t \in Token, Expire(t) PROVE TypeOK'
  BY <1>14 DEF TypeOK, Expire
<1>15. CASE UNCHANGED vars
  BY <1>15 DEF TypeOK, vars
<1> QED
  BY <1>1, <1>2, <1>3, <1>4, <1>5, <1>6, <1>7, <1>8,
     <1>9, <1>10, <1>11, <1>12, <1>13, <1>14, <1>15 DEF Next, Around, Arrive, Progress

\* The variables keep their types: in particular a request's locals are only ever
\* users and tokens of the right kind.
THEOREM TypeCorrect == Spec => []TypeOK
<1>1. Init => TypeOK
  BY DEF Init, TypeOK, Points, Ops
<1>2. QED
  BY <1>1, TypeStep, PTL DEF Spec

(***************************************************************************)
(* The inductive invariant.                                                *)
(***************************************************************************)

\* Once issued, a row keeps its user, its parent and its session, and never
\* comes back to life.
LEMMA IssuedRowStep ==
    ASSUME TypeOK, [Next]_vars, NEW x \in Token, row[x] # "unissued"
    PROVE  /\ row'[x] # "unissued"
           /\ row'[x] = "live" => row[x] = "live"
           /\ owner'[x] = owner[x] /\ parent'[x] = parent[x] /\ session'[x] = session[x]
<1> DEFINE Kept ==
        /\ row'[x] # "unissued"
        /\ row'[x] = "live" => row[x] = "live"
        /\ owner'[x] = owner[x] /\ parent'[x] = parent[x] /\ session'[x] = session[x]
<1> SUFFICES Kept
  OBVIOUS
<1> USE DEF rows, locals, clients
<1>1. ASSUME NEW r \in Request, NEW u \in User, SignIn(r, u) PROVE Kept
  BY <1>1 DEF TypeOK, SignIn, Begin
<1>2. ASSUME NEW r \in Request, NEW t \in Token, RefreshLookup(r, t) PROVE Kept
  BY <1>2, AfterLookupShape DEF TypeOK, RefreshLookup, Begin, Outstanding
<1>3. ASSUME NEW r \in Request, NEW t \in Token, LogoutLookup(r, t) PROVE Kept
  BY <1>3 DEF TypeOK, LogoutLookup, Begin
<1>4. ASSUME NEW r \in Request, NEW u \in User, EndAll(r, u) PROVE Kept
  BY <1>4 DEF TypeOK, EndAll, Begin, Outstanding
<1>5. ASSUME NEW r \in Request, Revoke(r) PROVE Kept
  BY <1>5, RevokeRowShape DEF TypeOK, Revoke, Goto
<1>6. ASSUME NEW r \in Request, RevokeAll(r) PROVE Kept
  BY <1>6, RevokeRowsOfShape DEF TypeOK, RevokeAll, Goto
<1>7. ASSUME NEW r \in Request, GetUser(r) PROVE Kept
  BY <1>7 DEF TypeOK, GetUser, Goto
<1>8. ASSUME NEW r \in Request, Issue(r) PROVE Kept
  BY <1>8 DEF TypeOK, Issue
<1>9. ASSUME NEW r \in Request, IssueRefused(r) PROVE Kept
  BY <1>9 DEF TypeOK, IssueRefused, Goto
<1>10. ASSUME NEW r \in Request, Receive(r) PROVE Kept
  BY <1>10 DEF TypeOK, Receive, Finish
<1>11. ASSUME NEW r \in Request, Fault(r) PROVE Kept
  BY <1>11 DEF TypeOK, Fault, Crash, LoseAnswer, Finish
<1>12. ASSUME NEW u \in User, NEW s \in {"active", "inactive"}, SetActive(u, s)
      PROVE Kept
  BY <1>12 DEF TypeOK, SetActive
<1>13. ASSUME NEW u \in User, DeleteUser(u) PROVE Kept
  BY <1>13 DEF TypeOK, DeleteUser
<1>14. ASSUME NEW t \in Token, Expire(t) PROVE Kept
  BY <1>14 DEF TypeOK, Expire
<1>15. CASE UNCHANGED vars
  BY <1>15 DEF TypeOK, vars
<1> QED
  BY <1>1, <1>2, <1>3, <1>4, <1>5, <1>6, <1>7, <1>8,
     <1>9, <1>10, <1>11, <1>12, <1>13, <1>14, <1>15 DEF Next, Around, Arrive, Progress

\* One step keeps the requests on issued tokens of their own user.
LEMMA RequestsStep ==
    TypeOK /\ Consistent /\ [Next]_vars => RequestsConsistent'
<1> SUFFICES ASSUME TypeOK, Consistent, [Next]_vars PROVE RequestsConsistent'
  OBVIOUS
<1>a. TypeOK'
  BY TypeStep
<1> USE NoneAssumption DEF rows, locals, clients
<1>1. ASSUME NEW r \in Request, NEW u \in User, SignIn(r, u) PROVE RequestsConsistent'
  BY <1>1, <1>a, IssuedRowStep
     DEF TypeOK, Consistent, RequestsConsistent, TokensConsistent, SignIn, Begin
<1>2. ASSUME NEW r \in Request, NEW t \in Token, RefreshLookup(r, t)
      PROVE RequestsConsistent'
  BY <1>2, AfterLookupShape, <1>a, IssuedRowStep
     DEF TypeOK, Consistent, RequestsConsistent, TokensConsistent, RefreshLookup,
         Begin, Outstanding
<1>3. ASSUME NEW r \in Request, NEW t \in Token, LogoutLookup(r, t)
      PROVE RequestsConsistent'
  BY <1>3, <1>a, IssuedRowStep
     DEF TypeOK, Consistent, RequestsConsistent, TokensConsistent, LogoutLookup, Begin
<1>4. ASSUME NEW r \in Request, NEW u \in User, EndAll(r, u) PROVE RequestsConsistent'
  BY <1>4, <1>a, IssuedRowStep
     DEF TypeOK, Consistent, RequestsConsistent, TokensConsistent, EndAll, Begin,
         Outstanding
<1>5. ASSUME NEW r \in Request, Revoke(r) PROVE RequestsConsistent'
  BY <1>5, RevokeRowShape, <1>a, IssuedRowStep
     DEF TypeOK, Consistent, RequestsConsistent, TokensConsistent, Revoke, Goto
<1>6. ASSUME NEW r \in Request, RevokeAll(r) PROVE RequestsConsistent'
  BY <1>6, RevokeRowsOfShape, <1>a, IssuedRowStep
     DEF TypeOK, Consistent, RequestsConsistent, TokensConsistent, RevokeAll, Goto
<1>7. ASSUME NEW r \in Request, GetUser(r) PROVE RequestsConsistent'
  BY <1>7, <1>a, IssuedRowStep
     DEF TypeOK, Consistent, RequestsConsistent, TokensConsistent, GetUser, Goto
<1>8. ASSUME NEW r \in Request, Issue(r) PROVE RequestsConsistent'
  BY <1>8, <1>a, IssuedRowStep
     DEF TypeOK, Consistent, RequestsConsistent, TokensConsistent, Issue
<1>9. ASSUME NEW r \in Request, IssueRefused(r) PROVE RequestsConsistent'
  BY <1>9, <1>a, IssuedRowStep
     DEF TypeOK, Consistent, RequestsConsistent, TokensConsistent, IssueRefused, Goto
<1>10. ASSUME NEW r \in Request, Receive(r) PROVE RequestsConsistent'
  BY <1>10, <1>a, IssuedRowStep
     DEF TypeOK, Consistent, RequestsConsistent, TokensConsistent, Receive, Finish
<1>11. ASSUME NEW r \in Request, Fault(r) PROVE RequestsConsistent'
  BY <1>11, <1>a, IssuedRowStep
     DEF TypeOK, Consistent, RequestsConsistent, TokensConsistent, Fault, Crash,
         LoseAnswer, Finish
<1>12. ASSUME NEW u \in User, NEW s \in {"active", "inactive"}, SetActive(u, s)
      PROVE RequestsConsistent'
  BY <1>12, <1>a, IssuedRowStep
     DEF TypeOK, Consistent, RequestsConsistent, TokensConsistent, SetActive
<1>13. ASSUME NEW u \in User, DeleteUser(u) PROVE RequestsConsistent'
  BY <1>13, <1>a, IssuedRowStep
     DEF TypeOK, Consistent, RequestsConsistent, TokensConsistent, DeleteUser
<1>14. ASSUME NEW t \in Token, Expire(t) PROVE RequestsConsistent'
  BY <1>14, <1>a, IssuedRowStep
     DEF TypeOK, Consistent, RequestsConsistent, TokensConsistent, Expire
<1>15. CASE UNCHANGED vars
  BY <1>15, <1>a, IssuedRowStep
     DEF TypeOK, Consistent, RequestsConsistent, TokensConsistent, vars
<1> QED
  BY <1>1, <1>2, <1>3, <1>4, <1>5, <1>6, <1>7, <1>8,
     <1>9, <1>10, <1>11, <1>12, <1>13, <1>14, <1>15 DEF Next, Around, Arrive, Progress

\* One step gives an owner, a parent and a session to no token it does not issue.
LEMMA TokensStep ==
    TypeOK /\ Consistent /\ [Next]_vars => TokensConsistent'
<1> SUFFICES ASSUME TypeOK, Consistent, [Next]_vars PROVE TokensConsistent'
  OBVIOUS
<1>a. TypeOK'
  BY TypeStep
<1> USE NoneAssumption DEF rows, locals, clients
<1>1. ASSUME NEW r \in Request, NEW u \in User, SignIn(r, u) PROVE TokensConsistent'
  BY <1>1, <1>a, IssuedRowStep
     DEF TypeOK, Consistent, RequestsConsistent, TokensConsistent, SignIn, Begin
<1>2. ASSUME NEW r \in Request, NEW t \in Token, RefreshLookup(r, t)
      PROVE TokensConsistent'
  BY <1>2, AfterLookupShape, <1>a, IssuedRowStep
     DEF TypeOK, Consistent, RequestsConsistent, TokensConsistent, RefreshLookup,
         Begin, Outstanding
<1>3. ASSUME NEW r \in Request, NEW t \in Token, LogoutLookup(r, t)
      PROVE TokensConsistent'
  BY <1>3, <1>a, IssuedRowStep
     DEF TypeOK, Consistent, RequestsConsistent, TokensConsistent, LogoutLookup, Begin
<1>4. ASSUME NEW r \in Request, NEW u \in User, EndAll(r, u) PROVE TokensConsistent'
  BY <1>4, <1>a, IssuedRowStep
     DEF TypeOK, Consistent, RequestsConsistent, TokensConsistent, EndAll, Begin,
         Outstanding
<1>5. ASSUME NEW r \in Request, Revoke(r) PROVE TokensConsistent'
  BY <1>5, RevokeRowShape, <1>a, IssuedRowStep
     DEF TypeOK, Consistent, RequestsConsistent, TokensConsistent, Revoke, Goto
<1>6. ASSUME NEW r \in Request, RevokeAll(r) PROVE TokensConsistent'
  BY <1>6, RevokeRowsOfShape, <1>a, IssuedRowStep
     DEF TypeOK, Consistent, RequestsConsistent, TokensConsistent, RevokeAll, Goto
<1>7. ASSUME NEW r \in Request, GetUser(r) PROVE TokensConsistent'
  BY <1>7, <1>a, IssuedRowStep
     DEF TypeOK, Consistent, RequestsConsistent, TokensConsistent, GetUser, Goto
<1>8. ASSUME NEW r \in Request, Issue(r) PROVE TokensConsistent'
  BY <1>8, <1>a, IssuedRowStep
     DEF TypeOK, Consistent, RequestsConsistent, TokensConsistent, Issue
<1>9. ASSUME NEW r \in Request, IssueRefused(r) PROVE TokensConsistent'
  BY <1>9, <1>a, IssuedRowStep
     DEF TypeOK, Consistent, RequestsConsistent, TokensConsistent, IssueRefused, Goto
<1>10. ASSUME NEW r \in Request, Receive(r) PROVE TokensConsistent'
  BY <1>10, <1>a, IssuedRowStep
     DEF TypeOK, Consistent, RequestsConsistent, TokensConsistent, Receive, Finish
<1>11. ASSUME NEW r \in Request, Fault(r) PROVE TokensConsistent'
  BY <1>11, <1>a, IssuedRowStep
     DEF TypeOK, Consistent, RequestsConsistent, TokensConsistent, Fault, Crash,
         LoseAnswer, Finish
<1>12. ASSUME NEW u \in User, NEW s \in {"active", "inactive"}, SetActive(u, s)
      PROVE TokensConsistent'
  BY <1>12, <1>a, IssuedRowStep
     DEF TypeOK, Consistent, RequestsConsistent, TokensConsistent, SetActive
<1>13. ASSUME NEW u \in User, DeleteUser(u) PROVE TokensConsistent'
  BY <1>13, <1>a, IssuedRowStep
     DEF TypeOK, Consistent, RequestsConsistent, TokensConsistent, DeleteUser
<1>14. ASSUME NEW t \in Token, Expire(t) PROVE TokensConsistent'
  BY <1>14, <1>a, IssuedRowStep
     DEF TypeOK, Consistent, RequestsConsistent, TokensConsistent, Expire
<1>15. CASE UNCHANGED vars
  BY <1>15, <1>a, IssuedRowStep
     DEF TypeOK, Consistent, RequestsConsistent, TokensConsistent, vars
<1> QED
  BY <1>1, <1>2, <1>3, <1>4, <1>5, <1>6, <1>7, <1>8,
     <1>9, <1>10, <1>11, <1>12, <1>13, <1>14, <1>15 DEF Next, Around, Arrive, Progress

\* Only _issue_tokens makes a row, for the request's own user and in exchange for the
\* token it presented.
LEMMA NewRowStep ==
    ASSUME TypeOK, Consistent, [Next]_vars,
           NEW x \in Token, row[x] = "unissued", row'[x] # "unissued"
    PROVE  \E r \in Request :
              /\ at[r] = "issue" /\ CanInsertFor(subject[r])
              /\ parent'[x] = token[r] /\ owner'[x] = subject[r]
              /\ session'[x] = IF token[r] = None THEN x ELSE session[token[r]]
              /\ account' = account
<1>1. \E r \in Request : Issue(r)
  BY RevokeRowShape, RevokeRowsOfShape, NoneAssumption
     DEF Next, Around, Arrive, Progress, Fault, SignIn, EndAll, RefreshLookup,
         LogoutLookup, Revoke, RevokeAll, GetUser, IssueRefused, Receive, Crash,
         LoseAnswer, SetActive, DeleteUser, Expire, rows, locals, clients, vars, TypeOK,
         Consistent, TokensConsistent
<1>2. QED
  BY <1>1 DEF Issue, rows, clients, TypeOK

\* Where updates are awaited, what one request ended no step of another revives.
LEMMA DurableStep ==
    ASSUME Backend = "sqlalchemy", TypeOK, Consistent, Durable, [Next]_vars
    PROVE  Durable'
<1>a. TypeOK' /\ Consistent'
  BY TypeStep, RequestsStep, TokensStep DEF Consistent
<1>b. \A x \in Token : row[x] # "unissued" =>
          /\ row'[x] # "unissued"
          /\ row'[x] = "live" => row[x] = "live"
          /\ owner'[x] = owner[x] /\ parent'[x] = parent[x]
  BY IssuedRowStep
<1>c. \A x \in Token : row[x] = "unissued" /\ row'[x] # "unissued" =>
          \E r \in Request :
             /\ at[r] = "issue" /\ CanInsertFor(subject[r])
             /\ parent'[x] = token[r] /\ owner'[x] = subject[r]
             /\ account' = account
  BY NewRowStep
<1>d. \A r \in Request : at'[r] \in {"getUser", "issue"} /\ op'[r] = "refresh" =>
          /\ token'[r] = token[r]
          /\ \/ at[r] = "revoke" /\ row' = RevokeRow(token[r])
             \/ at[r] \in {"getUser", "issue"} /\ op[r] = "refresh"
  BY AfterLookupShape
     DEF Next, Around, Arrive, Progress, Fault, SignIn, EndAll, RefreshLookup,
         LogoutLookup, Revoke, RevokeAll, GetUser, Issue, IssueRefused, Receive, Crash,
         LoseAnswer, SetActive, DeleteUser, Expire, Begin, Goto, Finish, rows, locals,
         clients, vars, TypeOK
<1>e. \A r \in Request : at'[r] = "answer" /\ op'[r] \in {"reuse", "endAll"} =>
          /\ seen'[r] = seen[r]
          /\ \/ at[r] = "revokeAll" /\ row' = RevokeRowsOf(subject[r])
             \/ at[r] = "answer" /\ op[r] \in {"reuse", "endAll"}
  BY AfterLookupShape
     DEF Next, Around, Arrive, Progress, Fault, SignIn, EndAll, RefreshLookup,
         LogoutLookup, Revoke, RevokeAll, GetUser, Issue, IssueRefused, Receive, Crash,
         LoseAnswer, SetActive, DeleteUser, Expire, Begin, Goto, Finish, rows, locals,
         clients, vars, TypeOK, Consistent, RequestsConsistent
<1>1. RevokedBeforeIssue'
  <2> SUFFICES ASSUME NEW r \in Request,
                      at'[r] \in {"getUser", "issue"}, op'[r] = "refresh"
      PROVE  row'[token'[r]] # "live"
    BY DEF RevokedBeforeIssue
  <2>1. token'[r] \in Token /\ token[r] = token'[r] /\ row'[token[r]] # "unissued"
    BY <1>a, <1>d DEF Consistent, RequestsConsistent
  <2>2. CASE at[r] = "revoke" /\ row' = RevokeRow(token[r])
    BY <2>1, <2>2, RevokeRowShape
  <2>3. CASE at[r] \in {"getUser", "issue"} /\ op[r] = "refresh"
    BY <1>b, <2>1, <2>3
       DEF Durable, RevokedBeforeIssue, Consistent, RequestsConsistent
  <2>4. QED
    BY <1>d, <2>2, <2>3
<1>2. RotationConsumesParent'
  BY <1>a, <1>b, <1>c, NoneAssumption
     DEF Durable, RotationConsumesParent, RevokedBeforeIssue, Consistent,
         RequestsConsistent, TokensConsistent, TypeOK
<1>3. EndAllIsComplete'
  BY <1>a, <1>b, <1>e, RevokeRowsOfShape
     DEF Durable, EndAllIsComplete, Consistent, RequestsConsistent, TypeOK
<1>4. DeletedUserHasNoSession'
  <2>1. CASE \E u \in User : DeleteUser(u)
    BY <2>1, NoneAssumption
       DEF Durable, DeletedUserHasNoSession, DeleteUser, TypeOK
  <2>2. CASE ~\E u \in User : DeleteUser(u)
    <3>1. \A u \in User : account'[u] = "deleted" => account[u] = "deleted"
      BY <2>2
         DEF Next, Around, Arrive, Progress, Fault, SignIn, EndAll, RefreshLookup,
             LogoutLookup, Revoke, RevokeAll, GetUser, Issue, IssueRefused, Receive, Crash,
             LoseAnswer, SetActive, Expire, vars, TypeOK
    <3>2. QED
      BY <1>a, <1>b, <1>c, <3>1, NoneAssumption
         DEF Durable, DeletedUserHasNoSession, CanInsertFor, Consistent,
             TokensConsistent, RequestsConsistent, TypeOK
  <2>3. QED
    BY <2>1, <2>2
<1> QED
  BY <1>1, <1>2, <1>3, <1>4 DEF Durable

\* One step keeps the whole inductive invariant.
LEMMA InvariantStep == IInv /\ [Next]_vars => IInv'
  BY TypeStep, RequestsStep, TokensStep, DurableStep DEF IInv, Consistent

\* Every reachable state satisfies the inductive invariant.
THEOREM Invariant == Spec => []IInv
<1>1. Init => IInv
  BY NoneAssumption
     DEF Init, IInv, TypeOK, Points, Ops, Consistent, RequestsConsistent,
         TokensConsistent, Durable, RevokedBeforeIssue, RotationConsumesParent,
         EndAllIsComplete, DeletedUserHasNoSession
<1>2. QED
  BY <1>1, InvariantStep, PTL DEF Spec

(***************************************************************************)
(* The safety properties, where the repositories await their updates.      *)
(***************************************************************************)

\* refresh() revokes the presented token before it issues, so no token that was
\* exchanged is live beside its successor.
THEOREM RotationSafe ==
    ASSUME Backend = "sqlalchemy"
    PROVE  Spec => []RotationConsumesParent
<1>1. IInv => RotationConsumesParent
  BY DEF IInv, Durable
<1>2. QED
  BY <1>1, Invariant, PTL

\* When reuse detection, logout_all or a reset answers, every token it saw
\* outstanding is dead.
THEOREM EndAllSafe ==
    ASSUME Backend = "sqlalchemy"
    PROVE  Spec => []EndAllIsComplete
<1>1. IInv => EndAllIsComplete
  BY DEF IInv, Durable
<1>2. QED
  BY <1>1, Invariant, PTL

\* A deleted user has no live session: the foreign key refuses the insert of a
\* refresh in flight, the cascade takes the rest.
THEOREM DeletedUserSafe ==
    ASSUME Backend = "sqlalchemy"
    PROVE  Spec => []DeletedUserHasNoSession
<1>1. IInv => DeletedUserHasNoSession
  BY DEF IInv, Durable
<1>2. QED
  BY <1>1, Invariant, PTL

\* One step revives no session that is over.
LEMMA SessionOverStep ==
    ASSUME IInv, [Next]_vars, NEW s \in Token, SessionOver(s)
    PROVE  SessionOver(s)'
<1>a. IInv' /\ TypeOK /\ Consistent
  BY InvariantStep DEF IInv
<1>b. \A x \in Token : row[x] # "unissued" =>
          /\ row'[x] # "unissued"
          /\ row'[x] = "live" => row[x] = "live"
          /\ session'[x] = session[x]
  BY <1>a, IssuedRowStep
<1>1. row'[s] # "unissued"
  BY <1>b DEF SessionOver
<1>2. ASSUME NEW t \in Token, session'[t] = s PROVE row'[t] # "live"
  <2>1. CASE row[t] # "unissued"
    BY <1>2, <1>b, <2>1 DEF SessionOver
  <2>2. CASE row[t] = "unissued" /\ row'[t] # "unissued"
    BY <1>2, <1>a, <2>2, NewRowStep
       DEF SessionOver, InFlight, Consistent, RequestsConsistent
  <2>3. QED
    BY <2>1, <2>2
<1>3. ~InFlight(s)'
  <2> SUFFICES ASSUME NEW r \in Request, op'[r] = "refresh",
                      at'[r] \in {"revoke", "getUser", "issue"}, session'[token'[r]] = s
      PROVE  FALSE
    BY DEF InFlight
  <2>1. \/ /\ op[r] = "refresh" /\ at[r] \in {"revoke", "getUser", "issue"}
           /\ token'[r] = token[r]
        \/ /\ token'[r] \in held
           /\ row[token'[r]] # "revoked" /\ row[token'[r]] # "deleted"
    BY <1>a, AfterLookupShape
       DEF Next, Around, Arrive, Progress, Fault, SignIn, EndAll, RefreshLookup,
           LogoutLookup, Revoke, RevokeAll, GetUser, Issue, IssueRefused, Receive, Crash,
           LoseAnswer, SetActive, DeleteUser, Expire, Begin, Goto, Finish, rows, locals,
           clients, vars, TypeOK
  <2>2. token'[r] \in Token /\ row[token'[r]] # "unissued" /\ session[token'[r]] = s
    BY <1>a, <1>b, <2>1
       DEF Consistent, RequestsConsistent, TokensConsistent, TypeOK
  <2>3. QED
    BY <1>a, <2>1, <2>2 DEF SessionOver, InFlight, TypeOK
<1> QED
  BY <1>1, <1>2, <1>3 DEF SessionOver

\* A session that is over stays over, on either backend.
THEOREM SessionsEndForGood == Spec => OverForGood
<1>1. IInv /\ [Next]_vars =>
        [\A s \in Token : SessionOver(s) => SessionOver(s)']_vars
  BY SessionOverStep
<1>2. QED
  BY <1>1, Invariant, PTL DEF Spec, OverForGood

(***************************************************************************)
(* The rows implement the ledger, where updates are awaited.               *)
(***************************************************************************)

\* A step that leaves rows, owners and parents alone is a stutter of the ledger.
LEMMA StutterStep ==
    ASSUME UNCHANGED <<row, owner, parent>>
    PROVE  UNCHANGED Ledger!ledger
BY DEF Ledger!ledger, Status

\* Every step of the requests is a step of the ledger or a stutter.
LEMMA LedgerStep ==
    ASSUME Backend = "sqlalchemy", IInv, [Next]_vars
    PROVE  [Ledger!Next]_Ledger!ledger
<1>a. TypeOK /\ TypeOK' /\ Consistent /\ RevokedBeforeIssue
  BY InvariantStep DEF IInv, Durable
<1>1. ASSUME NEW r \in Request, Revoke(r) PROVE [Ledger!Next]_Ledger!ledger
  <2>1. CASE row[token[r]] = "live" /\ token[r] \in Token
    <3>1. Ledger!End({token[r]})
      BY <1>a, <1>1, <2>1
         DEF Revoke, RevokeRow, UpdatesAwaited, Ledger!End, Status, TypeOK
    <3>2. token[r] \in Ledger!Live(owner[token[r]]) /\ owner[token[r]] \in User
      BY <1>a, <2>1 DEF Ledger!Live, Status, Consistent, TokensConsistent, TypeOK
    <3>3. QED
      BY <3>1, <3>2 DEF Ledger!Next
  <2>2. CASE ~(row[token[r]] = "live" /\ token[r] \in Token)
    BY <1>a, <1>1, <2>2, StutterStep
       DEF Revoke, RevokeRow, UpdatesAwaited, Goto, TypeOK, rows
  <2>3. QED
    BY <2>1, <2>2
<1>2. ASSUME NEW r \in Request, RevokeAll(r) PROVE [Ledger!Next]_Ledger!ledger
  <2>1. subject[r] \in User
    BY <1>a, <1>2 DEF RevokeAll, Consistent, RequestsConsistent
  <2>2. Ledger!End(Ledger!Live(subject[r]))
    BY <1>a, <1>2
      
          DEF RevokeAll, RevokeRowsOf, UpdatesAwaited, Outstanding, Ledger!End,
              Ledger!Live, Status, TypeOK
  <2>3. QED
    BY <2>1, <2>2 DEF Ledger!Next
<1>3. ASSUME NEW u \in User, DeleteUser(u) PROVE [Ledger!Next]_Ledger!ledger
  <2>1. \A t \in Token : owner[t] = u => row[t] # "unissued"
    BY <1>a, NoneAssumption DEF Consistent, TokensConsistent
  <2>2. Ledger!End(Ledger!Live(u))
    BY <1>a, <1>3, <2>1 DEF DeleteUser, Ledger!End, Ledger!Live, Status, TypeOK
  <2>3. QED
    BY <2>2 DEF Ledger!Next
<1>4. ASSUME NEW r \in Request, Issue(r) PROVE [Ledger!Next]_Ledger!ledger
  <2> PICK t \in Token :
        /\ row[t] = "unissued"
        /\ row' = [row EXCEPT ![t] = "live"]
        /\ owner' = [owner EXCEPT ![t] = subject[r]]
        /\ parent' = [parent EXCEPT ![t] = token[r]]
    BY <1>4 DEF Issue
  <2>1. subject[r] \in User /\ token[r] \in Token \cup {None}
    BY <1>a, <1>4 DEF Issue, Consistent, RequestsConsistent, TypeOK
  <2>2. token[r] # None => Status[token[r]] = "ended" /\ owner[token[r]] = subject[r]
    BY <1>a, <1>4, <2>1
       DEF Issue, Consistent, RequestsConsistent, RevokedBeforeIssue, Status, TypeOK
  <2>3. Ledger!Grant(t, subject[r], token[r])
    BY <1>a, <2>2 DEF Ledger!Grant, Status, TypeOK
  <2>4. QED
    BY <2>1, <2>3 DEF Ledger!Next
<1>5. CASE UNCHANGED <<row, owner, parent>>
  BY <1>5, StutterStep
<1> QED
  BY <1>1, <1>2, <1>3, <1>4, <1>5
     DEF Next, Around, Arrive, Progress, Fault, SignIn, EndAll, RefreshLookup,
         LogoutLookup, GetUser, IssueRefused, Receive, Crash, LoseAnswer, SetActive,
         Expire, rows, vars

\* The detailed requests implement the abstract ledger: every token is granted once,
\* by a sign-in or for a token of the same user that has ended, and never again.
THEOREM Refinement ==
    ASSUME Backend = "sqlalchemy"
    PROVE  Spec => ImplementsLedger
<1>1. Init => Ledger!Init
  BY DEF Init, Ledger!Init, Status
<1>2. IInv /\ [Next]_vars => [Ledger!Next]_Ledger!ledger
  BY LedgerStep
<1>3. QED
  BY <1>1, <1>2, Invariant, PTL DEF Spec, ImplementsLedger, Ledger!Spec
==============================================================================
