--------------------------- MODULE RefreshSessions ---------------------------
(***************************************************************************)
(* The refresh-token rows of blenx-auth and the requests that write them:  *)
(* sign-in, refresh (rotation and reuse detection), logout, logout-all and *)
(* the revocation that ends a password reset.                              *)
(*                                                                         *)
(* A handler is a coroutine that suspends at every `await`, and several    *)
(* workers serve requests at once, so a request is a sequence of atomic    *)
(* storage calls: between two of them any other request may run.  at[r] is *)
(* the next storage call request r will make.                              *)
(***************************************************************************)
EXTENDS Naturals, FiniteSets

CONSTANTS
    User,       \* user ids
    Token,      \* refresh tokens (one jti, so one hash and one row, each)
    Request,    \* request slots: the requests being served at the same time
    Backend,    \* which repositories are wired: "sqlalchemy" or "beanie"
    None        \* "no user" / "no token"

ASSUME BackendAssumption == Backend \in {"sqlalchemy", "beanie"}
ASSUME NoneAssumption == None \notin User /\ None \notin Token

VARIABLES
    row,        \* state of each token's row in refresh_tokens
    owner,      \* the row's user_id, which is also the JWT's `sub`
    account,    \* is_active of each user, or that the user was deleted
    held,       \* tokens a client received
    expired,    \* tokens whose JWT `exp` has passed
    at, op, subject, token, minted,   \* per request: control point and locals
    parent, session, seen             \* history: see below

(***************************************************************************)
(* History, read by no guard: parent[t] is the token that was rotated into *)
(* t, session[t] the token of the sign-in t descends from, seen[r] the     *)
(* live tokens of r's user when r decided to revoke them all.              *)
(***************************************************************************)
rows    == <<row, owner, parent, session>>
locals  == <<at, op, subject, token, minted, seen>>
clients == <<held, expired>>
vars    == <<rows, locals, clients, account>>

Points == {"idle", "revoke", "revokeAll", "getUser", "issue", "answer"}
Ops    == {"none", "login", "refresh", "reuse", "logout", "endAll"}

TypeOK ==
    /\ row \in [Token -> {"unissued", "live", "revoked", "deleted"}]
    /\ owner \in [Token -> User \cup {None}]
    /\ account \in [User -> {"active", "inactive", "deleted"}]
    /\ held \in SUBSET Token
    /\ expired \in SUBSET Token
    /\ at \in [Request -> Points]
    /\ op \in [Request -> Ops]
    /\ subject \in [Request -> User \cup {None}]
    /\ token \in [Request -> Token \cup {None}]
    /\ minted \in [Request -> Token \cup {None}]
    /\ parent \in [Token -> Token \cup {None}]
    /\ session \in [Token -> Token \cup {None}]
    /\ seen \in [Request -> SUBSET Token]

Init ==
    /\ row = [t \in Token |-> "unissued"]
    /\ owner = [t \in Token |-> None]
    /\ account = [u \in User |-> "active"]
    /\ held = {}
    /\ expired = {}
    /\ at = [r \in Request |-> "idle"]
    /\ op = [r \in Request |-> "none"]
    /\ subject = [r \in Request |-> None]
    /\ token = [r \in Request |-> None]
    /\ minted = [r \in Request |-> None]
    /\ parent = [t \in Token |-> None]
    /\ session = [t \in Token |-> None]
    /\ seen = [r \in Request |-> {}]

------------------------------------------------------------------------------
(* The repository operations. *)

\* The outstanding (not yet revoked) tokens of user u.
Outstanding(u) == {t \in Token : row[t] = "live" /\ owner[t] = u}

\* SQLAlchemy executes its updates; the Beanie repository builds the two update
\* queries and never awaits them, so nothing is written.
UpdatesAwaited == Backend = "sqlalchemy"

\* Mutant: the WHERE clause misses the row (as the unawaited query does).
RevokeRow_NoEffect(t) == row

\* Mutant: the row is marked by a state of its own instead of the timestamp.
RevokeRow_NewState(t) == [row EXCEPT ![t] = "rotated"]

\* revoke: UPDATE ... WHERE id = :id AND revoked_at IS NULL
RevokeRow(t) ==
    IF UpdatesAwaited /\ row[t] = "live"
    THEN [row EXCEPT ![t] = "revoked"]
    ELSE row

\* Mutant: the update stops at the first matching row.
RevokeRowsOf_FirstOnly(u) ==
    IF Outstanding(u) = {} THEN row
    ELSE [row EXCEPT ![CHOOSE t \in Outstanding(u) : TRUE] = "revoked"]

\* revoke_all_for_user: one UPDATE over the user's outstanding rows.
RevokeRowsOf(u) ==
    IF UpdatesAwaited
    THEN [t \in Token |-> IF t \in Outstanding(u) THEN "revoked" ELSE row[t]]
    ELSE row

\* Mutant: no foreign key.
CanInsertFor_NoForeignKey(u) == TRUE

\* create: the INSERT is refused by the foreign key when the user is gone
\* (SQLAlchemy); a document store has no such constraint.
CanInsertFor(u) == Backend = "sqlalchemy" => account[u] # "deleted"

------------------------------------------------------------------------------
(* Requests.  A request starts in an idle slot. *)

\* Bound: a request that may issue a token starts only while one is left for it.
TokensLeft ==
    Cardinality({t \in Token : row[t] = "unissued"})
      > Cardinality({r \in Request : at[r] # "idle" /\ op[r] \in {"login", "refresh"}
                                     /\ minted[r] = None})

Begin(r, what, u, t, next) ==
    /\ at[r] = "idle"
    /\ at' = [at EXCEPT ![r] = next]
    /\ op' = [op EXCEPT ![r] = what]
    /\ subject' = [subject EXCEPT ![r] = u]
    /\ token' = [token EXCEPT ![r] = t]
    /\ minted' = [minted EXCEPT ![r] = None]

Goto(r, next) ==
    /\ at' = [at EXCEPT ![r] = next]
    /\ UNCHANGED <<op, subject, token, minted, seen>>

\* The coroutine is gone, and its locals with it.
Finish(r) ==
    /\ at' = [at EXCEPT ![r] = "idle"]
    /\ op' = [op EXCEPT ![r] = "none"]
    /\ subject' = [subject EXCEPT ![r] = None]
    /\ token' = [token EXCEPT ![r] = None]
    /\ minted' = [minted EXCEPT ![r] = None]
    /\ seen' = [seen EXCEPT ![r] = {}]

\* login (credentials checked, success saved) or oauth_login (identity
\* resolved): from here on the handler only issues the pair.
SignIn(r, u) ==
    /\ account[u] = "active" => TokensLeft
    /\ Begin(r, "login", u, None, IF account[u] = "active" THEN "issue" ELSE "answer")
    /\ seen' = [seen EXCEPT ![r] = {}]
    /\ UNCHANGED <<rows, clients, account>>

\* Mutant: refresh does not look at revoked_at.
AfterLookup_NoReuseCheck(t) ==
    IF t \in expired \/ row[t] = "deleted" THEN "answer" ELSE "revoke"

\* What refresh does after decode_refresh_token and get_by_hash, by the row read.
AfterLookup(t) ==
    IF t \in expired \/ row[t] = "deleted" THEN "answer"
    ELSE IF row[t] = "revoked" THEN "revokeAll" ELSE "revoke"

RefreshLookup(r, t) ==
    /\ t \in held
    /\ LET next == AfterLookup(t)
           u == owner[t]
       IN /\ next = "revoke" => TokensLeft
          /\ Begin(r, IF next = "revokeAll" THEN "reuse" ELSE "refresh", u, t, next)
          /\ seen' = [seen EXCEPT ![r] = IF next = "revokeAll" THEN Outstanding(u) ELSE {}]
    /\ UNCHANGED <<rows, clients, account>>

\* logout: an expired token returns at once, an unknown row is ignored; the
\* row's revoked_at is not read, since revoke is idempotent.
LogoutLookup(r, t) ==
    /\ t \in held
    /\ Begin(r, "logout", owner[t], t,
             IF t \in expired \/ row[t] = "deleted" THEN "answer" ELSE "revoke")
    /\ seen' = [seen EXCEPT ![r] = {}]
    /\ UNCHANGED <<rows, clients, account>>

\* logout_all once authenticate_access_token has accepted the caller, and the
\* last call of PasswordResetService.reset, which does not look at is_active.
EndAll(r, u) ==
    /\ account[u] # "deleted"
    /\ Begin(r, "endAll", u, None, "revokeAll")
    /\ seen' = [seen EXCEPT ![r] = Outstanding(u)]
    /\ UNCHANGED <<rows, clients, account>>

Revoke(r) ==
    /\ at[r] = "revoke"
    /\ row' = RevokeRow(token[r])
    /\ Goto(r, IF op[r] = "refresh" THEN "getUser" ELSE "answer")
    /\ UNCHANGED <<owner, parent, session, clients, account>>

RevokeAll(r) ==
    /\ at[r] = "revokeAll"
    /\ row' = RevokeRowsOf(subject[r])
    /\ Goto(r, "answer")
    /\ UNCHANGED <<owner, parent, session, clients, account>>

\* refresh's get_by_id: only a missing user is refused, is_active is not read.
GetUser(r) ==
    /\ at[r] = "getUser"
    /\ Goto(r, IF account[subject[r]] = "deleted" THEN "answer" ELSE "issue")
    /\ UNCHANGED <<rows, clients, account>>

\* _issue_tokens: mint a pair and insert its row.
Issue(r) ==
    /\ at[r] = "issue"
    /\ CanInsertFor(subject[r])
    /\ \E t \in Token :
         /\ row[t] = "unissued"
         /\ row' = [row EXCEPT ![t] = "live"]
         /\ owner' = [owner EXCEPT ![t] = subject[r]]
         /\ parent' = [parent EXCEPT ![t] = token[r]]
         /\ session' = [session EXCEPT
                          ![t] = IF token[r] = None THEN t ELSE session[token[r]]]
         /\ minted' = [minted EXCEPT ![r] = t]
    /\ at' = [at EXCEPT ![r] = "answer"]
    /\ UNCHANGED <<op, subject, token, seen, clients, account>>

\* The INSERT was refused: the storage error ends the request.
IssueRefused(r) ==
    /\ at[r] = "issue"
    /\ ~CanInsertFor(subject[r])
    /\ Goto(r, "answer")
    /\ UNCHANGED <<rows, clients, account>>

\* The client receives the answer, and the new refresh token if there is one.
Receive(r) ==
    /\ at[r] = "answer"
    /\ Finish(r)
    /\ held' = IF minted[r] = None THEN held ELSE held \cup {minted[r]}
    /\ UNCHANGED <<rows, expired, account>>

------------------------------------------------------------------------------
(* Faults, and what happens around the service. *)

\* The process dies, the task is cancelled or a storage call fails: what was
\* committed stays.
Crash(r) ==
    /\ at[r] \notin {"idle", "answer"}
    /\ Finish(r)
    /\ UNCHANGED <<rows, clients, account>>

\* The response never reaches the client.
LoseAnswer(r) ==
    /\ at[r] = "answer"
    /\ Finish(r)
    /\ UNCHANGED <<rows, clients, account>>

\* An admin flips is_active (UserService.update).
SetActive(u, status) ==
    /\ account[u] # "deleted"
    /\ account' = [account EXCEPT ![u] = status]
    /\ UNCHANGED <<rows, locals, clients>>

\* The host deletes a user: ON DELETE CASCADE takes the rows along.
DeleteUser(u) ==
    /\ account[u] # "deleted"
    /\ account' = [account EXCEPT ![u] = "deleted"]
    /\ row' = IF Backend = "sqlalchemy"
              THEN [t \in Token |-> IF owner[t] = u THEN "deleted" ELSE row[t]]
              ELSE row
    /\ UNCHANGED <<owner, parent, session, locals, clients>>

Expire(t) ==
    /\ t \in held
    /\ expired' = expired \cup {t}
    /\ UNCHANGED <<rows, locals, held, account>>

------------------------------------------------------------------------------
Progress(r) ==
    Revoke(r) \/ RevokeAll(r) \/ GetUser(r) \/ Issue(r) \/ IssueRefused(r) \/ Receive(r)

Arrive(r) ==
    \/ \E u \in User : SignIn(r, u) \/ EndAll(r, u)
    \/ \E t \in Token : RefreshLookup(r, t) \/ LogoutLookup(r, t)

Around ==
    \/ \E u \in User : DeleteUser(u) \/ SetActive(u, "active") \/ SetActive(u, "inactive")
    \/ \E t \in Token : Expire(t)

Fault(r) == Crash(r) \/ LoseAnswer(r)

Next == Around \/ \E r \in Request : Arrive(r) \/ Progress(r) \/ Fault(r)

Spec == Init /\ [][Next]_vars

------------------------------------------------------------------------------
(* Properties. *)

\* A token that was exchanged for a successor can no longer be exchanged: a
\* crash, a retry or a second rotation of the same token between the two
\* commits of refresh() never leaves both of them live.
RotationConsumesParent ==
    \A t \in Token :
        parent[t] # None /\ row[t] # "unissued" => row[parent[t]] # "live"

\* When reuse detection, logout_all or a reset answers, every token that was
\* outstanding when the request looked is dead, whatever ran in between.
EndAllIsComplete ==
    \A r \in Request :
        at[r] = "answer" /\ op[r] \in {"reuse", "endAll"} =>
            \A t \in seen[r] : row[t] # "live"

\* A rotation of session s that has passed its reuse check and not yet inserted.
InFlight(s) ==
    \E r \in Request :
        /\ op[r] = "refresh"
        /\ at[r] \in {"revoke", "getUser", "issue"}
        /\ session[token[r]] = s

\* Session s (named by its sign-in token) exists and is over: all its tokens are
\* dead and no rotation of it is under way.
SessionOver(s) ==
    /\ row[s] # "unissued"
    /\ \A t \in Token : session[t] = s => row[t] # "live"
    /\ ~InFlight(s)

\* A session that is over stays over: no token of it, however old and however
\* often presented, brings it back.
OverForGood ==
    [][\A s \in Token : SessionOver(s) => SessionOver(s)']_vars

\* A deleted user has no live session, even when the deletion falls between the
\* lookup and the insert of a refresh in flight.
DeletedUserHasNoSession ==
    \A t \in Token : \A u \in User :
        owner[t] = u /\ account[u] = "deleted" => row[t] # "live"

\* The rows implement the ledger: a revoked row and a cascaded one have ended.
Status == [t \in Token |->
              IF row[t] \in {"revoked", "deleted"} THEN "ended" ELSE row[t]]

Ledger == INSTANCE SessionLedger WITH status <- Status, holder <- owner, from <- parent

ImplementsLedger == Ledger!Spec

------------------------------------------------------------------------------
(* The inductive invariant of RefreshSessions_proofs.  The last two parts are  *)
(* what the awaited updates of the SQLAlchemy repositories add.                *)

\* A request past its lookup works on an issued token of its own subject.
RequestsConsistent ==
    \A r \in Request :
        /\ at[r] = "revoke" => op[r] \in {"refresh", "logout"}
        /\ at[r] = "getUser" => op[r] = "refresh"
        /\ at[r] = "issue" => op[r] \in {"login", "refresh"}
        /\ at[r] # "idle" => subject[r] \in User
        /\ op[r] = "login" => token[r] = None
        /\ op[r] \in {"refresh", "logout"} =>
              /\ token[r] \in Token
              /\ row[token[r]] # "unissued"
              /\ owner[token[r]] = subject[r]
        /\ minted[r] # None => row[minted[r]] # "unissued"
        /\ \A t \in seen[r] : row[t] # "unissued" /\ owner[t] = subject[r]

\* Only issued tokens have an owner, a parent, a session or a holder.
TokensConsistent ==
    \A t \in Token :
        /\ row[t] = "unissued" =>
              owner[t] = None /\ parent[t] = None /\ session[t] = None /\ t \notin held
        /\ row[t] # "unissued" =>
              owner[t] \in User /\ session[t] \in Token /\ row[session[t]] # "unissued"
        /\ parent[t] # None => row[parent[t]] # "unissued"

\* A rotation revokes before it issues: past the update, the presented row is dead.
RevokedBeforeIssue ==
    \A r \in Request :
        at[r] \in {"getUser", "issue"} /\ op[r] = "refresh" => row[token[r]] # "live"

Consistent == RequestsConsistent /\ TokensConsistent

Durable ==
    RevokedBeforeIssue /\ RotationConsumesParent /\ EndAllIsComplete
    /\ DeletedUserHasNoSession

\* Whatever the requests do, each works on issued tokens of its own user, and with
\* awaited updates what refresh() and the revocations ended stays ended.
IInv == TypeOK /\ Consistent /\ (Backend = "sqlalchemy" => Durable)
==============================================================================
