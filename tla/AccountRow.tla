------------------------------ MODULE AccountRow ------------------------------
(***************************************************************************)
(* One row of the user table and every request that rewrites it: login     *)
(* (with its lockout), forgot-password, reset-password, verify-email, the  *)
(* profile update and the admin update.  Each handler reads the row,       *)
(* decides on its private copy, and saves the copy at a later await, so    *)
(* the save may meet a row that changed meanwhile.  What a save then does  *)
(* depends on the repository: SQLAlchemy updates the attributes the        *)
(* handler changed, Beanie rewrites the whole document.                    *)
(***************************************************************************)
EXTENDS Naturals, FiniteSets, RowStore

CONSTANTS
    Request,      \* request slots
    ResetToken,   \* password-reset JWTs
    Name,         \* values of display_name
    None,         \* no token
    Backend,      \* "sqlalchemy" or "beanie"
    Kinds,        \* the handlers in use
    max_failed_login_attempts,
    account_lockout_minutes,
    password_reset_token_expire_minutes,
    MaxPassword,  \* bound on the passwords ever chosen
    MaxTime       \* bound on the clock

ASSUME BackendAssumption == Backend \in {"sqlalchemy", "beanie"}
ASSUME KindsAssumption ==
    Kinds \subseteq {"login", "forgot", "reset", "verify", "profile", "admin"}
ASSUME SettingsAssumption ==
    /\ max_failed_login_attempts \in Nat \ {0}
    /\ account_lockout_minutes \in Nat \ {0}
    /\ password_reset_token_expire_minutes \in Nat \ {0}
    /\ MaxPassword \in Nat /\ MaxTime \in Nat \ {0}
ASSUME NamesAssumption == Name # {} /\ None \notin ResetToken

VARIABLES
    row,          \* the stored user
    now,          \* the clock; a time of 0 stands for NULL
    sessions,     \* passwords under which a live refresh token was issued
    expiry,       \* `exp` of each minted reset JWT, 0 before it is minted
    mailed,       \* reset tokens that reached the mailbox
    at, kind, loaded, mine, arg,   \* per request: control point and locals
    chosen        \* the last password anyone chose

stored == <<row, sessions, expiry, mailed>>
locals == <<at, kind, loaded, mine, arg>>
vars   == <<stored, now, locals, chosen>>

Password == 0..MaxPassword
Wrong == MaxPassword + 1          \* a guess that was never anyone's password
Time == 0..(MaxTime + account_lockout_minutes + password_reset_token_expire_minutes)

\* The columns the services write.
Row == [ hashed_password : Password,
         failed_login_attempts : 0..(max_failed_login_attempts - 1),
         locked_until : Time,
         password_reset_token_hash : ResetToken \cup {None},
         password_reset_token_expires_at : Time,
         is_verified : BOOLEAN,
         is_active : BOOLEAN,
         display_name : Name ]

FreshRow == [ hashed_password |-> 0,
              failed_login_attempts |-> 0,
              locked_until |-> 0,
              password_reset_token_hash |-> None,
              password_reset_token_expires_at |-> 0,
              is_verified |-> FALSE,
              is_active |-> TRUE,
              display_name |-> CHOOSE n \in Name : TRUE ]

TypeOK ==
    /\ row \in Row
    /\ now \in 1..MaxTime
    /\ sessions \in SUBSET Password
    /\ expiry \in [ResetToken -> Time]
    /\ mailed \in SUBSET ResetToken
    /\ at \in [Request -> {"idle", "save", "issue", "revokeAll", "mail"}]
    /\ kind \in [Request -> Kinds \cup {"none"}]
    /\ loaded \in [Request -> Row]
    /\ mine \in [Request -> Row]
    /\ arg \in [Request -> ResetToken \cup Password \cup {Wrong, None}]
    /\ chosen \in Password

Init ==
    /\ row = FreshRow
    /\ now = 1
    /\ sessions = {}
    /\ expiry = [t \in ResetToken |-> 0]
    /\ mailed = {}
    /\ at = [r \in Request |-> "idle"]
    /\ kind = [r \in Request |-> "none"]
    /\ loaded = [r \in Request |-> FreshRow]
    /\ mine = [r \in Request |-> FreshRow]
    /\ arg = [r \in Request |-> None]
    /\ chosen = 0

------------------------------------------------------------------------------
(* Reading and saving.  A request that is refused, or that has nothing to     *)
(* save, changes nothing: its checks are the guards of the others.            *)

\* Mutant: every save writes the whole copy back.
SaveRow_WholeRow(was, is) == is

\* The row after saving a copy that was loaded as `was` and is now `is`.
SaveRow(was, is) == Saved(Backend, row, was, is)

\* A handler of kind k has read the row and is about to save `copy`.
Begin(r, k, copy, a) ==
    /\ k \in Kinds
    /\ at[r] = "idle"
    /\ at' = [at EXCEPT ![r] = "save"]
    /\ kind' = [kind EXCEPT ![r] = k]
    /\ loaded' = [loaded EXCEPT ![r] = row]
    /\ mine' = [mine EXCEPT ![r] = copy]
    /\ arg' = [arg EXCEPT ![r] = a]

\* The row is saved, and all that matters of the rest is in arg.
Goto(r, next) ==
    /\ at' = [at EXCEPT ![r] = next]
    /\ kind' = [kind EXCEPT ![r] = "none"]
    /\ loaded' = [loaded EXCEPT ![r] = FreshRow]
    /\ mine' = [mine EXCEPT ![r] = FreshRow]
    /\ arg' = [arg EXCEPT ![r] = IF next = "idle" THEN None ELSE @]

------------------------------------------------------------------------------
(* login *)

Locked(u) == u.locked_until > now

\* Mutant: the threshold is compared before the increment.
FailedAttempt_OffByOne(u) ==
    IF u.failed_login_attempts >= max_failed_login_attempts
    THEN [u EXCEPT !.locked_until = now + account_lockout_minutes,
                   !.failed_login_attempts = 0]
    ELSE [u EXCEPT !.failed_login_attempts = @ + 1]

\* Mutant: the counter goes back to zero while it climbs.
FailedAttempt_Restarts(u) ==
    IF u.failed_login_attempts + 1 >= max_failed_login_attempts
    THEN [u EXCEPT !.locked_until = now + account_lockout_minutes,
                   !.failed_login_attempts = 0]
    ELSE [u EXCEPT !.failed_login_attempts = 0]

\* _register_failed_attempt, on the handler's copy.
FailedAttempt(u) ==
    IF u.failed_login_attempts + 1 >= max_failed_login_attempts
    THEN [u EXCEPT !.locked_until = now + account_lockout_minutes,
                   !.failed_login_attempts = 0]
    ELSE [u EXCEPT !.failed_login_attempts = @ + 1]

ClearLockout(u) == [u EXCEPT !.failed_login_attempts = 0, !.locked_until = 0]

\* get_by_email, the lock check, verify_password and the is_active check run
\* without suspending; a locked account is refused before its password is read.
LoginFails(r) ==
    /\ ~Locked(row)
    /\ Begin(r, "login", FailedAttempt(row), Wrong)
    /\ UNCHANGED <<stored, now, chosen>>

LoginSucceeds(r) ==
    /\ ~Locked(row) /\ row.is_active
    /\ Begin(r, "login", ClearLockout(row), row.hashed_password)
    /\ UNCHANGED <<stored, now, chosen>>

Succeeds(r) == kind[r] = "login" /\ arg[r] # Wrong

\* _issue_tokens
Issue(r) ==
    /\ at[r] = "issue"
    /\ sessions' = sessions \cup {arg[r]}
    /\ Goto(r, "idle")
    /\ UNCHANGED <<row, expiry, mailed, now, chosen>>

------------------------------------------------------------------------------
(* forgot-password and reset-password *)

\* request_reset, for the address as stored: get_by_email compares what it is
\* given, so the address in another case finds nothing and changes nothing.
Forgot(r) ==
    /\ \E t \in ResetToken :
         /\ expiry[t] = 0
         /\ expiry' = [expiry EXCEPT ![t] = now + password_reset_token_expire_minutes]
         /\ Begin(r, "forgot",
                  [row EXCEPT !.password_reset_token_hash = t,
                              !.password_reset_token_expires_at = expiry'[t]],
                  t)
    /\ UNCHANGED <<row, sessions, mailed, now, chosen>>

Mail(r) ==
    /\ at[r] = "mail"
    /\ mailed' = mailed \cup {arg[r]}
    /\ Goto(r, "idle")
    /\ UNCHANGED <<row, sessions, expiry, now, chosen>>

\* Mutant: the JWT alone is trusted, the stored hash is not compared.
MayReset_JwtOnly(t, u) == TRUE

\* reset's checks on the row it loaded, after the JWT itself was accepted.
MayReset(t, u) ==
    /\ u.password_reset_token_hash = t
    /\ u.password_reset_token_expires_at # 0
    /\ u.password_reset_token_expires_at >= now

\* The new password is one nobody chose before, so that it names its reset.
Reset(r, t) ==
    /\ t \in mailed
    /\ expiry[t] > now
    /\ MayReset(t, row)
    /\ chosen < MaxPassword
    /\ chosen' = chosen + 1
    /\ Begin(r, "reset",
             [ClearLockout(row) EXCEPT
                  !.hashed_password = chosen + 1,
                  !.password_reset_token_hash = None,
                  !.password_reset_token_expires_at = 0],
             t)
    /\ UNCHANGED <<stored, now>>

\* revoke_all_for_user, the last call of reset; Beanie's query is never run.
RevokedSessions == IF Backend = "sqlalchemy" THEN {} ELSE sessions

RevokeAll(r) ==
    /\ at[r] = "revokeAll"
    /\ sessions' = RevokedSessions
    /\ Goto(r, "idle")
    /\ UNCHANGED <<row, expiry, mailed, now, chosen>>

------------------------------------------------------------------------------
(* verify-email and the updates *)

VerifyEmail(r) ==
    /\ ~row.is_verified
    /\ Begin(r, "verify", [row EXCEPT !.is_verified = TRUE], None)
    /\ UNCHANGED <<stored, now, chosen>>

\* PATCH /users/me: the row was loaded when the access token was checked, which
\* refuses an inactive user.
UpdateProfile(r, n) ==
    /\ row.is_active
    /\ Begin(r, "profile", [row EXCEPT !.display_name = n], None)
    /\ UNCHANGED <<stored, now, chosen>>

\* UserService.update with an admin payload: the superuser sets the flags present.
AdminUpdate(r, active, verified) ==
    /\ Begin(r, "admin", [row EXCEPT !.is_active = active, !.is_verified = verified],
             None)
    /\ UNCHANGED <<stored, now, chosen>>

------------------------------------------------------------------------------
\* What a handler does after its save.
AfterSave(r) ==
    IF Succeeds(r) THEN "issue"
    ELSE IF kind[r] = "forgot" THEN "mail"
    ELSE IF kind[r] = "reset" THEN "revokeAll" ELSE "idle"

Save(r) ==
    /\ at[r] = "save"
    /\ row' = SaveRow(loaded[r], mine[r])
    /\ Goto(r, AfterSave(r))
    /\ UNCHANGED <<sessions, expiry, mailed, now, chosen>>

\* The process dies or a storage or mail call fails between two awaits.
Crash(r) ==
    /\ at[r] # "idle"
    /\ Goto(r, "idle")
    /\ UNCHANGED <<stored, now, chosen>>

Tick ==
    /\ now < MaxTime
    /\ now' = now + 1
    /\ UNCHANGED <<stored, locals, chosen>>

Arrive(r) ==
    \/ LoginFails(r) \/ LoginSucceeds(r)
    \/ Forgot(r) \/ \E t \in ResetToken : Reset(r, t)
    \/ VerifyEmail(r)
    \/ \E n \in Name : UpdateProfile(r, n)
    \/ \E active, verified \in BOOLEAN : AdminUpdate(r, active, verified)

Progress(r) == Save(r) \/ Issue(r) \/ Mail(r) \/ RevokeAll(r)

Next == Tick \/ \E r \in Request : Arrive(r) \/ Progress(r) \/ Crash(r)

Spec == Init /\ [][Next]_vars

------------------------------------------------------------------------------
(* Properties. *)

Saves(r) == at[r] = "save" /\ row' = SaveRow(loaded[r], mine[r]) /\ at'[r] # "save"

\* Reset token t was minted, is not the stored one, and no request that found it
\* stored, or is about to store it, is still to save.
Spent(t) ==
    /\ expiry[t] # 0
    /\ row.password_reset_token_hash # t
    /\ ~\E r \in Request : at[r] = "save" /\ arg[r] = t /\ kind[r] \in {"forgot", "reset"}

\* A spent reset link stays spent: no concurrent save puts its hash back.
SpentForGood == [][\A t \in ResetToken : Spent(t) => Spent(t)']_vars

\* Password p was chosen and replaced, has no live session, and no login that
\* proved it (nor a reset that chose it) is still under way.
PasswordOver(p) ==
    /\ p <= chosen /\ row.hashed_password # p /\ p \notin sessions
    /\ \A r \in Request :
          /\ at[r] = "issue" \/ (at[r] = "save" /\ Succeeds(r)) => arg[r] # p
          /\ at[r] = "save" /\ kind[r] = "reset" => mine[r].hashed_password # p

\* A replaced password never opens a session again.
OldPasswordNeverOpens == [][\A p \in Password : PasswordOver(p) => PasswordOver(p)']_vars

\* A lock in force is cleared only by a reset, or by a right password whose
\* request found an earlier lock that had already expired.
LockClearedOnlyBy ==
    [][row.locked_until > now /\ row'.locked_until = 0 =>
          \E r \in Request : Saves(r) /\
              \/ kind[r] = "reset"
              \/ Succeeds(r) /\ loaded[r].locked_until # 0]_vars

\* The account-state flags answer to the admin alone: nobody else deactivates or
\* reactivates an account, or takes back a verification.
FlagsOnlyByAdmin ==
    [][ (row'.is_active # row.is_active \/ (row.is_verified /\ ~row'.is_verified)) =>
          \E r \in Request : Saves(r) /\ kind[r] = "admin"]_vars
==============================================================================
