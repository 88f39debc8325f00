--------------------------- MODULE AccountRow_proofs ---------------------------
(***************************************************************************)
(* Proofs about AccountRow, for any requests, reset tokens, names, kinds   *)
(* of handler and settings.                                                *)
(***************************************************************************)
EXTENDS AccountRow, TLAPS

(* The inductive invariant. *)

\* What a handler of kind k that read `was` may be about to change by saving `is`:
\* a private copy differs from what was read in the handler's own columns only.
OwnChange(k, was, is, a) ==
    /\ is.password_reset_token_hash # was.password_reset_token_hash =>
          \/ k = "forgot" /\ is.password_reset_token_hash = a
          \/ k = "reset" /\ is.password_reset_token_hash = None
    /\ is.hashed_password # was.hashed_password => k = "reset"
    /\ is.locked_until # was.locked_until /\ is.locked_until = 0 =>
          k = "reset" \/ (k = "login" /\ a # Wrong)
    /\ is.is_active # was.is_active => k = "admin"
    /\ is.is_verified # was.is_verified => k = "admin" \/ is.is_verified = TRUE

\* What arg holds, by where the request is.
ArgTyped ==
    \A r \in Request :
        /\ at[r] = "save" /\ kind[r] = "login" => arg[r] \in Password \cup {Wrong}
        /\ at[r] = "save" /\ kind[r] = "forgot" => arg[r] \in ResetToken
        /\ at[r] = "issue" => arg[r] \in Password
        /\ at[r] = "mail" => arg[r] \in ResetToken

CopiesOwn ==
    \A r \in Request :
        at[r] = "save" => OwnChange(kind[r], loaded[r], mine[r], arg[r])

RowInv == TypeOK /\ ArgTyped /\ CopiesOwn
------------------------------------------------------------------------------

Columns == {"hashed_password", "failed_login_attempts", "locked_until",
            "password_reset_token_hash", "password_reset_token_expires_at",
            "is_verified", "is_active", "display_name"}

\* The row with the attributes that differ between two copies.
LEMMA SavedRow ==
    ASSUME NEW a \in Row, NEW b \in Row, NEW c \in Row
    PROVE  /\ Saved(Backend, a, b, c) \in Row
           /\ Saved(Backend, a, b, c) =
                 [f \in Columns |-> IF Backend = "beanie" \/ c[f] # b[f] THEN c[f] ELSE a[f]]
<1> DEFINE s == Saved(Backend, a, b, c)
<1>1. DOMAIN a = Columns
  BY DEF Row, Columns
<1>2. s = [f \in Columns |-> IF Backend = "beanie" \/ c[f] # b[f] THEN c[f] ELSE a[f]]
  BY <1>1 DEF Saved
<1>3. \A f \in Columns : s[f] \in {a[f], c[f]}
  BY <1>2
<1>4. s = [hashed_password |-> s["hashed_password"],
           failed_login_attempts |-> s["failed_login_attempts"],
           locked_until |-> s["locked_until"],
           password_reset_token_hash |-> s["password_reset_token_hash"],
           password_reset_token_expires_at |-> s["password_reset_token_expires_at"],
           is_verified |-> s["is_verified"],
           is_active |-> s["is_active"],
           display_name |-> s["display_name"]]
  BY <1>2 DEF Columns
<1> HIDE DEF s
<1>5. /\ s["hashed_password"] \in Password
      /\ s["failed_login_attempts"] \in 0..(max_failed_login_attempts - 1)
      /\ s["locked_until"] \in Time
      /\ s["password_reset_token_hash"] \in ResetToken \cup {None}
      /\ s["password_reset_token_expires_at"] \in Time
      /\ s["display_name"] \in Name
  <2>1. /\ a.hashed_password \in Password /\ c.hashed_password \in Password
        /\ a.failed_login_attempts \in 0..(max_failed_login_attempts - 1)
        /\ c.failed_login_attempts \in 0..(max_failed_login_attempts - 1)
        /\ a.locked_until \in Time /\ c.locked_until \in Time
        /\ a.password_reset_token_hash \in ResetToken \cup {None}
        /\ c.password_reset_token_hash \in ResetToken \cup {None}
        /\ a.password_reset_token_expires_at \in Time
        /\ c.password_reset_token_expires_at \in Time
        /\ a.display_name \in Name /\ c.display_name \in Name
    BY Zenon DEF Row
  <2> QED
    BY <1>3, <2>1 DEF Columns
<1>6. s["is_verified"] \in BOOLEAN /\ s["is_active"] \in BOOLEAN
  <2>1. /\ a["is_verified"] \in BOOLEAN /\ c["is_verified"] \in BOOLEAN
        /\ a["is_active"] \in BOOLEAN /\ c["is_active"] \in BOOLEAN
    BY Zenon DEF Row
  <2>2. s["is_verified"] \in {a["is_verified"], c["is_verified"]}
    BY <1>3 DEF Columns
  <2>3. s["is_active"] \in {a["is_active"], c["is_active"]}
    BY <1>3 DEF Columns
  <2> QED
    BY <2>1, <2>2, <2>3, Zenon
<1>7. s \in Row
  BY <1>4, <1>5, <1>6, Zenon DEF Row
<1> QED
  BY <1>2, <1>7 DEF s

\* A row with one column replaced is a row.
LEMMA OneColumn ==
    ASSUME NEW u \in Row
    PROVE  /\ \A p \in Password : [u EXCEPT !.hashed_password = p] \in Row
           /\ \A k \in 0..(max_failed_login_attempts - 1) :
                 [u EXCEPT !.failed_login_attempts = k] \in Row
           /\ \A x \in Time : [u EXCEPT !.locked_until = x] \in Row
           /\ \A t \in ResetToken \cup {None} :
                 [u EXCEPT !.password_reset_token_hash = t] \in Row
           /\ \A x \in Time : [u EXCEPT !.password_reset_token_expires_at = x] \in Row
           /\ \A b \in BOOLEAN : [u EXCEPT !.is_verified = b] \in Row
           /\ \A b \in BOOLEAN : [u EXCEPT !.is_active = b] \in Row
           /\ \A n \in Name : [u EXCEPT !.display_name = n] \in Row
<1>1. ASSUME NEW p \in Password PROVE [u EXCEPT !.hashed_password = p] \in Row
  BY Zenon DEF Row
<1>2. ASSUME NEW k \in 0..(max_failed_login_attempts - 1) PROVE [u EXCEPT !.failed_login_attempts = k] \in Row
  BY Zenon DEF Row
<1>3. ASSUME NEW x \in Time PROVE [u EXCEPT !.locked_until = x] \in Row
  BY Zenon DEF Row
<1>4. ASSUME NEW t \in ResetToken \cup {None} PROVE [u EXCEPT !.password_reset_token_hash = t] \in Row
  BY Zenon DEF Row
<1>5. ASSUME NEW x \in Time PROVE [u EXCEPT !.password_reset_token_expires_at = x] \in Row
  BY Zenon DEF Row
<1>6. ASSUME NEW b \in BOOLEAN PROVE [u EXCEPT !.is_verified = b] \in Row
  BY Zenon DEF Row
<1>7. ASSUME NEW b \in BOOLEAN PROVE [u EXCEPT !.is_active = b] \in Row
  BY Zenon DEF Row
<1>8. ASSUME NEW n \in Name PROVE [u EXCEPT !.display_name = n] \in Row
  BY Zenon DEF Row
<1> QED
  BY <1>1, <1>2, <1>3, <1>4, <1>5, <1>6, <1>7, <1>8, Zenon

\* A failed attempt counts, or locks and starts over.
LEMMA FailedRow ==
    ASSUME NEW u \in Row, now \in 1..MaxTime
    PROVE  FailedAttempt(u) \in Row /\ OwnChange("login", u, FailedAttempt(u), Wrong)
<1> USE SettingsAssumption
<1>1. u.failed_login_attempts \in 0..(max_failed_login_attempts - 1)
  BY DEF Row
<1>2. CASE u.failed_login_attempts + 1 >= max_failed_login_attempts
  <2> DEFINE locked == [u EXCEPT !.locked_until = now + account_lockout_minutes]
             copy == [locked EXCEPT !.failed_login_attempts = 0]
  <2>1. now + account_lockout_minutes \in Time /\ 0 \in 0..(max_failed_login_attempts - 1)
    BY DEF Time
  <2>2. locked \in Row
    BY <2>1, OneColumn, Zenon
  <2>3. copy \in Row
    <3> HIDE DEF locked
    <3> QED
      BY <2>1, <2>2, OneColumn, Zenon
  <2>4. FailedAttempt(u) = copy
    BY <1>2 DEF FailedAttempt
  <2>5. copy.locked_until = now + account_lockout_minutes /\ now + account_lockout_minutes # 0
    BY DEF Row
  <2>6. /\ copy.password_reset_token_hash = u.password_reset_token_hash
        /\ copy.hashed_password = u.hashed_password
    BY DEF Row
  <2>7. copy.is_active = u.is_active /\ copy.is_verified = u.is_verified
    BY DEF Row
  <2> QED
    BY <2>3, <2>4, <2>5, <2>6, <2>7 DEF OwnChange
<1>3. CASE ~(u.failed_login_attempts + 1 >= max_failed_login_attempts)
  <2> DEFINE copy == [u EXCEPT !.failed_login_attempts = u.failed_login_attempts + 1]
  <2>1. u.failed_login_attempts + 1 \in 0..(max_failed_login_attempts - 1)
    BY <1>1, <1>3
  <2>2. copy \in Row
    BY <2>1, OneColumn, Zenon
  <2>3. FailedAttempt(u) = copy
    BY <1>3 DEF FailedAttempt
  <2>4. /\ copy.locked_until = u.locked_until
        /\ copy.password_reset_token_hash = u.password_reset_token_hash
        /\ copy.hashed_password = u.hashed_password
    BY DEF Row
  <2>5. copy.is_active = u.is_active /\ copy.is_verified = u.is_verified
    BY DEF Row
  <2> QED
    BY <2>2, <2>3, <2>4, <2>5 DEF OwnChange
<1> QED
  BY <1>2, <1>3

\* A right password, and a reset, clear the lock.
LEMMA ClearedRow ==
    ASSUME NEW u \in Row
    PROVE  /\ ClearLockout(u) \in Row
           /\ ClearLockout(u).hashed_password = u.hashed_password
           /\ ClearLockout(u).password_reset_token_hash = u.password_reset_token_hash
           /\ ClearLockout(u).is_active = u.is_active
           /\ ClearLockout(u).is_verified = u.is_verified
<1> DEFINE zero == [u EXCEPT !.failed_login_attempts = 0]
           copy == [zero EXCEPT !.locked_until = 0]
<1>1. 0 \in Time /\ 0 \in 0..(max_failed_login_attempts - 1)
  BY SettingsAssumption DEF Time
<1>2. zero \in Row
  BY <1>1, OneColumn, Zenon
<1>3. copy \in Row
  <2> HIDE DEF zero
  <2> QED
    BY <1>1, <1>2, OneColumn, Zenon
<1>4. ClearLockout(u) = copy
  BY DEF ClearLockout
<1>5. /\ copy.hashed_password = u.hashed_password
      /\ copy.password_reset_token_hash = u.password_reset_token_hash
  BY DEF Row
<1>6. copy.is_active = u.is_active /\ copy.is_verified = u.is_verified
  BY DEF Row
<1> QED
  BY <1>3, <1>4, <1>5, <1>6

\* The copies of the other handlers.
LEMMA ForgotRow ==
    ASSUME NEW u \in Row, NEW t \in ResetToken, NEW x \in Time
    PROVE  LET copy == [u EXCEPT !.password_reset_token_hash = t,
                                 !.password_reset_token_expires_at = x]
           IN copy \in Row /\ OwnChange("forgot", u, copy, t)
<1> DEFINE hashed == [u EXCEPT !.password_reset_token_hash = t]
           copy == [hashed EXCEPT !.password_reset_token_expires_at = x]
<1>1. hashed \in Row
  BY OneColumn, Zenon
<1>2. copy \in Row
  <2> HIDE DEF hashed
  <2> QED
    BY <1>1, OneColumn, Zenon
<1>3. copy.password_reset_token_hash = t
  BY DEF Row
<1>4. copy.hashed_password = u.hashed_password /\ copy.locked_until = u.locked_until
  BY DEF Row
<1>5. copy.is_active = u.is_active /\ copy.is_verified = u.is_verified
  BY DEF Row
<1> QED
  BY <1>2, <1>3, <1>4, <1>5 DEF OwnChange

\* A reset replaces the password, spends the link and clears the lock.
LEMMA ResetRow ==
    ASSUME NEW u \in Row, NEW p \in Password, NEW t \in ResetToken
    PROVE  LET copy == [ClearLockout(u) EXCEPT !.hashed_password = p,
                                               !.password_reset_token_hash = None,
                                               !.password_reset_token_expires_at = 0]
           IN copy \in Row /\ copy.hashed_password = p /\ OwnChange("reset", u, copy, t)
<1> DEFINE clear == ClearLockout(u)
           chose == [clear EXCEPT !.hashed_password = p]
           spent == [chose EXCEPT !.password_reset_token_hash = None]
           copy  == [spent EXCEPT !.password_reset_token_expires_at = 0]
<1>1. clear \in Row /\ clear.is_active = u.is_active /\ clear.is_verified = u.is_verified
  BY ClearedRow
<1> HIDE DEF clear
<1>2. chose \in Row
  BY <1>1, OneColumn, Zenon
<1>3. spent \in Row
  <2> HIDE DEF chose
  <2>1. None \in ResetToken \cup {None}
    OBVIOUS
  <2> QED
    BY <1>2, <2>1, OneColumn, Zenon
<1>4. copy \in Row
  <2> HIDE DEF spent
  <2>1. 0 \in Time
    BY SettingsAssumption DEF Time
  <2> QED
    BY <1>3, <2>1, OneColumn, Zenon
<1>5. copy.password_reset_token_hash = None /\ copy.hashed_password = p
  BY <1>1 DEF Row
<1>6. copy.is_active = clear.is_active /\ copy.is_verified = clear.is_verified
  BY <1>1 DEF Row
<1>7. OwnChange("reset", u, copy, t)
  BY <1>1, <1>5, <1>6 DEF OwnChange
<1> QED
  BY <1>4, <1>5, <1>7 DEF clear

\* Verification, profile update and admin update touch their own columns.
LEMMA OtherRows ==
    ASSUME NEW u \in Row
    PROVE  /\ [u EXCEPT !.is_verified = TRUE] \in Row
           /\ OwnChange("verify", u, [u EXCEPT !.is_verified = TRUE], None)
           /\ \A n \in Name : /\ [u EXCEPT !.display_name = n] \in Row
                              /\ OwnChange("profile", u, [u EXCEPT !.display_name = n], None)
           /\ \A b, c \in BOOLEAN :
                 /\ [u EXCEPT !.is_active = b, !.is_verified = c] \in Row
                 /\ OwnChange("admin", u, [u EXCEPT !.is_active = b, !.is_verified = c], None)
<1>1. /\ [u EXCEPT !.is_verified = TRUE] \in Row
      /\ OwnChange("verify", u, [u EXCEPT !.is_verified = TRUE], None)
  <2> DEFINE copy == [u EXCEPT !.is_verified = TRUE]
  <2>1. copy \in Row
    BY OneColumn, Zenon
  <2>2. /\ copy.password_reset_token_hash = u.password_reset_token_hash
        /\ copy.hashed_password = u.hashed_password /\ copy.locked_until = u.locked_until
    BY DEF Row
  <2>3. copy.is_active = u.is_active /\ copy.is_verified = TRUE
    BY DEF Row
  <2> QED
    BY <2>1, <2>2, <2>3 DEF OwnChange
<1>2. ASSUME NEW n \in Name
      PROVE  /\ [u EXCEPT !.display_name = n] \in Row
             /\ OwnChange("profile", u, [u EXCEPT !.display_name = n], None)
  <2> DEFINE copy == [u EXCEPT !.display_name = n]
  <2>1. copy \in Row
    BY OneColumn, Zenon
  <2>2. /\ copy.password_reset_token_hash = u.password_reset_token_hash
        /\ copy.hashed_password = u.hashed_password /\ copy.locked_until = u.locked_until
    BY DEF Row
  <2>3. copy.is_active = u.is_active /\ copy.is_verified = u.is_verified
    BY DEF Row
  <2> QED
    BY <2>1, <2>2, <2>3 DEF OwnChange
<1>3. ASSUME NEW b \in BOOLEAN, NEW c \in BOOLEAN
      PROVE  /\ [u EXCEPT !.is_active = b, !.is_verified = c] \in Row
             /\ OwnChange("admin", u, [u EXCEPT !.is_active = b, !.is_verified = c], None)
  <2> DEFINE active == [u EXCEPT !.is_active = b]
             copy == [active EXCEPT !.is_verified = c]
  <2>1. active \in Row
    BY OneColumn, Zenon
  <2>2. copy \in Row
    <3> HIDE DEF active
    <3> QED
      BY <2>1, OneColumn, Zenon
  <2>3. /\ copy.password_reset_token_hash = u.password_reset_token_hash
        /\ copy.hashed_password = u.hashed_password /\ copy.locked_until = u.locked_until
    BY DEF Row
  <2> QED
    BY <2>2, <2>3 DEF OwnChange
<1> QED
  BY <1>1, <1>2, <1>3, Zenon
------------------------------------------------------------------------------

\* The row of a new account.
LEMMA FreshIsRow == FreshRow \in Row
<1>1. /\ 0 \in Password /\ 0 \in Time /\ 0 \in 0..(max_failed_login_attempts - 1)
      /\ (CHOOSE n \in Name : TRUE) \in Name /\ None \in ResetToken \cup {None}
  BY SettingsAssumption, NamesAssumption DEF Password, Time
<1>2. TRUE \in BOOLEAN /\ FALSE \in BOOLEAN
  OBVIOUS
<1> QED
  BY <1>1, <1>2, Zenon DEF FreshRow, Row

\* No copies are held at first.
LEMMA InitInv == Init => RowInv
<1> SUFFICES ASSUME Init PROVE RowInv
  OBVIOUS
<1>1. FreshRow \in Row
  BY FreshIsRow
<1>2. TypeOK
  BY <1>1, SettingsAssumption DEF Init, TypeOK, Password, Time
<1> QED
  BY <1>2 DEF Init, RowInv, ArgTyped, CopiesOwn

\* A handler that begins with a copy of its own keeps the invariant.
LEMMA BeginKeeps ==
    ASSUME RowInv, NEW r \in Request, NEW k \in Kinds, NEW copy \in Row,
           NEW a \in ResetToken \cup Password \cup {Wrong, None},
           Begin(r, k, copy, a), OwnChange(k, row, copy, a),
           k = "login" => a \in Password \cup {Wrong}, k = "forgot" => a \in ResetToken
    PROVE  /\ at' \in [Request -> {"idle", "save", "issue", "revokeAll", "mail"}]
           /\ kind' \in [Request -> Kinds \cup {"none"}]
           /\ loaded' \in [Request -> Row] /\ mine' \in [Request -> Row]
           /\ arg' \in [Request -> ResetToken \cup Password \cup {Wrong, None}]
           /\ ArgTyped' /\ CopiesOwn'
<1> USE DEF RowInv, TypeOK, Begin
<1>1. ArgTyped'
  BY DEF ArgTyped
<1>2. CopiesOwn'
  BY DEF CopiesOwn
<1> QED
  BY <1>1, <1>2

\* So does one that goes on after its save.
LEMMA GotoKeeps ==
    ASSUME RowInv, NEW r \in Request, NEW next \in {"idle", "issue", "revokeAll", "mail"},
           Goto(r, next), next = "issue" => arg[r] \in Password, next = "mail" => arg[r] \in ResetToken
    PROVE  /\ at' \in [Request -> {"idle", "save", "issue", "revokeAll", "mail"}]
           /\ kind' \in [Request -> Kinds \cup {"none"}]
           /\ loaded' \in [Request -> Row] /\ mine' \in [Request -> Row]
           /\ arg' \in [Request -> ResetToken \cup Password \cup {Wrong, None}]
           /\ ArgTyped' /\ CopiesOwn'
<1> USE DEF RowInv, TypeOK, Goto
<1>1. FreshRow \in Row
  BY FreshIsRow
<1>2. ArgTyped'
  BY DEF ArgTyped
<1>3. CopiesOwn'
  BY DEF CopiesOwn
<1> QED
  BY <1>1, <1>2, <1>3

\* A handler's arrival is a Begin with a copy of its own.
LEMMA ArriveInv ==
    ASSUME RowInv, NEW r \in Request, Arrive(r)
    PROVE  RowInv' /\ UNCHANGED <<row, now, sessions, mailed>>
<1> USE DEF RowInv
<1>1. row \in Row /\ now \in 1..MaxTime /\ chosen \in Password
  BY DEF TypeOK
<1>2. ASSUME LoginFails(r) PROVE RowInv' /\ UNCHANGED <<row, now, sessions, mailed>>
  <2>1. /\ Begin(r, "login", FailedAttempt(row), Wrong) /\ "login" \in Kinds
        /\ UNCHANGED <<stored, now, chosen>>
    BY <1>2 DEF LoginFails, Begin
  <2>2. FailedAttempt(row) \in Row /\ OwnChange("login", row, FailedAttempt(row), Wrong)
    BY <1>1, FailedRow
  <2> QED
    BY <2>1, <2>2, BeginKeeps DEF TypeOK, stored
<1>3. ASSUME LoginSucceeds(r) PROVE RowInv' /\ UNCHANGED <<row, now, sessions, mailed>>
  <2>1. /\ Begin(r, "login", ClearLockout(row), row.hashed_password) /\ "login" \in Kinds
        /\ UNCHANGED <<stored, now, chosen>>
    BY <1>3 DEF LoginSucceeds, Begin
  <2>2. row.hashed_password \in Password /\ row.hashed_password # Wrong
    BY <1>1, SettingsAssumption DEF Row, Password, Wrong
  <2>3. ClearLockout(row) \in Row /\ OwnChange("login", row, ClearLockout(row), row.hashed_password)
    BY <1>1, <2>2, ClearedRow DEF OwnChange
  <2> QED
    BY <2>1, <2>2, <2>3, BeginKeeps DEF TypeOK, stored
<1>4. ASSUME Forgot(r) PROVE RowInv' /\ UNCHANGED <<row, now, sessions, mailed>>
  <2>1. PICK t \in ResetToken :
          /\ expiry' = [expiry EXCEPT ![t] = now + password_reset_token_expire_minutes]
          /\ Begin(r, "forgot",
                  [row EXCEPT !.password_reset_token_hash = t,
                              !.password_reset_token_expires_at = expiry'[t]],
                  t)
    BY <1>4, Zenon DEF Forgot
  <2>2. UNCHANGED <<row, sessions, mailed, now, chosen>>
    BY <1>4 DEF Forgot
  <2>3. expiry' \in [ResetToken -> Time] /\ expiry'[t] \in Time
    BY <1>1, <2>1, SettingsAssumption DEF TypeOK, Time
  <2> DEFINE copy == [row EXCEPT !.password_reset_token_hash = t,
                                 !.password_reset_token_expires_at = expiry'[t]]
  <2>4. copy \in Row /\ OwnChange("forgot", row, copy, t)
    BY <1>1, <2>3, ForgotRow, Zenon
  <2>5. Begin(r, "forgot", copy, t) /\ "forgot" \in Kinds
    BY <2>1, Zenon DEF Begin
  <2> HIDE DEF copy
  <2> QED
    BY <2>2, <2>3, <2>4, <2>5, BeginKeeps DEF TypeOK
<1>5. ASSUME NEW t \in ResetToken, Reset(r, t)
      PROVE  RowInv' /\ UNCHANGED <<row, now, sessions, mailed>>
  <2>1. chosen + 1 \in Password /\ chosen' = chosen + 1 /\ UNCHANGED <<stored, now>>
    BY <1>1, <1>5, SettingsAssumption DEF Reset, Password
  <2> DEFINE copy == [ClearLockout(row) EXCEPT !.hashed_password = chosen + 1,
                          !.password_reset_token_hash = None,
                          !.password_reset_token_expires_at = 0]
  <2>2. copy \in Row /\ OwnChange("reset", row, copy, t)
    BY <1>1, <2>1, ResetRow, Zenon
  <2>3. Begin(r, "reset", copy, t) /\ "reset" \in Kinds
    BY <1>5, Zenon DEF Begin, Reset
  <2> HIDE DEF copy
  <2> QED
    BY <2>1, <2>2, <2>3, BeginKeeps DEF TypeOK, stored
<1>6. ASSUME NEW k \in {"verify", "profile", "admin"}, NEW copy \in Row, Begin(r, k, copy, None),
             OwnChange(k, row, copy, None), UNCHANGED <<stored, now, chosen>>
      PROVE  RowInv' /\ UNCHANGED <<row, now, sessions, mailed>>
  <2>1. k \in Kinds
    BY <1>6 DEF Begin
  <2> QED
    BY <1>6, <2>1, BeginKeeps DEF TypeOK, stored
<1>7. ASSUME VerifyEmail(r) PROVE RowInv' /\ UNCHANGED <<row, now, sessions, mailed>>
  BY <1>1, <1>6, <1>7, OtherRows, Zenon DEF VerifyEmail
<1>8. ASSUME NEW n \in Name, UpdateProfile(r, n)
      PROVE  RowInv' /\ UNCHANGED <<row, now, sessions, mailed>>
  BY <1>1, <1>6, <1>8, OtherRows, Zenon DEF UpdateProfile
<1>9. ASSUME NEW b \in BOOLEAN, NEW c \in BOOLEAN, AdminUpdate(r, b, c)
      PROVE  RowInv' /\ UNCHANGED <<row, now, sessions, mailed>>
  BY <1>1, <1>6, <1>9, OtherRows, Zenon DEF AdminUpdate
<1> QED
  BY <1>2, <1>3, <1>4, <1>5, <1>7, <1>8, <1>9, Zenon DEF Arrive

\* A save, what follows it, a crash and the clock keep the invariant; arrivals do by
\* the lemma above.
LEMMA StepInv == RowInv /\ [Next]_vars => RowInv'
<1> SUFFICES ASSUME RowInv, [Next]_vars PROVE RowInv'
  OBVIOUS
<1> USE DEF RowInv
<1>1. ASSUME NEW r \in Request, Save(r) PROVE RowInv'
  <2>1. row' \in Row
    <3>1. row \in Row /\ loaded[r] \in Row /\ mine[r] \in Row
      BY DEF TypeOK
    <3> QED
      BY <1>1, <3>1, SavedRow DEF Save, SaveRow
  <2>2. AfterSave(r) \in {"idle", "issue", "revokeAll", "mail"}
    BY DEF AfterSave
  <2>3. AfterSave(r) = "issue" => arg[r] \in Password
    BY <1>1 DEF Save, AfterSave, Succeeds, ArgTyped
  <2>4. AfterSave(r) = "mail" => arg[r] \in ResetToken
    BY <1>1 DEF Save, AfterSave, Succeeds, ArgTyped
  <2>5. Goto(r, AfterSave(r)) /\ UNCHANGED <<sessions, expiry, mailed, now, chosen>>
    BY <1>1 DEF Save
  <2> QED
    BY <2>1, <2>2, <2>3, <2>4, <2>5, GotoKeeps DEF TypeOK
<1>2. ASSUME NEW r \in Request, Issue(r) PROVE RowInv'
  <2>1. arg[r] \in Password
    BY <1>2 DEF Issue, ArgTyped
  <2> QED
    BY <1>2, <2>1, GotoKeeps DEF Issue, TypeOK
<1>3. ASSUME NEW r \in Request, Mail(r) PROVE RowInv'
  <2>1. arg[r] \in ResetToken
    BY <1>3 DEF Mail, ArgTyped
  <2> QED
    BY <1>3, <2>1, GotoKeeps DEF Mail, TypeOK
<1>4. ASSUME NEW r \in Request, RevokeAll(r) PROVE RowInv'
  BY <1>4, GotoKeeps DEF RevokeAll, RevokedSessions, TypeOK
<1>5. ASSUME NEW r \in Request, Crash(r) PROVE RowInv'
  BY <1>5, GotoKeeps DEF Crash, stored, TypeOK
<1>6. CASE Tick
  <2>1. now' \in 1..MaxTime
    BY <1>6, SettingsAssumption DEF Tick, TypeOK
  <2>2. UNCHANGED <<stored, locals, chosen>>
    BY <1>6 DEF Tick
  <2> QED
    BY <2>1, <2>2 DEF TypeOK, ArgTyped, CopiesOwn, stored, locals
<1>7. CASE UNCHANGED vars
  BY <1>7 DEF vars, stored, locals, TypeOK, ArgTyped, CopiesOwn
<1> QED
  BY <1>1, <1>2, <1>3, <1>4, <1>5, <1>6, <1>7, ArriveInv DEF Next, Progress

\* The inductive invariant.
THEOREM RowInvariant == Spec => []RowInv
  BY InitInv, StepInv, PTL DEF Spec

\* The row, the copies and the control points keep their types; in particular a
\* concurrent save never takes the counter of failed logins past the threshold.
THEOREM TypesHold == Spec => []TypeOK
  BY RowInvariant, PTL DEF RowInv
------------------------------------------------------------------------------
(* What a save may change.  From here on a save writes the changed attributes. *)

\* Where the row changes, a request saves a copy that differs there from what it read.
LEMMA ColumnChanges ==
    ASSUME Backend = "sqlalchemy", RowInv, [Next]_vars, row' # row
    PROVE  \E r \in Request :
              /\ at[r] = "save" /\ Save(r) /\ Saves(r)
              /\ OwnChange(kind[r], loaded[r], mine[r], arg[r])
              /\ \A f \in Columns :
                    row'[f] = IF mine[r][f] # loaded[r][f] THEN mine[r][f] ELSE row[f]
<1>1. PICK r \in Request : Save(r)
  <2>1. \A r \in Request : Arrive(r) => row' = row
    BY ArriveInv
  <2> QED
    BY <2>1 DEF Next, Progress, Issue, Mail, RevokeAll, Crash, Tick, vars, stored
<1>2. at[r] = "save" /\ row' = SaveRow(loaded[r], mine[r])
  BY <1>1 DEF Save
<1>3. at'[r] # "save"
  BY <1>1 DEF Save, Goto, AfterSave, RowInv, TypeOK
<1>4. OwnChange(kind[r], loaded[r], mine[r], arg[r])
  BY <1>2 DEF RowInv, CopiesOwn
<1>5. row \in Row /\ loaded[r] \in Row /\ mine[r] \in Row
  BY DEF RowInv, TypeOK
<1>6. row' = [f \in Columns |-> IF mine[r][f] # loaded[r][f] THEN mine[r][f] ELSE row[f]]
  BY <1>2, <1>5, SavedRow DEF SaveRow
<1> QED
  BY <1>1, <1>2, <1>3, <1>4, <1>6 DEF Saves

\* Who is about to save a reset link or a new password was so before, or arrives.
LEMMA WhoSaves ==
    ASSUME RowInv, [Next]_vars, NEW r \in Request,
           at'[r] = "save", kind'[r] \in {"forgot", "reset"}
    PROVE  \/ /\ at[r] = "save" /\ kind[r] = kind'[r]
              /\ arg[r] = arg'[r] /\ mine[r] = mine'[r]
           \/ Forgot(r)
           \/ \E t \in ResetToken : Reset(r, t)
<1> USE DEF RowInv, TypeOK
<1>1. ASSUME NEW q \in Request, NEW k, NEW copy, NEW a, Begin(q, k, copy, a), q # r
      PROVE  at[r] = at'[r] /\ kind[r] = kind'[r] /\ arg[r] = arg'[r] /\ mine[r] = mine'[r]
  BY <1>1 DEF Begin
<1>2. ASSUME NEW q \in Request, NEW next, next # "save", Goto(q, next)
      PROVE  at[r] = at'[r] /\ kind[r] = kind'[r] /\ arg[r] = arg'[r] /\ mine[r] = mine'[r]
  BY <1>2 DEF Goto
<1>3. ASSUME NEW q \in Request, Progress(q) \/ Crash(q)
      PROVE  at[r] = at'[r] /\ kind[r] = kind'[r] /\ arg[r] = arg'[r] /\ mine[r] = mine'[r]
  <2>1. PICK next \in {"idle", "issue", "mail", "revokeAll"} : Goto(q, next)
    BY <1>3 DEF Progress, Save, AfterSave, Issue, Mail, RevokeAll, Crash
  <2> QED
    BY <1>2, <2>1
<1>4. ASSUME NEW q \in Request, Arrive(q), q # r
      PROVE  at[r] = at'[r] /\ kind[r] = kind'[r] /\ arg[r] = arg'[r] /\ mine[r] = mine'[r]
  BY <1>1, <1>4 DEF Arrive, LoginFails, LoginSucceeds, Forgot, Reset, VerifyEmail,
     UpdateProfile, AdminUpdate
<1>5. ASSUME NEW k \in {"login", "verify", "profile", "admin"}, NEW copy, NEW a,
             Begin(r, k, copy, a)
      PROVE  FALSE
  BY <1>5 DEF Begin
<1>6. ASSUME Arrive(r) PROVE Forgot(r) \/ \E t \in ResetToken : Reset(r, t)
  BY <1>5, <1>6 DEF Arrive, LoginFails, LoginSucceeds, VerifyEmail, UpdateProfile, AdminUpdate
<1>7. CASE Tick \/ UNCHANGED vars
  BY <1>7 DEF Tick, vars, locals
<1> QED
  BY <1>3, <1>4, <1>6, <1>7 DEF Next

\* However many requests straddle each other, an account is deactivated or
\* reactivated, and a verification taken back, by an admin's update only.
THEOREM FlagsAnswerToAdmin ==
    ASSUME Backend = "sqlalchemy" PROVE Spec => FlagsOnlyByAdmin
<1> DEFINE A == (row'.is_active # row.is_active \/ (row.is_verified /\ ~row'.is_verified)) =>
                   \E r \in Request : Saves(r) /\ kind[r] = "admin"
<1>1. RowInv /\ [Next]_vars => A
  <2> SUFFICES ASSUME RowInv, [Next]_vars,
                      row'.is_active # row.is_active \/ (row.is_verified /\ ~row'.is_verified)
               PROVE  \E r \in Request : Saves(r) /\ kind[r] = "admin"
    OBVIOUS
  <2>1. PICK r \in Request :
          /\ Saves(r)
          /\ OwnChange(kind[r], loaded[r], mine[r], arg[r])
          /\ \A f \in Columns :
                row'[f] = IF mine[r][f] # loaded[r][f] THEN mine[r][f] ELSE row[f]
    BY ColumnChanges
  <2>2. CASE row'["is_active"] # row["is_active"]
    BY <2>1, <2>2 DEF OwnChange, Columns
  <2>3. CASE row["is_verified"] /\ ~row'["is_verified"]
    <3>1. row'["is_verified"] # row["is_verified"]
      BY <2>3
    <3>2. /\ mine[r]["is_verified"] # loaded[r]["is_verified"]
          /\ row'["is_verified"] = mine[r]["is_verified"]
      BY <2>1, <3>1 DEF Columns
    <3>3. kind[r] = "admin" \/ row'["is_verified"] = TRUE
      BY <2>1, <3>2 DEF OwnChange
    <3> QED
      BY <2>1, <2>3, <3>3
  <2> QED
    BY <2>2, <2>3
<1>2. [][A]_vars => FlagsOnlyByAdmin
  BY PTL DEF FlagsOnlyByAdmin
<1> QED
  BY <1>1, <1>2, RowInvariant, PTL DEF Spec

\* A lock ends early by a reset, or by a right password whose request had found an
\* earlier lock expired.
THEOREM LocksHold ==
    ASSUME Backend = "sqlalchemy" PROVE Spec => LockClearedOnlyBy
<1> DEFINE A == row.locked_until > now /\ row'.locked_until = 0 =>
                   \E r \in Request : Saves(r) /\
                       \/ kind[r] = "reset"
                       \/ Succeeds(r) /\ loaded[r].locked_until # 0
<1>1. RowInv /\ [Next]_vars => A
  <2> SUFFICES ASSUME RowInv, [Next]_vars, row.locked_until > now, row'.locked_until = 0
               PROVE  \E r \in Request : Saves(r) /\
                         \/ kind[r] = "reset"
                         \/ Succeeds(r) /\ loaded[r].locked_until # 0
    OBVIOUS
  <2>1. row.locked_until # 0
    BY SettingsAssumption DEF RowInv, TypeOK, Row, Time
  <2>2. PICK r \in Request :
          /\ Saves(r)
          /\ OwnChange(kind[r], loaded[r], mine[r], arg[r])
          /\ \A f \in Columns :
                row'[f] = IF mine[r][f] # loaded[r][f] THEN mine[r][f] ELSE row[f]
    BY <2>1, ColumnChanges
  <2>3. mine[r].locked_until # loaded[r].locked_until /\ mine[r].locked_until = 0
    BY <2>1, <2>2 DEF Columns
  <2> QED
    BY <2>2, <2>3 DEF OwnChange, Succeeds
<1>2. [][A]_vars => LockClearedOnlyBy
  BY PTL DEF LockClearedOnlyBy
<1> QED
  BY <1>1, <1>2, RowInvariant, PTL DEF Spec

\* No save of another handler puts a spent link back, and its JWT is never minted
\* again.
THEOREM LinksStaySpent ==
    ASSUME Backend = "sqlalchemy" PROVE Spec => SpentForGood
<1> DEFINE A == \A t \in ResetToken : Spent(t) => Spent(t)'
<1>1. RowInv /\ [Next]_vars => A
  <2> SUFFICES ASSUME RowInv, [Next]_vars, NEW t \in ResetToken, Spent(t) PROVE Spent(t)'
    OBVIOUS
  <2>1. row'.password_reset_token_hash # t
    <3>1. CASE row' = row
      BY <3>1 DEF Spent
    <3>2. CASE row' # row
      <4>1. PICK r \in Request :
              /\ at[r] = "save"
              /\ OwnChange(kind[r], loaded[r], mine[r], arg[r])
              /\ \A f \in Columns :
                    row'[f] = IF mine[r][f] # loaded[r][f] THEN mine[r][f] ELSE row[f]
        BY <3>2, ColumnChanges
      <4> SUFFICES ASSUME row'.password_reset_token_hash = t PROVE FALSE
        OBVIOUS
      <4>2. /\ mine[r].password_reset_token_hash # loaded[r].password_reset_token_hash
            /\ mine[r].password_reset_token_hash = t
        BY <4>1 DEF Columns, Spent
      <4>3. kind[r] = "forgot" /\ arg[r] = t
        BY <4>1, <4>2, NamesAssumption DEF OwnChange
      <4> QED
        BY <4>1, <4>3 DEF Spent
    <3> QED
      BY <3>1, <3>2
  <2>2. expiry'[t] # 0
    <3>1. CASE UNCHANGED expiry
      BY <3>1 DEF Spent
    <3>2. CASE \E r \in Request : Forgot(r)
      BY <3>2, SettingsAssumption DEF Spent, Forgot, RowInv, TypeOK
    <3> QED
      BY <3>1, <3>2 DEF Next, Arrive, Progress, LoginFails, LoginSucceeds, Reset, VerifyEmail,
         UpdateProfile, AdminUpdate, Save, Issue, Mail, RevokeAll, Crash, Tick, vars, stored
  <2>3. ASSUME NEW r \in Request, at'[r] = "save", arg'[r] = t, kind'[r] \in {"forgot", "reset"}
        PROVE  FALSE
    <3>1. ~(at[r] = "save" /\ arg[r] = t /\ kind[r] \in {"forgot", "reset"})
      BY DEF Spent
    <3>2. Forgot(r) \/ \E u \in ResetToken : Reset(r, u)
      BY <2>3, <3>1, WhoSaves
    <3>3. CASE Forgot(r)
      <4>1. PICK u \in ResetToken : expiry[u] = 0 /\ arg' = [arg EXCEPT ![r] = u]
                                   /\ at' = [at EXCEPT ![r] = "save"]
                                   /\ kind' = [kind EXCEPT ![r] = "forgot"]
        BY <3>3 DEF Forgot, Begin
      <4> QED
        BY <2>3, <3>1, <4>1 DEF Spent, RowInv, TypeOK
    <3>4. ASSUME NEW u \in ResetToken, Reset(r, u) PROVE FALSE
      BY <2>3, <3>1, <3>4 DEF Spent, Reset, MayReset, Begin, RowInv, TypeOK
    <3> QED
      BY <3>2, <3>3, <3>4
  <2> QED
    BY <2>1, <2>2, <2>3 DEF Spent
<1>2. [][A]_vars => SpentForGood
  BY PTL DEF SpentForGood
<1> QED
  BY <1>1, <1>2, RowInvariant, PTL DEF Spec

\* A password that is over opens no session, whatever still holds a copy of the row
\* from when it was good.
THEOREM OldPasswordsStayOver ==
    ASSUME Backend = "sqlalchemy" PROVE Spec => OldPasswordNeverOpens
<1> DEFINE A == \A p \in Password : PasswordOver(p) => PasswordOver(p)'
<1>1. RowInv /\ [Next]_vars => A
  <2> SUFFICES ASSUME RowInv, [Next]_vars, NEW p \in Password, PasswordOver(p)
               PROVE  PasswordOver(p)'
    OBVIOUS
  <2>1. row'.hashed_password # p
    <3>1. CASE row' = row
      BY <3>1 DEF PasswordOver
    <3>2. CASE row' # row
      <4>1. PICK r \in Request :
              /\ at[r] = "save"
              /\ OwnChange(kind[r], loaded[r], mine[r], arg[r])
              /\ \A f \in Columns :
                    row'[f] = IF mine[r][f] # loaded[r][f] THEN mine[r][f] ELSE row[f]
        BY <3>2, ColumnChanges
      <4>2. CASE mine[r].hashed_password # loaded[r].hashed_password
        <5>1. kind[r] = "reset" /\ row'.hashed_password = mine[r].hashed_password
          BY <4>1, <4>2 DEF OwnChange, Columns
        <5> QED
          BY <4>1, <5>1 DEF PasswordOver
      <4>3. CASE mine[r].hashed_password = loaded[r].hashed_password
        BY <4>1, <4>3 DEF PasswordOver, Columns
      <4> QED
        BY <4>2, <4>3
    <3> QED
      BY <3>1, <3>2
  <2>2. p <= chosen'
    <3>1. chosen' = chosen \/ chosen' = chosen + 1
      BY DEF Next, Arrive, Progress, LoginFails, LoginSucceeds, Forgot, Reset, VerifyEmail,
         UpdateProfile, AdminUpdate, Save, Issue, Mail, RevokeAll, Crash, Tick, vars
    <3> QED
      BY <3>1, SettingsAssumption DEF PasswordOver, Password, RowInv, TypeOK
  <2>3. p \notin sessions'
    BY DEF PasswordOver, Next, Arrive, Progress, LoginFails, LoginSucceeds, Forgot, Reset,
       VerifyEmail, UpdateProfile, AdminUpdate, Save, Issue, Mail, RevokeAll, RevokedSessions,
       Crash, Tick, vars, stored
  <2>4. ASSUME NEW r \in Request, at'[r] = "issue" \/ (at'[r] = "save" /\ Succeeds(r)'), arg'[r] = p
        PROVE  FALSE
    <3>1. ~((at[r] = "issue" \/ (at[r] = "save" /\ Succeeds(r))) /\ arg[r] = p)
      BY DEF PasswordOver
    <3>2. CASE \E q \in Request : LoginSucceeds(q)
      BY <2>4, <3>1, <3>2 DEF LoginSucceeds, Begin, PasswordOver, Succeeds, RowInv, TypeOK
    <3>3. CASE \E q \in Request : LoginFails(q)
      BY <2>4, <3>1, <3>3 DEF LoginFails, Begin, Succeeds, RowInv, TypeOK
    <3>4. CASE \E q \in Request : Save(q)
      BY <2>4, <3>1, <3>4 DEF Save, Goto, AfterSave, Succeeds, RowInv, TypeOK
    <3>5. CASE \E q \in Request : Issue(q) \/ Mail(q) \/ RevokeAll(q) \/ Crash(q)
      BY <2>4, <3>1, <3>5 DEF Issue, Mail, RevokeAll, Crash, Goto, Succeeds, RowInv, TypeOK
    <3>6. ASSUME NEW q \in Request, NEW k \in {"forgot", "reset", "verify", "profile", "admin"},
                 NEW copy, NEW a, Begin(q, k, copy, a)
          PROVE  FALSE
      BY <2>4, <3>1, <3>6 DEF Begin, Succeeds, RowInv, TypeOK
    <3>7. CASE Tick \/ UNCHANGED vars
      BY <2>4, <3>1, <3>7 DEF Tick, vars, locals, Succeeds
    <3> QED
      BY <3>2, <3>3, <3>4, <3>5, <3>6, <3>7 DEF Next, Arrive, Progress, Forgot, Reset,
         VerifyEmail, UpdateProfile, AdminUpdate
  <2>5. ASSUME NEW r \in Request, at'[r] = "save", kind'[r] = "reset",
               mine'[r].hashed_password = p
        PROVE  FALSE
    <3>1. ~(at[r] = "save" /\ kind[r] = "reset" /\ mine[r].hashed_password = p)
      BY DEF PasswordOver
    <3>2. PICK t \in ResetToken : Reset(r, t)
      <4>1. ~Forgot(r)
        BY <2>5 DEF Forgot, Begin, RowInv, TypeOK
      <4> QED
        BY <2>5, <3>1, <4>1, WhoSaves
    <3>3. chosen + 1 \in Password /\ p < chosen + 1
      BY <3>2, SettingsAssumption DEF Reset, PasswordOver, Password, RowInv, TypeOK
    <3> DEFINE copy == [ClearLockout(row) EXCEPT !.hashed_password = chosen + 1,
                            !.password_reset_token_hash = None,
                            !.password_reset_token_expires_at = 0]
    <3>4. copy.hashed_password = chosen + 1
      BY <3>3, ResetRow DEF RowInv, TypeOK
    <3>5. mine' = [mine EXCEPT ![r] = copy] /\ at' = [at EXCEPT ![r] = "save"]
          /\ kind' = [kind EXCEPT ![r] = "reset"]
      BY <3>2, Zenon DEF Reset, Begin
    <3> HIDE DEF copy
    <3> QED
      BY <2>5, <3>1, <3>3, <3>4, <3>5 DEF RowInv, TypeOK, Password
  <2> QED
    BY <2>1, <2>2, <2>3, <2>4, <2>5 DEF PasswordOver
<1>2. [][A]_vars => OldPasswordNeverOpens
  BY PTL DEF OldPasswordNeverOpens
<1> QED
  BY <1>1, <1>2, RowInvariant, PTL DEF Spec
==============================================================================
