----------------------------- MODULE AccountAccess -----------------------------
(***************************************************************************)
(* What opens one account: its password, its refresh tokens, its access    *)
(* tokens and the reset links, with the requests that use or replace them. *)
(* AccountRow has the columns and the lockout, RefreshSessions the rows of *)
(* several users; this module has them meet, on the SQLAlchemy             *)
(* repositories: what a password reset leaves behind, what a crash between *)
(* its two commits leaves behind, and for how long.                        *)
(*                                                                         *)
(* No password is numbered.  Every session and every request carries the   *)
(* age of the password it was opened with:                                 *)
(*   current    it is the stored password;                                 *)
(*   replaced   a reset has stored another one;                            *)
(*   settled    ... and a reset has since revoked the refresh tokens.      *)
(***************************************************************************)
EXTENDS Naturals, FiniteSets

CONSTANTS
    Request,                    \* request slots
    Token,                      \* token pairs: a refresh row and its access JWT
    Link,                       \* password-reset links
    None,                       \* neither
    access_token_expire,        \* lifetime of an access token, in clock ticks
    MaxFaults                   \* bound on crashes and lost answers

ASSUME LifetimeAssumption == access_token_expire \in Nat \ {0} /\ MaxFaults \in Nat
ASSUME NoneAssumption == None \notin Token /\ None \notin Link

VARIABLES
    password_reset_token_hash,  \* the link stored with the user, or None
    row,                        \* state of each refresh-token row
    ttl,                        \* ticks left to each access token
    held, mailed,               \* tokens and links that reached the owner
    at, op, arg,                \* per request: next storage call, handler, token or link
    age, proof,                 \* history: age of a pair's, of a request's password
    straddled, straddles,       \* history: see Straddled and RevokeAll
    interrupted,                \* history: a reset died between its commits
    since,                      \* history: ticks since a reset revoked, up to a lifetime
    faults                      \* faults so far

tables  == <<password_reset_token_hash, row>>
clients == <<ttl, held, mailed>>
locals  == <<at, op, arg>>
ages    == <<age, proof, straddled, straddles, interrupted, since>>
vars    == <<tables, clients, locals, ages, faults>>

Age == {"current", "replaced", "settled"}

TypeOK ==
    /\ password_reset_token_hash \in Link \cup {None}
    /\ row \in [Token -> {"unissued", "live", "revoked"}]
    /\ ttl \in [Token -> 0..access_token_expire]
    /\ held \in SUBSET Token
    /\ mailed \in SUBSET Link
    /\ at \in [Request -> {"idle", "save", "revoke", "revokeAll", "issue", "mint", "mail",
                        "answer"}]
    /\ op \in [Request -> {"none", "login", "refresh", "reuse", "logoutAll", "forgot", "reset"}]
    /\ arg \in [Request -> Token \cup Link \cup {None}]
    /\ age \in [Token -> Age]
    /\ proof \in [Request -> Age]
    /\ straddled \in [Token -> BOOLEAN]
    /\ straddles \in [Request -> BOOLEAN]
    /\ interrupted \in BOOLEAN
    /\ since \in 0..access_token_expire
    /\ faults \in 0..MaxFaults

Init ==
    /\ password_reset_token_hash = None
    /\ row = [t \in Token |-> "unissued"]
    /\ ttl = [t \in Token |-> 0]
    /\ held = {} /\ mailed = {}
    /\ at = [r \in Request |-> "idle"]
    /\ op = [r \in Request |-> "none"]
    /\ arg = [r \in Request |-> None]
    /\ age = [t \in Token |-> "current"]
    /\ proof = [r \in Request |-> "current"]
    /\ straddled = [t \in Token |-> FALSE]
    /\ straddles = [r \in Request |-> FALSE]
    /\ interrupted = FALSE
    /\ since = access_token_expire
    /\ faults = 0

------------------------------------------------------------------------------
(* Starting, continuing and ending a request. *)

\* `a` is the age of the password behind the request, `s` whether what it was
\* opened with is already known to straddle a revocation.
Begin(r, what, x, next, a, s) ==
    /\ at[r] = "idle"
    /\ at' = [at EXCEPT ![r] = next]
    /\ op' = [op EXCEPT ![r] = what]
    /\ arg' = [arg EXCEPT ![r] = x]
    /\ proof' = [proof EXCEPT ![r] = a]
    /\ straddles' = [straddles EXCEPT ![r] = s]

\* The request goes on, or ends: "idle" drops its locals.
Goto(r, next) ==
    /\ at' = [at EXCEPT ![r] = next]
    /\ op' = [op EXCEPT ![r] = IF next = "idle" THEN "none" ELSE @]
    /\ arg' = [arg EXCEPT ![r] = IF next = "idle" THEN None ELSE @]

\* An opening request ends, or any request dies.
Finish(r) ==
    /\ Goto(r, "idle")
    /\ proof' = [proof EXCEPT ![r] = "current"]
    /\ straddles' = [straddles EXCEPT ![r] = FALSE]

\* The request will insert a refresh row without looking at the password again.
Opening(r) == op[r] \in {"login", "refresh"} /\ at[r] \in {"revoke", "issue"}

\* Bound: an opening request starts only while a pair is left for it.
TokensLeft ==
    Cardinality({t \in Token : row[t] = "unissued"})
      > Cardinality({r \in Request : Opening(r)})

------------------------------------------------------------------------------
(* Sessions *)

\* login: the password is checked on the row as loaded; its save writes lockout
\* columns only.
Login(r) ==
    /\ TokensLeft
    /\ Begin(r, "login", None, "issue", "current", FALSE)
    /\ UNCHANGED <<tables, clients, age, straddled, interrupted, since, faults>>

\* Mutant: revoked_at is not looked at.
Usable_Always(t) == TRUE

\* What refresh asks of the row get_by_hash returned.
Usable(t) == row[t] = "live"

\* The password is not looked at again: the request works with the age and the
\* history of the pair presented.
Refresh(r, t) ==
    /\ t \in held /\ Usable(t) /\ TokensLeft
    /\ Begin(r, "refresh", t, "revoke", age[t], straddled[t])
    /\ UNCHANGED <<tables, clients, age, straddled, interrupted, since, faults>>

\* A revoked token is presented again: every session of the user is to end.
Reuse(r, t) ==
    /\ t \in held /\ ~Usable(t)
    /\ Begin(r, "reuse", t, "revokeAll", "current", FALSE)
    /\ UNCHANGED <<tables, clients, age, straddled, interrupted, since, faults>>

Revoke(r) ==
    /\ at[r] = "revoke"
    /\ row' = [row EXCEPT ![arg[r]] = "revoked"]
    /\ Goto(r, "issue")
    /\ UNCHANGED <<password_reset_token_hash, clients, ages, faults>>

\* _issue_tokens, up to the commit of refresh_tokens.create: the row is there, and
\* the request waits for the database once more.
Issue(r) ==
    /\ at[r] = "issue"
    /\ \E t \in Token :
         /\ row[t] = "unissued"
         /\ row' = [row EXCEPT ![t] = "live"]
         /\ age' = [age EXCEPT ![t] = proof[r]]
         /\ straddled' = [straddled EXCEPT ![t] = straddles[r]]
         /\ arg' = [arg EXCEPT ![r] = t]
    /\ at' = [at EXCEPT ![r] = "mint"]
    /\ UNCHANGED <<password_reset_token_hash, clients, op, proof, straddles, interrupted,
                   since, faults>>

\* Mutant: the access token of a rotation gets the refresh token's lifetime.
AccessLifetime_Doubled == 2 * access_token_expire

\* create_access_token: exp is one lifetime from now.
AccessLifetime == access_token_expire

\* _issue_tokens, from there on: whatever has become of the row, the access token
\* is made now.
Mint(r) ==
    /\ at[r] = "mint"
    /\ ttl' = [ttl EXCEPT ![arg[r]] = AccessLifetime]
    /\ Goto(r, "answer")
    /\ UNCHANGED <<tables, held, mailed, ages, faults>>

\* Mutant: exp is not verified.
Decodes_AnyExp(t) == TRUE

\* decode_access_token
Decodes(t) == ttl[t] > 0

\* logout_all, which authenticate_access_token lets in when the JWT decodes and the
\* user is active: neither the refresh row nor the password is read.
LogoutAll(r, t) ==
    /\ t \in held
    /\ Decodes(t)
    /\ Begin(r, "logoutAll", t, "revokeAll", "current", FALSE)
    /\ UNCHANGED <<tables, clients, age, straddled, interrupted, since, faults>>

------------------------------------------------------------------------------
(* Resets *)

\* request_reset asks nothing of the row: a stored link is replaced.
\* Bounds: one forgot-password request at a time (AccountRow has them overlap);
\* and the identity of a link is used again once the service has forgotten it,
\* when the mail that still holds it would be refused.
Forgot(r) ==
    /\ \A q \in Request : op[q] # "forgot"
    /\ \E l \in Link :
         /\ l # password_reset_token_hash /\ \A q \in Request : arg[q] # l
         /\ Begin(r, "forgot", l, "save", "current", FALSE)
         /\ mailed' = mailed \ {l}
    /\ UNCHANGED <<tables, ttl, held, age, straddled, interrupted, since, faults>>

Mail(r) ==
    /\ at[r] = "mail"
    /\ mailed' = mailed \cup {arg[r]}
    /\ Goto(r, "idle")
    /\ UNCHANGED <<tables, ttl, held, ages, faults>>

\* Mutant: the sessions are revoked first, then the password is saved.
ResetStep_Swapped(p) ==
    IF p = "idle" THEN "revokeAll" ELSE IF p = "revokeAll" THEN "save" ELSE "idle"

\* Mutant: the revocation is forgotten.
ResetStep_NoRevoke(p) ==
    IF p = "idle" THEN "save" ELSE "idle"

\* The two commits of reset, in order.
ResetStep(p) ==
    IF p = "idle" THEN "save" ELSE IF p = "save" THEN "revokeAll" ELSE "idle"

Reset(r, l) ==
    /\ l \in mailed
    /\ password_reset_token_hash = l
    /\ Begin(r, "reset", l, ResetStep("idle"), "current", FALSE)
    /\ UNCHANGED <<tables, clients, age, straddled, interrupted, since, faults>>

Replaced(a) == IF a = "current" THEN "replaced" ELSE a

\* The save of request_reset stores its link; the save of reset clears the stored
\* link and replaces the password behind every session, and behind every login
\* or refresh under way.
Save(r) ==
    /\ at[r] = "save"
    /\ password_reset_token_hash' = IF op[r] = "forgot" THEN arg[r] ELSE None
    /\ IF op[r] = "forgot" THEN UNCHANGED <<age, proof>>
       ELSE /\ age' = [t \in Token |-> IF row[t] = "unissued" THEN age[t]
                                       ELSE Replaced(age[t])]
            /\ proof' = [q \in Request |-> IF Opening(q) THEN Replaced(proof[q])
                                           ELSE proof[q]]
    /\ Goto(r, IF op[r] = "forgot" THEN "mail" ELSE ResetStep("save"))
    /\ UNCHANGED <<row, clients, straddled, straddles, interrupted, since, faults>>

Settled(a) == IF a = "replaced" THEN "settled" ELSE a

\* A pair straddles the revocation of a reset when the request that opens it with the
\* replaced password is under way at that moment: past its check but not yet at its
\* insert (straddles, which the pair inserted later and all that descend from it take
\* over), or past the insert but not yet at the minting of the access token.
Straddled(t) ==
    straddled[t] \/ (age[t] = "replaced" /\ \E q \in Request : at[q] = "mint" /\ arg[q] = t)

\* revoke_all_for_user, for reset, logout_all and reuse detection.
RevokeAll(r) ==
    /\ at[r] = "revokeAll"
    /\ row' = [t \in Token |-> IF row[t] = "live" THEN "revoked" ELSE row[t]]
    /\ IF op[r] = "reset"
       THEN /\ age' = [t \in Token |-> Settled(age[t])]
            /\ proof' = [q \in Request |-> Settled(proof[q])]
            /\ straddled' = [t \in Token |-> Straddled(t)]
            /\ straddles' = [q \in Request |->
                                straddles[q] \/ (Opening(q) /\ proof[q] = "replaced")]
            /\ since' = 0 /\ interrupted' = FALSE
       ELSE UNCHANGED ages
    /\ Goto(r, IF op[r] = "reset" THEN ResetStep("revokeAll") ELSE "idle")
    /\ UNCHANGED <<password_reset_token_hash, clients, faults>>

------------------------------------------------------------------------------
(* The client, the clock and the faults. *)

\* The pair of a login or a refresh arrives.
Receive(r) ==
    /\ at[r] = "answer"
    /\ held' = held \cup {arg[r]}
    /\ Finish(r)
    /\ UNCHANGED <<tables, ttl, mailed, age, straddled, interrupted, since, faults>>

Tick ==
    /\ ttl' = [t \in Token |-> IF ttl[t] > 0 THEN ttl[t] - 1 ELSE 0]
    /\ since' = IF since < access_token_expire THEN since + 1 ELSE since
    /\ UNCHANGED <<tables, held, mailed, locals, age, proof, straddled, straddles,
                   interrupted, faults>>

\* The process dies, times out or cannot reach the database or the mail server;
\* or the answer is lost.  What was committed stays.
Fault(r) ==
    /\ at[r] # "idle"
    /\ faults < MaxFaults
    /\ faults' = faults + 1
    /\ interrupted' = (interrupted \/ (at[r] = "revokeAll" /\ op[r] = "reset"))
    /\ Finish(r)
    /\ UNCHANGED <<tables, clients, age, straddled, since>>

------------------------------------------------------------------------------
Arrive(r) ==
    \/ Login(r)
    \/ \E t \in Token : Refresh(r, t) \/ Reuse(r, t) \/ LogoutAll(r, t)
    \/ Forgot(r) \/ \E l \in Link : Reset(r, l)

Progress(r) ==
    Revoke(r) \/ Issue(r) \/ Mint(r) \/ Save(r) \/ RevokeAll(r) \/ Mail(r) \/ Receive(r)

Next == Tick \/ \E r \in Request : Arrive(r) \/ Progress(r) \/ Fault(r)

Spec == Init /\ [][Next]_vars

\* What is promised of the world: a request that was started goes on, and an owner
\* who is not rid of the old password yet goes on asking for links and opening one
\* that is good.
AsksForLink == \E r \in Request : Forgot(r)
OpensLink == \E r \in Request, l \in Link : Reset(r, l)

Fairness ==
    /\ \A r \in Request : WF_vars(Progress(r))
    /\ SF_vars(AsksForLink) /\ SF_vars(OpensLink)

LiveSpec == Spec /\ Fairness

------------------------------------------------------------------------------
(* Properties. *)

\* When a reset has replaced a password and revoked, a session opened with that
\* password is alive only if a request straddled the revocation: nothing that
\* starts after it, whatever it presents, carries an old session on.
OldSessionsEnd ==
    \A t \in Token : row[t] = "live" /\ age[t] = "settled" => straddled[t]

\* Something opened with a replaced password that no reset has revoked yet.
Leftover ==
    \/ \E t \in Token : row[t] = "live" /\ age[t] = "replaced"
    \/ \E r \in Request : Opening(r) /\ proof[r] = "replaced"

\* The two commits of reset: a replaced password is still good for a session only
\* while a reset is about to revoke, or after one died at that very point.
LeftoversExplained ==
    Leftover => interrupted \/ \E r \in Request : at[r] = "revokeAll" /\ op[r] = "reset"

\* A pair of a settled password, inserted and its access token minted before the
\* revocation.
Outdated(t) == row[t] # "unissued" /\ age[t] = "settled" /\ ~straddled[t]

\* No refresh row is read when an access token is presented, so it outlives the
\* revocation; but a request is let in on an outdated one only within a lifetime
\* of the reset.  A token minted after it, by a request that straddles, has a whole
\* lifetime from then on.
StaleAccessIsBrief ==
    [][\A r \in Request :
          op[r] = "none" /\ op'[r] = "logoutAll" /\ Outdated(arg'[r])
              => since < access_token_expire]_vars

\* The mailed link is spent at the first commit, so a retry of the same link is
\* refused; an owner who goes on asking for links nevertheless gets rid, in the
\* end, of what a reset cut short left behind.
LeftoversEnd == Leftover ~> ~Leftover

------------------------------------------------------------------------------
(* The inductive invariant of AccountAccess_proofs. *)

\* What a request carries past its lookup.
RequestsTyped ==
    \A r \in Request :
        /\ at[r] = "idle" <=> op[r] = "none"
        /\ at[r] = "revoke" => op[r] = "refresh"
        /\ at[r] \in {"issue", "mint", "answer"} => op[r] \in {"login", "refresh"}
        /\ at[r] \in {"save", "mail"} => op[r] \in {"forgot", "reset"}
        /\ at[r] = "mail" => op[r] = "forgot"
        /\ at[r] = "revokeAll" => op[r] \in {"reuse", "logoutAll", "reset"}
        /\ op[r] \in {"refresh", "reuse", "logoutAll"} \/ at[r] \in {"mint", "answer"} =>
              arg[r] \in Token /\ row[arg[r]] # "unissued"
        /\ op[r] \in {"forgot", "reset"} => arg[r] \in Link

\* Nobody holds what was never issued.
HeldIssued == \A t \in held : row[t] # "unissued"

\* A request that will insert a row of a settled password straddles, and so does a
\* pair of one whose access token is still to be minted.
OpenersStraddle ==
    \A r \in Request :
        /\ Opening(r) /\ proof[r] = "settled" => straddles[r]
        /\ at[r] = "mint" /\ age[arg[r]] = "settled" => straddled[arg[r]]

\* The time an outdated access token has left ends with the lifetime that began at
\* the revocation.
OutdatedTimesOut == \A t \in Token : Outdated(t) => ttl[t] + since <= access_token_expire

Typed == TypeOK /\ RequestsTyped /\ HeldIssued

\* What remains of a replaced password is accounted for: straddling requests, a
\* reset about to revoke or cut short, and access tokens that run out.
AccessInv ==
    Typed /\ OldSessionsEnd /\ OpenersStraddle /\ LeftoversExplained /\ OutdatedTimesOut
==============================================================================
