------------------------------ MODULE LoginFlow ------------------------------
(***************************************************************************)
(* Sign-in to one account with the two-factor plugin installed: login      *)
(* issues a token pair and passes it through the chain of                  *)
(* transform_login_result hooks, which may replace it by a challenge;      *)
(* /2fa/verify exchanges the challenge and a code.  The question is which  *)
(* tokens can reach a client that never proved its second factor.          *)
(* Hooks are coroutines, so other requests and the user's own update of    *)
(* is_2fa_enabled run between them.                                        *)
(***************************************************************************)
EXTENDS Naturals, Sequences, FiniteSets

CONSTANTS
    Request,    \* request slots
    Pair,       \* token pairs: one access token and one refresh row each
    HostHooks,  \* the transform hooks of the host and of other plugins
    None

ASSUME HooksAssumption == "two_factor" \notin HostHooks /\ IsFiniteSet(HostHooks)
ASSUME NoneAssumption == None \notin Pair

Hooks == HostHooks \cup {"two_factor"}

\* The hooks in the order of the base hooks and the resolved plugins.
Chains == {c \in [1..Cardinality(Hooks) -> Hooks] : \A h \in Hooks : \E i \in DOMAIN c : c[i] = h}

\* The token families.  One secret signs them all.
SinglePurpose == {"email_verify", "password_reset", "oauth_state"}
TokenType == {"access", "refresh", "challenge"} \cup SinglePurpose

\* A JWT, by its `typ` and the sign-in it comes from, if any.
JWT == [typ : TokenType \ SinglePurpose, pair : Pair] \cup [typ : SinglePurpose, pair : {None}]

\* What a client can have without signing in: a mailed link for its own address, and
\* the state of an authorize redirect.
FreeJWT == [typ : SinglePurpose, pair : {None}]

VARIABLES
    chain,      \* the merged transform_login_result hooks of this deployment
    enabled,    \* the user's is_2fa_enabled
    row,        \* refresh rows: "unissued", "live" or "revoked"
    held,       \* the JWTs that reached a client
    at, kind, loaded, pair, from, hook, result,   \* per request
    cleared,    \* history: the pairs that needed no second factor (see below)
    entered     \* history: the pairs some request was authenticated with

locals == <<at, kind, loaded, pair, from, hook, result>>
vars   == <<chain, enabled, row, held, locals, cleared, entered>>

Points == {"idle", "issue", "transform", "afterLogin", "revoke", "otp", "mint", "answer"}
Results == {"none", "token", "challenge", "error"}

TypeOK ==
    /\ chain \in Chains
    /\ enabled \in BOOLEAN
    /\ row \in [Pair -> {"unissued", "live", "revoked"}]
    /\ held \in SUBSET JWT
    /\ at \in [Request -> Points]
    /\ kind \in [Request -> {"none", "login", "oauth", "refresh", "verify"}]
    /\ loaded \in [Request -> BOOLEAN]
    /\ pair \in [Request -> Pair \cup {None}]
    /\ from \in [Request -> Pair \cup {None}]
    /\ hook \in [Request -> DOMAIN chain]
    /\ result \in [Request -> Results]
    /\ cleared \in SUBSET Pair
    /\ entered \in SUBSET Pair

Init ==
    /\ chain \in Chains
    /\ enabled = FALSE
    /\ row = [p \in Pair |-> "unissued"]
    /\ held = FreeJWT
    /\ at = [r \in Request |-> "idle"]
    /\ kind = [r \in Request |-> "none"]
    /\ loaded = [r \in Request |-> FALSE]
    /\ pair = [r \in Request |-> None]
    /\ from = [r \in Request |-> None]
    /\ hook = [r \in Request |-> 1]
    /\ result = [r \in Request |-> "none"]
    /\ cleared = {}
    /\ entered = {}

------------------------------------------------------------------------------
(* Tokens, hooks and results. *)

\* Mutant: signature and expiry only, as decode_token does.
verify_token_AnyType(jwt, expected) == TRUE

\* verify_token, for a JWT this server signed and that has not expired.
verify_token(jwt, expected) == jwt.typ = expected

\* What one hook makes of the result.  TwoFactorService.transform_login looks at
\* the user as login loaded it; a host hook may build a LoginSuccess of its own.
Apply(h, twoFactor, current) ==
    IF h # "two_factor" THEN "token"
    ELSE IF twoFactor THEN "challenge" ELSE current

\* Mutant: the chain runs to its end whatever a hook returns.
ChainEnds_NoEarlyStop(r, next) == hook[r] = Len(chain)

\* Mutant: the chain leaves its loop one hook late.
ChainEnds_OffByOne(r, next) == next = "challenge" \/ hook[r] > Len(chain)

\* run_transform_chain stops after its last hook, or early on a challenge.
ChainEnds(r, next) == next = "challenge" \/ hook[r] = Len(chain)

\* LoginSuccess as a constructor: pydantic refuses it without its required fields.
LoginSuccess(fields) ==
    IF {"access_token", "refresh_token", "expires_in"} \subseteq fields
    THEN "token" ELSE "error"

\* The JWTs an answer carries.  A verify would only carry the access token.
Carried(r) ==
    IF result[r] = "challenge" THEN {"challenge"}
    ELSE IF result[r] # "token" THEN {}
    ELSE IF kind[r] = "verify" THEN {"access"} ELSE {"access", "refresh"}

\* create_access_token and create_refresh_token.
create_token(t, p) == [typ |-> t, pair |-> p]

\* TokenService.encode stamps its own typ over the caller's claims.
encode(p) == [typ |-> "challenge", pair |-> p]

Delivered(r) ==
    LET p == IF kind[r] = "verify" THEN from[r] ELSE pair[r]
    IN {IF t = "challenge" THEN encode(p) ELSE create_token(t, p) : t \in Carried(r)}

------------------------------------------------------------------------------
(* Requests. *)

\* Bound: a request that issues a pair starts while one is left for it.
PairLeft == Cardinality({p \in Pair : row[p] = "unissued"})
              > Cardinality({r \in Request : at[r] \in {"issue", "revoke"}})

Begin(r, what, origin, next) ==
    /\ at[r] = "idle"
    /\ at' = [at EXCEPT ![r] = next]
    /\ kind' = [kind EXCEPT ![r] = what]
    /\ from' = [from EXCEPT ![r] = origin]
    /\ loaded' = [loaded EXCEPT ![r] = what = "login" /\ enabled]
    /\ UNCHANGED <<pair, hook, result>>

Goto(r, next, res) ==
    /\ at' = [at EXCEPT ![r] = next]
    /\ result' = [result EXCEPT ![r] = res]
    /\ UNCHANGED <<kind, loaded, pair, from>>

Finish(r) ==
    /\ at' = [at EXCEPT ![r] = "idle"]
    /\ kind' = [kind EXCEPT ![r] = "none"]
    /\ loaded' = [loaded EXCEPT ![r] = FALSE]
    /\ pair' = [pair EXCEPT ![r] = None]
    /\ from' = [from EXCEPT ![r] = None]
    /\ hook' = [hook EXCEPT ![r] = 1]
    /\ result' = [result EXCEPT ![r] = "none"]

\* login with the right password: get_by_email loads the user once; the save of
\* the lockout columns does not refresh the rest of it.
Login(r) ==
    /\ PairLeft
    /\ Begin(r, "login", None, "issue")
    /\ UNCHANGED <<chain, enabled, row, held, cleared, entered>>

\* The OAuth callback checks the state this server signed, and oauth_login issues
\* without a transform chain: the provider vouches.
OAuthLogin(r, state) ==
    /\ PairLeft
    /\ state \in held
    /\ verify_token(state, "oauth_state")
    /\ Begin(r, "oauth", None, "issue")
    /\ UNCHANGED <<chain, enabled, row, held, cleared, entered>>

\* get_by_hash: of a pair's JWTs only the refresh token hashes to the row.
HasLiveRow(jwt) == jwt.typ = "refresh" /\ row[jwt.pair] = "live"

\* refresh: the type of the JWT, then its row (a replay is RefreshSessions').
Refresh(r, jwt) ==
    /\ PairLeft
    /\ jwt \in held
    /\ verify_token(jwt, "refresh")
    /\ HasLiveRow(jwt)
    /\ Begin(r, "refresh", jwt.pair, "revoke")
    /\ UNCHANGED <<chain, enabled, row, held, cleared, entered>>

Revoke(r) ==
    /\ at[r] = "revoke"
    /\ row' = [row EXCEPT ![from[r]] = "revoked"]
    /\ Goto(r, "issue", "none")
    /\ UNCHANGED <<chain, enabled, held, hook, cleared, entered>>

\* _issue_tokens: the row is inserted before any hook is asked.  A pair needs no
\* second factor if the account had none when its password was checked, if a
\* provider vouched for it, or if it was rotated out of such a pair.
Issue(r) ==
    /\ at[r] = "issue"
    /\ \E p \in Pair :
         /\ row[p] = "unissued"
         /\ row' = [row EXCEPT ![p] = "live"]
         /\ pair' = [pair EXCEPT ![r] = p]
         /\ cleared' = IF \/ kind[r] = "oauth"
                          \/ kind[r] = "login" /\ ~loaded[r]
                          \/ kind[r] = "refresh" /\ from[r] \in cleared
                       THEN cleared \cup {p} ELSE cleared
    /\ at' = [at EXCEPT ![r] = IF kind[r] = "login" THEN "transform" ELSE "answer"]
    /\ result' = [result EXCEPT ![r] = "token"]
    /\ UNCHANGED <<chain, enabled, held, kind, loaded, from, hook, entered>>

\* One round of run_transform_chain.
Transform(r) ==
    /\ at[r] = "transform"
    /\ LET next == Apply(chain[hook[r]], loaded[r], result[r])
           ends == ChainEnds(r, next)
       IN /\ Goto(r, IF ends THEN "afterLogin" ELSE "transform", next)
          /\ hook' = [hook EXCEPT ![r] = IF ends THEN 1 ELSE @ + 1]
    /\ UNCHANGED <<chain, enabled, row, held, cleared, entered>>

\* The on_after_login hooks run for a challenge as for a success, and may raise.
AfterLogin(r) ==
    /\ at[r] = "afterLogin"
    /\ \/ Goto(r, "answer", result[r])
       \/ Goto(r, "answer", "error")
    /\ UNCHANGED <<chain, enabled, row, held, hook, cleared, entered>>

\* TwoFactorService.verify: decode accepts any typ, the scope claim does not.
Verify(r, jwt) ==
    /\ jwt \in held
    /\ jwt.typ = "challenge"
    /\ Begin(r, "verify", jwt.pair, "otp")
    /\ UNCHANGED <<chain, enabled, row, held, cleared, entered>>

\* The host's otp_repo accepts the code, or raises.
VerifyCode(r) ==
    /\ at[r] = "otp"
    /\ \/ Goto(r, "mint", "none") /\ cleared' = cleared \cup {from[r]}
       \/ Goto(r, "answer", "error") /\ UNCHANGED cleared
    /\ UNCHANGED <<chain, enabled, row, held, hook, entered>>

\* verify mints the access token and wraps it.
Mint(r) ==
    /\ at[r] = "mint"
    /\ Goto(r, "answer", LoginSuccess({"access_token"}))
    /\ UNCHANGED <<chain, enabled, row, held, hook, cleared, entered>>

Answer(r) ==
    /\ at[r] = "answer"
    /\ held' = held \cup Delivered(r)
    /\ Finish(r)
    /\ UNCHANGED <<chain, enabled, row, cleared, entered>>

\* The process dies, a call fails, or the answer is lost.
Crash(r) ==
    /\ at[r] # "idle"
    /\ Finish(r)
    /\ UNCHANGED <<chain, enabled, row, held, cleared, entered>>

\* authenticate_access_token, for any JWT a client may put in the header.
Authenticate(jwt) ==
    /\ jwt \in held
    /\ verify_token(jwt, "access")
    /\ entered' = entered \cup {jwt.pair}
    /\ UNCHANGED <<chain, enabled, row, held, locals, cleared>>

\* PATCH /users/me with is_2fa_enabled, by whoever holds an access token, or the
\* same field set by an admin.
SetTwoFactor(on) ==
    /\ enabled' = on
    /\ UNCHANGED <<chain, row, held, locals, cleared, entered>>

------------------------------------------------------------------------------
Arrive(r) ==
    \/ Login(r)
    \/ \E jwt \in held : OAuthLogin(r, jwt) \/ Refresh(r, jwt) \/ Verify(r, jwt)

Progress(r) ==
    \/ Revoke(r) \/ Issue(r) \/ Transform(r) \/ AfterLogin(r)
    \/ VerifyCode(r) \/ Mint(r) \/ Answer(r)

Next ==
    \/ \E r \in Request : Arrive(r) \/ Progress(r) \/ Crash(r)
    \/ \E jwt \in held : Authenticate(jwt)
    \/ \E on \in BOOLEAN : SetTwoFactor(on)

Spec == Init /\ [][Next]_vars

------------------------------------------------------------------------------
(* Properties. *)

\* No client holds an access or refresh token of a sign-in that still owes its
\* second factor, in whatever order the hooks were merged, and the pair login
\* issued before the chain stays withheld through refreshes, crashes and retries.
NothingBeforeSecondFactor ==
    \A jwt \in held : jwt.typ \in {"access", "refresh"} => jwt.pair \in cleared

\* Nobody is authenticated on a sign-in that still owes its second factor, or on none
\* at all: the challenge token opens nothing but /2fa/verify, and a mailed link or an
\* OAuth state no session.
EnteredOnlyCleared == entered \subseteq cleared

\* What the router says of /2fa/verify: a challenge and an accepted code are
\* exchanged for a real access token.
VerifyCompletes ==
    [][\A r \in Request :
          at[r] = "mint" /\ at'[r] = "answer" => result'[r] = "token"]_vars
------------------------------------------------------------------------------
(* The inductive invariant of LoginFlow_proofs.                               *)

\* Each control point belongs to one kind of request, and the chain is walked from
\* its start.
PointsConsistent ==
    \A r \in Request :
        /\ at[r] \in {"transform", "afterLogin"} => kind[r] = "login"
        /\ at[r] = "issue" => kind[r] \in {"login", "oauth", "refresh"}
        /\ at[r] = "revoke" => kind[r] = "refresh"
        /\ at[r] \in {"otp", "mint"} => kind[r] = "verify" /\ from[r] \in Pair
        /\ at[r] \in {"transform", "afterLogin", "answer"} =>
              IF kind[r] = "verify" THEN result[r] # "challenge" ELSE pair[r] \in Pair
        /\ at[r] # "transform" => hook[r] = 1

\* A rotation starts from a cleared pair, and no code is exchanged before it was
\* accepted.
OriginsCleared ==
    \A r \in Request :
        /\ at[r] \in {"revoke", "issue"} /\ kind[r] = "refresh" => from[r] \in cleared
        /\ at[r] = "mint" => from[r] \in cleared

\* While the chain runs for a user who was loaded with two factors, the plugin's
\* hook is still ahead.
HookAhead ==
    \A r \in Request : at[r] = "transform" =>
        \/ ~loaded[r] /\ pair[r] \in cleared
        \/ loaded[r] /\ \E i \in DOMAIN chain : hook[r] <= i /\ chain[i] = "two_factor"

\* Past the chain, a token result is of a cleared sign-in.
ResultsCleared ==
    \A r \in Request : at[r] \in {"afterLogin", "answer"} /\ result[r] = "token" =>
        IF kind[r] = "verify" THEN from[r] \in cleared ELSE pair[r] \in cleared

\* What login's order of calls keeps true between any two of them: a token result
\* leaves the chain only if it may.
FlowInv ==
    /\ TypeOK
    /\ PointsConsistent /\ OriginsCleared /\ HookAhead /\ ResultsCleared
    /\ NothingBeforeSecondFactor /\ EnteredOnlyCleared
==============================================================================
