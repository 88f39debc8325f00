------------------------------- MODULE Accounts -------------------------------
(***************************************************************************)
(* Which account an address or a provider identity belongs to: register,   *)
(* oauth_login (existing link, matching address, or a new account) and the *)
(* unique indexes they run against.  Find and create are separate awaits,  *)
(* so two requests can both find nothing.                                  *)
(***************************************************************************)
EXTENDS Naturals, FiniteSets, RowStore

CONSTANTS
    Request,     \* request slots
    User,        \* user ids
    Email,       \* addresses, lowercase and trimmed as both handlers make them
    Identity,    \* provider identities, <<provider, account id>>
    Backend,     \* "sqlalchemy" or "beanie"
    None,
    MaxFaults    \* bound on the crashes and failing mails or hooks

ASSUME BackendAssumption == Backend \in {"sqlalchemy", "beanie"}
ASSUME FaultsAssumption == MaxFaults \in Nat
ASSUME NoneAssumption == None \notin User /\ None \notin Email /\ None \notin Identity

VARIABLES
    row,       \* the user rows; with Beanie the links are part of the document
    at, kind, ident, address, uid, loaded, mine, outcome,   \* per request
    faults,    \* faults so far
    signedIn   \* history: the account each identity first signed in to

locals == <<at, kind, ident, address, uid, loaded, mine, outcome>>
vars   == <<row, locals, faults, signedIn>>

\* links[i] counts the links of identity i (SQLAlchemy: rows of oauth_account
\* with this user_id, Beanie: entries of oauth_accounts).
Links == [Identity -> Nat]
NoLinks == [i \in Identity |-> 0]
Absent == [email |-> None, is_verified |-> FALSE, is_active |-> FALSE, links |-> NoLinks]
Row == [email : Email \cup {None}, is_verified : BOOLEAN, is_active : BOOLEAN,
        links : Links]

Outcomes == {"none", "created", "exists", "unknown", "storage_error",
             "failed", "inactive", "ok"}
Points == {"idle", "create", "mail", "hook", "byLink", "byEmail", "saveEmail",
           "saveVerified", "link", "saveLink", "issue", "answer"}

TypeOK ==
    /\ row \in [User -> Row]
    /\ at \in [Request -> Points]
    /\ kind \in [Request -> {"none", "register", "oauth"}]
    /\ ident \in [Request -> Identity \cup {None}]
    /\ address \in [Request -> Email \cup {None}]
    /\ uid \in [Request -> User \cup {None}]
    /\ loaded \in [Request -> Row]
    /\ mine \in [Request -> Row]
    /\ outcome \in [Request -> Outcomes]
    /\ faults \in 0..MaxFaults
    /\ signedIn \in [Identity -> User \cup {None}]

Init ==
    /\ row = [u \in User |-> Absent]
    /\ at = [r \in Request |-> "idle"]
    /\ kind = [r \in Request |-> "none"]
    /\ ident = [r \in Request |-> None]
    /\ address = [r \in Request |-> None]
    /\ uid = [r \in Request |-> None]
    /\ loaded = [r \in Request |-> Absent]
    /\ mine = [r \in Request |-> Absent]
    /\ outcome = [r \in Request |-> "none"]
    /\ faults = 0
    /\ signedIn = [i \in Identity |-> None]

------------------------------------------------------------------------------
(* The store. *)

Exists(u) == row[u].email # None
WithEmail(e) == {u \in User : row[u].email = e}
LinkedUsers(i) == {u \in User : row[u].links[i] > 0}

\* get_by_provider_account.  SQLAlchemy selects on both columns.  The Mongo query
\* asks for *some* element with the provider and *some* element with the account
\* id, takes one such user, and then searches only that user's elements.
FoundByIdentity(i) ==
    IF Backend = "sqlalchemy"
    THEN IF LinkedUsers(i) = {} THEN {None} ELSE LinkedUsers(i)
    ELSE LET matches == {u \in User :
                 /\ \E j \in Identity : j[1] = i[1] /\ row[u].links[j] > 0
                 /\ \E j \in Identity : j[2] = i[2] /\ row[u].links[j] > 0}
         IN IF matches = {} THEN {None}
            ELSE {IF row[u].links[i] > 0 THEN u ELSE None : u \in matches}

\* Mutant: no unique index.
EmailFree_NoIndex(e, u) == TRUE

\* The unique index on email: may user u (None: a new user) have address e?
EmailFree(e, u) == WithEmail(e) \subseteq {u}

\* Mutants: no unique constraint on oauth_account; a constraint on one column.
IdentityFree_NoConstraint(i) == TRUE
IdentityFree_ProviderOnly(i) ==
    \A j \in Identity : j[1] = i[1] => LinkedUsers(j) = {}

\* The unique index on (oauth_name, account_id), which only SQLAlchemy has.
IdentityFree(i) == Backend = "sqlalchemy" => LinkedUsers(i) = {}

Goto(r, next) ==
    /\ at' = [at EXCEPT ![r] = next]
    /\ UNCHANGED <<kind, ident, address, uid, loaded, mine, outcome>>

Reply(r, result) ==
    /\ at' = [at EXCEPT ![r] = "answer"]
    /\ outcome' = [outcome EXCEPT ![r] = result]
    /\ UNCHANGED <<kind, ident, address, uid, loaded, mine>>

\* r has fetched user u and goes on with `copy` of its row.
Fetch(r, u, copy, next) ==
    /\ at' = [at EXCEPT ![r] = next]
    /\ uid' = [uid EXCEPT ![r] = u]
    /\ loaded' = [loaded EXCEPT ![r] = row[u]]
    /\ mine' = [mine EXCEPT ![r] = copy]
    /\ UNCHANGED <<kind, ident, address, outcome>>

\* Mutant: a save writes the whole copy back.
Result_WholeRow(r) == mine[r]

\* The row r's save would leave.
Result(r) == Saved(Backend, row[uid[r]], loaded[r], mine[r])

\* Mutant: the flag has no default and stays NULL.
NewUser_NullFlag(e, verified) ==
    [email |-> e, is_verified |-> verified, is_active |-> None, links |-> NoLinks]

NewUser(e, verified) ==
    [email |-> e, is_verified |-> verified, is_active |-> TRUE, links |-> NoLinks]

\* Bound: a request that may create an account starts while an id is left for it.
IdLeft == Cardinality({u \in User : ~Exists(u)})
            > Cardinality({r \in Request : at[r] \in {"create", "byEmail"}})

------------------------------------------------------------------------------
(* register *)

Register(r, e) ==
    /\ at[r] = "idle"
    /\ WithEmail(e) = {} => IdLeft
    /\ kind' = [kind EXCEPT ![r] = "register"]
    /\ address' = [address EXCEPT ![r] = e]
    /\ at' = [at EXCEPT ![r] = IF WithEmail(e) = {} THEN "create" ELSE "answer"]
    /\ outcome' = [outcome EXCEPT ![r] = IF WithEmail(e) = {} THEN "none" ELSE "exists"]
    /\ UNCHANGED <<row, ident, uid, loaded, mine, faults, signedIn>>

\* users.create, for register and for a first oauth_login.  The SQLAlchemy
\* repository turns the refused insert into UnknownError, Beanie's into
\* EmailAlreadyExistsError.
DuplicateError == IF Backend = "sqlalchemy" THEN "unknown" ELSE "exists"

Create(r) ==
    /\ at[r] = "create"
    /\ \/ /\ EmailFree(address[r], None)
          /\ \E u \in User :
               /\ ~Exists(u)
               /\ LET new == NewUser(address[r], kind[r] = "oauth")
                  IN /\ row' = [row EXCEPT ![u] = new]
                     /\ loaded' = [loaded EXCEPT ![r] = new]
                     /\ mine' = [mine EXCEPT ![r] = new]
               /\ uid' = [uid EXCEPT ![r] = u]
          /\ at' = [at EXCEPT ![r] = IF kind[r] = "oauth" THEN "link" ELSE "mail"]
          /\ UNCHANGED <<kind, ident, address, outcome>>
       \/ ~EmailFree(address[r], None) /\ Reply(r, DuplicateError) /\ UNCHANGED row
    /\ UNCHANGED <<faults, signedIn>>

\* verification.resend, then the on_after_register hooks.
Mail(r) == at[r] = "mail" /\ Goto(r, "hook") /\ UNCHANGED <<row, faults, signedIn>>
Hook(r) == at[r] = "hook" /\ Reply(r, "created") /\ UNCHANGED <<row, faults, signedIn>>

\* The mailer or a hook raises: the exception ends the handler.
MailOrHookFails(r) ==
    /\ at[r] \in {"mail", "hook"}
    /\ faults < MaxFaults /\ faults' = faults + 1
    /\ Reply(r, "failed")
    /\ UNCHANGED <<row, signedIn>>

------------------------------------------------------------------------------
(* oauth_login *)

OAuthLogin(r, i, e) ==
    /\ at[r] = "idle"
    /\ None \in FoundByIdentity(i) => IdLeft
    /\ kind' = [kind EXCEPT ![r] = "oauth"]
    /\ ident' = [ident EXCEPT ![r] = i]
    /\ address' = [address EXCEPT ![r] = e]
    /\ \E u \in FoundByIdentity(i) :
         /\ uid' = [uid EXCEPT ![r] = u]
         /\ at' = [at EXCEPT ![r] = IF u # None THEN "byLink" ELSE "byEmail"]
    /\ UNCHANGED <<row, loaded, mine, outcome, faults, signedIn>>

\* The linked account, brought to the address the provider reports now.
ByLink(r) ==
    /\ at[r] = "byLink"
    /\ LET u == uid[r] IN
         \/ ~row[u].is_active /\ Reply(r, "inactive")
         \/ /\ row[u].is_active
            /\ Fetch(r, u, [row[u] EXCEPT !.email = address[r]],
                     IF row[u].email = address[r] THEN "issue" ELSE "saveEmail")
    /\ UNCHANGED <<row, faults, signedIn>>

ByEmail(r) ==
    /\ at[r] = "byEmail"
    /\ \/ WithEmail(address[r]) = {} /\ Goto(r, "create")
       \/ \E u \in WithEmail(address[r]) :
            \/ ~row[u].is_active /\ Reply(r, "inactive")
            \/ /\ row[u].is_active
               /\ Fetch(r, u, [row[u] EXCEPT !.is_verified = TRUE], "saveVerified")
    /\ UNCHANGED <<row, faults, signedIn>>

\* oauth_accounts.link: one guarded insert, or a fresh read of the
\* document whose save follows.
Link(r) ==
    /\ at[r] = "link"
    /\ LET u == uid[r]
           linked == [row[u] EXCEPT !.links[ident[r]] = @ + 1]
       IN IF Backend = "beanie" THEN Fetch(r, u, linked, "saveLink") /\ UNCHANGED row
          ELSE IF IdentityFree(ident[r])
               THEN row' = [row EXCEPT ![u] = linked] /\ Goto(r, "issue")
               ELSE Reply(r, "storage_error") /\ UNCHANGED row
    /\ UNCHANGED <<faults, signedIn>>

\* users.save of the three branches.  The unique index may refuse the address it
\* writes, and nothing translates that error.
AfterSave(r) == IF at[r] = "saveVerified" THEN "link" ELSE "issue"

Save(r) ==
    /\ at[r] \in {"saveEmail", "saveVerified", "saveLink"}
    /\ IF EmailFree(Result(r).email, uid[r])
       THEN row' = [row EXCEPT ![uid[r]] = Result(r)] /\ Goto(r, AfterSave(r))
       ELSE Reply(r, "storage_error") /\ UNCHANGED row
    /\ UNCHANGED <<faults, signedIn>>

\* _issue_tokens for the account found.
Issue(r) ==
    /\ at[r] = "issue"
    /\ Reply(r, "ok")
    /\ signedIn' = [signedIn EXCEPT ![ident[r]] = IF @ = None THEN uid[r] ELSE @]
    /\ UNCHANGED <<row, faults>>

------------------------------------------------------------------------------
Forget(r) ==
    /\ at' = [at EXCEPT ![r] = "idle"]
    /\ kind' = [kind EXCEPT ![r] = "none"]
    /\ ident' = [ident EXCEPT ![r] = None]
    /\ address' = [address EXCEPT ![r] = None]
    /\ uid' = [uid EXCEPT ![r] = None]
    /\ loaded' = [loaded EXCEPT ![r] = Absent]
    /\ mine' = [mine EXCEPT ![r] = Absent]
    /\ outcome' = [outcome EXCEPT ![r] = "none"]
    /\ UNCHANGED <<row, signedIn>>

Answer(r) == at[r] = "answer" /\ Forget(r) /\ UNCHANGED faults

Crash(r) ==
    /\ at[r] \notin {"idle", "answer"}
    /\ faults < MaxFaults /\ faults' = faults + 1
    /\ Forget(r)

\* An admin deactivates or reactivates an account.
SetActive(u, active) ==
    /\ Exists(u)
    /\ row' = [row EXCEPT ![u].is_active = active]
    /\ UNCHANGED <<locals, faults, signedIn>>

Arrive(r) ==
    \/ \E e \in Email : Register(r, e)
    \/ \E i \in Identity, e \in Email : OAuthLogin(r, i, e)

Progress(r) ==
    \/ Create(r) \/ Mail(r) \/ Hook(r)
    \/ ByLink(r) \/ ByEmail(r) \/ Save(r) \/ Link(r) \/ Issue(r) \/ Answer(r)

Fault(r) == MailOrHookFails(r) \/ Crash(r)

Next ==
    \/ \E r \in Request : Arrive(r) \/ Progress(r) \/ Fault(r)
    \/ \E u \in User : SetActive(u, TRUE) \/ SetActive(u, FALSE)

Spec == Init /\ [][Next]_vars

\* People keep trying to sign in with their identities; crashes and failing mails
\* are finitely many.
Retrying ==
    /\ Init
    /\ [][\E r \in Request : Arrive(r) \/ Progress(r) \/ Fault(r)]_vars
    /\ \A r \in Request : WF_vars(Progress(r))
    /\ \A i \in Identity :
          SF_vars(\E r \in Request : \E e \in Email : OAuthLogin(r, i, e))

------------------------------------------------------------------------------
(* Properties. *)

SignedIn(r) == at[r] = "answer" /\ outcome[r] = "ok"

\* Every sign-in of an identity reaches the account of its first sign-in, even
\* when first sign-ins race or the provider's address changes between them.
IdentityIsStable ==
    \A r \in Request : SignedIn(r) => uid[r] = signedIn[ident[r]]

\* Who is signed in by an identity is linked to it when the answer leaves, whatever
\* other links or saves ran in between.
SignedInIsLinked ==
    \A r \in Request : SignedIn(r) => row[uid[r]].links[ident[r]] > 0

\* Two accounts never share an address, although addresses move with the identity
\* they came from.
AddressesDistinct ==
    \A u, v \in User : Exists(u) /\ row[u].email = row[v].email => u = v

\* A retried first sign-in gets through: neither a lost race nor a crash between
\* creating the account and linking it makes the identity unusable (as long as
\* no other identity keeps moving its account across the address: the run has one).
RetrySucceeds == \A i \in Identity : <>(signedIn[i] # None)
==============================================================================
