----------------------------- MODULE UserUpdates -----------------------------
(***************************************************************************)
(* The /users routes of a SQLAlchemyAuth root: who may change which field  *)
(* of which account.  A request authenticates its caller, loads the        *)
(* target, sets the attributes its payload names, awaits the               *)
(* on_after_update hooks and commits.  All of this runs on one session,    *)
(* whose identity map returns the object it already has and whose commit   *)
(* writes every object that was changed, whoever changed it: the           *)
(* properties rest on a session being private to its request.              *)
(***************************************************************************)
EXTENDS Naturals, FiniteSets, RowStore

CONSTANTS
    Request,           \* request slots
    User,              \* user ids; every user exists
    Name,              \* values of display_name
    Payload,           \* what clients may send: functions from fields to values
    required,          \* the permissions a host route asks for
    on_after_update,   \* the number of merged on_after_update hooks
    None

Permission == {"users:manage", "stylists:manage", "services:manage",
               "availability:manage", "bookings:manage"}

ASSUME RequiredAssumption == required \subseteq Permission /\ required # {}
ASSUME HooksAssumption == on_after_update \in Nat
ASSUME NoneAssumption == None \notin User

Flags == {"is_active", "is_superuser"}
Fields == Flags \cup {"display_name"}
Values(f) == IF f \in Flags THEN BOOLEAN ELSE Name

\* The schemas let through what they declare, in its type (an explicit null for a flag
\* is not among it: the commit refuses it, as a failing call).
ASSUME PayloadAssumption ==
    \A p \in Payload : \A f \in DOMAIN p : f \in Fields /\ p[f] \in Values(f)

VARIABLES
    row,       \* the user table
    objects,   \* per session: its identity map, user id -> loaded and current value
    at, caller, target, payload, hook,   \* per request
    seen       \* history: the caller's stored row when the request was let in

locals == <<at, caller, target, payload, hook>>
vars   == <<row, objects, locals, seen>>

Row == {u \in [Fields -> BOOLEAN \cup Name] : \A f \in Fields : u[f] \in Values(f)}
Object == [was : Row, is : Row]
NoObjects == [u \in {} |-> None]
NoPayload == [f \in {} |-> None]

\* PATCH /users/me, PATCH /users/{user_id}, and routes of the host that call
\* UserService.update behind require_permission and require_role or require_admin.
Routes == {"me", "admin", "permission", "role"}

TypeOK ==
    /\ row \in [User -> Row]
    /\ DOMAIN objects = Request
    /\ \A s \in Request :
          /\ DOMAIN objects[s] \subseteq User
          /\ \A u \in DOMAIN objects[s] : objects[s][u] \in Object
    /\ at \in [Request -> {"idle", "load", "hook", "save", "answer"}]
    /\ caller \in [Request -> User \cup {None}]
    /\ target \in [Request -> User \cup {None}]
    /\ payload \in [Request -> Payload \cup {NoPayload}]
    /\ hook \in [Request -> 1..(on_after_update + 1)]
    /\ seen \in [Request -> Row \cup {None}]

\* A deployment with one superuser to begin with.
Init ==
    /\ \E su \in User, n \in Name :
         row = [u \in User |-> [f \in Fields |->
                  IF f \in Flags THEN f = "is_active" \/ u = su ELSE n]]
    /\ objects = [s \in Request |-> NoObjects]
    /\ at = [r \in Request |-> "idle"]
    /\ caller = [r \in Request |-> None]
    /\ target = [r \in Request |-> None]
    /\ payload = [r \in Request |-> NoPayload]
    /\ hook = [r \in Request |-> 1]
    /\ seen = [r \in Request |-> None]

------------------------------------------------------------------------------
(* Sessions. *)

\* Mutant: one session for the whole process.
Session_Shared(r) == CHOOSE s \in Request : TRUE

\* get_db_session is a dependency of one request, cached within it: the
\* authentication service and the user service share it.
Session(r) == r

\* session.get: the object of the identity map as it is, or the stored row.
Get(s, u) ==
    IF u \in DOMAIN objects[s] THEN objects[s][u] ELSE [was |-> row[u], is |-> row[u]]

Track(s, u, o) ==
    objects' = [objects EXCEPT ![s] =
                  [v \in DOMAIN objects[s] \cup {u} |-> IF v = u THEN o ELSE objects[s][v]]]

\* Mutant: a commit writes whole rows.
Flushed_WholeRow(s, u) == IF u \in DOMAIN objects[s] THEN objects[s][u].is ELSE row[u]

\* What a commit of session s leaves of user u.
Flushed(s, u) ==
    IF u \in DOMAIN objects[s]
    THEN Saved("sqlalchemy", row[u], objects[s][u].was, objects[s][u].is)
    ELSE row[u]

------------------------------------------------------------------------------
(* Guards. *)

roles_for(u) == IF u.is_superuser THEN {"admin"} ELSE {}

ROLE_PERMISSIONS ==
    [admin |-> Permission, stylist |-> {"availability:manage"}, customer |-> {}]

\* Mutant: a user without a role has the permissions of every role.
permissions_for_Default(u) ==
    UNION {ROLE_PERMISSIONS[role] :
              role \in IF roles_for(u) = {} THEN DOMAIN ROLE_PERMISSIONS ELSE roles_for(u)}

permissions_for(u) == UNION {ROLE_PERMISSIONS[role] : role \in roles_for(u)}

require_permission(u) == required \subseteq permissions_for(u)

require_admin(u) == "admin" \in roles_for(u)

\* The dependencies of the routes: get_current_user refuses the inactive,
\* get_current_superuser and the permission guards whoever lacks the flag.
Lets(rt, u) ==
    /\ u.is_active
    /\ rt = "admin" => u.is_superuser
    /\ rt = "permission" => require_permission(u)
    /\ rt = "role" => require_admin(u)

\* The fields the payload schema of a route declares; extra="forbid" refuses others.
Declared(rt) == IF rt = "me" THEN {"display_name"} ELSE Flags

------------------------------------------------------------------------------
(* Requests. *)

\* authenticate_access_token and the guards, which run without suspending.
Enter(r, rt, c, u, p) ==
    /\ at[r] = "idle"
    /\ rt = "me" => u = c
    /\ DOMAIN p \subseteq Declared(rt)
    /\ Lets(rt, Get(Session(r), c).is)
    /\ Track(Session(r), c, Get(Session(r), c))
    /\ at' = [at EXCEPT ![r] = "load"]
    /\ caller' = [caller EXCEPT ![r] = c]
    /\ target' = [target EXCEPT ![r] = u]
    /\ payload' = [payload EXCEPT ![r] = p]
    /\ seen' = [seen EXCEPT ![r] = row[c]]
    /\ UNCHANGED <<row, hook>>

\* Mutant: a false value counts as not sent.
Updated_DropsFalse(old, p) ==
    [f \in DOMAIN old |-> IF f \in DOMAIN p /\ p[f] # FALSE THEN p[f] ELSE old[f]]

\* setattr for every field that was sent.
Updated(old, p) == [f \in DOMAIN old |-> IF f \in DOMAIN p THEN p[f] ELSE old[f]]

\* UserService.update up to its first hook.
Load(r) ==
    /\ at[r] = "load"
    /\ LET o == Get(Session(r), target[r])
       IN Track(Session(r), target[r], [o EXCEPT !.is = Updated(o.is, payload[r])])
    /\ at' = [at EXCEPT ![r] = IF on_after_update = 0 THEN "save" ELSE "hook"]
    /\ UNCHANGED <<row, caller, target, payload, hook, seen>>

\* Mutant: the loop over the hooks ends one round late.
HooksEnd_OffByOne(r) == hook[r] > on_after_update

HooksEnd(r) == hook[r] = on_after_update

\* One round of run_side_effects.
Hook(r) ==
    /\ at[r] = "hook"
    /\ hook' = [hook EXCEPT ![r] = @ + 1]
    /\ at' = [at EXCEPT ![r] = IF HooksEnd(r) THEN "save" ELSE "hook"]
    /\ UNCHANGED <<row, objects, caller, target, payload, seen>>

\* The request is over as far as it can write: its session is closed, and what was
\* not committed is dropped with it.
Close(r, next) ==
    /\ objects' = [objects EXCEPT ![Session(r)] = NoObjects]
    /\ at' = [at EXCEPT ![r] = next]
    /\ caller' = [caller EXCEPT ![r] = None]
    /\ target' = [target EXCEPT ![r] = None]
    /\ payload' = [payload EXCEPT ![r] = NoPayload]
    /\ hook' = [hook EXCEPT ![r] = 1]
    /\ seen' = [seen EXCEPT ![r] = None]

\* users.save: one commit.
Save(r) ==
    /\ at[r] = "save"
    /\ row' = [u \in User |-> Flushed(Session(r), u)]
    /\ Close(r, "answer")

Answer(r) ==
    /\ at[r] = "answer"
    /\ at' = [at EXCEPT ![r] = "idle"]
    /\ UNCHANGED <<row, objects, caller, target, payload, hook, seen>>

\* A hook raises to reject, a storage call fails, or the process dies.
Fail(r) ==
    /\ at[r] \in {"load", "hook", "save"}
    /\ Close(r, "idle")
    /\ UNCHANGED row

Next ==
    \E r \in Request :
        \/ \E rt \in Routes, c, u \in User, p \in Payload : Enter(r, rt, c, u, p)
        \/ Load(r) \/ Hook(r) \/ Save(r) \/ Answer(r) \/ Fail(r)

Spec == Init /\ [][Next]_vars

------------------------------------------------------------------------------
(* Properties. *)

Commits(r) == at[r] = "save" /\ at'[r] = "answer"

Changed(u, f) == row'[u][f] # row[u][f]

\* A stored field changes only by the commit of an update of that account that all
\* hooks let pass, names that field, and to the value it names: what a hook rejected
\* is not written by somebody else's commit, and no commit takes back what another
\* wrote meanwhile.
OnlyAcceptedUpdatesLand ==
    [][\A u \in User : \A f \in DOMAIN row[u] : Changed(u, f) =>
          \E r \in Request :
              /\ Commits(r) /\ hook[r] > on_after_update /\ target[r] = u
              /\ f \in DOMAIN payload[r] /\ row'[u][f] = payload[r][f]]_vars

\* Whoever changes a flag was a stored, active superuser when the request was let
\* in, and a profile field answers to its active owner: no guard decides on a copy
\* from before a demotion or a deactivation.
ChangesAnswerToCaller ==
    [][\A u \in User : \A f \in DOMAIN row[u] : Changed(u, f) =>
          \E r \in Request :
              /\ Commits(r) /\ seen[r].is_active
              /\ IF f \in Flags
                 THEN seen[r].is_superuser ELSE caller[r] = u]_vars

\* An update that is answered took effect as a whole: each field it names holds its
\* value now, or held it when the update read the row (it is then not written, so
\* that a change made in between stands).
AnsweredTookEffect ==
    [][\A r \in Request : Commits(r) =>
          \A f \in DOMAIN payload[r] :
              \/ row'[target[r]][f] = payload[r][f]
              \/ objects[Session(r)][target[r]].was[f] = payload[r][f]]_vars
------------------------------------------------------------------------------
(* The inductive invariant of UserUpdates_proofs.                             *)

\* A session knows the caller and then the target of its own request, and nothing
\* between requests.
SessionsMatch ==
    \A r \in Request :
        /\ at[r] \in {"idle", "answer"} => objects[r] = NoObjects
        /\ at[r] = "load" => DOMAIN objects[r] = {caller[r]}
        /\ at[r] \in {"hook", "save"} => DOMAIN objects[r] = {caller[r], target[r]}

\* Only the loaded target differs from what was read, and by the payload.
OnlyTargetDirty ==
    \A r \in Request : \A u \in DOMAIN objects[r] :
        objects[r][u].is = IF at[r] \in {"hook", "save"} /\ u = target[r]
                           THEN Updated(objects[r][u].was, payload[r])
                           ELSE objects[r][u].was

\* A request past its guards carries a payload its caller may send.
CallersAllowed ==
    \A r \in Request : at[r] \in {"load", "hook", "save"} =>
        /\ caller[r] \in User /\ target[r] \in User /\ seen[r] \in Row
        /\ payload[r] \in Payload
        /\ seen[r].is_active
        /\ \A f \in DOMAIN payload[r] :
              IF f \in Flags THEN seen[r].is_superuser ELSE caller[r] = target[r]

\* Every hook passed before the commit.
HooksPassed ==
    \A r \in Request :
        /\ at[r] \in {"idle", "load", "answer"} => hook[r] = 1
        /\ at[r] = "hook" => hook[r] <= on_after_update
        /\ at[r] = "save" => hook[r] = on_after_update + 1

\* What keeps one request's changes, and one caller's rights, out of another's commit.
UpdateInv == TypeOK /\ SessionsMatch /\ OnlyTargetDirty /\ CallersAllowed /\ HooksPassed
==============================================================================
