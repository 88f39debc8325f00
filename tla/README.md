# A TLA+ development of blenx-auth

blenx-auth is an async authentication library for FastAPI. It offers password login with
lockout, rotating refresh tokens with reuse detection, password reset, e-mail verification,
OAuth sign-in, two-factor sign-in and other plugins, on SQLAlchemy or on Beanie (MongoDB).
Its difficulty is not in any one function. Every handler is a coroutine that reads a row,
decides on a private copy and writes at a later `await`; several workers share one database
and nothing takes a lock. What a write does depends on the repository behind it. These
modules model that: a request is a sequence of atomic storage calls, and between two of
them any other request may run, the process may die, or the answer may be lost.

Paths below are relative to `src/src/blenx_auth/`.

## Inventory

| Component | State | Operations | Must hold |
|---|---|---|---|
| Sessions (`core/services/authentication.py`, refresh repositories) | `refresh_tokens` rows: hash, user, `revoked_at` | issue, refresh (rotate, detect reuse), logout, logout_all | an exchanged token is dead; what ended stays ended; reuse detection ends all that was outstanding |
| Access tokens (`authenticate_access_token`) | none: the JWT is all there is | let in, refuse | outlives the revocation of its session by less than its lifetime |
| Password login and lockout | `failed_login_attempts`, `locked_until`, `hashed_password` of the user row | login, `_register_failed_attempt` | guesses are bounded; a lock is not cleared by accident; a replaced password opens nothing |
| Password reset (`core/services/password_reset.py`) | reset hash and its expiry on the user row | request_reset, reset | a spent link stays spent; old sessions end |
| E-mail verification | `is_verified` | verify, resend | no other write takes it back |
| Registration and OAuth sign-in | user rows, `oauth_account` links | register, oauth_login, link | one address, one account; an identity always reaches the same account; a retry gets through |
| User service, users router and guards (`core/services/user_service.py`, `fastapi/routers/users.py`, `fastapi/current_user.py`, `fastapi/permissions.py`) | the user row; the identity map of the request's session | get, update by owner, admin or host route | only accepted updates land; a flag answers to whoever is a superuser in the store |
| Two-factor plugin (`plugins/two_factor/`) | `is_2fa_enabled`; codes are the host's | transform_login, verify | no usable token before the second factor |
| Hooks (`core/hooks.py`, `core/plugins/hooks.py`) | the merged chain | transform chain, on_after_* | an early challenge ends the chain |
| Plugin ordering, collisions, contract check | none after start-up | resolve order, compose classes, check | a root that starts is consistent |
| Composition roots (`fastapi/sqlalchemy.py`, `fastapi/beanie.py`) | composed classes, services, routers | construction | as above |
| Storage contexts (`sqlalchemy/context.py`, `sqlalchemy/metadata.py`, `beanie/context.py`) | the shared `AuthBase.metadata` | tear down, compose, map | the tables are this composition's own |
| Repositories | the database | get, create, save, revoke, link | changed columns (SQLAlchemy) or whole documents (Beanie) |
| TokenService | none | mint and decode JWTs | one family is never taken for another |
| Migration CLI (`cli.py`) | the metadata it composes for Alembic | `migrate sync` | the migrated schema is the one the running root writes |
| Birthday plugin (`plugins/birthday.py`) | three mixins | construction | its field is stored; as any plugin's |
| Service registry (`core/registry.py`) | see "Not modelled" | | |

Interactions: routers call services; services call repositories through ports, with an
`await` (so a possible switch) per call; services call hooks, which are host code and may
suspend, update the same user or raise; `login`, `logout_all`, `refresh` and `reset` meet on
the refresh rows; `login`, `reset`, `verify` and `update` meet on the user row; the
migration command reads the same plugins as the root, by other paths; the transform chain decides which of the tokens already issued the client is given; the guards
and the user service of one request work on the same session and so on the same object.

Hard behaviours: two refreshes of one token; a revocation that runs between the read and
the insert of another request; a crash between two commits; an answer lost after a
rotation; stale copies saved late; unique indexes as the only guard against a race; hooks
in an order that depends on registration. PROJECT.json lists each at its line.

## Modules

| Module | Models | State and actions |
|---|---|---|
| `RowStore` | how a save merges into a row | `Saved`: SQLAlchemy writes the attributes that changed since the load, Beanie the whole document (`beanie/repositories.py:81`) |
| `RefreshSessions` | the refresh rows and every request that writes them | `row` is `revoked_at` plus existence; `at[r]` is the next storage call of request `r`; `RefreshLookup`, `Revoke`, `GetUser`, `Issue` are the four awaits of `refresh`; `EndAll`/`RevokeAll` are `logout_all` and the end of a reset |
| `SessionLedger` | what the refresh store promises, without requests | `Grant`, `End` |
| `RefreshSessions_proofs` | theorems about `RefreshSessions` | |
| `AccountRow` | one row of the user table and the handlers that rewrite it | `loaded`/`mine` are the row as read and the copy to be saved; `Save` is the repository's save; one arrival action per handler; `Tick` is the clock that locks and links expire by |
| `MCGuessing` | concurrent guessing of one password | the login actions of `AccountRow` with a count of the saved failures, and its clock |
| `Guessing_proofs` | theorems about `MCGuessing` | |
| `AccountRow_proofs` | theorems about `AccountRow` | |
| `AccountAccess` | what opens one account: password, refresh rows, access tokens, links, with all handlers that use or replace them | `age` and `proof` say whether the password behind a token or a request is still the stored one; `Save` and `RevokeAll` are the two commits of a reset, `Issue` and `Mint` the insert of a pair and the access token made after it, and `Fault` may fall between any two; `Tick` runs access tokens out |
| `AccountAccess_proofs` | theorems about `AccountAccess` | |
| `Accounts` | which account an address or identity belongs to | the three branches of `oauth_login` and `register`, one action per await, against the unique indexes |
| `Accounts_proofs` | theorems about `Accounts` | |
| `UserUpdates` | the `/users` routes: guard, load, setattr, hooks, commit | `objects` is the identity map of each session, `Enter` the guards, `Load` and `Save` the two halves of `UserService.update` around the rounds of `Hook` |
| `UserUpdates_proofs` | theorems about `UserUpdates` | |
| `LoginFlow` | login with the two-factor plugin | one action per hook of the chain; the JWTs that reached a client, by the six families one secret signs |
| `LoginFlow_proofs` | theorems about `LoginFlow` | |
| `Composition` | construction of a composition root or a storage context, then the migration for it | one action per stage: order, model and tables, schemas, contract check, wiring; `tables` is the `AuthBase.metadata` an earlier construction left; `Sync` is `blenx-auth migrate sync` with a consumer's `base` |
| `Composition_proofs` | theorems about `Composition` | |
| `MC...` | the small sets TLC uses | |

`Backend` selects the repositories. With `"beanie"`, `RefreshSessions` leaves the rows
untouched by `revoke` and `revoke_all_for_user`, because both methods build an update query
and never await it (`beanie/repositories.py:129`).

A storage call is atomic, since each is one statement and a commit. Statements of one
handler that have no `await` between them are one action together with the call before
them. A handler that is refused and writes nothing has no action of its own.

History variables (`parent`, `session`, `seen`; `cleared`, `entered`; `signedIn`; `chosen`;
`failures`; `age`, `proof`, `straddled`, `straddles`, `interrupted`, `since`; in `UserUpdates`
the caller's stored row `seen`) are read by no guard, except that `chosen` makes each new
password a fresh one.

`AccountRow`, `RefreshSessions` and `AccountAccess` share handlers on purpose. The first has
the columns of the row, with the clock of lock and link; the second the refresh rows of
several users and their owners' deletion; the third has both meet, and leaves out what the
others settle: the lockout and the expiry of a link (`AccountRow`), users other than the one
(`RefreshSessions`). Its passwords carry no numbers but an age relative to the last reset,
which keeps it finite without a bound on resets.

`AccountRow` and `UserUpdates` both model `UserService.update`: the first as one more writer
of the row the auth flows fight over, with either backend, the second with what it decides
by, on SQLAlchemy, where several objects share one commit. `UserUpdates` keeps two of the
three flags and one profile field: `is_verified` is guarded, declared and written exactly as
`is_active`, and is left out.

## Runs

| Run | Asks | Bounds |
|---|---|---|
| `sessions` | rotation, reuse, revocation, deletion; refinement of `SessionLedger` | 1 user, 3 tokens, 2 requests: a sign-in, its rotation and one more race, with a request in every gap of another |
| `account` | reset links, passwords, flags, locks under concurrent saves | 2 requests over all six handlers, 1 link, threshold 2, clock 2: the lock and the link both set and both expire |
| `reset` | what a reset, or one cut short between its two commits, leaves behind, and for how long | 2 requests, 2 pairs (a session and its rotation, or a session and a challenger), 2 links, 1 fault, access tokens of 1 tick: every request may straddle a reset, before its insert or between it and the minting of its access token; links and passwords are renewed without end. No symmetry, as it checks liveness |
| `account_guessing` | how many guesses fit between two locks, and that the lock comes | 3 requests, threshold 3: the bound C(5,3)-1 = 9 is above the 3 of a sequential guesser; clock 3, so that a lock runs out and the guessing starts again |
| `accounts` | identities and addresses under races | 3 ids, 2 addresses, 2 identities, 2 requests, 1 fault |
| `accounts_retry` | a retried first sign-in succeeds | 1 address, 2 identities, 2 faults |
| `login_flow` | which tokens reach a client before the second factor | 3 hooks in all 6 orders, 2 requests, 3 pairs (so a rotation of a rotation) |
| `user_updates` | which fields change, by whom, and what an answer means | 2 accounts, 1 superuser at first, 2 requests, 2 hooks, 6 payloads: a demotion, a deactivation and a promotion each during another update, of oneself or of the other |
| `root` | what a root or storage context that constructs, and the migration for it, can rely on | all 4 classes, no plugin or 3, 5 dependency choices (missing, self and circular ones among them), 11 mixin bundles (the birthday plugin's and two classes that inherit a field among them) for two of them and 4 for the third, no override or one of two, 2 earlier compositions, 4 consumer Bases |

Expected violations, each a place where the code and what the repository says of it
disagree:

| Run | Shows |
|---|---|
| `beanie_rotation` | with Beanie an exchanged token remains usable beside its successor |
| `beanie_identity` | with Beanie and two providers whose account ids cross, the lookup of a linked identity misses its link, and the identity moves to another account |
| `two_factor_verify` | `/2fa/verify` fails validation after the code was accepted: `LoginSuccess` lacks two required fields |

Symmetry is used where no action or property names a member of the set; the runs with a
liveness property over such a set (`accounts_retry`, `reset`) do without it.
`CHECK_DEADLOCK FALSE` appears where the system does stop: a root is constructed once; in
`account_guessing` all requests may be refused once the account is locked; in
`user_updates` everybody may have been deactivated.

Bounds in guards: `MaxTime`, `MaxPassword`, `MaxFaults`, and `TokensLeft`, `IdLeft`,
`PairLeft` (a request that may need a fresh token or id starts only if one is left for it,
so that a bound never blocks a request half way).

## Fairness

Safety runs assume none. `Guessing` (in `MCGuessing`) assumes that the guesser goes on and
that a coroutine which may run eventually does: the event loop is a fair queue. `Retrying`
(in `Accounts`) assumes weak fairness for the steps of a request, for the same reason, and
strong fairness for the arrival of each identity, since a user who retries finds a free
worker infinitely often rather than always. `LiveSpec` (in `AccountAccess`) assumes the same
of the steps of a request, and of the owner of the account that they go on asking for a link
and opening one that is good: strongly, because a link may be replaced and a worker be busy
again and again. `LeftoversEnd` needs all of it: after a reset died between its commits the
code itself never comes back to the sessions it was about to revoke. Crashes are bounded by
`MaxFaults`, not excluded.

## Proofs

`RefreshSessions_proofs` proves, for any sets of users, tokens and requests:

- `TypeCorrect`, and `Invariant`: `IInv` holds always. The safety properties are not
  inductive by themselves: to know that a rotation never leaves its parent live one needs
  that a request at `issue` of a refresh has already revoked its row
  (`RevokedBeforeIssue`), that what a request holds is an issued token of its own subject
  (`RequestsConsistent`), and that unissued tokens are nobody's parent, session or
  possession (`TokensConsistent`). `IInv` is the type invariant, these parts, and, if the
  updates are awaited (`Backend = "sqlalchemy"`), `Durable`.
- `RotationSafe`, `EndAllSafe`, `DeletedUserSafe`: the invariants of the run `sessions`,
  for SQLAlchemy.
- `SessionsEndForGood`: `OverForGood`, for both repositories: a session that is over cannot
  come back, since a dead row is never made live and a new row of a session needs a
  rotation in flight.
- `Refinement`: every step of `RefreshSessions` with SQLAlchemy is a step of
  `SessionLedger` or leaves it unchanged.

`LoginFlow_proofs` proves, for any number of requests, token pairs and host hooks and for
every merge order:

- `LoginTypes` and `LoginInvariant`. `FlowInv` adds to the types that each control point
  belongs to one kind of request (`PointsConsistent`), that a rotation starts from a cleared
  pair (`OriginsCleared`), and that past the chain a token result is of a cleared pair
  (`ResultsCleared`). While the chain runs that is not yet so; there, an account that was
  loaded with two factors still has the plugin's hook ahead of it (`HookAhead`), which is
  why the chain cannot end with a token.
- `SecondFactorFirst` and `OnlyClearedEnter`: the two properties of the run `login_flow`.

`UserUpdates_proofs` proves, for any users, requests, names, payloads, required permissions
and number of hooks:

- `UpdateInvHolds`, with `TypesHold`. The three action properties speak of a commit and
  follow only from what is true of every session before it: `SessionsMatch` (it holds the
  objects of its own request's caller and target and is empty between requests),
  `OnlyTargetDirty` (only the loaded target differs from what was read, and by the payload),
  `CallersAllowed` (a request past its guards carries what its caller may send) and
  `HooksPassed` (whoever is at the commit has run every hook). `UpdateInv` is their
  conjunction with the types.
- `OnlyAccepted`, `ChangesAnswer`, `AnsweredUpdates`: the properties of the run
  `user_updates`. The lemma `GuardsAskForSuperuser` carries the guards: `required` is not
  empty and only the admin role grants anything, so each route that may write a flag asks
  for the superuser.

`AccountAccess_proofs` proves, for any requests, token pairs, links and lifetime, and any
number of faults:

- `AccessInvariance`, with `TypeCorrect`. That no session of a settled password is alive
  unless it straddled says nothing of the requests about to insert one, so `AccessInv` adds
  that a request opening with a settled password straddles, as does a pair of one whose
  access token is not minted yet (`OpenersStraddle`), that what is
  held or carried was issued (`HeldIssued`, `RequestsTyped`), and that the time left to an
  outdated access token fits in what remains of the lifetime since the revocation
  (`OutdatedTimesOut`), which is what bounds `StaleAccessIsBrief`.
- `ResetEndsOldSessions`, `LeftoversHaveACause`, `StaleAccessEnds`: the safety properties of
  the run `reset`.
- `Refinement`: the sessions implement `SessionLedger`, which `RefreshSessions` implements
  too, so both modules keep one contract of the refresh rows, here with resets, crashes and
  lost answers among the requests. The ledger remembers what a token was given for;
  `HistorySpec` records it in a variable of the proof module, `from`, that no step reads
  (every step of `Next` has exactly one record). What the mapping needs beyond the types is
  `RevokedBeforeIssue`: a rotation about to insert presented a token revoked since. No run
  checks this theorem: the variable would multiply the states of the slowest run.

`AccountRow_proofs` proves, for any requests, links, names, handlers and settings:

- `RowInvariant`, with `TypesHold`. The action properties speak of one save; what they need is
  true of every copy in flight: it differs from the row as read in its own handler's columns
  only, and in that handler's direction (`OwnChange`): a new reset hash is the one its request
  minted or none at all, a new password comes with a reset, a cleared lock with a reset or a
  right password, and a flag with an admin or, for `is_verified`, a verification.
- With changed-column saves (`Backend = "sqlalchemy"`): `LinksStaySpent`,
  `OldPasswordsStayOver`, `FlagsAnswerToAdmin`, `LocksHold`, the four properties of the run
  `account`. The lemma `ColumnChanges` is the step all four take: a column that changed was
  changed by a save whose copy differs there.

`Guessing_proofs` proves, for any finite number of requests, any threshold, any lock duration
and both repositories:

- `GuessesStayBounded`: `GuessesBounded`. The count a request has in use is the one it loaded,
  while it is about to save, and the stored one otherwise. For each level `c` below the
  threshold take how many requests use a count of at least `c`: the `Profile`. A wrong
  password that does not lock and whose request had loaded `a` stores `a + 1`. It may store
  less than is there, so profiles do not simply grow; but one request more uses at least
  `a + 1`, and none fewer uses at least any `c` below it: the profile goes up in the order
  `Below`, and none comes twice between two locks. `GuessInv` says that the failures are at
  most the profiles passed (`GuessingInvariant`), and there are as many profiles as multisets
  of `n` requests over `max` counts, `choose(max - 1 + n, n)`.
- The counting is by induction, of which the library's theorems are out of the provers' reach;
  the proof goes through least elements (`LeastNatural`, `SetInduction`) instead, and through
  the factorial's own recursion for `choose`.
- A crash is not among the steps of `Guessing`. One would let the copy with the highest count
  be dropped, and the profile fall: the bound is about requests that reach their save.

`Accounts_proofs` proves, for any requests, users, addresses and identities:

- `TypeCorrect` and, for both repositories, `AddressesStayDistinct`.
- With SQLAlchemy `LinksInvariant`, and from it `IdentitiesStable` and `SignedInStayLinked`.
  The invariant adds `LinksKept`: an identity has at most one account, the account of its
  first sign-in keeps the link, a request past linking works on the linked account, and no
  copy about to be saved differs in its links. With Beanie none of it holds
  (`beanie_identity`).

`Composition_proofs` proves, for any deployments, consumer mixins, overrides, leftovers and
Bases:

- `RootInvariant`: `RootInv` says what each stage has established once it is past.
- `HooksFollowDependencies`, which rests on `SortedIsAll` (a sequence without repetition, as
  long as the set of plugins has members, has them all), `FieldsAreStored`,
  `MetadataStaysOwn` and `MigrationAgrees`.
- `TypesHold`: the type invariant, whose columns are all `Nameable`: by the core, by a plugin
  or one of its classes, by the consumer, an override or a table that was there. With it every
  property of the run `root` is proved.

Assumptions are those the modules name: `None` is not a user, token, link, address or
identity, the backend is one of two, settings are positive, the host hooks are finitely many
and none is called `two_factor`, the guessing requests are finitely many, a host route asks for at least one permission, a payload
holds values of the types its schema declares, and the plugins of a deployment are a
sequence with distinct names.

Only model-checked: all liveness (`GuessingEndsInLock`, `RetrySucceeds`, `LeftoversEnd`),
which the proof system does not reach. Every invariant and every action property of the
passing runs is proved.

SANY and the proof system do not parse `UNION S \cup T` alike (the latter reads
`UNION (S \cup T)`), and likewise with `SUBSET`; such operands are in parentheses throughout,
so that both tools see one model.

## What the code does not promise

The properties are stated around behaviour that the code allows by design or by accident.
A reader should not take these for guaranteed:

- Two concurrent refreshes of one token both succeed (`core/services/authentication.py:241`
  does not look at whether the update changed a row), so a token may have two successors.
- A successor inserted after a mass revocation survives it, as does the session of a login
  that had already checked the old password when a reset ran.
- A crash between the save and `revoke_all_for_user` of a reset
  (`core/services/password_reset.py:93`) leaves the old sessions alive and the link spent.
  They end with the next reset that gets through, and until then `LeftoversExplained` is all
  there is to say.
- An access token goes on letting its holder in until it expires, whatever happened to the
  refresh rows or the password: `StaleAccessIsBrief` bounds it by one lifetime from the
  revocation. It opens `logout_all` too, so its holder can end the sessions opened since.
- `_issue_tokens` commits the refresh row and mints the access token one await later
  (`core/services/authentication.py:303-312`). When a reset saves and revokes in between, the
  row is dead, so the pair cannot be rotated, but the access token lives a whole lifetime
  from its minting. Such a pair straddles the revocation (`Straddled`), as do those whose
  insert comes after it, and `StaleAccessIsBrief` says nothing of them.
- Two resets that overlap with one link both set a password, the later save wins, although
  `core/services/__init__.py:20-21` describes the tokens as single-use. A link whose reset has
  been saved is dead (`SpentForGood`).
- `BeanieAuth` without a mixin that adds `display_name` is refused by its own contract check;
  `tests/fastapi/test_beanie_composition.py:98-104` builds it with one.
- A two-factor plugin object that is given to two roots keeps the token service of the first
  (`plugins/two_factor/__init__.py:43`).
- Concurrent guesses overwrite each other's counter: more than the threshold fit before the
  lock.
- `request_reset` does not lower-case the address that `register` did.
- With Beanie: whole-document saves undo concurrent changes; `get_by_provider_account`
  (`beanie/repositories.py:158`) can match two different array elements (`beanie_identity`);
  identities are not unique; links and refresh rows are written through the static models
  rather than the composed one, and `init_beanie_db` registers the static models only.
- A provider address that moves onto another account's address ends the sign-in with a
  storage error (`core/services/authentication.py:189`).
- The loser of two concurrent registrations of one address gets `UnknownError` with
  SQLAlchemy (`sqlalchemy/repositories.py:177`), not the `EmailAlreadyExistsError` that its
  docstring and `core/services/authentication.py` announce.
- An `on_after_register` hook that raises to reject leaves the account behind.
- The admin routes hand the path's id to the service as `str`
  (`fastapi/routers/users.py:64,78`). Beanie's `find_one` matches no `ObjectId` with it, so
  both answer 404 there, although `src/tests/fastapi/test_user_update.py:56` says that the
  real repository converts; with SQLAlchemy they rely on a driver that takes a string for a
  UUID. `UserUpdates` assumes such a driver.
- `UserAdminUpdate` declares no `display_name`, which its docstring and its route promise.
- Two updates of several fields may interleave to a row neither asked for, and a field sent
  with the value it already had is not written: `AnsweredTookEffect` says exactly that much.
- A request let in before its caller was demoted or deactivated still commits, and nothing
  keeps the last superuser from demoting or deactivating themselves.
- An explicit `null` for a flag passes the schema and fails at the commit, after the hooks.
- A storage context or SQLAlchemy root tears the shared registry and tables down before it
  looks for collisions: a construction that is refused has still taken the models of the one
  before it. Extra tables that bear a taken name are skipped without a word; one named
  `refresh_tokens` or `oauth_account` ends in a table error.
- `SqlaStorageContext` opens one session per repository for good (`sqlalchemy/context.py:93`).
  Shared by the requests of a process, these would break every property of `UserUpdates`;
  its mutant `Session_Shared` shows how.
- `SQLAlchemyAuth` reads only `table_mixin`: a plugin's `sqla_columns`, `sqla_tables` and
  `related_models` are ignored there.
- `migrate sync` keeps the first of two tables or columns of one name without a word: a table
  of the consumer's Base hides the root's, and a plugin's `sqla_columns` are dropped where the
  user table already has the name. A Beanie application whose plugins declare `sqla_columns`
  gets a migration with an SQL user table. An application without plugins is refused.
- A challenged login leaves a live refresh row that nobody was given.
- OAuth sign-in issues tokens without the transform chain, so it asks for no second factor.
- The collision check tells mixins apart by class name (`core/plugins/collisions.py:70`), so
  two classes with one name pass as one owner; and of a class that is not a pydantic model it
  reads the own annotations only (line 55), so inherited fields and columns assigned without
  an annotation are composed unseen. `Composition` therefore gives a class two sets, `declared`
  and `fields`. That two mixins never share a field (`docs/PLUGINS_ARCH.md:22-24`) and that
  `email` and `password` never get onto an update mixin (`docs/PLUGINS_ARCH.md:28-30`) holds
  for what the check sees, not for these: TLC finds both in the deployments of `root`. What
  is left of it is `AcceptedFieldsAreStored`, whose one exception is a `password` that an
  update schema accepts without a column for it.
- `Composition` assumes distinct plugin names, because `resolve_plugin_order` keeps one of two
  plugins that share a name without a word.
- `validate_password` hooks are never called.

## Not modelled

- Cryptography: a JWT is its family and what it names; hashes are perfect; Argon2 either
  matches or not.
- Service registry: only type annotations refer to it in `src/src/`, and its own unit test is
  what constructs one; the composition roots wire their services by hand. A model would have
  no caller, and its properties would restate two guards.
- A mixin class that is a subclass of another one in the same deployment: whether Python finds
  an order for their bases depends on which comes first. An override may inherit what it
  replaces.
- Two composition roots or contexts alive in one process, and the Beanie class cache.
- The code exchange with an OAuth provider and the Google client: external; `oauth_login` is
  modelled from its arguments on, and the state token by its family.
- `on_after_update` hooks that use the database themselves: host code.
- HTTP parsing and error rendering, e-mail rendering, the birthday plugin's age check:
  formatting or stateless checks.
- Of the migration CLI: the import of the application, Alembic and what it finds in the
  database, the report about the generated file.

## Plan

Done, in this order because sessions carry the most: `RefreshSessions` with its ledger and
proofs, `AccountRow`, `Accounts`, `LoginFlow` with its proofs, `Composition`, `UserUpdates`
with its proofs, storage contexts and their tables in `Composition`, `AccountAccess` with its
proofs, the migration in `Composition`, then the proofs of `Accounts`, `AccountRow` and
`Composition`, the bound on guesses, and the ledger implemented by `AccountAccess`.

What is left:

1. Two composition roots or contexts alive in one process, which share the registry, the
   metadata and possibly plugin objects.
2. `AccountAccess` with several users and the lockout, so that one module has every reason a
   session begins or ends; its state space would need symmetry and so lose its liveness run.
