---------------------------- MODULE Accounts_proofs ----------------------------
(***************************************************************************)
(* Proofs about Accounts, for any sets of requests, users, addresses and   *)
(* identities.                                                             *)
(***************************************************************************)
EXTENDS Accounts, TLAPS

(* The inductive invariant. *)

\* What a request carries, by the storage call it is at.
RequestsTyped ==
    \A r \in Request :
        /\ at[r] \in {"mail", "hook"} => kind[r] = "register"
        /\ at[r] \in {"byLink", "byEmail", "saveEmail", "saveVerified", "link",
                      "saveLink", "issue"} => kind[r] = "oauth"
        /\ SignedIn(r) => kind[r] = "oauth"
        /\ at[r] # "idle" => kind[r] # "none" /\ address[r] \in Email
        /\ kind[r] = "oauth" => ident[r] \in Identity
        /\ \/ SignedIn(r)
           \/ at[r] \in {"byLink", "saveEmail", "saveVerified", "link", "saveLink", "issue"}
           => uid[r] \in User
        /\ at[r] \in {"saveEmail", "saveVerified", "saveLink"} => mine[r].email \in Email

\* A request works on an account that exists, and what does not exist has no link.
UsersExist ==
    /\ \A r \in Request : uid[r] \in User => Exists(uid[r])
    /\ \A u \in User, i \in Identity : row[u].links[i] > 0 => Exists(u)

Typed == TypeOK /\ RequestsTyped /\ UsersExist

\* With unique indexes and changed-column saves: an identity has one account; the
\* account it signed in to first keeps the link; a request that came by the link, or
\* is past linking, works on the linked account; and no save touches links.
LinksKept ==
    /\ \A i \in Identity, u, v \in User :
          row[u].links[i] > 0 /\ row[v].links[i] > 0 => u = v
    /\ \A i \in Identity : signedIn[i] # None => row[signedIn[i]].links[i] > 0
    /\ \A r \in Request :
          /\ at[r] \in {"byLink", "saveEmail", "issue"} => row[uid[r]].links[ident[r]] > 0
          /\ at[r] \in {"saveEmail", "saveVerified"} => mine[r].links = loaded[r].links
          /\ at[r] # "saveLink"

AccountsInv == Typed /\ LinksKept /\ IdentityIsStable /\ SignedInIsLinked
------------------------------------------------------------------------------

Fields == {"email", "is_verified", "is_active", "links"}

\* A save merges two copies of a row into it, attribute by attribute.
LEMMA SavedRow ==
    ASSUME NEW a \in Row, NEW b \in Row, NEW c \in Row
    PROVE  LET s == Saved(Backend, a, b, c) IN
           /\ s \in Row
           /\ s.email \in {a.email, c.email}
           /\ Backend = "sqlalchemy" /\ c.links = b.links => s.links = a.links
<1> DEFINE s == Saved(Backend, a, b, c)
<1>1. DOMAIN a = Fields
  BY DEF Row, Fields
<1>2. s = [f \in Fields |-> IF Backend = "beanie" \/ c[f] # b[f] THEN c[f] ELSE a[f]]
  BY <1>1 DEF Saved
<1>3. s["email"] \in {a.email, c.email} /\ s["links"] \in {a.links, c.links}
  BY <1>2 DEF Fields
<1>4. s["is_verified"] \in {a.is_verified, c.is_verified} /\ s["is_active"] \in {a.is_active, c.is_active}
  BY <1>2 DEF Fields
<1>5. s = [email |-> s["email"], is_verified |-> s["is_verified"],
           is_active |-> s["is_active"], links |-> s["links"]]
  BY <1>2 DEF Fields
<1>6. /\ a.email \in Email \cup {None} /\ c.email \in Email \cup {None}
      /\ a.links \in Links /\ c.links \in Links
      /\ a.is_verified \in BOOLEAN /\ c.is_verified \in BOOLEAN
      /\ a.is_active \in BOOLEAN /\ c.is_active \in BOOLEAN
  BY Zenon DEF Row
<1>7. /\ s["email"] \in Email \cup {None} /\ s["links"] \in Links
  BY <1>3, <1>6
<1>8. /\ s["is_verified"] \in BOOLEAN /\ s["is_active"] \in BOOLEAN
  BY <1>4, <1>6, Zenon
<1>9. s \in Row
  BY <1>5, <1>7, <1>8, Zenon DEF Row
<1>10. Backend = "sqlalchemy" /\ c.links = b.links => s.links = a.links
  BY <1>2 DEF Fields
<1> QED
  BY <1>3, <1>9, <1>10

\* A copy whose links are as read leaves the links of the stored row alone.
LEMMA SavedLinks ==
    ASSUME NEW a \in Row, NEW b \in Row, NEW c \in Row,
           Backend = "sqlalchemy", c.links = b.links
    PROVE  Saved(Backend, a, b, c).links = a.links
  BY SavedRow

\* A row with one attribute replaced is a row.
LEMMA RowUpdates ==
    ASSUME NEW a \in Row, NEW e \in Email \cup {None}, NEW b \in BOOLEAN
    PROVE  /\ [a EXCEPT !.email = e] \in Row
           /\ [a EXCEPT !.is_verified = b] \in Row
           /\ [a EXCEPT !.is_active = b] \in Row
           /\ \A i \in Identity : [a EXCEPT !.links[i] = @ + 1] \in Row
<1>1. [a EXCEPT !.email = e] \in Row
  BY Zenon DEF Row
<1>2. [a EXCEPT !.is_verified = b] \in Row
  BY Zenon DEF Row
<1>3. [a EXCEPT !.is_active = b] \in Row
  BY Zenon DEF Row
<1>4. ASSUME NEW i \in Identity PROVE [a EXCEPT !.links[i] = @ + 1] \in Row
  <2>1. [a.links EXCEPT ![i] = @ + 1] \in Links
    BY DEF Row, Links
  <2>2. [a EXCEPT !.links[i] = @ + 1] = [a EXCEPT !.links = [a.links EXCEPT ![i] = @ + 1]]
    BY DEF Row
  <2>3. [a EXCEPT !.links = [a.links EXCEPT ![i] = @ + 1]] \in Row
    BY <2>1, Zenon DEF Row
  <2> QED
    BY <2>2, <2>3
<1> QED
  BY <1>1, <1>2, <1>3, <1>4

\* The row of an id not in use, and that of a new account.
LEMMA NewRow ==
    /\ Absent \in Row
    /\ \A e \in Email, v \in BOOLEAN : NewUser(e, v) \in Row
<1>1. NoLinks \in Links
  BY DEF NoLinks, Links
<1>2. Absent \in Row
  BY <1>1, Zenon DEF Absent, Row
<1>3. ASSUME NEW e \in Email, NEW v \in BOOLEAN PROVE NewUser(e, v) \in Row
  <2>1. TRUE \in BOOLEAN /\ e \in Email \cup {None}
    OBVIOUS
  <2> QED
    BY <1>1, <2>1, Zenon DEF NewUser, Row
<1> QED
  BY <1>2, <1>3, Zenon

\* Nothing exists at first.
LEMMA InitTyped == Init => Typed
<1> SUFFICES ASSUME Init PROVE Typed
  OBVIOUS
<1>1. TypeOK
  BY NewRow, FaultsAssumption DEF Init, TypeOK, Points, Outcomes
<1>2. RequestsTyped
  BY DEF Init, RequestsTyped, SignedIn
<1>3. UsersExist
  BY NoneAssumption DEF Init, UsersExist, Absent, NoLinks
<1> QED
  BY <1>1, <1>2, <1>3 DEF Typed

\* A step keeps the types and what requests carry.
LEMMA StepTyped == Typed /\ [Next]_vars => Typed'
<1> SUFFICES ASSUME Typed, [Next]_vars PROVE Typed'
  OBVIOUS
<1> USE NoneAssumption, FaultsAssumption DEF Typed, TypeOK, RequestsTyped, UsersExist, Points, Outcomes, SignedIn, Exists
<1>1. ASSUME NEW r \in Request, NEW e \in Email, Register(r, e) PROVE Typed'
  BY <1>1, SMT DEF Register
<1>2. ASSUME NEW r \in Request, Mail(r) \/ Hook(r) PROVE Typed'
  BY <1>2, SMT DEF Mail, Hook, Goto, Reply
<1>3. ASSUME NEW r \in Request, MailOrHookFails(r) PROVE Typed'
  BY <1>3, SMT DEF MailOrHookFails, Reply
<1>4. ASSUME NEW r \in Request, NEW i \in Identity, NEW e \in Email, OAuthLogin(r, i, e) PROVE Typed'
  BY <1>4, SMT DEF OAuthLogin, FoundByIdentity, LinkedUsers
<1>5. ASSUME NEW r \in Request, Issue(r) PROVE Typed'
  BY <1>5, SMT DEF Issue, Reply
<1>6. ASSUME NEW r \in Request, Answer(r) \/ Crash(r) PROVE Typed'
  BY <1>6, NewRow, SMT DEF Answer, Crash, Forget
<1>7. CASE UNCHANGED vars
  BY <1>7, SMT DEF vars, locals
<1>8. ASSUME NEW r \in Request, Create(r) PROVE Typed'
  <2>1. CASE Reply(r, DuplicateError) /\ UNCHANGED row
    BY <1>8, <2>1, SMT DEF Create, Reply, DuplicateError
  <2>2. CASE ~(Reply(r, DuplicateError) /\ UNCHANGED row)
    <3> DEFINE new == NewUser(address[r], kind[r] = "oauth")
    <3>1. PICK u \in User :
            /\ ~Exists(u)
            /\ row' = [row EXCEPT ![u] = new]
            /\ loaded' = [loaded EXCEPT ![r] = new] /\ mine' = [mine EXCEPT ![r] = new]
            /\ uid' = [uid EXCEPT ![r] = u]
      BY <1>8, <2>2 DEF Create
    <3>2. (kind[r] = "oauth") \in BOOLEAN /\ address[r] \in Email
      BY <1>8 DEF Create
    <3>3. new \in Row
      BY <3>2, NewRow, Zenon
    <3>4. new.email = address[r] /\ new.links = NoLinks
      BY DEF NewUser
    <3>5. /\ at' = [at EXCEPT ![r] = IF kind[r] = "oauth" THEN "link" ELSE "mail"]
          /\ at[r] = "create"
          /\ UNCHANGED <<kind, ident, address, outcome, faults, signedIn>>
      BY <1>8, <2>2 DEF Create
    <3> HIDE DEF new
    <3>6. TypeOK'
      BY <3>1, <3>3, <3>5
    <3>7. RequestsTyped'
      BY <3>1, <3>2, <3>4, <3>5
    <3>8. UsersExist'
      <4>1. (\A q \in Request : uid[q] \in User => Exists(uid[q]))'
        BY <3>1, <3>2, <3>4
      <4>2. \A i \in Identity : new.links[i] = 0
        BY <3>4 DEF NoLinks
      <4>3. ASSUME NEW v \in User, NEW i \in Identity, row'[v].links[i] > 0 PROVE Exists(v)'
        <5>1. v # u
          BY <3>1, <4>2, <4>3
        <5> QED
          BY <3>1, <4>3, <5>1
      <4> QED
        BY <4>1, <4>3
    <3> QED
      BY <3>6, <3>7, <3>8
  <2> QED
    BY <2>1, <2>2
<1>9. ASSUME NEW r \in Request, ByLink(r) PROVE Typed'
  <2>1. CASE Reply(r, "inactive")
    BY <1>9, <2>1, SMT DEF ByLink, Reply
  <2>2. CASE ~Reply(r, "inactive")
    <3>1. row[uid[r]] \in Row /\ address[r] \in Email /\ uid[r] \in User
      BY <1>9 DEF ByLink
    <3> DEFINE copy == [row[uid[r]] EXCEPT !.email = address[r]]
    <3>2. copy \in Row
      BY <3>1, RowUpdates, Zenon
    <3>3. copy.email = address[r]
      BY <3>1 DEF Row
    <3>4. PICK next \in {"issue", "saveEmail"} : Fetch(r, uid[r], copy, next)
      BY <1>9, <2>2 DEF ByLink
    <3>5. at[r] = "byLink" /\ UNCHANGED <<row, faults, signedIn>>
      BY <1>9 DEF ByLink
    <3> HIDE DEF copy
    <3> QED
      BY <3>1, <3>2, <3>3, <3>4, <3>5, SMT DEF Fetch
  <2> QED
    BY <2>1, <2>2
<1>10. ASSUME NEW r \in Request, ByEmail(r) PROVE Typed'
  <2>1. CASE Reply(r, "inactive") \/ Goto(r, "create")
    BY <1>10, <2>1, SMT DEF ByEmail, Reply, Goto
  <2>2. CASE ~(Reply(r, "inactive") \/ Goto(r, "create"))
    <3>1. PICK u \in WithEmail(address[r]) :
            Fetch(r, u, [row[u] EXCEPT !.is_verified = TRUE], "saveVerified")
      BY <1>10, <2>2 DEF ByEmail
    <3> DEFINE copy == [row[u] EXCEPT !.is_verified = TRUE]
    <3>2. row[u] \in Row /\ address[r] \in Email /\ u \in User /\ row[u].email = address[r]
      BY <1>10 DEF ByEmail, WithEmail
    <3>3. copy \in Row
      BY <3>2, RowUpdates, Zenon
    <3>4. copy.email = address[r]
      BY <3>2 DEF Row
    <3>5. Fetch(r, u, copy, "saveVerified") /\ at[r] = "byEmail" /\ UNCHANGED <<row, faults, signedIn>>
      BY <1>10, <3>1 DEF ByEmail
    <3> HIDE DEF copy
    <3> QED
      BY <3>2, <3>3, <3>4, <3>5, SMT DEF Fetch
  <2> QED
    BY <2>1, <2>2
<1>11. ASSUME NEW r \in Request, Link(r) PROVE Typed'
  <2> DEFINE linked == [row[uid[r]] EXCEPT !.links[ident[r]] = @ + 1]
  <2>1. row[uid[r]] \in Row /\ uid[r] \in User /\ ident[r] \in Identity
    BY <1>11 DEF Link
  <2>2. linked \in Row
    BY <2>1, RowUpdates, Zenon
  <2>3. linked.email = row[uid[r]].email
    BY <2>1 DEF Row
  <2>4. /\ \/ Fetch(r, uid[r], linked, "saveLink") /\ UNCHANGED row
           \/ row' = [row EXCEPT ![uid[r]] = linked] /\ Goto(r, "issue")
           \/ Reply(r, "storage_error") /\ UNCHANGED row
        /\ at[r] = "link" /\ UNCHANGED <<faults, signedIn>>
    BY <1>11, Zenon DEF Link
  <2> HIDE DEF linked
  <2>5. CASE Fetch(r, uid[r], linked, "saveLink") /\ UNCHANGED row
    BY <2>1, <2>2, <2>3, <2>4, <2>5, SMT DEF Fetch, Row
  <2>6. CASE row' = [row EXCEPT ![uid[r]] = linked] /\ Goto(r, "issue")
    BY <2>1, <2>2, <2>3, <2>4, <2>6, SMT DEF Goto
  <2>7. CASE Reply(r, "storage_error") /\ UNCHANGED row
    BY <2>4, <2>7, SMT DEF Reply
  <2> QED
    BY <2>4, <2>5, <2>6, <2>7
<1>12. ASSUME NEW r \in Request, Save(r) PROVE Typed'
  <2>1. /\ row[uid[r]] \in Row /\ loaded[r] \in Row /\ mine[r] \in Row
        /\ uid[r] \in User /\ mine[r].email \in Email /\ row[uid[r]].email \in Email
    BY <1>12 DEF Save, Row
  <2>2. Result(r) \in Row /\ Result(r).email \in {row[uid[r]].email, mine[r].email}
    BY <2>1, SavedRow, Zenon DEF Result
  <2>3. CASE row' = [row EXCEPT ![uid[r]] = Result(r)] /\ Goto(r, AfterSave(r))
    BY <1>12, <2>1, <2>2, <2>3, SMT DEF Save, Goto, AfterSave
  <2>4. CASE Reply(r, "storage_error") /\ UNCHANGED row
    BY <1>12, <2>4, SMT DEF Save, Reply
  <2> QED
    BY <1>12, <2>3, <2>4 DEF Save
<1>13. ASSUME NEW u \in User, NEW b \in BOOLEAN, SetActive(u, b) PROVE Typed'
  <2>1. [row[u] EXCEPT !.is_active = b] \in Row
    BY RowUpdates, Zenon
  <2>2. row' = [row EXCEPT ![u] = [row[u] EXCEPT !.is_active = b]]
    BY <1>13, Zenon DEF SetActive
  <2>3. /\ [row[u] EXCEPT !.is_active = b].email = row[u].email
        /\ [row[u] EXCEPT !.is_active = b].links = row[u].links
    BY DEF Row
  <2> DEFINE new == [row[u] EXCEPT !.is_active = b]
  <2>4. UNCHANGED <<locals, faults, signedIn>>
    BY <1>13 DEF SetActive
  <2> HIDE DEF new
  <2> QED
    BY <2>1, <2>2, <2>3, <2>4, SMT DEF locals, new
<1> QED
  BY <1>1, <1>2, <1>3, <1>4, <1>5, <1>6, <1>7, <1>8, <1>9, <1>10, <1>11, <1>12, <1>13
  DEF Next, Arrive, Progress, Fault

\* Most steps leave the addresses alone; an insert and a save ask the unique index.
LEMMA StepAddresses == Typed /\ Typed' /\ AddressesDistinct /\ [Next]_vars => AddressesDistinct'
<1> SUFFICES ASSUME Typed, Typed', AddressesDistinct, [Next]_vars PROVE AddressesDistinct'
  OBVIOUS
<1> USE NoneAssumption DEF AddressesDistinct, Exists
<1>1. CASE \A u \in User : row'[u].email = row[u].email
  BY <1>1
<1>2. ASSUME NEW u \in User, NEW e \in Email, EmailFree(e, u) \/ EmailFree(e, None),
             NEW new \in Row, new.email = e, row' = [row EXCEPT ![u] = new]
      PROVE  AddressesDistinct'
  <2>1. \A v \in User : v # u => row[v].email # e
    BY <1>2 DEF EmailFree, WithEmail
  <2>2. \A v \in User : row'[v] = IF v = u THEN new ELSE row[v]
    BY <1>2 DEF Typed, TypeOK
  <2> QED
    BY <1>2, <2>1, <2>2
<1>3. CASE UNCHANGED row
  BY <1>3
<1>4. ASSUME NEW r \in Request, Create(r) PROVE AddressesDistinct'
  <2>1. CASE UNCHANGED row
    BY <2>1
  <2>2. CASE ~UNCHANGED row
    <3> DEFINE new == NewUser(address[r], kind[r] = "oauth")
    <3>1. PICK u \in User : row' = [row EXCEPT ![u] = new] /\ EmailFree(address[r], None)
      BY <1>4, <2>2 DEF Create
    <3>2. address[r] \in Email /\ (kind[r] = "oauth") \in BOOLEAN
      BY <1>4 DEF Create, Typed, RequestsTyped
    <3>3. new \in Row
      BY <3>2, NewRow, Zenon
    <3>4. new.email = address[r]
      BY DEF NewUser
    <3> HIDE DEF new
    <3> QED
      BY <1>2, <3>1, <3>2, <3>3, <3>4
  <2> QED
    BY <2>1, <2>2
<1>5. ASSUME NEW r \in Request, Save(r) PROVE AddressesDistinct'
  <2>1. CASE UNCHANGED row
    BY <2>1
  <2>2. CASE ~UNCHANGED row
    <3>1. row' = [row EXCEPT ![uid[r]] = Result(r)] /\ EmailFree(Result(r).email, uid[r])
      BY <1>5, <2>2 DEF Save
    <3>2. /\ row[uid[r]] \in Row /\ loaded[r] \in Row /\ mine[r] \in Row
          /\ uid[r] \in User /\ mine[r].email \in Email /\ row[uid[r]].email \in Email
      BY <1>5 DEF Save, Typed, TypeOK, RequestsTyped, UsersExist, Row
    <3>3. Result(r) \in Row /\ Result(r).email \in {row[uid[r]].email, mine[r].email}
      BY <3>2, SavedRow, Zenon DEF Result
    <3>4. Result(r).email \in Email
      BY <3>2, <3>3
    <3> QED
      BY <1>2, <3>1, <3>2, <3>3, <3>4
  <2> QED
    BY <2>1, <2>2
<1>6. ASSUME NEW r \in Request, Link(r) PROVE AddressesDistinct'
  <2>1. CASE UNCHANGED row
    BY <2>1
  <2>2. CASE ~UNCHANGED row
    <3>1. row' = [row EXCEPT ![uid[r]] = [row[uid[r]] EXCEPT !.links[ident[r]] = @ + 1]]
      BY <1>6, <2>2, Zenon DEF Link
    <3>2. \A u \in User : row[u] \in Row
      BY DEF Typed, TypeOK
    <3>3. \A u \in User : row'[u].email = row[u].email
      BY <3>1, <3>2 DEF Typed, TypeOK, Row
    <3> QED
      BY <1>1, <3>3
  <2> QED
    BY <2>1, <2>2
<1>7. ASSUME NEW u \in User, NEW b \in BOOLEAN, SetActive(u, b) PROVE AddressesDistinct'
  <2>1. row' = [row EXCEPT ![u] = [row[u] EXCEPT !.is_active = b]]
    BY <1>7, Zenon DEF SetActive
  <2>2. \A v \in User : row[v] \in Row
    BY DEF Typed, TypeOK
  <2>3. \A v \in User : row'[v].email = row[v].email
    BY <2>1, <2>2 DEF Typed, TypeOK, Row
  <2> QED
    BY <1>1, <2>3
<1>8. ASSUME NEW r \in Request, ByLink(r) \/ ByEmail(r) \/ Issue(r) \/ Answer(r) \/ Mail(r) \/ Hook(r)
      PROVE  UNCHANGED row
  BY <1>8 DEF ByLink, ByEmail, Issue, Answer, Forget, Mail, Hook
<1>9. ASSUME NEW r \in Request, Arrive(r) \/ Fault(r) PROVE UNCHANGED row
  BY <1>9 DEF Arrive, Register, OAuthLogin, Fault, MailOrHookFails, Crash, Forget
<1>10. CASE UNCHANGED vars
  BY <1>3, <1>10 DEF vars
<1> QED
  BY <1>3, <1>4, <1>5, <1>6, <1>7, <1>8, <1>9, <1>10 DEF Next, Progress

\* Whatever requests interleave, rows, copies and control points keep their types.
THEOREM TypeCorrect == Spec => []TypeOK
<1>1. Spec => []Typed
  BY InitTyped, StepTyped, PTL DEF Spec
<1> QED
  BY <1>1, PTL DEF Typed

\* No step gives two accounts one address, whichever repositories: what a race or a
\* moving address could do, the unique index refuses.
THEOREM AddressesStayDistinct == Spec => []AddressesDistinct
<1>1. Init => AddressesDistinct
  BY NoneAssumption DEF Init, AddressesDistinct, Exists, Absent
<1>2. Spec => []Typed
  BY InitTyped, StepTyped, PTL DEF Spec
<1> QED
  BY <1>1, <1>2, StepAddresses, PTL DEF Spec

------------------------------------------------------------------------------
(* Identities, with SQLAlchemy: a unique index on the links, and saves that write *)
(* the changed columns only.                                                      *)

\* No request touches a link but the one at "link", and that asks the unique index.
LEMMA StepLinks ==
    Backend = "sqlalchemy" /\ AccountsInv /\ Typed' /\ [Next]_vars
        => LinksKept' /\ IdentityIsStable' /\ SignedInIsLinked'
<1> SUFFICES ASSUME Backend = "sqlalchemy", AccountsInv, Typed', [Next]_vars
             PROVE  LinksKept' /\ IdentityIsStable' /\ SignedInIsLinked'
  OBVIOUS
<1> DEFINE Goal == LinksKept' /\ IdentityIsStable' /\ SignedInIsLinked'
<1> USE NoneAssumption DEF AccountsInv, LinksKept, IdentityIsStable, SignedInIsLinked,
        Typed, TypeOK, RequestsTyped, SignedIn, Points, Outcomes, UsersExist
<1>1. ASSUME NEW r \in Request, NEW e \in Email, Register(r, e) PROVE Goal
  BY <1>1, SMT DEF Register
<1>2. ASSUME NEW r \in Request, Mail(r) \/ Hook(r) \/ MailOrHookFails(r) PROVE Goal
  BY <1>2, SMT DEF Mail, Hook, MailOrHookFails, Goto, Reply
<1>3. ASSUME NEW r \in Request, NEW i \in Identity, NEW e \in Email, OAuthLogin(r, i, e) PROVE Goal
  BY <1>3, SMT DEF OAuthLogin, FoundByIdentity, LinkedUsers
<1>4. ASSUME NEW r \in Request, Issue(r) PROVE Goal
  BY <1>4, SMT DEF Issue, Reply
<1>5. ASSUME NEW r \in Request, Answer(r) \/ Crash(r) PROVE Goal
  <2>1. /\ at' = [at EXCEPT ![r] = "idle"]
        /\ UNCHANGED <<row, signedIn>>
        /\ \A q \in Request \ {r} :
              /\ ident'[q] = ident[q] /\ uid'[q] = uid[q] /\ outcome'[q] = outcome[q]
              /\ mine'[q] = mine[q] /\ loaded'[q] = loaded[q]
    BY <1>5 DEF Answer, Crash, Forget
  <2> QED
    BY <2>1
<1>6. CASE UNCHANGED vars
  BY <1>6, SMT DEF vars, locals
<1>7. ASSUME NEW r \in Request, Create(r) PROVE Goal
  <2>1. CASE Reply(r, DuplicateError) /\ UNCHANGED row
    BY <1>7, <2>1, SMT DEF Create, Reply, DuplicateError
  <2>2. CASE ~(Reply(r, DuplicateError) /\ UNCHANGED row)
    <3> DEFINE new == NewUser(address[r], kind[r] = "oauth")
    <3>1. PICK u \in User :
            /\ ~Exists(u)
            /\ row' = [row EXCEPT ![u] = new]
            /\ loaded' = [loaded EXCEPT ![r] = new] /\ mine' = [mine EXCEPT ![r] = new]
            /\ uid' = [uid EXCEPT ![r] = u]
      BY <1>7, <2>2 DEF Create
    <3>2. \A i \in Identity : new.links[i] = 0
      BY DEF NewUser, NoLinks
    <3>3. /\ at' = [at EXCEPT ![r] = IF kind[r] = "oauth" THEN "link" ELSE "mail"]
          /\ at[r] = "create"
          /\ UNCHANGED <<kind, ident, address, outcome, faults, signedIn>>
      BY <1>7, <2>2 DEF Create
    <3> HIDE DEF new
    <3>4. \A v \in User, i \in Identity :
            /\ row'[v].links[i] > 0 <=> row[v].links[i] > 0
            /\ row[v].links[i] > 0 => v # u
      BY <3>1, <3>2
    <3> QED
      BY <3>1, <3>3, <3>4
  <2> QED
    BY <2>1, <2>2
<1>8. ASSUME NEW r \in Request, ByLink(r) PROVE Goal
  <2>1. CASE Reply(r, "inactive")
    BY <1>8, <2>1, SMT DEF ByLink, Reply
  <2>2. CASE ~Reply(r, "inactive")
    <3> DEFINE copy == [row[uid[r]] EXCEPT !.email = address[r]]
    <3>1. row[uid[r]] \in Row
      BY <1>8 DEF ByLink
    <3>2. copy.links = row[uid[r]].links
      BY <3>1 DEF Row
    <3>3. PICK next \in {"issue", "saveEmail"} : Fetch(r, uid[r], copy, next)
      BY <1>8, <2>2 DEF ByLink
    <3>4. at[r] = "byLink" /\ UNCHANGED <<row, faults, signedIn>>
      BY <1>8 DEF ByLink
    <3> HIDE DEF copy
    <3> QED
      BY <3>2, <3>3, <3>4, SMT DEF Fetch
  <2> QED
    BY <2>1, <2>2
<1>9. ASSUME NEW r \in Request, ByEmail(r) PROVE Goal
  <2>1. CASE Reply(r, "inactive") \/ Goto(r, "create")
    BY <1>9, <2>1, SMT DEF ByEmail, Reply, Goto
  <2>2. CASE ~(Reply(r, "inactive") \/ Goto(r, "create"))
    <3>1. PICK u \in WithEmail(address[r]) :
            Fetch(r, u, [row[u] EXCEPT !.is_verified = TRUE], "saveVerified")
      BY <1>9, <2>2 DEF ByEmail
    <3> DEFINE copy == [row[u] EXCEPT !.is_verified = TRUE]
    <3>2. copy.links = row[u].links
      BY DEF Row, WithEmail
    <3>3. Fetch(r, u, copy, "saveVerified") /\ at[r] = "byEmail" /\ UNCHANGED <<row, faults, signedIn>>
      BY <1>9, <3>1 DEF ByEmail
    <3> HIDE DEF copy
    <3> QED
      BY <3>2, <3>3, SMT DEF Fetch
  <2> QED
    BY <2>1, <2>2
<1>10. ASSUME NEW r \in Request, Link(r) PROVE Goal
  <2> DEFINE linked == [row[uid[r]] EXCEPT !.links[ident[r]] = @ + 1]
  <2>1. row[uid[r]] \in Row /\ uid[r] \in User /\ ident[r] \in Identity /\ at[r] = "link"
    BY <1>10 DEF Link
  <2>2. \A i \in Identity :
          linked.links[i] = IF i = ident[r] THEN row[uid[r]].links[i] + 1 ELSE row[uid[r]].links[i]
    BY <2>1 DEF Row, Links
  <2>3. /\ \/ /\ row' = [row EXCEPT ![uid[r]] = linked] /\ Goto(r, "issue")
              /\ LinkedUsers(ident[r]) = {}
           \/ Reply(r, "storage_error") /\ UNCHANGED row
        /\ UNCHANGED <<faults, signedIn>>
    BY <1>10, Zenon DEF Link, IdentityFree
  <2> HIDE DEF linked
  <2>4. CASE Reply(r, "storage_error") /\ UNCHANGED row
    BY <2>1, <2>3, <2>4, SMT DEF Reply
  <2>5. CASE /\ row' = [row EXCEPT ![uid[r]] = linked] /\ Goto(r, "issue")
             /\ LinkedUsers(ident[r]) = {}
    <3>1. \A v \in User : ~(row[v].links[ident[r]] > 0)
      BY <2>5 DEF LinkedUsers
    <3>2. \A v \in User, i \in Identity :
            row'[v].links[i] > 0 <=> row[v].links[i] > 0 \/ (v = uid[r] /\ i = ident[r])
      BY <2>1, <2>2, <2>5 DEF Row, Links
    <3> QED
      BY <2>1, <2>3, <2>5, <3>1, <3>2, SMT DEF Goto
  <2> QED
    BY <2>3, <2>4, <2>5
<1>11. ASSUME NEW r \in Request, Save(r) PROVE Goal
  <2>1. row[uid[r]] \in Row /\ loaded[r] \in Row /\ mine[r] \in Row /\ uid[r] \in User
    BY <1>11 DEF Save
  <2>2. mine[r].links = loaded[r].links /\ at[r] \in {"saveEmail", "saveVerified"}
    BY <1>11 DEF Save
  <2>3. Result(r).links = row[uid[r]].links
    BY <2>1, <2>2, SavedLinks DEF Result
  <2>4. CASE row' = [row EXCEPT ![uid[r]] = Result(r)] /\ Goto(r, AfterSave(r))
    BY <1>11, <2>1, <2>2, <2>3, <2>4, SMT DEF Save, Goto, AfterSave
  <2>5. CASE Reply(r, "storage_error") /\ UNCHANGED row
    BY <1>11, <2>5, SMT DEF Save, Reply
  <2> QED
    BY <1>11, <2>4, <2>5 DEF Save
<1>12. ASSUME NEW u \in User, NEW b \in BOOLEAN, SetActive(u, b) PROVE Goal
  <2>1. row' = [row EXCEPT ![u] = [row[u] EXCEPT !.is_active = b]]
    BY <1>12, Zenon DEF SetActive
  <2>2. row[u] \in Row
    OBVIOUS
  <2>3. [row[u] EXCEPT !.is_active = b].links = row[u].links
    BY <2>2 DEF Row
  <2>4. UNCHANGED <<locals, faults, signedIn>>
    BY <1>12 DEF SetActive
  <2> DEFINE new == [row[u] EXCEPT !.is_active = b]
  <2> HIDE DEF new
  <2> QED
    BY <2>1, <2>3, <2>4, SMT DEF locals, new
<1> QED
  BY <1>1, <1>2, <1>3, <1>4, <1>5, <1>6, <1>7, <1>8, <1>9, <1>10, <1>11, <1>12
  DEF Next, Arrive, Progress, Fault

\* The inductive invariant, with the repositories that have the unique index.
THEOREM LinksInvariant ==
    ASSUME Backend = "sqlalchemy" PROVE Spec => []AccountsInv
<1>1. Init => LinksKept /\ IdentityIsStable /\ SignedInIsLinked
  BY NoneAssumption DEF Init, LinksKept, IdentityIsStable, SignedInIsLinked, SignedIn, Absent, NoLinks
<1>2. AccountsInv /\ [Next]_vars => AccountsInv'
  BY StepTyped, StepLinks DEF AccountsInv
<1> QED
  BY <1>1, <1>2, InitTyped, PTL DEF Spec, AccountsInv

\* Racing first sign-ins, changing addresses and crashes notwithstanding, an identity
\* reaches one account for ever.
THEOREM IdentitiesStable ==
    ASSUME Backend = "sqlalchemy" PROVE Spec => []IdentityIsStable
  BY LinksInvariant, PTL DEF AccountsInv

\* No save or link in between costs the account the link it is signed in by.
THEOREM SignedInStayLinked ==
    ASSUME Backend = "sqlalchemy" PROVE Spec => []SignedInIsLinked
  BY LinksInvariant, PTL DEF AccountsInv
==============================================================================
