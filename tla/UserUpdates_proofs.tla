-------------------------- MODULE UserUpdates_proofs --------------------------
(* What holds of UserUpdates for any users, requests, hooks and payloads.      *)
EXTENDS UserUpdates, TLAPS

(***************************************************************************)
(* Rows and objects.                                                       *)
(***************************************************************************)

\* setattr of validated fields leaves a row of the table's types.
LEMMA UpdatedRow ==
    ASSUME NEW old \in Row, NEW p \in Payload
    PROVE  Updated(old, p) \in Row
<1>1. DOMAIN old = Fields
  BY DEF Row
<1>2. \A f \in Fields : Updated(old, p)[f] \in Values(f)
  BY <1>1, PayloadAssumption DEF Updated, Row
<1>3. \A f \in Fields : Values(f) \subseteq BOOLEAN \cup Name
  BY DEF Values
<1> QED
  BY <1>1, <1>2, <1>3 DEF Updated, Row

\* A save of two rows leaves a row.
LEMMA SavedRow ==
    ASSUME NEW stored \in Row, NEW was \in Row, NEW is \in Row
    PROVE  Saved("sqlalchemy", stored, was, is) \in Row
BY DEF Saved, Row

\* What session.get returns is an object.
LEMMA GetObject ==
    ASSUME TypeOK, NEW s \in Request, NEW u \in User
    PROVE  Get(s, u) \in Object
BY DEF TypeOK, Get, Object

\* The identity map keeps its shape when an object is added or replaced.
LEMMA TrackObjects ==
    ASSUME TypeOK, NEW s \in Request, NEW u \in User, NEW o \in Object, Track(s, u, o)
    PROVE  /\ DOMAIN objects' = Request
           /\ \A t \in Request : t # s => objects'[t] = objects[t]
           /\ DOMAIN objects'[s] = DOMAIN objects[s] \cup {u}
           /\ objects'[s][u] = o
           /\ \A v \in DOMAIN objects[s] : v # u => objects'[s][v] = objects[s][v]
BY DEF TypeOK, Track

(***************************************************************************)
(* Types.                                                                  *)
(***************************************************************************)

\* One step keeps the types.
LEMMA TypeStep == UpdateInv /\ [Next]_vars => TypeOK'
<1> SUFFICES ASSUME UpdateInv, [Next]_vars PROVE TypeOK'
  OBVIOUS
<1> USE DEF Session
<1>t. TypeOK
  BY DEF UpdateInv
<1>1. ASSUME NEW r \in Request, NEW rt \in Routes, NEW c \in User, NEW u \in User,
             NEW p \in Payload, Enter(r, rt, c, u, p)
      PROVE  TypeOK'
  <2>1. Get(r, c) \in Object
    BY <1>t, GetObject
  <2>2. Track(r, c, Get(r, c))
    BY <1>1 DEF Enter
  <2>3. /\ DOMAIN objects' = Request
        /\ \A s \in Request : DOMAIN objects'[s] \subseteq User
        /\ \A s \in Request : \A v \in DOMAIN objects'[s] : objects'[s][v] \in Object
    BY <1>t, <2>1, <2>2, TrackObjects DEF TypeOK
  <2> QED
    BY <1>t, <1>1, <2>3 DEF TypeOK, Enter
<1>2. ASSUME NEW r \in Request, Load(r) PROVE TypeOK'
  <2> DEFINE o == Get(r, target[r])
             n == [o EXCEPT !.is = Updated(o.is, payload[r])]
  <2>1. target[r] \in User /\ payload[r] \in Payload
    BY <1>2 DEF UpdateInv, CallersAllowed, Load
  <2>2. o \in Object
    BY <1>t, <2>1, GetObject
  <2>3. n \in Object
    BY <2>1, <2>2, UpdatedRow DEF Object
  <2>4. Track(r, target[r], n)
    BY <1>2 DEF Load
  <2>5. /\ DOMAIN objects' = Request
        /\ \A s \in Request : DOMAIN objects'[s] \subseteq User
        /\ \A s \in Request : \A v \in DOMAIN objects'[s] : objects'[s][v] \in Object
    <3> HIDE DEF n
    <3> QED
      BY <1>t, <2>1, <2>3, <2>4, TrackObjects DEF TypeOK
  <2> QED
    BY <1>t, <1>2, <2>5 DEF TypeOK, Load
<1>3. ASSUME NEW r \in Request, Hook(r) PROVE TypeOK'
  <2>1. hook[r] + 1 \in 1..(on_after_update + 1)
    BY <1>t, <1>3, HooksAssumption DEF TypeOK, UpdateInv, HooksPassed, Hook
  <2> QED
    BY <1>t, <1>3, <2>1 DEF TypeOK, Hook
<1>4. ASSUME NEW r \in Request, NEW next \in {"idle", "answer"}, Close(r, next),
             row' \in [User -> Row]
      PROVE  TypeOK'
  <2>1. DOMAIN objects' = Request
    BY <1>t, <1>4 DEF TypeOK, Close
  <2>2. \A s \in Request :
          objects'[s] = IF s = r THEN NoObjects ELSE objects[s]
    BY <1>t, <1>4 DEF TypeOK, Close
  <2>3. DOMAIN NoObjects = {}
    BY DEF NoObjects
  <2>4. ASSUME NEW s \in Request
        PROVE  /\ DOMAIN objects'[s] \subseteq User
               /\ \A v \in DOMAIN objects'[s] : objects'[s][v] \in Object
    BY <1>t, <2>2, <2>3 DEF TypeOK
  <2>5. /\ at' \in [Request -> {"idle", "load", "hook", "save", "answer"}]
        /\ caller' \in [Request -> User \cup {None}]
        /\ target' \in [Request -> User \cup {None}]
        /\ payload' \in [Request -> Payload \cup {NoPayload}]
        /\ hook' \in [Request -> 1..(on_after_update + 1)]
        /\ seen' \in [Request -> Row \cup {None}]
    BY <1>t, <1>4, HooksAssumption DEF TypeOK, Close
  <2> QED
    BY <1>4, <2>1, <2>4, <2>5 DEF TypeOK
<1>5. ASSUME NEW r \in Request, Save(r) PROVE TypeOK'
  <2>1. \A u \in User : Flushed(r, u) \in Row
    BY <1>t, SavedRow DEF TypeOK, Flushed, Object
  <2> QED
    BY <1>4, <1>5, <2>1 DEF Save
<1>6. ASSUME NEW r \in Request, Answer(r) PROVE TypeOK'
  BY <1>t, <1>6 DEF TypeOK, Answer
<1>7. ASSUME NEW r \in Request, Fail(r) PROVE TypeOK'
  BY <1>t, <1>4, <1>7 DEF TypeOK, Fail
<1>8. CASE UNCHANGED vars
  BY <1>t, <1>8 DEF TypeOK, vars, locals
<1> QED
  BY <1>1, <1>2, <1>3, <1>5, <1>6, <1>7, <1>8 DEF Next

(***************************************************************************)
(* The inductive invariant.                                                *)
(***************************************************************************)

\* UpdateInv, seen from one request.
Own(r) ==
    /\ at[r] \in {"idle", "answer"} => objects[r] = NoObjects
    /\ at[r] = "load" => DOMAIN objects[r] = {caller[r]}
    /\ at[r] \in {"hook", "save"} => DOMAIN objects[r] = {caller[r], target[r]}
    /\ \A u \in DOMAIN objects[r] :
          objects[r][u].is = IF at[r] \in {"hook", "save"} /\ u = target[r]
                             THEN Updated(objects[r][u].was, payload[r])
                             ELSE objects[r][u].was
    /\ at[r] \in {"load", "hook", "save"} =>
          /\ caller[r] \in User /\ target[r] \in User /\ seen[r] \in Row
          /\ payload[r] \in Payload
          /\ seen[r].is_active
          /\ \A f \in DOMAIN payload[r] :
                IF f \in Flags THEN seen[r].is_superuser ELSE caller[r] = target[r]
    /\ at[r] \in {"idle", "load", "answer"} => hook[r] = 1
    /\ at[r] = "hook" => hook[r] <= on_after_update
    /\ at[r] = "save" => hook[r] = on_after_update + 1

\* The invariant is its type part and one statement per request.
LEMMA Split == UpdateInv <=> TypeOK /\ \A r \in Request : Own(r)
BY DEF UpdateInv, SessionsMatch, OnlyTargetDirty, CallersAllowed, HooksPassed, Own

\* What a step leaves alone keeps its part of the invariant.
LEMMA Others ==
    ASSUME NEW s \in Request, Own(s), objects'[s] = objects[s], at'[s] = at[s],
           caller'[s] = caller[s], target'[s] = target[s], payload'[s] = payload[s],
           hook'[s] = hook[s], seen'[s] = seen[s]
    PROVE  Own(s)'
BY DEF Own, Updated

\* Between requests there is nothing to hold.
LEMMA ClosedOwn ==
    ASSUME TypeOK, NEW r \in Request, NEW next \in {"idle", "answer"}, Close(r, next),
           \A s \in Request : Own(s)
    PROVE  \A s \in Request : Own(s)'
<1> USE DEF Session
<1>1. DOMAIN NoObjects = {}
  BY DEF NoObjects
<1>2. objects'[r] = NoObjects /\ at'[r] = next /\ hook'[r] = 1
  BY DEF TypeOK, Close
<1>3. Own(r)'
  BY <1>1, <1>2 DEF Own
<1>4. ASSUME NEW s \in Request, s # r PROVE Own(s)'
  BY <1>4, Others DEF TypeOK, Close
<1> QED
  BY <1>3, <1>4

\* Every guard of a route that changes flags asks for the superuser flag.
LEMMA GuardsAskForSuperuser ==
    ASSUME NEW u \in Row, NEW rt \in Routes, rt # "me", Lets(rt, u)
    PROVE  u.is_superuser
<1>1. "admin" \in roles_for(u) => u.is_superuser
  BY DEF roles_for
<1>2. require_permission(u) => u.is_superuser
  <2>1. roles_for(u) = {} => permissions_for(u) = {}
    BY DEF permissions_for
  <2> QED
    BY <2>1, RequiredAssumption DEF require_permission, roles_for
<1> QED
  BY <1>1, <1>2 DEF Routes, Lets, require_admin

\* Each step keeps what every request rests on.
LEMMA OwnStep == UpdateInv /\ [Next]_vars => \A s \in Request : Own(s)'
<1> SUFFICES ASSUME UpdateInv, [Next]_vars PROVE \A s \in Request : Own(s)'
  OBVIOUS
<1> USE DEF Session
<1>t. TypeOK /\ \A s \in Request : Own(s)
  BY Split
<1>1. ASSUME NEW r \in Request, NEW rt \in Routes, NEW c \in User, NEW u \in User,
             NEW p \in Payload, Enter(r, rt, c, u, p)
      PROVE  \A s \in Request : Own(s)'
  <2>1. at[r] = "idle" /\ objects[r] = NoObjects /\ hook[r] = 1
    BY <1>t, <1>1 DEF Own, Enter
  <2>2. DOMAIN objects[r] = {}
    BY <2>1 DEF NoObjects
  <2>3. Get(r, c) = [was |-> row[c], is |-> row[c]] /\ row[c] \in Row
    BY <1>t, <2>2 DEF Get, TypeOK
  <2>4. Track(r, c, Get(r, c)) /\ Get(r, c) \in Object
    BY <1>1, <2>3 DEF Enter, Object
  <2>5. DOMAIN objects'[r] = {c} /\ objects'[r][c] = Get(r, c)
    BY <1>t, <2>2, <2>4, TrackObjects
  <2>6. /\ at'[r] = "load" /\ caller'[r] = c /\ target'[r] = u
        /\ payload'[r] = p /\ seen'[r] = row[c] /\ hook'[r] = 1
    BY <1>t, <1>1, <2>1 DEF Enter, TypeOK
  <2>7. row[c].is_active
    BY <1>1, <2>3 DEF Enter, Lets
  <2>8. \A f \in DOMAIN p : IF f \in Flags THEN row[c].is_superuser ELSE c = u
    <3>1. CASE rt = "me"
      BY <1>1, <3>1 DEF Enter, Declared, Flags
    <3>2. CASE rt # "me"
      <4>1. row[c].is_superuser
        BY <1>1, <2>3, <3>2, GuardsAskForSuperuser DEF Enter
      <4> QED
        BY <1>1, <3>2, <4>1 DEF Enter, Declared
    <3> QED
      BY <3>1, <3>2
  <2>9. Own(r)'
    BY <2>3, <2>5, <2>6, <2>7, <2>8 DEF Own
  <2>10. ASSUME NEW s \in Request, s # r PROVE Own(s)'
    <3>1. objects'[s] = objects[s]
      BY <1>t, <2>4, <2>10, TrackObjects
    <3> QED
      BY <1>t, <1>1, <2>10, <3>1, Others DEF Enter, TypeOK
  <2> QED
    BY <2>9, <2>10
<1>2. ASSUME NEW r \in Request, Load(r) PROVE \A s \in Request : Own(s)'
  <2> DEFINE u == target[r]
             o == Get(r, u)
             n == [o EXCEPT !.is = Updated(o.is, payload[r])]
  <2>1. /\ at[r] = "load" /\ hook[r] = 1 /\ DOMAIN objects[r] = {caller[r]}
        /\ u \in User /\ caller[r] \in User /\ payload[r] \in Payload
    BY <1>t, <1>2 DEF Own, Load
  <2>2. o \in Object /\ o.is = o.was
    BY <1>t, <2>1, GetObject DEF Own, Get
  <2>3. n \in Object /\ n.was = o.was /\ n.is = Updated(o.was, payload[r])
    BY <2>1, <2>2, UpdatedRow DEF Object
  <2>4. Track(r, u, n)
    BY <1>2 DEF Load
  <2>5. /\ DOMAIN objects'[r] = {caller[r], u}
        /\ objects'[r][u] = n
        /\ \A v \in DOMAIN objects[r] : v # u => objects'[r][v] = objects[r][v]
        /\ \A s \in Request : s # r => objects'[s] = objects[s]
    <3> HIDE DEF n, u
    <3> QED
      BY <1>t, <2>1, <2>3, <2>4, TrackObjects
  <2>6. /\ at'[r] = IF on_after_update = 0 THEN "save" ELSE "hook"
        /\ caller' = caller /\ target' = target /\ payload' = payload
        /\ hook' = hook /\ seen' = seen
        /\ \A s \in Request : s # r => at'[s] = at[s]
    BY <1>t, <1>2 DEF Load, TypeOK
  <2>7. \A v \in DOMAIN objects'[r] :
          objects'[r][v].is = IF v = u THEN Updated(objects'[r][v].was, payload[r])
                              ELSE objects'[r][v].was
    <3> HIDE DEF n, u
    <3> QED
      BY <1>t, <2>1, <2>3, <2>5 DEF Own
  <2>8. Own(r)'
    BY <1>t, <2>1, <2>5, <2>6, <2>7, HooksAssumption DEF Own
  <2>9. ASSUME NEW s \in Request, s # r PROVE Own(s)'
    BY <1>t, <2>5, <2>6, <2>9, Others
  <2> QED
    BY <2>8, <2>9
<1>3. ASSUME NEW r \in Request, Hook(r) PROVE \A s \in Request : Own(s)'
  <2>1. /\ hook'[r] = hook[r] + 1
        /\ at'[r] = IF hook[r] = on_after_update THEN "save" ELSE "hook"
        /\ objects' = objects /\ caller' = caller /\ target' = target
        /\ payload' = payload /\ seen' = seen
        /\ \A s \in Request : s # r => at'[s] = at[s] /\ hook'[s] = hook[s]
    BY <1>t, <1>3 DEF Hook, HooksEnd, TypeOK
  <2>2. at[r] = "hook" /\ hook[r] \in Nat /\ hook[r] <= on_after_update
    BY <1>t, <1>3 DEF Own, Hook, TypeOK
  <2>3. Own(r)'
    <3>1. hook'[r] <= on_after_update \/ (at'[r] = "save" /\ hook'[r] = on_after_update + 1)
      BY <2>1, <2>2, HooksAssumption
    <3> QED
      BY <1>t, <2>1, <2>2, <3>1 DEF Own, Updated
  <2>4. ASSUME NEW s \in Request, s # r PROVE Own(s)'
    BY <1>t, <2>1, <2>4, Others
  <2> QED
    BY <2>3, <2>4
<1>4. ASSUME NEW r \in Request, Save(r) PROVE \A s \in Request : Own(s)'
  BY <1>t, <1>4, ClosedOwn DEF Save
<1>5. ASSUME NEW r \in Request, Answer(r) PROVE \A s \in Request : Own(s)'
  <2>1. ASSUME NEW s \in Request, s # r PROVE Own(s)'
    BY <1>t, <1>5, <2>1, Others DEF Answer, TypeOK
  <2>2. Own(r)'
    BY <1>t, <1>5 DEF Own, Answer, TypeOK, NoObjects
  <2> QED
    BY <2>1, <2>2
<1>6. ASSUME NEW r \in Request, Fail(r) PROVE \A s \in Request : Own(s)'
  BY <1>t, <1>6, ClosedOwn DEF Fail
<1>7. CASE UNCHANGED vars
  BY <1>t, <1>7, Others DEF vars, locals
<1> QED
  BY <1>1, <1>2, <1>3, <1>4, <1>5, <1>6, <1>7 DEF Next

\* It holds to begin with.
LEMMA InitInv == Init => UpdateInv
<1> SUFFICES ASSUME Init PROVE UpdateInv
  OBVIOUS
<1>1. row \in [User -> Row]
  <2>1. PICK su \in User, n \in Name :
          row = [u \in User |-> [f \in Fields |->
                   IF f \in Flags THEN f = "is_active" \/ u = su ELSE n]]
    BY DEF Init
  <2>2. ASSUME NEW u \in User
        PROVE  [f \in Fields |-> IF f \in Flags THEN f = "is_active" \/ u = su ELSE n]
                 \in Row
    <3>1. \A f \in Flags : (f = "is_active" \/ u = su) \in BOOLEAN
      OBVIOUS
    <3> QED
      BY <3>1 DEF Row, Values
  <2> QED
    BY <2>1, <2>2
<1>2. DOMAIN NoObjects = {}
  BY DEF NoObjects
<1>3. TypeOK
  BY <1>1, <1>2, HooksAssumption DEF Init, TypeOK
<1>4. ASSUME NEW r \in Request PROVE Own(r)
  BY <1>2 DEF Init, Own
<1> QED
  BY <1>3, <1>4, Split

\* Sessions keep to their requests, and requests to what their callers may do.
THEOREM UpdateInvHolds == Spec => []UpdateInv
<1>1. UpdateInv /\ [Next]_vars => UpdateInv'
  <2> SUFFICES ASSUME UpdateInv, [Next]_vars PROVE UpdateInv'
    OBVIOUS
  <2>1. TypeOK' /\ \A r \in Request : Own(r)'
    BY TypeStep, OwnStep
  <2> QED
    BY <2>1 DEF UpdateInv, SessionsMatch, OnlyTargetDirty, CallersAllowed, HooksPassed, Own
<1> QED
  BY <1>1, InitInv, PTL DEF Spec

\* Every variable keeps its type.
THEOREM TypesHold == Spec => []TypeOK
<1>1. UpdateInv => TypeOK
  BY DEF UpdateInv
<1> QED
  BY <1>1, UpdateInvHolds, PTL

(***************************************************************************)
(* What a step may do to the table.                                        *)
(***************************************************************************)

\* A row changes by a commit, in fields its payload names, to what it names.
LEMMA ChangeStep ==
    ASSUME UpdateInv, [Next]_vars, NEW u \in User, NEW f \in DOMAIN row[u], Changed(u, f)
    PROVE  \E r \in Request :
              /\ Save(r) /\ Commits(r) /\ target[r] = u
              /\ f \in DOMAIN payload[r] /\ row'[u][f] = payload[r][f]
<1> USE DEF Session
<1>t. TypeOK /\ \A s \in Request : Own(s)
  BY Split
<1>1. row' # row
  BY DEF Changed
<1>2. PICK r \in Request : Save(r)
  BY <1>1 DEF Next, vars, locals, Enter, Load, Hook, Answer, Fail
<1>3. at[r] = "save" /\ at'[r] = "answer"
  BY <1>t, <1>2 DEF Save, Close, TypeOK
<1>4. row'[u] = Flushed(r, u)
  BY <1>2 DEF Save
<1>5. u \in DOMAIN objects[r]
  BY <1>4 DEF Changed, Flushed
<1>6. /\ objects[r][u].is[f] # objects[r][u].was[f]
      /\ row'[u][f] = objects[r][u].is[f]
  BY <1>4, <1>5 DEF Changed, Flushed, Saved
<1>7. u = target[r] /\ objects[r][u].is = Updated(objects[r][u].was, payload[r])
  BY <1>t, <1>3, <1>5, <1>6 DEF Own
<1>8. f \in DOMAIN objects[r][u].was
  BY <1>t, <1>5 DEF TypeOK, Object, Row
<1>9. f \in DOMAIN payload[r] /\ row'[u][f] = payload[r][f]
  BY <1>6, <1>7, <1>8 DEF Updated
<1> QED
  BY <1>2, <1>3, <1>7, <1>9 DEF Commits

\* Nothing is stored but what an accepted update of that account names.
THEOREM OnlyAccepted == Spec => OnlyAcceptedUpdatesLand
<1>1. UpdateInv /\ [Next]_vars =>
        [\A u \in User : \A f \in DOMAIN row[u] : Changed(u, f) =>
            \E r \in Request :
                /\ Commits(r) /\ hook[r] > on_after_update /\ target[r] = u
                /\ f \in DOMAIN payload[r] /\ row'[u][f] = payload[r][f]]_vars
  <2> SUFFICES ASSUME UpdateInv, [Next]_vars, NEW u \in User, NEW f \in DOMAIN row[u],
                      Changed(u, f)
      PROVE  \E r \in Request :
                /\ Commits(r) /\ hook[r] > on_after_update /\ target[r] = u
                /\ f \in DOMAIN payload[r] /\ row'[u][f] = payload[r][f]
    OBVIOUS
  <2>1. PICK r \in Request :
          /\ Commits(r) /\ target[r] = u
          /\ f \in DOMAIN payload[r] /\ row'[u][f] = payload[r][f]
    BY ChangeStep
  <2>2. hook[r] > on_after_update
    BY <2>1, HooksAssumption DEF UpdateInv, HooksPassed, Commits
  <2> QED
    BY <2>1, <2>2
<1> QED
  BY <1>1, UpdateInvHolds, PTL DEF Spec, OnlyAcceptedUpdatesLand

\* Flags answer to superusers, profile fields to their owners.
THEOREM ChangesAnswer == Spec => ChangesAnswerToCaller
<1>1. UpdateInv /\ [Next]_vars =>
        [\A u \in User : \A f \in DOMAIN row[u] : Changed(u, f) =>
            \E r \in Request :
                /\ Commits(r) /\ seen[r].is_active
                /\ IF f \in Flags THEN seen[r].is_superuser ELSE caller[r] = u]_vars
  <2> SUFFICES ASSUME UpdateInv, [Next]_vars, NEW u \in User, NEW f \in DOMAIN row[u],
                      Changed(u, f)
      PROVE  \E r \in Request :
                /\ Commits(r) /\ seen[r].is_active
                /\ IF f \in Flags THEN seen[r].is_superuser ELSE caller[r] = u
    OBVIOUS
  <2>1. PICK r \in Request : Commits(r) /\ target[r] = u /\ f \in DOMAIN payload[r]
    BY ChangeStep
  <2>2. /\ seen[r].is_active
        /\ IF f \in Flags THEN seen[r].is_superuser ELSE caller[r] = u
    BY <2>1 DEF UpdateInv, CallersAllowed, Commits
  <2> QED
    BY <2>1, <2>2
<1> QED
  BY <1>1, UpdateInvHolds, PTL DEF Spec, ChangesAnswerToCaller

\* A commit stores its whole payload, but for what the row held when it was read.
LEMMA CommitStep ==
    ASSUME UpdateInv, [Next]_vars, NEW r \in Request, Commits(r),
           NEW f \in DOMAIN payload[r]
    PROVE  \/ row'[target[r]][f] = payload[r][f]
           \/ objects[Session(r)][target[r]].was[f] = payload[r][f]
<1> USE DEF Session
<1> DEFINE u == target[r]
<1>t. TypeOK /\ \A s \in Request : Own(s)
  BY Split
<1>1. Save(r)
  <2>1. at[r] = "save" /\ at'[r] = "answer"
    BY DEF Commits
  <2>2. ASSUME NEW q \in Request, NEW rt \in Routes, NEW c \in User, NEW v \in User,
               NEW p \in Payload, Enter(q, rt, c, v, p)
        PROVE  FALSE
    BY <1>t, <2>1, <2>2 DEF Enter, TypeOK
  <2>3. ASSUME NEW q \in Request, Load(q) \/ Hook(q) \/ Answer(q) PROVE FALSE
    BY <1>t, <2>1, <2>3 DEF Load, Hook, Answer, TypeOK
  <2>4. ASSUME NEW q \in Request, Fail(q) PROVE FALSE
    BY <1>t, <2>1, <2>4 DEF Fail, Close, TypeOK
  <2>5. ASSUME NEW q \in Request, Save(q) PROVE q = r
    BY <1>t, <2>1, <2>5 DEF Save, Close, TypeOK
  <2>6. ~ UNCHANGED vars
    BY <2>1 DEF vars, locals
  <2> QED
    BY <2>2, <2>3, <2>4, <2>5, <2>6 DEF Next
<1>2. u \in User /\ u \in DOMAIN objects[r] /\ payload[r] \in Payload
  BY <1>t DEF Own, Commits
<1>3. objects[r][u].is = Updated(objects[r][u].was, payload[r])
  BY <1>t, <1>2 DEF Own, Commits
<1>4. f \in DOMAIN objects[r][u].was /\ f \in DOMAIN row[u]
  BY <1>t, <1>2, PayloadAssumption DEF TypeOK, Object, Row
<1>5. objects[r][u].is[f] = payload[r][f]
  BY <1>3, <1>4 DEF Updated
<1>6. row'[u] = Saved("sqlalchemy", row[u], objects[r][u].was, objects[r][u].is)
  BY <1>1, <1>2 DEF Save, Flushed
<1> QED
  BY <1>4, <1>5, <1>6 DEF Saved

\* An answered update took effect as a whole.
THEOREM AnsweredUpdates == Spec => AnsweredTookEffect
<1>1. UpdateInv /\ [Next]_vars =>
        [\A r \in Request : Commits(r) =>
            \A f \in DOMAIN payload[r] :
                \/ row'[target[r]][f] = payload[r][f]
                \/ objects[Session(r)][target[r]].was[f] = payload[r][f]]_vars
  BY CommitStep
<1> QED
  BY <1>1, UpdateInvHolds, PTL DEF Spec, AnsweredTookEffect
==============================================================================
