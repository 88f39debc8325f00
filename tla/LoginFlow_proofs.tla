--------------------------- MODULE LoginFlow_proofs ---------------------------
(* What holds of LoginFlow for every number of requests, token pairs and host  *)
(* hooks, and for every order in which the hooks are merged.                   *)
EXTENDS LoginFlow, FiniteSetTheorems, TLAPS

(***************************************************************************)
(* The chain.                                                              *)
(***************************************************************************)

\* A merged chain is a sequence with one place for each hook.
LEMMA ChainShape ==
    ASSUME chain \in Chains
    PROVE  /\ Cardinality(Hooks) \in Nat \ {0}
           /\ chain \in [1..Cardinality(Hooks) -> Hooks]
           /\ Len(chain) = Cardinality(Hooks)
           /\ DOMAIN chain = 1..Len(chain)
           /\ \E i \in DOMAIN chain : chain[i] = "two_factor"
<1>1. IsFiniteSet(Hooks)
  BY HooksAssumption, FS_AddElement DEF Hooks
<1>2. Cardinality(Hooks) \in Nat /\ Hooks # {}
  BY <1>1, FS_CardinalityType DEF Hooks
<1>3. Cardinality(Hooks) # 0
  BY <1>1, <1>2, FS_EmptySet
<1>4. chain \in [1..Cardinality(Hooks) -> Hooks]
  BY DEF Chains
<1>5. Len(chain) = Cardinality(Hooks)
  BY <1>2, <1>4
<1>6. \E i \in DOMAIN chain : chain[i] = "two_factor"
  BY DEF Chains, Hooks
<1> QED
  BY <1>2, <1>3, <1>4, <1>5, <1>6

(***************************************************************************)
(* Types.                                                                  *)
(***************************************************************************)

\* A JWT of a sign-in family names the sign-in it comes from.
LEMMA SignInTokens ==
    \A jwt \in JWT : jwt.typ \in {"access", "refresh", "challenge"} => jwt.pair \in Pair
BY DEF JWT, TokenType, SinglePurpose

\* One step keeps the types.
LEMMA TypeStep == TypeOK /\ PointsConsistent /\ ResultsCleared /\ [Next]_vars => TypeOK'
<1> SUFFICES ASSUME TypeOK, PointsConsistent, ResultsCleared, [Next]_vars PROVE TypeOK'
  OBVIOUS
<1>c. /\ Cardinality(Hooks) \in Nat \ {0}
      /\ chain \in [1..Cardinality(Hooks) -> Hooks]
      /\ Len(chain) = Cardinality(Hooks)
      /\ DOMAIN chain = 1..Len(chain)
  BY ChainShape DEF TypeOK
<1>1. ASSUME NEW r \in Request, Login(r) \/ \E jwt \in held : OAuthLogin(r, jwt) PROVE TypeOK'
  BY <1>1 DEF TypeOK, Login, OAuthLogin, Begin, Points
<1>2. ASSUME NEW r \in Request, NEW jwt \in held, Refresh(r, jwt) \/ Verify(r, jwt)
      PROVE TypeOK'
  <2>1. jwt.pair \in Pair
    BY <1>2, SignInTokens DEF TypeOK, Refresh, Verify, verify_token
  <2> QED
    BY <1>2, <2>1 DEF TypeOK, Refresh, Verify, Begin, Points
<1>3. ASSUME NEW r \in Request, Revoke(r) PROVE TypeOK'
  BY <1>3 DEF TypeOK, Revoke, Goto, Points, Results
<1>4. ASSUME NEW r \in Request, Issue(r) PROVE TypeOK'
  BY <1>4 DEF TypeOK, Issue, Points, Results
<1>5. ASSUME NEW r \in Request, Transform(r) PROVE TypeOK'
  <2> DEFINE next == Apply(chain[hook[r]], loaded[r], result[r])
  <2>1. next \in Results
    BY DEF TypeOK, Apply, Results
  <2>2. ~ChainEnds(r, next) => hook[r] + 1 \in DOMAIN chain
    BY <1>c DEF TypeOK, ChainEnds
  <2>3. 1 \in DOMAIN chain
    BY <1>c
  <2> QED
    BY <1>5, <2>1, <2>2, <2>3 DEF TypeOK, Transform, Goto, Points
<1>6a. ASSUME NEW r \in Request, AfterLogin(r) PROVE TypeOK'
  BY <1>6a DEF TypeOK, AfterLogin, Goto, Points, Results
<1>6b. ASSUME NEW r \in Request, VerifyCode(r) PROVE TypeOK'
  <2>1. from[r] \in Pair
    BY <1>6b DEF VerifyCode, PointsConsistent
  <2> QED
    BY <1>6b, <2>1 DEF TypeOK, VerifyCode, Goto, Points, Results
<1>6c. ASSUME NEW r \in Request, Mint(r) PROVE TypeOK'
  <2>1. LoginSuccess({"access_token"}) \in Results
    BY DEF LoginSuccess, Results
  <2> QED
    BY <1>6c, <2>1 DEF TypeOK, Mint, Goto, Points
<1>7a. ASSUME NEW r \in Request, Answer(r) PROVE TypeOK'
  <2>1. Delivered(r) \subseteq JWT
    <3>1. CASE kind[r] = "verify"
      BY <1>7a, <3>1
         DEF TypeOK, Answer, PointsConsistent, ResultsCleared, Delivered, Carried, create_token,
             JWT, TokenType, SinglePurpose
    <3>2. CASE kind[r] # "verify"
      BY <1>7a, <3>2
         DEF TypeOK, Answer, PointsConsistent, Delivered, Carried, create_token, encode,
             JWT, TokenType, SinglePurpose
    <3> QED
      BY <3>1, <3>2
  <2>2. 1 \in DOMAIN chain
    BY <1>c
  <2> QED
    BY <1>7a, <2>1, <2>2 DEF TypeOK, Answer, Finish, Points, Results
<1>7b. ASSUME NEW r \in Request, Crash(r) PROVE TypeOK'
  <2>1. 1 \in DOMAIN chain
    BY <1>c
  <2> QED
    BY <1>7b, <2>1 DEF TypeOK, Crash, Finish, Points, Results
<1>8. ASSUME NEW jwt \in held, Authenticate(jwt) PROVE TypeOK'
  <2>1. jwt.pair \in Pair
    BY <1>8, SignInTokens DEF TypeOK, Authenticate, verify_token
  <2> QED
    BY <1>8, <2>1 DEF TypeOK, Authenticate, locals
<1>9. ASSUME NEW on \in BOOLEAN, SetTwoFactor(on) PROVE TypeOK'
  BY <1>9 DEF TypeOK, SetTwoFactor, locals
<1>10. CASE UNCHANGED vars
  BY <1>10 DEF TypeOK, vars, locals
<1> QED
  BY <1>1, <1>2, <1>3, <1>4, <1>5, <1>6a, <1>6b, <1>6c, <1>7a, <1>7b, <1>8, <1>9, <1>10
     DEF Next, Arrive, Progress

\* Signing out of the chain: what one hook leaves is still owed or already cleared.
LEMMA TransformStep ==
    ASSUME FlowInv, NEW r \in Request, Transform(r)
    PROVE  HookAhead' /\ ResultsCleared'
<1> DEFINE next == Apply(chain[hook[r]], loaded[r], result[r])
<1>1. /\ at[r] = "transform"
      /\ kind[r] = "login"
      /\ \/ ~loaded[r] /\ pair[r] \in cleared
         \/ loaded[r] /\ \E i \in DOMAIN chain : hook[r] <= i /\ chain[i] = "two_factor"
  BY DEF FlowInv, HookAhead, PointsConsistent, Transform
<1>2. /\ at' = [at EXCEPT ![r] = IF ChainEnds(r, next) THEN "afterLogin" ELSE "transform"]
      /\ result' = [result EXCEPT ![r] = next]
      /\ hook' = [hook EXCEPT ![r] = IF ChainEnds(r, next) THEN 1 ELSE @ + 1]
      /\ UNCHANGED <<chain, kind, loaded, pair, from, cleared>>
  BY DEF Transform, Goto
<1>3. /\ hook[r] \in 1..Len(chain)
      /\ Len(chain) \in Nat
      /\ DOMAIN chain = 1..Len(chain)
  BY ChainShape DEF FlowInv, TypeOK
<1>4. CASE ~loaded[r]
  <2>1. pair[r] \in cleared
    BY <1>1, <1>4
  <2> QED
    BY <1>1, <1>2, <1>4, <2>1 DEF FlowInv, TypeOK, HookAhead, ResultsCleared
<1>5. CASE loaded[r]
  <2>1. PICK i \in DOMAIN chain : hook[r] <= i /\ chain[i] = "two_factor"
    BY <1>1, <1>5
  <2>2. CASE chain[hook[r]] = "two_factor"
    <3>1. next = "challenge" /\ ChainEnds(r, next)
      BY <1>5, <2>2 DEF Apply, ChainEnds
    <3> QED
      BY <1>2, <3>1 DEF FlowInv, TypeOK, HookAhead, ResultsCleared
  <2>3. CASE chain[hook[r]] # "two_factor"
    <3>1. next = "token"
      BY <2>3 DEF Apply
    <3>2. hook[r] # Len(chain) /\ hook[r] + 1 <= i
      BY <1>3, <2>1, <2>3
    <3>3. ~ChainEnds(r, next)
      BY <3>1, <3>2 DEF ChainEnds
    <3> QED
      BY <1>2, <1>5, <2>1, <3>2, <3>3 DEF FlowInv, TypeOK, HookAhead, ResultsCleared
  <2> QED
    BY <2>2, <2>3
<1> QED
  BY <1>4, <1>5 DEF FlowInv, TypeOK

\* The pair a request is given is cleared exactly if its origin needs no second factor.
LEMMA IssueStep ==
    ASSUME FlowInv, NEW r \in Request, Issue(r)
    PROVE  HookAhead' /\ ResultsCleared' /\ OriginsCleared' /\ PointsConsistent'
<1>1. PICK p \in Pair :
        /\ pair' = [pair EXCEPT ![r] = p]
        /\ cleared' = IF \/ kind[r] = "oauth"
                         \/ kind[r] = "login" /\ ~loaded[r]
                         \/ kind[r] = "refresh" /\ from[r] \in cleared
                      THEN cleared \cup {p} ELSE cleared
  BY DEF Issue
<1>2. /\ at[r] = "issue"
      /\ at' = [at EXCEPT ![r] = IF kind[r] = "login" THEN "transform" ELSE "answer"]
      /\ result' = [result EXCEPT ![r] = "token"]
      /\ UNCHANGED <<chain, kind, loaded, from, hook>>
  BY DEF Issue
<1>3. /\ kind[r] \in {"login", "oauth", "refresh"}
      /\ hook[r] = 1
      /\ kind[r] = "refresh" => from[r] \in cleared
  BY <1>2 DEF FlowInv, PointsConsistent, OriginsCleared
<1>4. cleared \subseteq cleared'
  BY <1>1
<1>5. \E i \in DOMAIN chain : hook[r] <= i /\ chain[i] = "two_factor"
  BY <1>3, ChainShape DEF FlowInv, TypeOK
<1>6. HookAhead'
  BY <1>1, <1>2, <1>3, <1>4, <1>5 DEF FlowInv, TypeOK, HookAhead
<1>7. ResultsCleared'
  BY <1>1, <1>2, <1>3, <1>4 DEF FlowInv, TypeOK, ResultsCleared
<1>8. OriginsCleared'
  BY <1>1, <1>2, <1>3, <1>4 DEF FlowInv, TypeOK, OriginsCleared
<1>9. PointsConsistent'
  BY <1>1, <1>2, <1>3 DEF FlowInv, TypeOK, PointsConsistent
<1> QED
  BY <1>6, <1>7, <1>8, <1>9

\* What an answer carries is of a cleared pair, unless it is a challenge.
LEMMA DeliveredCleared ==
    ASSUME FlowInv, NEW r \in Request, at[r] = "answer",
           NEW jwt \in Delivered(r), jwt.typ \in {"access", "refresh"}
    PROVE  jwt.pair \in cleared
<1>1. result[r] = "token"
  BY DEF FlowInv, TypeOK, Delivered, Carried, Results, create_token, encode
<1>2. jwt.pair = IF kind[r] = "verify" THEN from[r] ELSE pair[r]
  BY DEF Delivered, create_token, encode
<1> QED
  BY <1>1, <1>2 DEF FlowInv, ResultsCleared

\* One step keeps the invariant.
LEMMA InvariantStep == FlowInv /\ [Next]_vars => FlowInv'
<1> SUFFICES ASSUME FlowInv, [Next]_vars PROVE FlowInv'
  OBVIOUS
<1>t. TypeOK /\ TypeOK'
  BY TypeStep DEF FlowInv
<1> DEFINE Parts == /\ PointsConsistent /\ OriginsCleared /\ HookAhead /\ ResultsCleared
                    /\ NothingBeforeSecondFactor /\ EnteredOnlyCleared
<1>1. ASSUME NEW r \in Request, Login(r) \/ \E jwt \in held : OAuthLogin(r, jwt) PROVE Parts'
  BY <1>1 DEF FlowInv, TypeOK, PointsConsistent, OriginsCleared, HookAhead, ResultsCleared,
     NothingBeforeSecondFactor, EnteredOnlyCleared, Login, OAuthLogin, Begin
<1>2. ASSUME NEW r \in Request, NEW jwt \in held, Refresh(r, jwt) PROVE Parts'
  <2>1. jwt.pair \in cleared
    BY <1>2 DEF FlowInv, NothingBeforeSecondFactor, Refresh, verify_token
  <2> QED
    BY <1>2, <2>1 DEF FlowInv, TypeOK, PointsConsistent, OriginsCleared, HookAhead,
       ResultsCleared, NothingBeforeSecondFactor, EnteredOnlyCleared, Refresh, Begin
<1>3. ASSUME NEW r \in Request, NEW jwt \in held, Verify(r, jwt) PROVE Parts'
  <2>1. jwt.pair \in Pair
    BY <1>3, SignInTokens DEF FlowInv, TypeOK, Verify
  <2> QED
    BY <1>3, <2>1 DEF FlowInv, TypeOK, PointsConsistent, OriginsCleared, HookAhead,
       ResultsCleared, NothingBeforeSecondFactor, EnteredOnlyCleared, Verify, Begin
<1>4. ASSUME NEW r \in Request, Revoke(r) PROVE Parts'
  BY <1>4 DEF FlowInv, TypeOK, PointsConsistent, OriginsCleared, HookAhead, ResultsCleared,
     NothingBeforeSecondFactor, EnteredOnlyCleared, Revoke, Goto
<1>5. ASSUME NEW r \in Request, Issue(r) PROVE Parts'
  <2>1. PointsConsistent' /\ OriginsCleared' /\ HookAhead' /\ ResultsCleared'
    BY <1>5, IssueStep
  <2>2. cleared \subseteq cleared' /\ UNCHANGED <<held, entered>>
    BY <1>5 DEF Issue
  <2>3. NothingBeforeSecondFactor' /\ EnteredOnlyCleared'
    BY <2>2 DEF FlowInv, NothingBeforeSecondFactor, EnteredOnlyCleared
  <2> QED
    BY <2>1, <2>3
<1>6. ASSUME NEW r \in Request, Transform(r) PROVE Parts'
  <2>1. HookAhead' /\ ResultsCleared'
    BY <1>6, TransformStep
  <2>2. PointsConsistent' /\ OriginsCleared'
    BY <1>6 DEF FlowInv, TypeOK, PointsConsistent, OriginsCleared, Transform, Goto
  <2>3. NothingBeforeSecondFactor' /\ EnteredOnlyCleared'
    BY <1>6 DEF FlowInv, NothingBeforeSecondFactor, EnteredOnlyCleared, Transform
  <2> QED
    BY <2>1, <2>2, <2>3
<1>7. ASSUME NEW r \in Request, AfterLogin(r) PROVE Parts'
  BY <1>7 DEF FlowInv, TypeOK, PointsConsistent, OriginsCleared, HookAhead, ResultsCleared,
     NothingBeforeSecondFactor, EnteredOnlyCleared, AfterLogin, Goto
<1>8. ASSUME NEW r \in Request, VerifyCode(r) PROVE Parts'
  BY <1>8 DEF FlowInv, TypeOK, PointsConsistent, OriginsCleared, HookAhead, ResultsCleared,
     NothingBeforeSecondFactor, EnteredOnlyCleared, VerifyCode, Goto
<1>9. ASSUME NEW r \in Request, Mint(r) PROVE Parts'
  <2>1. LoginSuccess({"access_token"}) \in {"token", "error"}
    BY DEF LoginSuccess
  <2> QED
    BY <1>9, <2>1 DEF FlowInv, TypeOK, PointsConsistent, OriginsCleared, HookAhead,
       ResultsCleared, NothingBeforeSecondFactor, EnteredOnlyCleared, Mint, Goto
<1>10. ASSUME NEW r \in Request, Answer(r) PROVE Parts'
  <2>0. held' = held \cup Delivered(r) /\ at[r] = "answer" /\ UNCHANGED cleared
    BY <1>10 DEF Answer
  <2>1. NothingBeforeSecondFactor'
    BY <2>0, DeliveredCleared DEF FlowInv, NothingBeforeSecondFactor
  <2>2. PointsConsistent' /\ OriginsCleared' /\ HookAhead' /\ ResultsCleared'
    BY <1>10 DEF FlowInv, TypeOK, PointsConsistent, OriginsCleared, HookAhead,
       ResultsCleared, Answer, Finish
  <2>3. EnteredOnlyCleared'
    BY <1>10 DEF FlowInv, EnteredOnlyCleared, Answer
  <2> QED
    BY <2>1, <2>2, <2>3
<1>11. ASSUME NEW r \in Request, Crash(r) PROVE Parts'
  BY <1>11 DEF FlowInv, TypeOK, PointsConsistent, OriginsCleared, HookAhead, ResultsCleared,
     NothingBeforeSecondFactor, EnteredOnlyCleared, Crash, Finish
<1>12. ASSUME NEW jwt \in held, Authenticate(jwt) PROVE Parts'
  <2>1. jwt.pair \in cleared
    BY <1>12 DEF FlowInv, NothingBeforeSecondFactor, Authenticate, verify_token
  <2> QED
    BY <1>12, <2>1 DEF FlowInv, PointsConsistent, OriginsCleared, HookAhead, ResultsCleared,
       NothingBeforeSecondFactor, EnteredOnlyCleared, Authenticate, locals
<1>13. ASSUME NEW on \in BOOLEAN, SetTwoFactor(on) PROVE Parts'
  BY <1>13 DEF FlowInv, PointsConsistent, OriginsCleared, HookAhead, ResultsCleared,
     NothingBeforeSecondFactor, EnteredOnlyCleared, SetTwoFactor, locals
<1>14. ASSUME UNCHANGED vars PROVE Parts'
  <2>1. UNCHANGED <<chain, held, at, kind, loaded, pair, from, hook, result, cleared, entered>>
    BY <1>14 DEF vars, locals
  <2>2. PointsConsistent' /\ OriginsCleared'
    BY <2>1 DEF FlowInv, PointsConsistent, OriginsCleared
  <2>3. HookAhead' /\ ResultsCleared'
    BY <2>1 DEF FlowInv, HookAhead, ResultsCleared
  <2>4. NothingBeforeSecondFactor' /\ EnteredOnlyCleared'
    BY <2>1 DEF FlowInv, NothingBeforeSecondFactor, EnteredOnlyCleared
  <2> QED
    BY <2>2, <2>3, <2>4
<1>15. Parts'
  <2> HIDE DEF Parts
  <2> QED
    BY <1>1, <1>2, <1>3, <1>4, <1>5, <1>6, <1>7, <1>8, <1>9, <1>10, <1>11, <1>12, <1>13,
       <1>14 DEF Next, Arrive, Progress
<1> QED
  BY <1>t, <1>15 DEF FlowInv

(***************************************************************************)
(* Results.                                                                *)
(***************************************************************************)

\* Every reachable state satisfies the inductive invariant: a token result reaches
\* the end of login only for a sign-in that owes nothing.
THEOREM LoginInvariant == Spec => []FlowInv
<1>1. Init => FlowInv
  <2> SUFFICES ASSUME Init PROVE FlowInv
    OBVIOUS
  <2>1. 1 \in DOMAIN chain
    BY ChainShape DEF Init
  <2>2. held \subseteq JWT /\ \A jwt \in held : jwt.typ \notin {"access", "refresh"}
    BY DEF Init, FreeJWT, JWT, SinglePurpose
  <2>3. TypeOK
    BY <2>1, <2>2 DEF Init, TypeOK, Points, Results
  <2>4. NothingBeforeSecondFactor
    BY <2>2 DEF NothingBeforeSecondFactor
  <2> QED
    BY <2>1, <2>3, <2>4 DEF Init, FlowInv, PointsConsistent, OriginsCleared,
       HookAhead, ResultsCleared, EnteredOnlyCleared
<1>2. QED
  BY <1>1, InvariantStep, PTL DEF Spec

\* The variables keep their types: in particular a hook index never leaves the chain.
THEOREM LoginTypes == Spec => []TypeOK
<1>1. FlowInv => TypeOK
  BY DEF FlowInv
<1>2. QED
  BY <1>1, LoginInvariant, PTL

\* However many hooks there are and however they were merged, no access or refresh
\* token of a sign-in that owes its second factor reaches a client.
THEOREM SecondFactorFirst == Spec => []NothingBeforeSecondFactor
<1>1. FlowInv => NothingBeforeSecondFactor
  BY DEF FlowInv
<1>2. QED
  BY <1>1, LoginInvariant, PTL

\* Nobody is authenticated on such a sign-in: a challenge token opens no request.
THEOREM OnlyClearedEnter == Spec => []EnteredOnlyCleared
<1>1. FlowInv => EnteredOnlyCleared
  BY DEF FlowInv
<1>2. QED
  BY <1>1, LoginInvariant, PTL
==============================================================================
