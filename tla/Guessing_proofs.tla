---------------------------- MODULE Guessing_proofs ----------------------------
(***************************************************************************)
(* Proofs about MCGuessing, for any number of requests, any threshold and  *)
(* either repository: how many wrong passwords can be saved before a lock. *)
(*                                                                         *)
(* The stored counter is no measure of progress: a save that started early *)
(* takes it back.  The profile of the counts in use is one: no save that   *)
(* does not lock brings an earlier profile back, so there are no more such *)
(* saves than profiles, and these are counted by the binomial coefficient. *)
(***************************************************************************)
EXTENDS MCGuessing, AccountRow_proofs, FiniteSetTheorems, TLAPS

Threshold == max_failed_login_attempts - 1      \* the last count before the lock
Levels == 1..Threshold

\* The count a request is working with: the one it loaded, or the one it would load.
Count(r) == IF at[r] = "save" THEN loaded[r].failed_login_attempts
            ELSE row.failed_login_attempts

AtLeast(c) == {r \in Request : Count(r) >= c}

\* How many requests work with a count of at least c, for each c.
Profile == [c \in Levels |-> Cardinality(AtLeast(c))]

\* The profiles n requests can have over m levels.
Profiles(m, n) ==
    {P \in [1..m -> 0..n] : \A c, d \in 1..m : c <= d => P[d] <= P[c]}

\* Q is further on than P: it has more requests on some level, and no fewer below.
Below(P, Q) ==
    \E c \in Levels : P[c] < Q[c] /\ \A d \in Levels : d < c => P[d] <= Q[d]

\* The profiles that cannot come back.
Passed == {P \in Profiles(Threshold, Cardinality(Request)) : Below(P, Profile)}

\* A guess under way has one more failure than it loaded, or a new lock.
CopiesGuess ==
    \A r \in Request :
        /\ at[r] \in {"idle", "save"}
        /\ at[r] = "save" =>
              /\ kind[r] = "login" /\ arg[r] = Wrong
              /\ mine[r].locked_until = loaded[r].locked_until =>
                    mine[r].failed_login_attempts = loaded[r].failed_login_attempts + 1

GuessInv ==
    /\ RowInv /\ CopiesGuess
    /\ failures \in Nat /\ failures <= Cardinality(Passed)
------------------------------------------------------------------------------
(* Counting profiles. *)

\* Every set of numbers has a least one.
LEMMA LeastNatural ==
    ASSUME NEW S \in SUBSET Nat, S # {}
    PROVE  \E n \in S : \A k \in S : n <= k
<1> DEFINE R == OpToRel(<, Nat)
<1>1. \A x, y \in Nat : <<x, y>> \in R <=> x < y
  BY DEF OpToRel
<1>2. IsWellFoundedOn(R, Nat)
  BY NatLessThanWellFounded
<1> HIDE DEF R
<1>3. PICK x \in S : \A y \in S : ~(<<y, x>> \in R)
  BY <1>2, WFMin
<1>4. \A k \in S : ~(k < x)
  BY <1>1, <1>3
<1> QED
  BY <1>4

\* What holds of 0, and of n + 1 when it holds of n.
LEMMA SetInduction ==
    ASSUME NEW S \in SUBSET Nat, 0 \in S, \A n \in S : n + 1 \in S
    PROVE  S = Nat
<1> SUFFICES ASSUME Nat \ S # {} PROVE FALSE
  OBVIOUS
<1>1. PICK n \in Nat \ S : \A k \in Nat \ S : n <= k
  BY LeastNatural
<1>2. n # 0 /\ n - 1 \in Nat
  BY <1>1
<1>3. n - 1 \in S
  BY <1>1, <1>2
<1> QED
  BY <1>1, <1>2, <1>3

LEMMA FactorialDef ==
    /\ factorial[0] = 1
    /\ \A n \in Nat : factorial[n + 1] = (n + 1) * factorial[n]
<1>1. NatInductiveDefHypothesis(factorial, 1, LAMBDA v, n : n * v)
  BY DEF NatInductiveDefHypothesis, factorial
<1>2. NatInductiveDefConclusion(factorial, 1, LAMBDA v, n : n * v)
  BY <1>1, NatInductiveDef
<1>3. factorial = [n \in Nat |-> IF n = 0 THEN 1 ELSE n * factorial[n - 1]]
  BY <1>2 DEF NatInductiveDefConclusion
<1>4. \A n \in Nat : factorial[n] = IF n = 0 THEN 1 ELSE n * factorial[n - 1]
  BY <1>3
<1>5. ASSUME NEW n \in Nat PROVE factorial[n + 1] = (n + 1) * factorial[n]
  <2>1. n + 1 \in Nat /\ n + 1 # 0 /\ (n + 1) - 1 = n
    OBVIOUS
  <2> QED
    BY <1>4, <2>1
<1> QED
  BY <1>4, <1>5

LEMMA FactorialType == \A n \in Nat : factorial[n] \in Nat \ {0}
<1> DEFINE S == {n \in Nat : factorial[n] \in Nat \ {0}}
<1>1. 0 \in S
  BY FactorialDef
<1>2. ASSUME NEW n \in S PROVE n + 1 \in S
  <2>1. factorial[n + 1] = (n + 1) * factorial[n] /\ factorial[n] \in Nat \ {0} /\ n \in Nat
    BY FactorialDef
  <2>2. \A a, b \in Nat \ {0} : a * b \in Nat \ {0}
    OBVIOUS
  <2>3. n + 1 \in Nat \ {0}
    BY <2>1
  <2> QED
    BY <2>1, <2>2, <2>3
<1>3. S = Nat
  <2> HIDE DEF S
  <2>1. S \in SUBSET Nat
    BY DEF S
  <2> QED
    BY <1>1, <1>2, <2>1, SetInduction
<1> QED
  BY <1>3

\* One profile has no levels, and one has no requests.
LEMMA OneProfile ==
    ASSUME NEW m \in Nat, NEW n \in Nat, m = 0 \/ n = 0
    PROVE  Profiles(m, n) = {[c \in 1..m |-> 0]}
<1> DEFINE Z == [c \in 1..m |-> 0]
<1>1. Z \in Profiles(m, n)
  BY DEF Profiles
<1>2. ASSUME NEW P \in Profiles(m, n) PROVE P = Z
  <2>1. P \in [1..m -> 0..n]
    BY DEF Profiles
  <2>2. \A c \in 1..m : P[c] = 0
    BY <2>1
  <2> QED
    BY <2>1, <2>2
<1> QED
  BY <1>1, <1>2

\* The profiles that are zero on their last level are those of one level less ...
LEMMA ZeroOnTop ==
    ASSUME NEW m \in Nat, NEW n \in Nat
    PROVE  ExistsBijection(Profiles(m, n), {P \in Profiles(m + 1, n) : P[m + 1] = 0})
<1> DEFINE A == {P \in Profiles(m + 1, n) : P[m + 1] = 0}
           Ext(Q) == [c \in 1..(m + 1) |-> IF c = m + 1 THEN 0 ELSE Q[c]]
           f == [Q \in Profiles(m, n) |-> Ext(Q)]
<1>1. ASSUME NEW Q \in Profiles(m, n) PROVE Ext(Q) \in A
  <2>1. Q \in [1..m -> 0..n] /\ \A c, d \in 1..m : c <= d => Q[d] <= Q[c]
    BY DEF Profiles
  <2>2. \A c \in 1..(m + 1) : Ext(Q)[c] \in 0..n
    BY <2>1
  <2>3. ASSUME NEW c \in 1..(m + 1), NEW d \in 1..(m + 1), c <= d
        PROVE  Ext(Q)[d] <= Ext(Q)[c]
    BY <2>1, <2>3
  <2>4. Ext(Q)[m + 1] = 0
    OBVIOUS
  <2> QED
    BY <2>2, <2>3, <2>4 DEF Profiles
<1>2. ASSUME NEW Q \in Profiles(m, n), NEW R \in Profiles(m, n), Ext(Q) = Ext(R)
      PROVE  Q = R
  <2>1. Q \in [1..m -> 0..n] /\ R \in [1..m -> 0..n]
    BY DEF Profiles
  <2>2. ASSUME NEW c \in 1..m PROVE Q[c] = R[c]
    <3>1. Ext(Q)[c] = Ext(R)[c] /\ c \in 1..(m + 1) /\ c # m + 1
      BY <1>2
    <3> QED
      BY <3>1
  <2> QED
    BY <2>1, <2>2
<1>3. ASSUME NEW P \in A PROVE \E Q \in Profiles(m, n) : Ext(Q) = P
  <2> DEFINE Q == [c \in 1..m |-> P[c]]
  <2>1. P \in [1..(m + 1) -> 0..n] /\ \A c, d \in 1..(m + 1) : c <= d => P[d] <= P[c]
    BY DEF Profiles
  <2>2. Q \in [1..m -> 0..n]
    BY <2>1
  <2>3. \A c, d \in 1..m : c <= d => Q[d] <= Q[c]
    BY <2>1
  <2>4. Q \in Profiles(m, n)
    BY <2>2, <2>3 DEF Profiles
  <2>5. Ext(Q) = P
    <3>1. \A c \in 1..(m + 1) : Ext(Q)[c] = P[c]
      BY <2>1
    <3> QED
      BY <2>1, <3>1
  <2> QED
    BY <2>4, <2>5
<1> HIDE DEF Ext, A
<1>4. f \in Bijection(Profiles(m, n), A)
  BY <1>1, <1>2, <1>3 DEF Bijection, Injection, Surjection, IsInjective
<1> QED
  BY <1>4 DEF ExistsBijection, A

\* ... and the others are those of one request less, raised by one everywhere.
LEMMA PositiveOnTop ==
    ASSUME NEW m \in Nat, NEW n \in Nat
    PROVE  ExistsBijection(Profiles(m + 1, n),
                           {P \in Profiles(m + 1, n + 1) : P[m + 1] # 0})
<1> DEFINE B == {P \in Profiles(m + 1, n + 1) : P[m + 1] # 0}
           Up(Q) == [c \in 1..(m + 1) |-> Q[c] + 1]
           f == [Q \in Profiles(m + 1, n) |-> Up(Q)]
<1>1. ASSUME NEW Q \in Profiles(m + 1, n) PROVE Up(Q) \in B
  <2>1. Q \in [1..(m + 1) -> 0..n] /\ \A c, d \in 1..(m + 1) : c <= d => Q[d] <= Q[c]
    BY DEF Profiles
  <2>2. \A c \in 1..(m + 1) : Up(Q)[c] \in 0..(n + 1) /\ Up(Q)[c] # 0
    BY <2>1
  <2>3. ASSUME NEW c \in 1..(m + 1), NEW d \in 1..(m + 1), c <= d
        PROVE  Up(Q)[d] <= Up(Q)[c]
    BY <2>1, <2>3
  <2> QED
    BY <2>2, <2>3 DEF Profiles
<1>2. ASSUME NEW Q \in Profiles(m + 1, n), NEW R \in Profiles(m + 1, n), Up(Q) = Up(R)
      PROVE  Q = R
  <2>1. Q \in [1..(m + 1) -> 0..n] /\ R \in [1..(m + 1) -> 0..n]
    BY DEF Profiles
  <2>2. ASSUME NEW c \in 1..(m + 1) PROVE Q[c] = R[c]
    <3>1. Up(Q)[c] = Up(R)[c]
      BY <1>2
    <3> QED
      BY <2>1, <3>1
  <2> QED
    BY <2>1, <2>2
<1>3. ASSUME NEW P \in B PROVE \E Q \in Profiles(m + 1, n) : Up(Q) = P
  <2> DEFINE Q == [c \in 1..(m + 1) |-> P[c] - 1]
  <2>1. P \in [1..(m + 1) -> 0..(n + 1)] /\ \A c, d \in 1..(m + 1) : c <= d => P[d] <= P[c]
    BY DEF Profiles
  <2>2. ASSUME NEW c \in 1..(m + 1) PROVE P[c] \in 1..(n + 1)
    <3>1. P[m + 1] <= P[c] /\ P[m + 1] # 0
      BY <2>1
    <3> QED
      BY <2>1, <3>1
  <2>3. Q \in [1..(m + 1) -> 0..n]
    BY <2>2
  <2>4. \A c, d \in 1..(m + 1) : c <= d => Q[d] <= Q[c]
    BY <2>1, <2>2
  <2>5. Q \in Profiles(m + 1, n)
    BY <2>3, <2>4 DEF Profiles
  <2>6. Up(Q) = P
    <3>1. \A c \in 1..(m + 1) : Up(Q)[c] = P[c]
      BY <2>2
    <3> QED
      BY <2>1, <3>1
  <2> QED
    BY <2>5, <2>6
<1> HIDE DEF Up, B
<1>4. f \in Bijection(Profiles(m + 1, n), B)
  BY <1>1, <1>2, <1>3 DEF Bijection, Injection, Surjection, IsInjective
<1> QED
  BY <1>4 DEF ExistsBijection, B

\* The arithmetic of Pascal's rule, for the four factorials involved.
LEMMA PascalArithmetic ==
    ASSUME NEW m \in Nat, NEW n \in Nat, NEW X \in Nat, NEW Y \in Nat, NEW F \in Nat,
           NEW fm \in Nat, NEW fn \in Nat,
           F = X * (fm * ((n + 1) * fn)), F = Y * (((m + 1) * fm) * fn)
    PROVE  (m + n + 2) * F = (X + Y) * (((m + 1) * fm) * ((n + 1) * fn))
<1> DEFINE g == ((m + 1) * fm) * ((n + 1) * fn)
<1>1. (m + n + 2) * F = (m + 1) * F + (n + 1) * F
  OBVIOUS
<1>2. (m + 1) * F = X * g
  BY Z3
<1>3. (n + 1) * F = Y * g
  BY Z3
<1>4. g \in Nat
  OBVIOUS
<1>5. (X + Y) * g = X * g + Y * g
  <2> HIDE DEF g
  <2> QED
    BY <1>4
<1> QED
  BY <1>1, <1>2, <1>3, <1>5

\* How many profiles there are, with division put as a product.
LEMMA ProfilesCounted ==
    \A m, n \in Nat :
        /\ IsFiniteSet(Profiles(m, n))
        /\ factorial[m + n] = Cardinality(Profiles(m, n)) * (factorial[m] * factorial[n])
<1> DEFINE Fine(m, n) ==
             /\ IsFiniteSet(Profiles(m, n))
             /\ factorial[m + n] = Cardinality(Profiles(m, n)) * (factorial[m] * factorial[n])
           S == {s \in Nat : \A m, n \in Nat : m + n = s => Fine(m, n)}
<1>1. ASSUME NEW m \in Nat, NEW n \in Nat, m = 0 \/ n = 0 PROVE Fine(m, n)
  <2>1. Profiles(m, n) = {[c \in 1..m |-> 0]}
    BY <1>1, OneProfile
  <2>2. IsFiniteSet(Profiles(m, n)) /\ Cardinality(Profiles(m, n)) = 1
    BY <2>1, FS_Singleton
  <2>3. /\ m = 0 => m + n = n /\ factorial[m] = 1
        /\ n = 0 => m + n = m /\ factorial[n] = 1
    BY FactorialDef
  <2>4. factorial[m] \in Nat /\ factorial[n] \in Nat
    BY FactorialType
  <2> QED
    BY <1>1, <2>2, <2>3, <2>4
<1>2. ASSUME NEW m \in Nat, NEW n \in Nat, Fine(m, n + 1), Fine(m + 1, n)
      PROVE  Fine(m + 1, n + 1)
  <2> DEFINE A == {P \in Profiles(m + 1, n + 1) : P[m + 1] = 0}
             B == {P \in Profiles(m + 1, n + 1) : P[m + 1] # 0}
             X == Cardinality(Profiles(m, n + 1))
             Y == Cardinality(Profiles(m + 1, n))
  <2>1. IsFiniteSet(A) /\ Cardinality(A) = X /\ X \in Nat
    <3>1. ExistsBijection(Profiles(m, n + 1), A)
      BY ZeroOnTop
    <3> QED
      BY <1>2, <3>1, FS_Bijection, FS_CardinalityType
  <2>2. IsFiniteSet(B) /\ Cardinality(B) = Y /\ Y \in Nat
    <3>1. ExistsBijection(Profiles(m + 1, n), B)
      BY PositiveOnTop
    <3> QED
      BY <1>2, <3>1, FS_Bijection, FS_CardinalityType
  <2>3. Profiles(m + 1, n + 1) = A \cup B /\ A \cap B = {}
    OBVIOUS
  <2>4. /\ IsFiniteSet(Profiles(m + 1, n + 1))
        /\ Cardinality(Profiles(m + 1, n + 1)) = X + Y
    <3> HIDE DEF A, B, X, Y
    <3>1. /\ IsFiniteSet(A \cup B)
          /\ Cardinality(A \cup B) = Cardinality(A) + Cardinality(B) - Cardinality(A \cap B)
      BY <2>1, <2>2, FS_Union
    <3>2. Cardinality(A \cap B) = 0
      BY <2>3, FS_EmptySet
    <3> QED
      BY <2>1, <2>2, <2>3, <3>1, <3>2
  <2> HIDE DEF A, B
  <2> DEFINE fm == factorial[m]
             fn == factorial[n]
             F  == factorial[m + n + 1]
  <2>5. /\ factorial[m + 1] = (m + 1) * fm /\ factorial[n + 1] = (n + 1) * fn
        /\ factorial[(m + n + 1) + 1] = ((m + n + 1) + 1) * F
    BY FactorialDef
  <2>6. fm \in Nat /\ fn \in Nat /\ F \in Nat
    BY FactorialType
  <2>7. m + (n + 1) = m + n + 1 /\ (m + 1) + n = m + n + 1
        /\ (m + 1) + (n + 1) = (m + n + 1) + 1 /\ (m + n + 1) + 1 = m + n + 2
    OBVIOUS
  <2>8. F = X * (fm * ((n + 1) * fn)) /\ F = Y * (((m + 1) * fm) * fn)
    BY <1>2, <2>5, <2>7
  <2>9. factorial[(m + 1) + (n + 1)] = (m + n + 2) * F
    BY <2>5, <2>7
  <2> HIDE DEF X, Y, fm, fn, F
  <2>10. (m + n + 2) * F = (X + Y) * (((m + 1) * fm) * ((n + 1) * fn))
    BY <2>1, <2>2, <2>6, <2>8, PascalArithmetic
  <2> QED
    BY <2>4, <2>5, <2>9, <2>10
<1>3. 0 \in S
  BY <1>1
<1>4. ASSUME NEW s \in S PROVE s + 1 \in S
  <2>1. s \in Nat /\ \A m, n \in Nat : m + n = s => Fine(m, n)
    OBVIOUS
  <2> HIDE DEF Fine
  <2>2. ASSUME NEW m \in Nat, NEW n \in Nat, m + n = s + 1 PROVE Fine(m, n)
    <3>1. CASE m = 0 \/ n = 0
      BY <1>1, <3>1
    <3>2. CASE ~(m = 0 \/ n = 0)
      <4> DEFINE a == m - 1
                 b == n - 1
      <4>1. a \in Nat /\ b \in Nat /\ m = a + 1 /\ n = b + 1
        BY <3>2
      <4>2. a + (b + 1) = s /\ (a + 1) + b = s
        BY <2>1, <2>2, <4>1
      <4> HIDE DEF a, b
      <4>3. Fine(a, b + 1) /\ Fine(a + 1, b)
        BY <2>1, <4>1, <4>2
      <4> QED
        BY <1>2, <4>1, <4>3
    <3> QED
      BY <3>1, <3>2
  <2> QED
    BY <2>1, <2>2
<1> HIDE DEF Fine
<1>5. S = Nat
  <2>1. S \in SUBSET Nat
    OBVIOUS
  <2> HIDE DEF S
  <2> QED
    BY <1>3, <1>4, <2>1, SetInduction
<1>6. ASSUME NEW m \in Nat, NEW n \in Nat PROVE Fine(m, n)
  <2>1. m + n \in S
    <3> HIDE DEF S
    <3> QED
      BY <1>5
  <2> QED
    BY <2>1
<1> QED
  BY <1>6 DEF Fine

\* Their number is the binomial coefficient.
LEMMA ChooseCounts ==
    ASSUME NEW m \in Nat, NEW n \in Nat
    PROVE  choose(m + n, n) = Cardinality(Profiles(m, n))
<1> DEFINE C == Cardinality(Profiles(m, n))
           D == factorial[n] * factorial[m]
<1>1. C \in Nat
  BY ProfilesCounted, FS_CardinalityType
<1>2. factorial[m] \in Nat \ {0} /\ factorial[n] \in Nat \ {0}
  BY FactorialType
<1>3. D \in Nat \ {0}
  <2>1. \A a, b \in Nat \ {0} : a * b \in Nat \ {0}
    OBVIOUS
  <2> QED
    BY <1>2, <2>1
<1>4. factorial[m + n] = C * D
  <2>1. factorial[m + n] = C * (factorial[m] * factorial[n])
    BY ProfilesCounted
  <2>2. factorial[m] * factorial[n] = D
    BY <1>2
  <2> QED
    BY <2>1, <2>2
<1>5. (m + n) - n = m
  OBVIOUS
<1>6. choose(m + n, n) = factorial[m + n] \div D
  BY <1>5 DEF choose
<1> HIDE DEF C, D
<1>7. (C * D) \div D = C
  BY <1>1, <1>3, Z3
<1> QED
  BY <1>4, <1>6, <1>7 DEF C
------------------------------------------------------------------------------
(* Profiles in order. *)

\* What the constants are.
LEMMA Constants ==
    /\ Threshold \in Nat
    /\ IsFiniteSet(Request) /\ Cardinality(Request) \in Nat
    /\ max_failed_login_attempts - 1 = Threshold
<1>1. Threshold \in Nat /\ max_failed_login_attempts - 1 = Threshold
  BY SettingsAssumption DEF Threshold
<1> QED
  BY <1>1, RequestsAssumption, FS_CardinalityType

\* A profile never comes before itself, and the order is transitive.
LEMMA BelowIsOrder ==
    ASSUME NEW P \in [Levels -> Nat], NEW Q \in [Levels -> Nat], NEW R \in [Levels -> Nat]
    PROVE  ~Below(P, P) /\ (Below(P, Q) /\ Below(Q, R) => Below(P, R))
<1>1. ~Below(P, P)
  BY DEF Below
<1>2. ASSUME Below(P, Q), Below(Q, R) PROVE Below(P, R)
  <2>1. PICK c \in Levels : P[c] < Q[c] /\ \A d \in Levels : d < c => P[d] <= Q[d]
    BY <1>2 DEF Below
  <2>2. PICK e \in Levels : Q[e] < R[e] /\ \A d \in Levels : d < e => Q[d] <= R[d]
    BY <1>2 DEF Below
  <2>3. c \in Int /\ e \in Int /\ Levels \subseteq Int
    BY Constants DEF Levels
  <2>4. ASSUME NEW d \in Levels, d < c, d < e PROVE P[d] <= R[d]
    <3>1. P[d] <= Q[d] /\ Q[d] <= R[d] /\ P[d] \in Nat /\ Q[d] \in Nat /\ R[d] \in Nat
      BY <2>1, <2>2, <2>4
    <3> QED
      BY <3>1
  <2>5. CASE c < e
    <3>1. Q[c] <= R[c]
      BY <2>2, <2>5
    <3>2. P[c] < R[c]
      BY <2>1, <3>1
    <3>3. \A d \in Levels : d < c => P[d] <= R[d]
      BY <2>3, <2>4, <2>5
    <3> QED
      BY <3>2, <3>3 DEF Below
  <2>6. CASE ~(c < e)
    <3>1. P[e] <= Q[e]
      BY <2>1, <2>3, <2>6
    <3>2. P[e] < R[e]
      BY <2>2, <3>1
    <3>3. \A d \in Levels : d < e => P[d] <= R[d]
      BY <2>3, <2>4, <2>6
    <3> QED
      BY <3>2, <3>3 DEF Below
  <2> QED
    BY <2>5, <2>6
<1> QED
  BY <1>1, <1>2

\* Profiles are functions from levels to numbers.
LEMMA ProfilesTyped ==
    Profiles(Threshold, Cardinality(Request)) \subseteq [Levels -> Nat]
<1> SUFFICES ASSUME NEW P \in Profiles(Threshold, Cardinality(Request))
             PROVE  P \in [Levels -> Nat]
  OBVIOUS
<1>1. P \in [Levels -> 0..Cardinality(Request)]
  BY DEF Profiles, Levels
<1> QED
  BY <1>1, Constants

\* The counts in use are numbers.
LEMMA CountTyped ==
    ASSUME RowInv, NEW r \in Request
    PROVE  Count(r) \in 0..Threshold
<1>1. row \in Row /\ loaded[r] \in Row
  BY DEF RowInv, TypeOK
<1>2. \A u \in Row : u.failed_login_attempts \in 0..Threshold
  BY DEF Row, Threshold
<1> QED
  BY <1>1, <1>2 DEF Count

\* The profile of a state is one of the profiles counted above.
LEMMA ProfileIsOne ==
    RowInv => Profile \in Profiles(Threshold, Cardinality(Request))
<1> SUFFICES ASSUME RowInv PROVE Profile \in Profiles(Threshold, Cardinality(Request))
  OBVIOUS
<1> DEFINE n == Cardinality(Request)
<1>1. ASSUME NEW c \in Levels
      PROVE  IsFiniteSet(AtLeast(c)) /\ Cardinality(AtLeast(c)) \in 0..n
  <2>1. AtLeast(c) \in SUBSET Request
    BY DEF AtLeast
  <2>2. IsFiniteSet(AtLeast(c)) /\ Cardinality(AtLeast(c)) <= n
    BY <2>1, Constants, FS_Subset
  <2>3. Cardinality(AtLeast(c)) \in Nat
    BY <2>2, FS_CardinalityType
  <2> QED
    BY <2>2, <2>3, Constants
<1>2. ASSUME NEW c \in Levels, NEW d \in Levels, c <= d
      PROVE  Cardinality(AtLeast(d)) <= Cardinality(AtLeast(c))
  <2>1. AtLeast(d) \in SUBSET AtLeast(c)
    <3>1. \A r \in Request : Count(r) \in Int /\ c \in Int /\ d \in Int
      BY CountTyped, Constants DEF Levels
    <3> QED
      BY <1>2, <3>1 DEF AtLeast
  <2> QED
    BY <1>1, <2>1, FS_Subset
<1>3. Profile \in [Levels -> 0..n]
  BY <1>1 DEF Profile
<1>4. \A c, d \in Levels : c <= d => Profile[d] <= Profile[c]
  BY <1>2 DEF Profile
<1> QED
  BY <1>3, <1>4 DEF Profiles, Levels

\* Passed profiles are fewer than the profiles: the present one is not among them.
LEMMA PassedBounded ==
    RowInv => /\ IsFiniteSet(Passed) /\ Cardinality(Passed) \in Nat
              /\ Cardinality(Passed) <= MostGuesses /\ MostGuesses \in Nat
<1> SUFFICES ASSUME RowInv
             PROVE  /\ IsFiniteSet(Passed) /\ Cardinality(Passed) \in Nat
                    /\ Cardinality(Passed) <= MostGuesses /\ MostGuesses \in Nat
  OBVIOUS
<1> DEFINE All == Profiles(Threshold, Cardinality(Request))
<1>1. IsFiniteSet(All) /\ Cardinality(All) \in Nat
  BY Constants, ProfilesCounted, FS_CardinalityType
<1>2. Passed \in SUBSET (All \ {Profile})
  <2>1. Profile \in [Levels -> Nat]
    BY ProfileIsOne, ProfilesTyped
  <2> QED
    BY <2>1, BelowIsOrder DEF Passed
<1>3. IsFiniteSet(All \ {Profile}) /\ Cardinality(All \ {Profile}) = Cardinality(All) - 1
  BY <1>1, ProfileIsOne, FS_RemoveElement
<1>4. IsFiniteSet(Passed) /\ Cardinality(Passed) <= Cardinality(All) - 1
  BY <1>2, <1>3, FS_Subset
<1>5. Cardinality(Passed) \in Nat
  BY <1>4, FS_CardinalityType
<1>6. MostGuesses = Cardinality(All) - 1
  BY Constants, ChooseCounts DEF MostGuesses
<1> HIDE DEF All
<1> QED
  BY <1>1, <1>4, <1>5, <1>6

\* A profile that is further on has more behind it.
LEMMA PassedGrows ==
    ASSUME RowInv, RowInv', Below(Profile, Profile')
    PROVE  Cardinality(Passed) + 1 <= Cardinality(Passed')
<1>1. /\ Profile \in [Levels -> Nat] /\ Profile' \in [Levels -> Nat]
      /\ Profile \in Profiles(Threshold, Cardinality(Request))
  <2>1. (Profile \in Profiles(Threshold, Cardinality(Request)))'
    BY ProfileIsOne, PTL
  <2> QED
    BY <2>1, ProfileIsOne, ProfilesTyped
<1>2. Profile \notin Passed
  BY <1>1, BelowIsOrder DEF Passed
<1>3. Passed' = {P \in Profiles(Threshold, Cardinality(Request)) : Below(P, Profile')}
  BY DEF Passed, Below
<1>4. Passed \cup {Profile} \in SUBSET Passed'
  <2>1. ASSUME NEW P \in Passed PROVE P \in Passed'
    <3>1. P \in Profiles(Threshold, Cardinality(Request)) /\ Below(P, Profile)
      BY DEF Passed
    <3>2. P \in [Levels -> Nat]
      BY <3>1, ProfilesTyped
    <3>3. Below(P, Profile')
      BY <1>1, <3>1, <3>2, BelowIsOrder
    <3> QED
      BY <1>3, <3>1, <3>3
  <2>2. Profile \in Passed'
    BY <1>1, <1>3
  <2> QED
    BY <2>1, <2>2
<1>5. IsFiniteSet(Passed) /\ Cardinality(Passed) \in Nat /\ IsFiniteSet(Passed')
  <2>1. (IsFiniteSet(Passed))'
    BY PassedBounded, PTL
  <2> QED
    BY <2>1, PassedBounded
<1>6. Cardinality(Passed \cup {Profile}) = Cardinality(Passed) + 1
  BY <1>2, <1>5, FS_AddElement
<1> QED
  BY <1>4, <1>5, <1>6, FS_Subset
------------------------------------------------------------------------------
(* The steps. *)

\* Nobody is guessing at first.
LEMMA GuessingInit == Init /\ failures = 0 => GuessInv
<1> SUFFICES ASSUME Init, failures = 0 PROVE GuessInv
  OBVIOUS
<1>1. RowInv
  BY InitInv
<1>2. CopiesGuess
  BY DEF Init, CopiesGuess
<1> QED
  BY <1>1, <1>2, PassedBounded DEF GuessInv

\* A guess loads the count it was already put down for.
LEMMA GuessKeepsProfile ==
    ASSUME RowInv, CopiesGuess, NEW r \in Request, LoginFails(r)
    PROVE  Profile' = Profile /\ CopiesGuess'
<1>1. /\ at[r] = "idle" /\ UNCHANGED row
      /\ at' = [at EXCEPT ![r] = "save"] /\ kind' = [kind EXCEPT ![r] = "login"]
      /\ loaded' = [loaded EXCEPT ![r] = row]
      /\ mine' = [mine EXCEPT ![r] = FailedAttempt(row)]
      /\ arg' = [arg EXCEPT ![r] = Wrong]
  BY DEF LoginFails, Begin, stored
<1>2. /\ at \in [Request -> {"idle", "save", "issue", "revokeAll", "mail"}]
      /\ DOMAIN kind = Request /\ DOMAIN loaded = Request /\ DOMAIN mine = Request
      /\ DOMAIN arg = Request /\ row \in Row /\ now \in 1..MaxTime
  BY DEF RowInv, TypeOK
<1>3. \A q \in Request : Count(q)' = Count(q)
  BY <1>1, <1>2 DEF Count
<1>4. \A c \in Levels : AtLeast(c)' = AtLeast(c)
  BY <1>3 DEF AtLeast
<1>5. Profile' = Profile
  BY <1>4 DEF Profile
<1>6. FailedAttempt(row).locked_until = row.locked_until =>
          FailedAttempt(row).failed_login_attempts = row.failed_login_attempts + 1
  <2>1. CASE row.failed_login_attempts + 1 >= max_failed_login_attempts
    <3>1. FailedAttempt(row).locked_until = now + account_lockout_minutes
      BY <1>2, <2>1 DEF FailedAttempt, Row
    <3>2. ~(row.locked_until > now) /\ row.locked_until \in Nat
      BY <1>2, SettingsAssumption DEF LoginFails, Locked, Row, Time
    <3> QED
      BY <1>2, <3>1, <3>2, SettingsAssumption
  <2>2. CASE ~(row.failed_login_attempts + 1 >= max_failed_login_attempts)
    BY <1>2, <2>2 DEF FailedAttempt, Row
  <2> QED
    BY <2>1, <2>2
<1>7. CopiesGuess'
  <2> SUFFICES ASSUME NEW q \in Request
               PROVE  /\ at'[q] \in {"idle", "save"}
                      /\ at'[q] = "save" =>
                           /\ kind'[q] = "login" /\ arg'[q] = Wrong
                           /\ mine'[q].locked_until = loaded'[q].locked_until =>
                                mine'[q].failed_login_attempts
                                  = loaded'[q].failed_login_attempts + 1
    BY DEF CopiesGuess
  <2> QED
    BY <1>1, <1>2, <1>6 DEF CopiesGuess
<1> QED
  BY <1>5, <1>7

\* What the save of a guess does to the request and to the counter.
LEMMA GuessSaved ==
    ASSUME RowInv, CopiesGuess, NEW r \in Request, Save(r)
    PROVE  /\ CopiesGuess' /\ at[r] = "save"
           /\ at' = [at EXCEPT ![r] = "idle"] /\ loaded' = [loaded EXCEPT ![r] = FreshRow]
           /\ mine[r].locked_until = loaded[r].locked_until =>
                 row'.failed_login_attempts = loaded[r].failed_login_attempts + 1
<1>1. at[r] = "save" /\ kind[r] = "login" /\ arg[r] = Wrong
  BY DEF Save, CopiesGuess
<1>2. AfterSave(r) = "idle"
  BY <1>1 DEF AfterSave, Succeeds
<1>3. /\ at' = [at EXCEPT ![r] = "idle"] /\ loaded' = [loaded EXCEPT ![r] = FreshRow]
      /\ kind' = [kind EXCEPT ![r] = "none"] /\ mine' = [mine EXCEPT ![r] = FreshRow]
      /\ arg' = [arg EXCEPT ![r] = None]
  BY <1>2 DEF Save, Goto
<1>4. /\ at \in [Request -> {"idle", "save", "issue", "revokeAll", "mail"}]
      /\ DOMAIN kind = Request /\ loaded \in [Request -> Row] /\ mine \in [Request -> Row]
      /\ DOMAIN arg = Request /\ row \in Row
  BY DEF RowInv, TypeOK
<1>5. CopiesGuess'
  <2> SUFFICES ASSUME NEW q \in Request
               PROVE  /\ at'[q] \in {"idle", "save"}
                      /\ at'[q] = "save" =>
                           /\ kind'[q] = "login" /\ arg'[q] = Wrong
                           /\ mine'[q].locked_until = loaded'[q].locked_until =>
                                mine'[q].failed_login_attempts
                                  = loaded'[q].failed_login_attempts + 1
    BY DEF CopiesGuess
  <2>1. CASE q = r
    BY <1>3, <1>4, <2>1
  <2>2. CASE q # r
    BY <1>3, <1>4, <2>2 DEF CopiesGuess
  <2> QED
    BY <2>1, <2>2
<1>6. ASSUME mine[r].locked_until = loaded[r].locked_until
      PROVE  row'.failed_login_attempts = loaded[r].failed_login_attempts + 1
  <2>1. mine[r].failed_login_attempts = loaded[r].failed_login_attempts + 1
    BY <1>1, <1>6 DEF CopiesGuess
  <2>2. loaded[r].failed_login_attempts \in Nat
    BY <1>4, SettingsAssumption DEF Row
  <2>3. row' = Saved(Backend, row, loaded[r], mine[r])
    BY DEF Save, SaveRow
  <2>4. row' = [f \in Columns |-> IF Backend = "beanie" \/ mine[r][f] # loaded[r][f]
                                  THEN mine[r][f] ELSE row[f]]
    BY <1>4, <2>3, SavedRow
  <2>5. row'["failed_login_attempts"] = mine[r]["failed_login_attempts"]
    BY <2>1, <2>2, <2>4 DEF Columns
  <2> QED
    BY <2>1, <2>5
<1> QED
  BY <1>1, <1>3, <1>5, <1>6

\* A save that does not lock takes the profile further: its request and all that
\* have yet to load now work with one failure more than it loaded.
LEMMA SaveClimbs ==
    ASSUME RowInv, RowInv', CopiesGuess, NEW r \in Request, Save(r),
           mine[r].locked_until = loaded[r].locked_until
    PROVE  Below(Profile, Profile')
<1>0. PICK a \in Nat : a = loaded[r].failed_login_attempts
  BY SettingsAssumption DEF RowInv, TypeOK, Row
<1>1. /\ at[r] = "save" /\ at' = [at EXCEPT ![r] = "idle"]
      /\ loaded' = [loaded EXCEPT ![r] = FreshRow] /\ row'.failed_login_attempts = a + 1
  BY <1>0, GuessSaved
<1>2. DOMAIN at = Request /\ DOMAIN loaded = Request
  BY DEF RowInv, TypeOK
<1>3. a + 1 \in Levels
  <2>1. row' \in Row
    BY DEF RowInv, TypeOK
  <2>2. a + 1 \in 0..Threshold
    BY <1>1, <2>1, SettingsAssumption DEF Row, Threshold
  <2> QED
    BY <2>2 DEF Levels
<1>4. Count(r) = a /\ \A q \in Request : Count(q)' = IF at[q] = "save" /\ q # r
                                                     THEN Count(q) ELSE a + 1
  BY <1>0, <1>1, <1>2 DEF Count
<1>5. \A q \in Request : Count(q) \in Int /\ Count(q)' \in Int
  <2>1. \A q \in Request : Count(q) \in Int
    BY CountTyped, Constants
  <2> QED
    BY <1>3, <1>4, <2>1
<1>6. ASSUME NEW c \in Levels, c <= a + 1 PROVE AtLeast(c) \in SUBSET (AtLeast(c)')
  BY <1>3, <1>4, <1>5, <1>6 DEF AtLeast, Levels
<1>7. r \in AtLeast(a + 1)' /\ r \notin AtLeast(a + 1)
  BY <1>3, <1>4 DEF AtLeast
<1>8. ASSUME NEW c \in Levels
      PROVE  IsFiniteSet(AtLeast(c)') /\ Cardinality(AtLeast(c)) \in Nat
             /\ Cardinality(AtLeast(c)') \in Nat
  <2>1. AtLeast(c) \in SUBSET Request /\ AtLeast(c)' \in SUBSET Request
    BY DEF AtLeast
  <2> QED
    BY <2>1, Constants, FS_Subset, FS_CardinalityType
<1>9. \A d \in Levels : d < a + 1 => Profile[d] <= Profile'[d]
  <2> SUFFICES ASSUME NEW d \in Levels, d < a + 1 PROVE Profile[d] <= Profile'[d]
    OBVIOUS
  <2>1. d <= a + 1
    BY <1>3 DEF Levels
  <2>2. Cardinality(AtLeast(d)) <= Cardinality(AtLeast(d)')
    BY <1>6, <1>8, <2>1, FS_Subset
  <2> QED
    BY <2>2 DEF Profile
<1>10. Profile[a + 1] < Profile'[a + 1]
  <2> DEFINE S == AtLeast(a + 1)
             T == AtLeast(a + 1)'
  <2>1. S \in SUBSET T /\ S # T
    BY <1>3, <1>6, <1>7
  <2>2. IsFiniteSet(T) /\ Cardinality(S) \in Nat /\ Cardinality(T) \in Nat
    BY <1>3, <1>8
  <2>3. Profile[a + 1] = Cardinality(S) /\ Profile'[a + 1] = Cardinality(T)
    BY <1>3 DEF Profile
  <2> HIDE DEF S, T
  <2>4. Cardinality(S) <= Cardinality(T) /\ Cardinality(S) # Cardinality(T)
    BY <2>1, <2>2, FS_Subset
  <2> QED
    BY <2>2, <2>3, <2>4
<1> QED
  BY <1>3, <1>9, <1>10 DEF Below

\* Time, a guess and the save of one keep the invariant.
LEMMA GuessingStep == GuessInv /\ [GuessingNext]_guessingVars => GuessInv'
<1> SUFFICES ASSUME GuessInv, [GuessingNext]_guessingVars PROVE GuessInv'
  OBVIOUS
<1>1. RowInv /\ CopiesGuess /\ failures \in Nat /\ failures <= Cardinality(Passed)
  BY DEF GuessInv
<1>2. [Next]_vars
  BY DEF GuessingNext, Guess, SaveGuess, Wait, guessingVars, Next, Arrive, Progress
<1>3. RowInv'
  BY <1>1, <1>2, StepInv
<1>4. ASSUME Profile' = Profile, CopiesGuess', UNCHANGED failures PROVE GuessInv'
  <2>1. Passed' = Passed
    BY <1>4 DEF Passed, Below
  <2> QED
    BY <1>1, <1>3, <1>4, <2>1 DEF GuessInv
<1>5. ASSUME UNCHANGED <<row, at, kind, loaded, mine, arg, failures>> PROVE GuessInv'
  <2>1. \A c \in Levels : AtLeast(c)' = AtLeast(c)
    BY <1>5 DEF AtLeast, Count
  <2>2. Profile' = Profile
    BY <2>1 DEF Profile
  <2>3. CopiesGuess'
    BY <1>1, <1>5 DEF CopiesGuess
  <2> QED
    BY <1>4, <1>5, <2>2, <2>3
<1>6. CASE UNCHANGED guessingVars
  BY <1>5, <1>6 DEF guessingVars, vars, stored, locals
<1>7. CASE Wait
  BY <1>5, <1>7 DEF Wait, Tick, stored, locals
<1>8. ASSUME NEW r \in Request, Guess(r) PROVE GuessInv'
  BY <1>1, <1>4, <1>8, GuessKeepsProfile DEF Guess
<1>9. ASSUME NEW r \in Request, SaveGuess(r) PROVE GuessInv'
  <2>1. Save(r) /\ CopiesGuess'
    BY <1>1, <1>9, GuessSaved DEF SaveGuess
  <2>2. (Cardinality(Passed) \in Nat)'
    BY <1>3, PassedBounded, PTL
  <2>3. CASE mine[r].locked_until # loaded[r].locked_until
    <3>1. failures' = 0
      BY <1>9, <2>3 DEF SaveGuess
    <3> QED
      BY <1>3, <2>1, <2>2, <3>1 DEF GuessInv
  <2>4. CASE mine[r].locked_until = loaded[r].locked_until
    <3>1. Below(Profile, Profile')
      BY <1>1, <1>3, <2>1, <2>4, SaveClimbs
    <3>2. Cardinality(Passed) + 1 <= Cardinality(Passed')
      BY <1>1, <1>3, <3>1, PassedGrows
    <3>3. Cardinality(Passed) \in Nat /\ Cardinality(Passed) <= MostGuesses /\ MostGuesses \in Nat
      BY <1>1, PassedBounded
    <3>4. failures' = failures + 1
      BY <1>1, <1>9, <2>4, <3>3 DEF SaveGuess
    <3>5. failures' \in Nat /\ failures' <= Cardinality(Passed')
      BY <1>1, <2>2, <3>2, <3>3, <3>4
    <3> QED
      BY <1>3, <2>1, <3>5 DEF GuessInv
  <2> QED
    BY <2>3, <2>4
<1> QED
  BY <1>6, <1>7, <1>8, <1>9 DEF GuessingNext

\* The wrong passwords saved since the last lock are no more than the profiles that
\* cannot come back.
THEOREM GuessingInvariant == Guessing => []GuessInv
BY GuessingInit, GuessingStep, PTL DEF Guessing

\* However many requests guess at once, whatever the threshold and whichever the
\* repository, no more wrong passwords are saved before a lock than the binomial
\* coefficient allows.
THEOREM GuessesStayBounded == Guessing => []GuessesBounded
<1>1. GuessInv => GuessesBounded
  BY PassedBounded DEF GuessInv, GuessesBounded
<1> QED
  BY <1>1, GuessingInvariant, PTL
================================================================================
