------------------------------ MODULE MCGuessing ------------------------------
(***************************************************************************)
(* Several requests guessing the password of one account at once, and how  *)
(* many guesses they get before the lock.                                  *)
(***************************************************************************)
EXTENDS AccountRow, Combinatorics

ASSUME RequestsAssumption == IsFiniteSet(Request)

VARIABLE failures     \* history: wrong passwords saved since the last lock

guessingVars == <<vars, failures>>

\* With n requests in flight and a threshold of max, (max - 1 + n choose n) - 1.
MostGuesses ==
    LET n == Cardinality(Request) IN choose(max_failed_login_attempts - 1 + n, n) - 1

\* A guess, or the save of one.  Bound: beyond MostGuesses the count stops.
Guess(r) == LoginFails(r) /\ UNCHANGED failures

SaveGuess(r) ==
    /\ Save(r)
    /\ failures' = IF mine[r].locked_until # loaded[r].locked_until THEN 0
                   ELSE IF failures > MostGuesses THEN failures ELSE failures + 1

\* Time goes by: a lock runs out and the guessing starts again.
Wait == Tick /\ UNCHANGED failures

GuessingNext == Wait \/ \E r \in Request : Guess(r) \/ SaveGuess(r)

\* Somebody keeps guessing, always wrong, and every coroutine reaches its end.
Guessing ==
    /\ Init /\ failures = 0
    /\ [][GuessingNext]_guessingVars
    /\ \A r \in Request :
          WF_guessingVars(SaveGuess(r)) /\ WF_guessingVars(Guess(r))

\* Concurrent guesses read the same count and overwrite each other's increment, so
\* more wrong passwords than the threshold fit before the lock, but only so many.
GuessesBounded == failures <= MostGuesses

\* However the guesses interleave, the guesser ends up locked out.
GuessingEndsInLock == <>(row.locked_until # 0)
==============================================================================
