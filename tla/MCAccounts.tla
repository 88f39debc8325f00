------------------------------ MODULE MCAccounts ------------------------------
(* Accounts on small sets for TLC. *)
EXTENDS Accounts, TLC

CONSTANTS p1, p2, a1, a2

\* Two identities at one provider.
OneProvider == {<<p1, a1>>, <<p1, a2>>}

\* An account that is linked to the first two has an element with the provider of
\* the third and one with its account id, but is not linked to it.
Crossed == {<<p1, a1>>, <<p2, a2>>, <<p1, a2>>}

\* No constant names a1 or a2 alone.
Symmetry == Permutations(Request) \cup Permutations(User) \cup Permutations(Email)
              \cup Permutations({a1, a2})
==============================================================================
