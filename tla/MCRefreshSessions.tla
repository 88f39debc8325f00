-------------------------- MODULE MCRefreshSessions --------------------------
(* RefreshSessions on small sets for TLC. *)
EXTENDS RefreshSessions, TLC

\* Users, tokens and request slots are interchangeable: no action or property
\* names one.
Symmetry == Permutations(User) \cup Permutations(Token) \cup Permutations(Request)
==============================================================================
