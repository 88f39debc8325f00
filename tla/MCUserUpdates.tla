---------------------------- MODULE MCUserUpdates ----------------------------
(* UserUpdates on small sets for TLC.                                        *)
EXTENDS UserUpdates, TLC

\* One field or two at once, switched off and on again, and what no route declares.
MCPayload ==
    {[display_name |-> n] : n \in Name} \cup
    {[is_superuser |-> FALSE], [is_active |-> FALSE],
     [is_active |-> TRUE, is_superuser |-> TRUE],
     [display_name |-> CHOOSE n \in Name : TRUE, is_superuser |-> TRUE]}

Symmetry == Permutations(Request) \cup Permutations(User)
==============================================================================
