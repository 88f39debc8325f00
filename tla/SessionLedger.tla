---------------------------- MODULE SessionLedger ----------------------------
(***************************************************************************)
(* What the refresh-token store promises, with no requests in it: a token  *)
(* is granted once, to one user, by a sign-in or in exchange for a token   *)
(* that has already ended; it may end alone or together with all the       *)
(* tokens of its user; an ended token is never granted again.              *)
(***************************************************************************)
CONSTANTS User, Token, None

VARIABLES status, holder, from

ledger == <<status, holder, from>>

Live(u) == {t \in Token : status[t] = "live" /\ holder[t] = u}

Init ==
    /\ status = [t \in Token |-> "unissued"]
    /\ holder = [t \in Token |-> None]
    /\ from = [t \in Token |-> None]

\* p is the token given in exchange, None for a sign-in.
Grant(t, u, p) ==
    /\ status[t] = "unissued"
    /\ p # None => status[p] = "ended" /\ holder[p] = u
    /\ status' = [status EXCEPT ![t] = "live"]
    /\ holder' = [holder EXCEPT ![t] = u]
    /\ from' = [from EXCEPT ![t] = p]

End(S) ==
    /\ status' = [t \in Token |-> IF t \in S THEN "ended" ELSE status[t]]
    /\ UNCHANGED <<holder, from>>

Next ==
    \/ \E t \in Token, u \in User, p \in Token \cup {None} : Grant(t, u, p)
    \/ \E u \in User : End(Live(u)) \/ \E t \in Live(u) : End({t})

Spec == Init /\ [][Next]_ledger
==============================================================================
