SPECIFICATION LiveSpec
CONSTANTS
    Request = {r1, r2}
    Token = {t1, t2}
    Link = {l1, l2}
    None = None
    access_token_expire = 1
    MaxFaults = 1
INVARIANTS
    TypeOK
    OldSessionsEnd
    LeftoversExplained
    AccessInv
PROPERTIES
    StaleAccessIsBrief
    LeftoversEnd
