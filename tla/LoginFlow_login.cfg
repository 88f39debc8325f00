SPECIFICATION Spec
CONSTANTS
    Request = {r1, r2}
    Pair = {p1, p2, p3}
    HostHooks = {"claims", "audit"}
    None = None
SYMMETRY Symmetry
INVARIANTS
    TypeOK
    NothingBeforeSecondFactor
    EnteredOnlyCleared
    FlowInv
