SPECIFICATION Spec
CONSTANTS
    User = {u1}
    Token = {t1, t2, t3}
    Request = {r1, r2}
    Backend = "sqlalchemy"
    None = None
SYMMETRY Symmetry
INVARIANTS
    TypeOK
    RotationConsumesParent
    EndAllIsComplete
    DeletedUserHasNoSession
    IInv
PROPERTIES
    OverForGood
    ImplementsLedger
