SPECIFICATION Spec
CHECK_DEADLOCK FALSE
CONSTANTS
    Request = {r1, r2}
    User = {u1, u2}
    Name = {n1, n2}
    Payload <- MCPayload
    required = {"users:manage"}
    on_after_update = 2
    None = None
SYMMETRY Symmetry
INVARIANTS
    TypeOK
    UpdateInv
PROPERTIES
    OnlyAcceptedUpdatesLand
    ChangesAnswerToCaller
    AnsweredTookEffect
