SPECIFICATION Spec
CONSTANTS
    Request = {r1, r2}
    ResetToken = {t1}
    Name = {n1}
    None = None
    Backend = "sqlalchemy"
    Kinds = {"login", "forgot", "reset", "verify", "profile", "admin"}
    max_failed_login_attempts = 2
    account_lockout_minutes = 1
    password_reset_token_expire_minutes = 1
    MaxPassword = 1
    MaxTime = 2
SYMMETRY Symmetry
INVARIANTS
    TypeOK
PROPERTIES
    SpentForGood
    OldPasswordNeverOpens
    FlagsOnlyByAdmin
    LockClearedOnlyBy
