SPECIFICATION Guessing
CHECK_DEADLOCK FALSE
CONSTANTS
    Request = {r1, r2, r3}
    ResetToken = {t1}
    Name = {n1}
    None = None
    Backend = "sqlalchemy"
    Kinds = {"login"}
    max_failed_login_attempts = 3
    account_lockout_minutes = 1
    password_reset_token_expire_minutes = 1
    MaxPassword = 1
    MaxTime = 3
INVARIANTS
    GuessesBounded
PROPERTIES
    GuessingEndsInLock
