SPECIFICATION Retrying
CONSTANTS
    Request = {r1, r2}
    User = {u1, u2, u3}
    Email = {e1}
    p1 = p1  p2 = p2  a1 = a1  a2 = a2
    Identity <- OneProvider
    Backend = "sqlalchemy"
    None = None
    MaxFaults = 2
PROPERTIES
    RetrySucceeds
