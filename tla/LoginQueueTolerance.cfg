\* The clock passes the disconnect tolerance.
CONSTANTS
    a1 = a1
    a2 = a2
    a3 = a3
    Accounts = {a1, a2}
    Sessions = {s1, s2, s3}
    NoSession = NoSession
    SkipQueue = {}
    Limits = {1}
    Tolerance = 1
    MaxLogins = 3
    MaxClock = 2
SPECIFICATION Spec
INVARIANT DocumentedLimit
