\* The player limit is switched on and off while sessions wait; progress of
\* the world thread, so no symmetry.
CONSTANTS
    a1 = a1
    a2 = a2
    a3 = a3
    Accounts = {a1, a2}
    Sessions = {s1, s2, s3}
    NoSession = NoSession
    SkipQueue = {}
    Limits = {0, 1}
    Tolerance = 0
    MaxLogins = 3
    MaxClock = 1
SPECIFICATION FairSpec
PROPERTIES ClosedSessionsLeave
