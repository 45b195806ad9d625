\* A constant player limit of one: three accounts, one of them privileged.
CONSTANTS
    a1 = a1
    a2 = a2
    a3 = a3
    Accounts = {a1, a2, a3}
    Sessions = {s1, s2, s3, s4}
    NoSession = NoSession
    SkipQueue = {a3}
    Limits = {1}
    Tolerance = 1
    MaxLogins = 4
    MaxClock = 0
SYMMETRY SessionSymmetry
SPECIFICATION Spec
INVARIANTS NoDanglingSession QueueFlag PositionsAccurate WorkConserving LimitRespected
PROPERTIES FirstComeFirstServed NoOvertaking
