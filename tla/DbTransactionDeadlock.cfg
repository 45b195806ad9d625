\* Deadlocks only.
CONSTANTS
    Size <- TwoTransactions
    LoopBreaker = 5
    Faults = {"deadlock"}
    Reconnects = {}
    MaxFaults = 3
SPECIFICATION Spec
INVARIANT DeadlockRerun
