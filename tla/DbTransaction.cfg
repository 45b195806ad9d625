\* Every fault of a command and every outcome of a reconnection.
CONSTANTS
    Size <- FourTransactions
    LoopBreaker = 2
    Faults = {"deadlock", "skip", "fatal", "lost", "replyLost"}
    Reconnects = {"ok", "refused", "prepareFailed"}
    MaxFaults = 4
SPECIFICATION Spec
INVARIANTS TypeOK ReportedDoneIsDone OrderRespected AppliedTwiceOnlyIfReplyLost
PROPERTY AllOrNothing
