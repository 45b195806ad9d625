\* Operations still queued when the pool is closed.
CONSTANTS
    world = world
    network = network
    ra = ra
    Threads = {world}
    Unjoined = {}
    Pinger = world
    NoThread = NoThread
    AsyncCount = 1
    SynchCount = 1
    QueueLimit = 1
    MaxOps = 1
SPECIFICATION Spec
INVARIANT SavesExecuted
