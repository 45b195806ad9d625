\* Two workers, two synchronous connections and three core threads, one of which
\* is not joined.
CONSTANTS
    world = world
    network = network
    ra = ra
    Threads = {world, network, ra}
    Unjoined = {ra}
    Pinger = world
    NoThread = NoThread
    AsyncCount = 2
    SynchCount = 2
    QueueLimit = 2
    MaxOps = 3
SPECIFICATION FairSpec
INVARIANTS TypeOK OneThreadPerConnection NoUseAfterClose
PROPERTIES OpsExecuted CloseReturns
