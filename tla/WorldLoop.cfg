SPECIFICATION Spec
CONSTANTS
    HighWater = 1
    MaxLines = 2
    MaxTime = 2
    MaxPackets = 4
    MaxElapsed = 2
    Scenarios <- MCScenarios
INVARIANTS
    TypeOK
    SessionPointer
    OwnCharacter
    HandlersInTheirThread
    EveryoneLoggedOut
    NoFreedSocket
CHECK_DEADLOCK FALSE
PROPERTIES
    InOrder
    StopHonoursRequest
    ShutdownCompletes
    WorldTickEnds
    PacketsServed
