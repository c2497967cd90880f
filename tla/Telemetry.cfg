SPECIFICATION TelemetrySpec
CONSTANTS
    Streams = {s1, s2}
    Cap = 1
    BatchSize = 2
    MaxEvents = 2
    Bots = {b1, b2}
    QueueCap = 2
    MaxEmits = 5
    MaxFaults = 2
INVARIANTS
    NoSendOnClosedChannel
    EventConservation
    BoundedLoss
    LosslessWhileHealthy
PROPERTIES
    ImplementsLossyQueue
    AcceptedIsPublished
    ShutdownCompletes
    ClientIsLossyQueue
    QueueMoves
    WorkerExits
