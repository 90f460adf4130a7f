SPECIFICATION FairSpec
CONSTANTS
    Event <- MCEvent
    Unencodable <- MCUnencodable
    QueueSize = 2
    FlushSize = 2
INVARIANTS
    StopFlushes
PROPERTIES
    ImplementsTrail
    EventsAreFlushed
    ShutdownEnds
