SPECIFICATION AllSpec
CONSTANTS
    Clients = {c1, c2}
    Idle = Idle
    Unknown = Unknown
    None = None
    Functions <- Names
    ActionOf <- Actions
    Defaults <- SlotDefaults
    NoPin = NoPin
    Pins = {io5, io4}
    QueueLength = 8
    MaxEdges = 4
INVARIANT
    MappingIsPersisted
CHECK_DEADLOCK FALSE
