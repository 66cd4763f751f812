SPECIFICATION AllSpec
CONSTANTS
    Brokers = {a, b}
    Off = Off
    None = None
    InputSets <- Pairs
INVARIANTS
    ServiceIsAsConfigured
    BrokerShowsRelay
PROPERTIES
    Connects
