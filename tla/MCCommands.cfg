SPECIFICATION AllSpec
CONSTANTS
    Registrars = {r1, r2}
    Dispatchers = {d1}
    Keywords = {"k1", "k2", "k3", "k4"}
    Entries = {"a", "b", "c", "d"}
    Words <- MCWords
    BuiltIn = {"k4"}
    Tables <- MCTables
    Capacity = 2
    Size = 3
    MaxLine = 5
    Letters = {"A"}
    MaxDepth = 2
    MaxExpansions = 4
    Beginnings <- MCBeginnings
    MaxWritten = 4
    Transports = {"usb", "tcp"}
    Blocking = {"tcp"}
    Parts = 2
    MaxQueries = 2
INVARIANTS
    PatternsAreExact
    RegistryIsSound
    AnswerIsOwn
PROPERTIES
    LineIsOneCommand
    CommandsReturn
CHECK_DEADLOCK FALSE
