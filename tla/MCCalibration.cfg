SPECIFICATION Spec
CONSTANTS
    Clients = {usb, tcp}
    NoClient = nobody
    Targets = {v1, i1}
    Raws <- MCRaws
    Actuals <- MCActuals
    Rates = {128}
    MaxPoints = 2
    DefaultTable <- MCDefaultTable
    NoTarget = none
    NoSession = nosession
    MaxGeneration = 5
SYMMETRY ClientsAlike
INVARIANTS
    TransactionsAreSound
PROPERTIES
    CapturesAreOwn
    ImplementsStore
