SPECIFICATION Spec
CONSTANTS
    Clients = {usb, tcp}
    NoClient = nobody
    Targets = {v1}
    Raws <- MCRaws
    Actuals <- MCActuals
    Rates = {128, 860}
    MaxPoints = 2
    DefaultTable <- MCDefaultTable
    NoTarget = none
    NoSession = nosession
    MaxGeneration = 5
PROPERTIES
    RateKept
