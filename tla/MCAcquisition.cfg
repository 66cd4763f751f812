SPECIFICATION AllSpec
CONSTANTS
    Current = i1
    Nothing = none
    Inputs <- MCInputs
    Pgas = {256, 512}
    Rates = {100, 128, 860}
    DefaultRate = 128
    Scanned <- MCInputs
    PowerVoltage = v1
    PowerCurrent = i1
    AdcCodes = {0, 20}
    TopRange = 1
    ScanRates = {128, 860}
    FirstRate = 128
    CaptureDiscards = 2
    MaxSpread = 16
    SampleCounts = {1, 2}
    NoSample = none
    MaxGeneration = 7
    MaxEpoch = 2
    TickMs = 10
    TickAges = {0, 6}
    Voltages <- MCVoltages
    MaxChanges = 1
    TablePgas = {256, 512}
    MinPoints = 0
    MaxTable = 3
    Q16 = 4
    HalfCodes = 4
    CodeWindows <- MCWindows
    Actuals = {0, 1, 5}
    Capacity = 3
    Clients = {usb}
    MaxPublished = 8
INVARIANTS
    AcceptedIsSettled
    WindowIsSound
    CorrectionIsSound
    HistoryIsSound
PROPERTIES
    ConversionsAreFresh
    RangeIsSound
    ImplementsLog
CHECK_DEADLOCK FALSE
