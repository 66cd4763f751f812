INIT AllInit
NEXT AllNext
CONSTANTS
    Steps <- MCSteps
    MaxSteps = 2
    MsParts = 2
    TickMs = 2
    MaxNow = 12
    MaxCalls = 5
    Sessions = {s1}
    DayParts = 2
    Wrap = 5
    MaxElapsed = 8
    Dates <- MCDates
    MaxSets = 2
    MaxRetries = 1
    MaxEvents = 3
    Intervals = {1, 3}
    MaxTime = 6
    MaxSamples = 3
INVARIANTS
    StepRunsItsTime
    ClearTurnsOff
    ReadingIsTime
    LedsTellTheTruth
    TelemetryIsOnTime
PROPERTIES
    TimerImplementsQueue
CHECK_DEADLOCK FALSE
