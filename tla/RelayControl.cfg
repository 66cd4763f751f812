SPECIFICATION Spec
CONSTANTS
    ScpiTasks = {usb}
    MqttTasks = {}
    TriggerTasks = {trigger}
    TimerTask = timer
    Sampler = sampler
    NoTask = none
    StepIds = {"A01"}
    MaxSteps = 1
INVARIANTS
    LocksAreSound
    LatchedRelayWasRaced
PROPERTIES
    TripStaysPaused
    ImplementsQueue
CHECK_DEADLOCK FALSE
