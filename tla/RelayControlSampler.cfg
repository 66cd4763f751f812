SPECIFICATION FairSpec
CONSTANTS
    ScpiTasks = {usb}
    MqttTasks = {}
    TriggerTasks = {}
    TimerTask = timer
    Sampler = sampler
    NoTask = none
    StepIds = {"A01"}
    MaxSteps = 1
PROPERTIES
    SamplerReturns
CHECK_DEADLOCK FALSE
