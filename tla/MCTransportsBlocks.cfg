SPECIFICATION AllSpec
CONSTANTS
    MaxRetries = 2
    MaxEvents = 3
    FifoSize = 2
    EndpointSize = 2
    Sizes = {1, 5}
    MaxBurst = 2
    MaxAnswers = 3
    RetryLimit = 2
    Prompt = TRUE
INVARIANT
    BlocksAreWhole
CHECK_DEADLOCK FALSE
