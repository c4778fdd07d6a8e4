SPECIFICATION SubmissionSpec
CONSTANTS
    MaxAttempts = 3
    OrderWindow = 1
    RestartDelay = 2
    Patience = 6
    MaxFaults = 2
INVARIANTS
    RetryCannotDoubleFill
