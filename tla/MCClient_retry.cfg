SPECIFICATION ESpec
CONSTANTS
    MaxEnrollments = 1
    MaxAdapters = 1
    MaxNow = 1
    MaxFaults = 2
CHECK_DEADLOCK FALSE
INVARIANT RetryIsIdempotent
