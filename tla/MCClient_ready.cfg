SPECIFICATION ESpec
CONSTANTS
    MaxEnrollments = 1
    MaxAdapters = 2
    MaxNow = 0
    MaxFaults = 1
CHECK_DEADLOCK FALSE
PROPERTY ReadyIsVotable
