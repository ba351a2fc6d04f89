SPECIFICATION Spec
CONSTANTS
    Polls = {p1}
    Answers = {YES, NO}
    MaxAttempts = 2
    MaxEvents = 1
    NULL = NULL
    MaxEnrollments = 2
    MaxAdapters = 2
    MaxNow = 1
    MaxFaults = 3
SYMMETRY Symmetry
CHECK_DEADLOCK FALSE
INVARIANTS
    ReceiptBackedByLedger
    OneLiveActionPerPoll
    KeptCredentialOpens
PROPERTIES
    ReadyIsUsable
