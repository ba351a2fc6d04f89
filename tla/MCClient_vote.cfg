SPECIFICATION VSpec
CONSTANTS
    Polls = {p1}
    Answers = {YES, NO}
    MaxAttempts = 2
    MaxEvents = 0
    NULL = NULL
CHECK_DEADLOCK FALSE
INVARIANT ConfirmedVoteCountable
