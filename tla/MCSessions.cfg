SPECIFICATION Spec
CONSTANTS
    MaxAttempts = 3
    MaxHandshakes = 3
    Networks = {n1, n2}
    Expected = n1
    NoNetwork = none
    Pages <- MCPages
    Today <- MCToday
    MaxVisits = 9
    MaxRequests = 10
    MaxReadings = 2
    OwnPasts <- MCPasts
    MaxFunds = 1
    MaxTimeouts = 1
    Modes = {"demo", "showcase", "preview", "undeployed"}
    Ages = {0, 17, 18, 120, 121}
    MaxStages = 6
    MaxCalls = 1
    MaxMessages = 2
    Priorities = {p1, p2}
    Cap = 1
    Values = {v1, noAnswer}
    NoAnswer = noAnswer
    Areas = {a1}
    Budgets = {b1}
    Fundings = {f1}
    Null = null
    MaxDepth = 9
    MaxEdits = 2
CHECK_DEADLOCK FALSE
INVARIANTS
    ProvidersFollowWallet
    SessionApproved
    CameraReleased
    ReadPageIsEligible
    SavedMarkIsTrue
PROPERTIES
    FundedWalletPays
    NoScreenForgotten
    SessionArrivesAwaited
