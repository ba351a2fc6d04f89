SPECIFICATION LiveSpec
CONSTANTS
  vote1 = vote1
  vote2 = vote2
  k1 = k1
  k2 = k2
  x1 = x1
  x2 = x2
  c1 = c1
  c2 = c2
  c3 = c3
  h1 = h1
  h2 = h2
  Ids = {vote1, vote2}
  Keys = {k1, k2}
  Hashes = {x1, x2}
  Caps = {c1, c2, c3}
  Requests <- TwoVotes
  Handlers = {h1}
  AlienTx = AlienTx
  NoTx = NoTx
  NoReq = NoReq
  MaxDeliveries = 2
  MaxPolls = 1
  MaxRequests = 2
  MaxCrashes = 1
  Leaves = {"leaf"}
  IssuerSecrets = {"issuer-secret", "other-secret"}
  IssuerKey <- TheIssuerKey
  RegistryCapacity = 2
  Referenda <- TwoReferenda
  EnrollmentCloses <- Deadlines
  MinBatchSize = 2
  MaxWait = 1
  Polls = {p1, p2}
  Answers = {YES}
  MaxAttempts = 2
  MaxEvents = 0
  NULL = NULL
  NoRoot = NoRoot
  NoTime = NoTime
  MaxTime = 2
  MaxFaults = 1
  MaxRestarts = 1
CHECK_DEADLOCK FALSE
INVARIANTS
    AdmittedRootsAttested
    UndersizedBatchFlagged
PROPERTIES
    VoteSettles
    AttemptsEnd
    EnrolledEventuallyAdmitted
