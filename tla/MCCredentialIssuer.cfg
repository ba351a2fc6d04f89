SPECIFICATION FairSpec
CONSTANTS
  Enrollments = {"e1", "e2"}
  Evidence = {"v1"}
  Requests <- SomeRequests
  NoRequest = NoRequest
  IssuerSecret = "issuer-secret"
  EmptySecret = "zeros"
  Leaves <- SomeLeaves
  IssuerSecrets = {"issuer-secret"}
  IssuerKey <- TheIssuerKey
  RegistryCapacity = 2
  MaxDraws = 3
  MaxDeliveries = 3
  MaxFaults = 1
  MaxRestarts = 1
CHECK_DEADLOCK FALSE
INVARIANTS
    AnsweredIsOnLedger
    OneAnswerPerEnrollment
    FreezeKeepsEveryAnswer
PROPERTIES
    IssuanceSettles
