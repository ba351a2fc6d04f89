SPECIFICATION Spec
CONSTANTS
  vote1 = vote1
  vote2 = vote2
  k1 = k1
  k2 = k2
  x1 = x1
  x2 = x2
  c1 = c1
  c2 = c2
  c3 = c3
  h1 = h1
  h2 = h2
  Ids = {vote1, vote2}
  Keys = {k1, k2}
  Hashes = {x1, x2}
  Caps = {c1, c2, c3}
  Requests <- Clashing
  Handlers = {h1, h2}
  AlienTx = AlienTx
  NoTx = NoTx
  NoReq = NoReq
  MaxDeliveries = 3
  MaxPolls = 1
  MaxRequests = 3
  MaxCrashes = 1
SYMMETRY HandlersAlike
CHECK_DEADLOCK FALSE
INVARIANTS
    TypeOK
    SubmitAtMostOnce
    UnsentWhileReplayable
    DustLeaseExclusive
    UnsettledTxHoldsLease
    ReceiptBacked
    PendingJobWatched
PROPERTIES
    KeepsPromise
