SPECIFICATION FairSpec
CONSTANTS
  vote1 = vote1
  vote2 = vote2
  k1 = k1
  k2 = k2
  x1 = x1
  x2 = x2
  c1 = c1
  c2 = c2
  c3 = c3
  h1 = h1
  h2 = h2
  Ids = {vote1, vote2}
  Keys = {k1, k2}
  Hashes = {x1, x2}
  Caps = {c1, c2, c3}
  Requests <- TwoVotes
  Handlers = {h1}
  AlienTx = AlienTx
  NoTx = NoTx
  NoReq = NoReq
  MaxDeliveries = 2
  MaxPolls = 0
  MaxRequests = 2
  MaxCrashes = 0
PROPERTIES
  ValidatedJobTakesFreeLease
CHECK_DEADLOCK FALSE
