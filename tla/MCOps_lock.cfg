SPECIFICATION Spec
CONSTANTS
    Tasks = {t1, t2, t3}
    Pids = {p1, p2}
    Stores = {"relay", "credential"}
    MaxDeaths <- MCMaxDeathsLock
    MaxContracts = 0
    MaxLeaves = 0
    MaxFailures = 0
    MaxEvidence = 0
INVARIANTS ClaimedOnce
CHECK_DEADLOCK FALSE
