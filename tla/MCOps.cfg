SPECIFICATION Spec
CONSTANTS
    Tasks = {t1, t2, t3}
    Pids = {p1, p2}
    Stores = {"relay", "credential"}
    MaxDeaths <- MCMaxDeaths
    MaxContracts = 2
    MaxLeaves = 2
    MaxFailures = 1
    MaxEvidence = 1
CHECK_DEADLOCK FALSE
INVARIANTS
    ClaimedOnce
    JournalIsTrue
PROPERTIES
    OrphanLockRecovered
    JournaledRunFinishes
