SPECIFICATION FairSpec
CONSTANTS
    Manual = {m}
    Rounds = {s}
    RouterKeep = 2
    LocalKeep = 1
    Seconds = 2
    Nobody = nobody
INVARIANTS TypeOK LockHeldByRun
PROPERTIES PairReported DownloadReported LockReleased
CHECK_DEADLOCK FALSE
