CONSTANTS
    Threads = {r1}
    ServerNames = {s1, s2}
    Timelines = {t1}
    NoValue = NoValue
    ZkFaults = TRUE
SPECIFICATION FairSpec
INVARIANT TypeOK
PROPERTY WatchedCacheCatchesUp
