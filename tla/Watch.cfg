CONSTANTS
    Inc = {t2, t3}
    Watcher = t1
    TCOUNT = 10
    COUNT_LIMIT = 12
    Free = Free
SPECIFICATION FairSpec
INVARIANTS
    TypeOK
    CountExact
    WaitsForLimit
PROPERTY AllJoined
