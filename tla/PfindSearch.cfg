CONSTANTS
    Thread = {t1, t2, t3}
    Main = Main
    Null = Null
    root = root
    a = a
    b = b
    c = c
    d = d
    f1 = f1
    f2 = f2
    f3 = f3
    Root = root
    Dir <- MCDir
    File <- MCFile
    Contents <- MCContents
    Match <- MCMatch
    Denied = {}
    MaxOpen = 10
    Faults = {}
    MaxFaults = 0
SPECIFICATION FairSpec
INVARIANTS
    TypeOK
    StartBarrier
    SingleOwner
    WokenWithWork
    WorkHasWorker
    DoneQuiescent
PROPERTY SearchEnds
