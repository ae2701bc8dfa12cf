CONSTANTS
    Main = Main
    Null = Null
    root = root
    a = a
    b = b
    c = c
    d = d
    f1 = f1
    f2 = f2
    f3 = f3
    Root = root
    Dir <- MCDir
    File <- MCFile
    Contents <- MCContents
    Match <- MCMatch
    Thread = {t1, t2, t3}
    Denied = {}
    MaxOpen = 10
    Faults = {"argc", "opendir", "malloc", "pthread_create", "pthread_join", "thread_malloc", "dir_malloc", "readdir", "stat"}
    MaxFaults = 2
SPECIFICATION Spec
CHECK_DEADLOCK FALSE
SYMMETRY ThreadSymmetry
INVARIANTS
    IInv
    DoneComplete
    SuccessMeansComplete
PROPERTY SearchSpec
