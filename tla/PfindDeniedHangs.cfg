CONSTANTS
    Main = Main
    Null = Null
    root = root
    a = a
    b = b
    c = c
    d = d
    f1 = f1
    f2 = f2
    f3 = f3
    Root = root
    Dir <- MCDir
    File <- MCFile
    Contents <- MCContents
    Match <- MCMatch
    Thread = {t1, t2}
    Denied = {b}
    MaxOpen = 10
    Faults = {}
    MaxFaults = 0
SPECIFICATION FairSpec
CHECK_DEADLOCK FALSE
PROPERTY AllSleepReached
