CONSTANTS
    NUM_THREADS = 3
    ROUNDS = 2
    TOTAL = 9
    Free = Free
    BUF_SIZE = 2
    PIPE_BUF = 2
    Capacity = 3
    MaxLen = 4
    Repeats = 2
SPECIFICATION FairSpec
CHECK_DEADLOCK FALSE
INVARIANTS
    FinalCount
    PrimesFound
    Complete
    AnswerOfThisRun
PROPERTIES
    ThreadsJoined
    ProcessesEnd
