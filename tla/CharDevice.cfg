CONSTANTS
    User = {u}
    Other = {p, q}
    BUF_LEN = 2
    CharSize = 3
    Hello <- MCHello
    Buffers <- MCBuffers
    Flags = {0, 1, 2}
    None = None
SPECIFICATION FairSpec
INVARIANTS
    TypeOK
    ExclusiveOpen
    UserUndisturbed
PROPERTY CallsReturn
