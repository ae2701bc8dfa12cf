CONSTANTS
    Null = Null
    Garbage = Garbage
    Zero = Zero
    x = x
    y = y
    Byte <- MCByte
    BUF_LEN = 2
    Width = 2
    File = {f1, f2}
    Minor = {0, 1}
    ChannelId = {0, 1, 2}
    NodeRef = {n1, n2}
    Buffer <- MCBuffer
    ReadLen = {1, 2}
    BadRead = TRUE
    Overlapping = {}
SPECIFICATION Spec
SYMMETRY Symmetric
INVARIANTS
    TypeOK
    NoUseAfterFree
    OneNodePerChannel
PROPERTY SlotsSpec
