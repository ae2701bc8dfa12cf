CONSTANTS
    Null = Null
    Garbage = Garbage
    Zero = Zero
    x = x
    y = y
    Byte <- MCByte
    BUF_LEN = 1
    Width = 2
    File = {f1, f2}
    Minor = {0, 1}
    ChannelId = {1}
    NodeRef = {n1, n2, n3}
    Buffer <- MCNoBuffer
    ReadLen = {}
    BadRead = FALSE
    Overlapping = {"ioctl"}
SPECIFICATION Spec
SYMMETRY Symmetric
INVARIANTS
    FreedOnce
    ListsInitialized
