CONSTANTS
    Null = Null
    Garbage = Garbage
    Zero = Zero
    x = x
    y = y
    Byte <- MCByte
    BUF_LEN = 2
    Width = 2
    File = {f1, f2}
    Minor = {0}
    ChannelId = {1, 5}
    NodeRef = {n1, n2, n3}
    Buffer <- MCNoBuffer
    ReadLen = {}
    BadRead = FALSE
    Overlapping = {}
SPECIFICATION Spec
SYMMETRY Symmetric
INVARIANT OneNodePerChannel
