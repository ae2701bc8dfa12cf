CONSTANTS
    Null = Null
    Garbage = Garbage
    Zero = Zero
    x = x
    Byte <- MCByte
    BUF_LEN = 2
    Width = 2
    Sender = {f1}
    Reader = {f2}
    File = {f1, f2, f3}
    Minor = {0}
    ChannelId = {1, 2}
    NodeRef = {n1}
    Buffer <- MCBuffer
    ReadLen = {1, 2}
    BadRead = FALSE
    Overlapping = {"read", "write"}
SPECIFICATION ClientSpec
INVARIANTS
    NoGarbageRead
    Delivered
