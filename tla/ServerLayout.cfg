SPECIFICATION Spec
CONSTANTS
    Conn = {c1}
    Rot = {0}
    Foreign = foreign
    Frames <- KernelFrames
    LenSize = 4
    EncHdrSize = 46
    EventSize = 538
    KprobeSize = 77
    MaxBody = 65536
    CacheMax = 1024
    MaxSent = 1
INVARIANTS DecryptedIsIndexed
CHECK_DEADLOCK FALSE
