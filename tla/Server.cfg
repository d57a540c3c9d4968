SPECIFICATION FairSpec
CONSTANTS
    Conn = {c1, c2}
    Rot = {0, 1}
    Foreign = foreign
    Frames <- MCFrames
    LenSize = 1
    EncHdrSize = 1
    EventSize = 2
    KprobeSize = 1
    MaxBody = 3
    CacheMax = 1
    MaxSent = 2
INVARIANTS VerdictPerFrame CacheSound
PROPERTIES SessionDrains
CHECK_DEADLOCK FALSE
