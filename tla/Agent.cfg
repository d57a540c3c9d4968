SPECIFICATION FairSpec
CONSTANTS
    Agent = {a1, a2}
    Injecting = {a1}
    NoAgent = noagent
    RingBound = 1
    MaxFrame = 2
    MaxSession = 2
    MaxLife = 2
INVARIANTS DeviceHasOneUser NoFrameTwice LoggedFramesDecrypt
PROPERTIES ImplementsAtMostOnce RelayDrains SignalEndsAgent
CHECK_DEADLOCK FALSE
