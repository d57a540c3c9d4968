SPECIFICATION FairPathSpec
CONSTANTS
    LogCap = 2
    MaxLines = 3
    MaxClock = 1
    MaxInc = 2
    Calls <- MCCalls
INVARIANTS OncePerRun SeenIsWritten OneEntryPerTear 
PROPERTIES CaughtUp
CHECK_DEADLOCK FALSE
