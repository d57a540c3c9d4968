SPECIFICATION FairSpec
CONSTANTS
    Bit = {b1, b2}
    BatchCap = 2
    MaxBatch = 3
    Thread = {t1, t2}
    Pid = {p1}
    Burst = 2
    Task = {k1, k2}
    Instance = {i1}
    NoInst = NoInst
    Path = {"exact", "home_ssh", "home"}
INVARIANTS NoWorkAfterUnload NoRepeatedAlert ReportsFollowProbes HiddenIsReported CriticalHasCause OpensAreReported
PROPERTIES TamperingIsNoticed
CHECK_DEADLOCK FALSE
