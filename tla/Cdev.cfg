CONSTANTS
  Thread = {a, b}
  Process = {pa, pb}
  ProcOf <- OneThreadEach
  Privileged = {pa, pb}
  Producer = {k1, k2}
  RingBound = 2
  MaxPush = 3
  Nobody = Nobody
  pa = pa
  pb = pb
  a = a
  b = b
SPECIFICATION FairSpec
INVARIANTS OnlyHolderReads InPushOrder NoLostWakeup
PROPERTY SleeperWakes
CHECK_DEADLOCK FALSE
