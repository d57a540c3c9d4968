CONSTANTS
  Logger = {t1, t2}
  NCpu = 2
  BufBound = 1
  RingBound = 1
  MaxSeq = 3
SPECIFICATION FairSpec
INVARIANTS NoStrandedEvent ExactlyOnePlace StatsAddUp
PROPERTY EventuallyOutOfBuffers
CHECK_DEADLOCK FALSE
