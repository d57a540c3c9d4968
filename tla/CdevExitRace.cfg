CONSTANTS
  Thread = {a, b}
  Process = {pa, pb}
  ProcOf <- OneThreadEach
  Privileged = {pa, pb}
  Producer = {k1}
  RingBound = 2
  MaxPush = 2
  Nobody = Nobody
  pa = pa
  pb = pb
  a = a
  b = b
SPECIFICATION Spec
INVARIANT ReadersGoneBeforeFree
CHECK_DEADLOCK FALSE
