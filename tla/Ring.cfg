CONSTANTS
  Frame = {f1, f2, f3}
  Blank = Blank
  Capacity = 4
  DropMod = 3
  WipeOnPop = TRUE
SPECIFICATION Spec
INVARIANT DeadSlotsAreWiped
PROPERTY ImplementsBoundedQueue
