CONSTANTS
  Thread = {t1, t2, t3}
  NumClasses <- MCNumClasses
  RoundSize <- MCRoundSize
  Base = 16
  Bin = 4
  Size <- MCSize
  CopyLimit = 1
  CopyQuantum = 2
  None = None
SPECIFICATION Spec
INVARIANTS
  EachBlockOnce
  CopyInside
PROPERTIES
  ImplementsHeap
  LowMemoryEnds
CHECK_DEADLOCK FALSE
