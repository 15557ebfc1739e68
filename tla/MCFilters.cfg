CONSTANTS
  Catalog <- MCCatalog
  MaxFrames = 2
  IntMax = 7
SPECIFICATION Spec
INVARIANTS
  ReferencesReturned
  NothingDangles
  OnlyAskedFor
  FrameRight
CHECK_DEADLOCK FALSE
