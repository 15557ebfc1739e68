CONSTANTS
  a = a
  b = b
  unary = unary
  binary = binary
  Source = {a, b}
  Func = {unary, binary}
  Arity <- MCArity
  MaxStep = 2
  MaxSource = 2
  KeepsSources = TRUE
  None = None
SPECIFICATION Spec
CONSTRAINT NotStale
INVARIANTS
  NoCycle
  HeldStable
  FramesTrue
CHECK_DEADLOCK FALSE
