CONSTANTS
  src = src
  flt = flt
  mix = mix
  r1 = r1
  r2 = r2
  r3 = r3
  Substrate = {src, flt}
  FrameCount = 2
  Deps <- LinearDeps
  Linear = {src}
  Single = {src}
  Guarded = {flt}
  MayFail = {src}
  Worker = {w1, w2}
  Request = {r1, r2, r3}
  KeyOf <- LinearKeyOf
  HistoryLimit = 2
  MissPerIndulgence = 1
  MaxGeneration = 3
  None = None
SPECIFICATION Spec
INVARIANTS
  SingleThreaded
  InitialisesAlone
PROPERTIES
  ServesFrames
CHECK_DEADLOCK FALSE
