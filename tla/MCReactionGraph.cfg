CONSTANTS
  src = src
  flt = flt
  mix = mix
  r1 = r1
  r2 = r2
  r3 = r3
  Substrate = {src, flt, mix}
  FrameCount = 1
  Deps <- GraphDeps
  Linear = {}
  Single = {mix}
  Guarded = {}
  MayFail = {flt}
  Worker = {w1, w2}
  Request = {r1, r2}
  KeyOf <- GraphKeyOf
  HistoryLimit = 2
  MissPerIndulgence = 1
  MaxGeneration = 3
  None = None
SPECIFICATION Spec
INVARIANTS
  InputsReady
  SingleNeverDangles
  NothingForgotten
PROPERTIES
  ServesFrames
CHECK_DEADLOCK FALSE
