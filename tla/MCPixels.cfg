CONSTANTS
  StencilCalls <- MCStencilCalls
  BlendCalls <- MCBlendCalls
  PointCalls <- MCPointCalls
  BlurCalls <- MCBlurCalls
  StatsCalls <- MCStatsCalls
  TransposeCalls <- MCTransposeCalls
  ExprCalls <- MCExprCalls
  Processors <- MCProcessors
SPECIFICATION Spec
INVARIANTS
  PixelsRight
  PlaneRight
  MeaningKept
PROPERTIES
  LoopsEnd
CHECK_DEADLOCK FALSE
