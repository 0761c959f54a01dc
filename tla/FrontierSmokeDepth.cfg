SPECIFICATION Spec
CONSTANTS
  Parallel = 1
  Tokens = 1
  SmokeTokens = 8
  ReserveTokens = 34
  SmokeMode = TRUE
  Resolution = 40
  HeadroomTokens = 20
  HeadroomPercent = 5
  Repeats = 1
  MaxCtx = 480
  BaseCtxs <- AlignedBases
  UpperArgs <- AlignedUppers
INVARIANTS
  ProbeDepthFits
