SPECIFICATION Spec
CONSTANTS
  Parallel = 1
  Tokens = 1
  SmokeTokens = 4
  ReserveTokens = 34
  SmokeMode = TRUE
  Resolution = 40
  HeadroomTokens = 20
  HeadroomPercent = 5
  Repeats = 1
  MaxCtx = 400
  BaseCtxs <- UnalignedBases
  UpperArgs <- UnalignedUppers
INVARIANTS
  AnswerWasProbed
