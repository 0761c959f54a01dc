SPECIFICATION FairSpec
CONSTANTS
  Parallel = 2
  Tokens = 1
  SmokeTokens = 4
  ReserveTokens = 34
  SmokeMode = TRUE
  Resolution = 40
  HeadroomTokens = 100
  HeadroomPercent = 5
  Repeats = 2
  MaxCtx = 480
  BaseCtxs <- AlignedBases
  UpperArgs <- AlignedUppers
INVARIANTS
  TypeOK
  AnswerHasEvidence
  BracketResolved
  StatusHasEvidence
  HeadroomBelowFailures
  ProbesLogarithmic
PROPERTIES
  ImplementsBracketSearch
  SearchEnds
