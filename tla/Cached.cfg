SPECIFICATION CSpec
CONSTANTS
  Parallel = 1
  Tokens = 1
  SmokeTokens = 4
  ReserveTokens = 34
  SmokeMode = FALSE
  Resolution = 40
  HeadroomTokens = 50
  HeadroomPercent = 5
  Repeats = 2
  MaxCtx = 160
  BaseCtxs <- Bases
  UpperArgs <- Uppers
  RetryFailed = FALSE
  MaxSessions = 3
  Machines <- AllMachines
INVARIANTS
  RowsAreEarned
  ConfirmedAfresh
  ResumeReproduces
  WorkIsKept
  FindsThreshold
