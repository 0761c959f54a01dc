SPECIFICATION Spec
CONSTANTS
  Tunings <- MCTunings
  Rigs <- MCRigs
  RetryFailed = FALSE
  MaxSessions = 2
INVARIANTS
  TypeOK
  ProfileWasValidated
  FastestWins
  RoomiestWins
  FallbackFindsMost
PROPERTIES
  PartialIsFallback
  SelectionsKeepVariety
  StagesEnd
