SPECIFICATION Spec
CONSTANTS
  TrialTimeout = 8
  StartupTimeout = 40
  RequestTimeout = 60
  HealthTimeout = 1
  PropsTimeout = 2
  Least = 1
  Pause = 1
  SampleTime = 3
  StopTime = 2
  JoinTime = 2
  Singles = 2
  Repeats = 2
INVARIANTS
  BoundedOverrun
  OkInTime
