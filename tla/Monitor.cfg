SPECIFICATION Spec
CONSTANTS
  g1 = g1
  g2 = g2
  None = None
  Gpus = {g1, g2}
  Selections <- OneOrUnknown
  Levels = {1, 2}
  Margin = 2
  MaxTicks = 2
SYMMETRY SymmetricGpus
INVARIANTS
  TypeOK
  CompleteUnlessMissing
PROPERTIES
  PassedSafely
