SPECIFICATION Spec
CONSTANTS
  g1 = g1
  g2 = g2
  None = None
  Gpus = {g1}
  Selections <- Unknown
  Levels = {1, 2, 3}
  Margin = 1
  MaxTicks = 1
INVARIANT MinimumIsLowest
