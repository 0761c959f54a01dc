SPECIFICATION Spec
CONSTANTS
  Gpus = {1, 2, 3}
  Worlds <- MCWorlds
  Selections <- MCSelections
  Overhead = 200
  HeadroomMb = 512
  HeadroomPercent = 5
INVARIANTS
  MappingIsTrue
  AnchorsRepresent
