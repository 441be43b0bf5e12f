CONSTANTS
  Headers <- MCHeaders
  Coordinates <- MCCoordinates
  Weights = {1, 2}
  Algos = {"d", "x"}
  SubSizes = {5, 12}
  Settings <- MCSettings
  NUM_SPINS = 45
  Card = {0, 1}
  MaxOptions = 3
SPECIFICATION Spec
INVARIANTS AcceptedInside MatrixIsFile SamplerFits CardFits
