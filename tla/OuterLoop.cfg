CONSTANTS
  v0 = v0
  v1 = v1
  v2 = v2
  v3 = v3
  none = none
  Solution <- MCSolution
  Zero = v0
  Readings <- MCReadings
  BIGNEGFP = 0
  nMax = 2
  MaxHits = 3
  Algos = {"o", "d"}
  SubSizes = {0, 2}
  MaxLength = 3
  FewChanges = 2
  PrimeLimit = 1
  Repeats = {2, 3}
  Targets <- MCTargets
  NoTarget = none
  Time_ = 4
  MaxPassTime = 2
  Progress_check = 2
  PosLimit = 0
  HitLimit = 1
  ShortMax = 2
  MaxUnimproved = 3
SPECIFICATION Spec
INVARIANTS BestTracked NeverGivesUpEarly
PROPERTY Terminates
