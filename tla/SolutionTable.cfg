CONSTANTS
  v0 = v0
  v1 = v1
  v2 = v2
  v3 = v3
  v4 = v4
  Zero = v0
  Solution <- MCSolution
  Readings <- MCReadings
  BIGNEGFP = 0
  nMax = 3
  MaxHits = 2
SPECIFICATION TableSpec
INVARIANTS BestNeverLost RowsUnique OccupiedFirst
PROPERTY ImplementsBestPool
