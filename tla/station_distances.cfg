SPECIFICATION Spec
CONSTANTS
  WorldFiles <- MCWorldFiles
  NotANumber = NotANumber
  nullopt = nullopt
  Unit = 10
  DBL_MAX = 100000
  INT_MAX = 12
  MaxId = 3
INVARIANT DistancesKnown
