SPECIFICATION Spec
CONSTANTS
  Supports <- MCSupports
  MaxEvents = 2
  MaxClients = 2
  WordSize = 4
INVARIANTS ShowsDevice MostFailuresShown AverageExact SeriesExact CallbacksReturn
CHECK_DEADLOCK FALSE
