SPECIFICATION ScannerSpec
CHECK_DEADLOCK FALSE
CONSTANTS
  NoTruck = "no truck"
  Owned = {"5"}
  Label <- MCLabel
  Units = {1, 2}
  Items = {11, 12, 13}
  NoItem = 0
  Manifests <- MCManifests
  FirstUnits <- MCFirstUnits
  Workers = 2
  MaxRetries = 1
  MaxMoves = 1
  Operators = {"a", "b", "c"}
  Jobs <- MCJobs
  Anonymous = {"c"}
  MaxCalls = 2
INVARIANTS
  ScannerTypeOK
  StillUnitsArePlannedOnce
  StillOrdersAreFlagged
  TrailIsAccurate
PROPERTIES
  BuildsEnd
