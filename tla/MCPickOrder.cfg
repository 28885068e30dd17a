SPECIFICATION Spec
CHECK_DEADLOCK FALSE
CONSTANTS
  NoTruck = "no truck"
  Owned = {"5", "10"}
  Label <- MCLabel
  MaxLines = 4
  Lines <- MCLines
INVARIANTS
  ClaimsFollowTheDay
  EveryPieceIsAccountedFor
PROPERTIES
  StopsKeepTheirPlace
