SPECIFICATION PutawaySpec
CHECK_DEADLOCK FALSE
CONSTANTS
  n1 = n1
  n2 = n2
  n3 = n3
  n4 = n4
  b1 = b1
  b2 = b2
  b3 = b3
  b4 = b4
  NoEdge = NoEdge
  Unknown = Unknown
  Nodes = {n1, n2, n3, n4}
  Graphs <- MCGraphs
  Bins = {b1, b2, b3, b4}
  Eligible = {b1, b2, b3}
  Gap <- MCGap
  Height <- MCHeight
  Width <- MCWidth
  Cartons <- MCCartons
  Occupancies <- MCOccupancies
  Limit = 2
INVARIANTS
  PutawayTypeOK
  AnswerIsTheNearest
PROPERTIES
  SettledStaysSettled
