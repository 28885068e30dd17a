SPECIFICATION HistorySpec
CONSTANTS
  p1 = p1
  p2 = p2
  f1 = f1
  f2 = f2
  d1 = d1
  o1 = o1
  o2 = o2
  None = None
  Lost = Lost
  Pickers = {p1, p2}
  Phones = {f1, f2}
  Dates = {d1}
  Orders = {o1, o2}
  Units = {1, 2}
  Deliveries <- MCDeliveries
  Owner <- MCOwner
  Scans <- MCScans
  Serial <- MCSerial
  Trucks = {"T1", "T2", "UNROUTED"}
  Unrouted = {"UNROUTED"}
  Plans <- MCPlans
  Items <- MCItems
  ItemPos <- MCItemPos
  MaxSeq = 2
  CanCrash = FALSE
PROPERTY
  UntouchedStopsAreDropped
