SPECIFICATION Spec
CONSTANTS
  p1 = p1
  p2 = p2
  f1 = f1
  f2 = f2
  f3 = f3
  d1 = d1
  d2 = d2
  o1 = o1
  u1 = u1
  u2 = u2
  u3 = u3
  None = None
  Lost = Lost
  Pickers = {p1, p2}
  Phones = {f1, f2, f3}
  Dates = {d1, d2}
  Orders = {o1}
  Units = {u1, u2, u3}
  Deliveries <- MCDeliveries
  Owner <- ThreePhones
  Scans <- MCScans
  Serial <- MCSerial
  Start <- MCStart
PROPERTIES
  OnlyTheHolderConfirms
  WillCallsGoFirst
  KeepsTheLedger
  QueueDrains
