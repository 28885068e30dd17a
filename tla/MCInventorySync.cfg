SPECIFICATION SyncSpec
CHECK_DEADLOCK FALSE
CONSTANTS
  u1 = u1
  u2 = u2
  open = open
  gone = gone
  unheard = unheard
  NoLimit = NoLimit
  Units = {u1, u2, u3}
  Data = {open, gone, unheard}
  Uncatalogued = {unheard}
  Syncs = {s1, s2}
  PageSize = 1
  First <- MCFirst
  Limits = {1, NoLimit}
  MaxTicks = 4
INVARIANTS
  SyncTypeOK
  FreshAsStamped
PROPERTIES
  MirrorsAQuietERP
  HeldUnitsStopNoSync
