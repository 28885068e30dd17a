SPECIFICATION MigrateSpec
CHECK_DEADLOCK FALSE
CONSTANTS
  a = a
  b = b
  Contents = {a, b}
  Checkouts <- MCCheckouts
  Runs = {r1, r2, r3}
INVARIANTS
  MigrateTypeOK
  OncePerFailure
PROPERTIES
  EarlierFilesFirst
  DoneMeansApplied
