CONSTANTS
  a = a
  b = b
  Callers <- TwoCallers
  Reader = reader_
  Keys <- ThreeKeys
  Sizes <- TwoSizes
  Ttl = 2
  MaxBytes = 2
  Limit = 1
  MaxEvents = 3
  MaxTime = 2
SYMMETRY Symmetry
SPECIFICATION StoreSpec
INVARIANTS
  StoreTypeOK
  QuietStoresAgree
  MissedAtMostRemoved
CHECK_DEADLOCK FALSE
