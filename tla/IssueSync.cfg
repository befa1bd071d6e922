CONSTANTS
  Deliveries = {d1, d2, d3}
  Calls = {c1, c2, c3}
  MaxDeliveryIds = 2
  MaxDlqEntries = 2
SPECIFICATION Spec
SYMMETRY Symmetry
INVARIANTS
  TypeOK
  NothingLost
PROPERTIES
  AppliedOncePerWindow
