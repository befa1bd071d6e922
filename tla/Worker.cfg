CONSTANTS
  main = main
  side = side
  e1 = e1
  e2 = e2
  misnamed = misnamed
  unparsable = unparsable
  spent = spent
  Rooms = {main, side}
  Main = main
  NoRoom = NoRoom
  Entries = {e1, e2, misnamed, unparsable, spent}
  RoomOf <- Homes
  Ending = {unparsable}
  Rejected = {spent}
  Batches <- Pushed
  Pushers = {p1, p2}
  MaxFaults = 2
SPECIFICATION WorkerSpec
INVARIANTS
  WorkerTypeOK
  AcknowledgedIsPolled
PROPERTY PushGetsThrough
