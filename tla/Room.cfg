CONSTANTS
  ip1 = ip1
  s1 = s1
  s2 = s2
  room = room
  a = a
  b = b
  c = c
  NoIp = NoIp
  Room = room
  Ips = {ip1}
  Senders = {s1, s2}
  Ids = {a, b, c}
  Publishes <- TwoOfOneId
  Pollers = {p}
  Consumers = {consumer}
  Limit <- Limits
  MaxCount <- Counts
  Window = 2
  MaxMessages = 2
  PageLimit = 1
  InboxLimit = 1
  MaxTime = 4
  MaxAccepted = 5
SPECIFICATION ConsumingSpec
CHECK_DEADLOCK FALSE
INVARIANTS
  TypeOK
  RoomHoldsNewest
  PollersFollow
  SendersShareTheRoom
PROPERTIES
  InboxReachesB
