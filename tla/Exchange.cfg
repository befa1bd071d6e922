CONSTANTS
  a = a
  b = b
  c = c
  open = open
  secret = secret
  m1 = m1
  m2 = m2
  m3 = m3
  m4 = m4
  Nodes = {a, b, c}
  Peers <- Chain
  Rooms = {open, secret}
  Sources <- WithSecret
  Locked <- SecretAtB
  MaxHops <- Hops
  MaxRecords = 3
  MaxMessages = 2
  Limit = 1
  MaxRestarts <- OnlyB
SPECIFICATION SyncingSpec
INVARIANTS
  TypeOK
  CursorPassesNothing
  FloodIsFinite
PROPERTIES
  Converges
