CONSTANTS
  Requests = {r1, r2, r3}
  Questions = {refs, push}
  Pushes = {push}
  NoQuestion = NoQuestion
  MaxVersion = 2
  MaxFaults = 1
SYMMETRY SameRequests
SPECIFICATION Spec
INVARIANTS
  TypeOK
  FallbackIsSound
PROPERTY SteadyNeverOlder
CHECK_DEADLOCK FALSE
