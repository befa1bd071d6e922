CONSTANTS
  k1 = k1
  k2 = k2
  k3 = k3
  NoKey = NoKey
  Keys = {k1, k2, k3}
  Nonces = {1, 2, 3}
  Requests <- RacingRequests
  Calls = {c1, c2}
  MaxClockSkew = 1
  NonceTtl = 1
  MaxNonces = 2
  HasStorage = TRUE
  MaxTime = 2
SYMMETRY CallSymmetry
SPECIFICATION Spec
INVARIANTS
  TypeOK
  ReplayOnlyIfForgotten
PROPERTIES
  AckedIdentityIsKept
  KeysAreVouchedFor
