CONSTANTS
  k1 = k1
  k2 = k2
  k3 = k3
  NoKey = NoKey
  Keys = {k1}
  Nonces = {1}
  Requests <- OneRequest
  Calls = {c1, c2}
  MaxClockSkew = 1
  NonceTtl = 1
  MaxNonces = 2
  HasStorage = TRUE
  MaxTime = 1
SPECIFICATION Spec
INVARIANTS
  NonceUsedOnce
