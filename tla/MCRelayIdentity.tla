--------------------------- MODULE MCRelayIdentity ---------------------------
(* Instances of RelayIdentity for TLC. *)
EXTENDS RelayIdentity

CONSTANTS k1, k2, k3

\* Calls are interchangeable.
CallSymmetry == Permutations(Calls)

Signed(op, k, new, n, t) == [op |-> op, key |-> k, newKey |-> new, nonce |-> n, ts |-> t]

\* Two keys that compete for first use, two rotations away from the first of
\* them that may race, and a nonce that two requests use.
RacingRequests ==
  {Signed("publish", k1, k1, 1, 1), Signed("review", k2, k2, 2, 0),
   Signed("rotate", k1, k2, 3, 1), Signed("rotate", k1, k3, 2, 2)}

\* One publish that is sent twice.
OneRequest == {Signed("publish", k1, k1, 1, 1)}
=============================================================================
