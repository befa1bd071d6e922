--------------------------- MODULE MCCacheExchange ---------------------------
(* An instance of CacheExchange for TLC. *)
EXTENDS CacheExchange

CONSTANTS a, b, c, open, secret, m1, m2, m3, m4

Msg(id, room) == [id |-> id, room |-> room]
At(n, m) == [node |-> n, msg |-> m]

\* The chain of tests/e2e_cache_sync_test.ts: a - b - c.
Chain == a :> <<b>> @@ b :> <<a, c>> @@ c :> <<b>>
Hops == [n \in Nodes |-> 3]
OnlyB == [n \in Nodes |-> IF n = b THEN 1 ELSE 0]

\* A message of each relay, and one in a room b wants a token for.
OneEach == {At(c, Msg(m1, open)), At(b, Msg(m2, open)), At(a, Msg(m3, open))}
WithSecret == OneEach \cup {At(c, Msg(m4, secret))}
SecretAtB == [n \in Nodes |-> IF n = b THEN {secret} ELSE {}]

\* Three messages compete for two places; or there are at most two, of one room
\* or of both, and b may restart.
FewAtOnce ==
  \/ published \subseteq OneEach /\ lives[b] = 0
  \/ published \subseteq {At(c, Msg(m1, open)), At(b, Msg(m2, open))}
  \/ published \subseteq {At(c, Msg(m1, open)), At(c, Msg(m4, secret))}
SyncingSpec == Init /\ [][Next /\ FewAtOnce']_vars /\ Syncing
=============================================================================
