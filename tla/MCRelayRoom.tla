---------------------------- MODULE MCRelayRoom ----------------------------
(* An instance of RelayRoom for TLC. *)
EXTENDS RelayRoom

CONSTANTS ip1, s1, s2, room, a, b, c

Request(ip, sender, id) == [ip |-> ip, sender |-> sender, id |-> id]

\* Three ids for a room with two places, one of them sent by two senders at once.
TwoOfOneId == {Request(ip1, s1, a), Request(ip1, s1, b),
               Request(NoIp, s2, a), Request(NoIp, s2, c)}

\* The address of s1 is refused the third publish of a window, s2 its third, the
\* room its fifth.
Limits == ip1 :> 2 @@ s1 :> 2 @@ s2 :> 2 @@ room :> 4
Counts == ip1 :> 3 @@ s1 :> 3 @@ s2 :> 3 @@ room :> 7

\* The limits and the messages are looked at apart: the clock moves on only in
\* behaviours in which each publish that passed the limits is refused later.
ClockOrMessages == now = 0 \/ accepted = 0
ConsumingSpec == Init /\ [][Next /\ ClockOrMessages']_vars /\ Consuming

\* A consumer gets to b, which may be first or last in the room.
InboxReachesB == InboxReaches(b)
=============================================================================
