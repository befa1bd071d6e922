--------------------------- MODULE MCWorkerRooms ----------------------------
(* An instance of WorkerRooms for TLC. *)
EXTENDS WorkerRooms, TLC

CONSTANTS main, side, e1, e2, misnamed, unparsable, spent

\* Messages for the default room and for another one, two without a valid room,
\* of which one has none at all, and one that made all its hops.
Homes == e1 :> main @@ e2 :> side @@ misnamed :> NoRoom @@ unparsable :> NoRoom @@ spent :> side

\* A push for both rooms, one with an invalid room name, one that is refused.
Pushed == {{e1, e2, spent}, {e2, misnamed}, {e1, unparsable}}
=============================================================================
