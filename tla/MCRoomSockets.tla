--------------------------- MODULE MCRoomSockets ----------------------------
(* An instance of RoomSockets for TLC. *)
EXTENDS RoomSockets, TLC
=============================================================================
