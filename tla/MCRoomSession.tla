--------------------------- MODULE MCRoomSession ----------------------------
(* Instances of RoomSession: its constants are model values of the .cfg.   *)
EXTENDS RoomSession
=============================================================================
