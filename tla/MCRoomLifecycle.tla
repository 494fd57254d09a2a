--------------------------- MODULE MCRoomLifecycle ---------------------------
(***************************************************************************)
(* Small instances of RoomLifecycle.                                       *)
(***************************************************************************)
EXTENDS RoomLifecycle

=============================================================================
