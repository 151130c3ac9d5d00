------------------------------ MODULE MCCallRooms ------------------------------
(* Small instances of CallRooms. *)
EXTENDS CallRooms

(* 0 and less ask for the default capacity, 1 for a room of one. *)
AskedCapacities == {-1, 0, 1}
OneCapacity     == {1}
===============================================================================
