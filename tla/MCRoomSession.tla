--------------------------- MODULE MCRoomSession ---------------------------
(* Small instances of RoomSession. *)
EXTENDS RoomSession

Forms == {[nickname |-> "ada", identity |-> "k1"]}
TwoForms == {[nickname |-> "ada", identity |-> "k1"], [nickname |-> "bob", identity |-> "k2"]}
Intervals1 == {30}
Intervals2 == {30, 60}
=============================================================================
