---------------------------- MODULE MCRoomActor ----------------------------
(* Small instances of RoomActor. *)
EXTENDS RoomRefinement

Forms == {[nickname |-> "ada", identity |-> "k1"], [nickname |-> "bob", identity |-> "k2"]}
\* Two people who want the same nickname, and one identity under two of them.
ClashingForms == Forms \cup {[nickname |-> "ada", identity |-> "k2"]}
Intervals1 == {30}
=============================================================================
