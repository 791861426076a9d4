-------------------------- MODULE MCHostSupervisor --------------------------
(* Small instances of HostSupervisor. *)
EXTENDS HostSupervisor

One == 1..1
Two == 1..2
First == {1}
=============================================================================
