---------------------------- MODULE MCSpaceMesh ----------------------------
(* Bounds for the run of SpaceMesh: two members who come and go. *)
EXTENDS SpaceMesh

CONSTANTS m1, m2
=============================================================================
