---------------------------- MODULE MCEncStream ----------------------------
(* Bounds for the runs of EncStream: one end sends more than the other. *)
EXTENDS EncStream, TLC

CONSTANTS a, b
TwoAndNone == a :> 2 @@ b :> 0
=============================================================================
