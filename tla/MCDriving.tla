----------------------------- MODULE MCDriving -----------------------------
(* The guard with the seconds of the code; legs, windows and repetitions    *)
(* scaled down together.                                                   *)
EXTENDS Driving
=============================================================================
