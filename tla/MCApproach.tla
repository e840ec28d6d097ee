----------------------------- MODULE MCApproach -----------------------------
(* Periods of 0.25 s, centimetres: the thresholds and timeouts of the code, *)
(* its timeouts rounded up to whole periods and its speed cap to 9 cm per   *)
(* period (0.36 m/s).                                                       *)
EXTENDS Approach

\* The thresholds of the code are in the proportion that keeps the clearance.
ASSUME MCSized == IsSized

MCAhead    == [Zero EXCEPT !.vx = 20]
MCRequests == {Zero, MCAhead}
MCCommands == {[Zero EXCEPT !.vx = v] : v \in 0 .. MaxSpeed}
MCScans    == {{[range |-> gap0, angle |-> 0]} : gap0 \in 0 .. Far}
=============================================================================
