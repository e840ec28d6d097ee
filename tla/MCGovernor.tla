----------------------------- MODULE MCGovernor -----------------------------
(* The governor with the code's thresholds in centimetres, cm/s and        *)
(* hundredths of a radian per second, and its timeouts shortened to 2 and 1.*)
EXTENDS GovernorAlone

T(vx, vy, wz) == [vx |-> vx, vy |-> vy, wz |-> wz]

\* Beyond and below each cap, in both directions, and what is not finite.
MCRequests == {T(50, 25, 160), T(20, 0, 41), T(-50, 0, -160), T(-10, 0, -41),
               T(0, -25, 41), T(20, 0, NaN)}

R(range, angle) == [range |-> range, angle |-> angle]

\* Straight ahead in both conventions, at the edge of the sector, outside it,
\* and readings that are no distance at all.
MCReadings == {R(35, 0), R(36, 359), R(89, 45), R(10, 46), R(1, 0), R(NaN, 0)}

MCScans == UNION {kSubset(k, MCReadings) : k \in 0 .. 2}
=============================================================================
