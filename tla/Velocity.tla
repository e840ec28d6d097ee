------------------------------ MODULE Velocity ------------------------------
(***************************************************************************)
(* The twists carried by /cmd_vel and /cmd_vel_raw.  Velocities are        *)
(* integers in a unit the instance chooses; NaN and Inf are the two ways   *)
(* in which a float on the wire fails math.isfinite (Inf stands for either *)
(* sign, which no test of the code tells apart).                           *)
(***************************************************************************)
EXTENDS Integers

CONSTANTS NaN, Inf, None

ASSUME VelocityAssumption == /\ NaN \notin Int
                             /\ Inf \notin Int
                             /\ None \notin Int
                             /\ None # NaN
                             /\ None # Inf
                             /\ NaN # Inf

Scalar == Int \cup {NaN, Inf}
Twist  == [vx : Scalar, vy : Scalar, wz : Scalar]
Motion == [vx : Int, vy : Int, wz : Int]

isfinite(v) == v \in Int
Zero        == [vx |-> 0, vy |-> 0, wz |-> 0]
Axes        == {"vx", "vy", "wz"}

\* The zero_epsilon band is the single value 0 of the integer scale.
is_moving_command(c) == \E axis \in Axes : c[axis] # 0

\* Saturating clock arithmetic.  An age is the time since an event, or None if
\* it never happened; cap is one more than the largest limit it is compared
\* with, so that saturation changes no comparison.
Older(age, cap) == IF age = None \/ age = cap THEN age ELSE age + 1
=============================================================================
