------------------------------ MODULE Governor ------------------------------
(***************************************************************************)
(* cmd_vel_governor: the filter between /cmd_vel_raw and /cmd_vel.  It     *)
(* republishes the request at its own rate, limited by the nearest lidar   *)
(* return ahead.                                                           *)
(*                                                                         *)
(* Distances and velocities are integers (millimetres and mm/s, mrad/s, in *)
(* the instances), so a scaled velocity is rounded down, towards slower.   *)
(* Angles are whole degrees.  Time advances in periods of the node's timer, *)
(* which fires once anywhere in each of them.                              *)
(***************************************************************************)
EXTENDS Velocity, FiniteSetsExt

CONSTANTS StopDistance, SlowDistance, SectorHalfAngle, MinValidRange,
          MaxSpeed, MaxReverseSpeed, MaxYaw, MaxYawNear, AllowLateral,
          ScanTimeout, CmdTimeout,   \* in periods
          Requests,   \* the twists drivers put on /cmd_vel_raw
          Scans       \* the scans of the lidar: sets of readings

Reading == [range : Nat \cup {NaN, Inf}, angle : Int]

ASSUME GovernorAssumption ==
  /\ {StopDistance, SlowDistance, SectorHalfAngle, MinValidRange} \subseteq Nat
  /\ {MaxSpeed, MaxReverseSpeed, MaxYaw, MaxYawNear} \subseteq Nat
  /\ {ScanTimeout, CmdTimeout} \subseteq Nat
  /\ AllowLateral \in BOOLEAN
  /\ Requests \subseteq Twist
  /\ \A scan \in Scans : IsFiniteSet(scan) /\ scan \subseteq Reading
-----------------------------------------------------------------------------
Abs(n) == IF n < 0 THEN -n ELSE n

\* atan2(sin a, cos a), in degrees.
Normalised(angle) == ((angle + 180) % 360) - 180

\* The readings that forward_min_range takes the minimum of.
Ahead(scan) == {r \in scan : /\ isfinite(r.range)
                             /\ r.range >= MinValidRange
                             /\ Abs(Normalised(r.angle)) <= SectorHalfAngle}

\* An empty sector has no minimum.
BadEmptySector(scan) ==
  LET ranges == {r.range : r \in Ahead(scan)}
  IN  IF ranges = {} THEN None ELSE Min(ranges)

\* The angle of a 0..360 scan is compared as it comes.
BadForwardMinRange(scan) ==
  LET ranges == {r.range : r \in {s \in scan : /\ isfinite(s.range)
                                               /\ s.range >= MinValidRange
                                               /\ Abs(s.angle) <= SectorHalfAngle}}
  IN  IF ranges = {} THEN Inf ELSE Min(ranges)

forward_min_range(scan) ==
  LET ranges == {r.range : r \in Ahead(scan)}
  IN  IF ranges = {} THEN Inf ELSE Min(ranges)
-----------------------------------------------------------------------------
Clamped(v, low, high) == IF v > high THEN high ELSE IF v < low THEN low ELSE v

Stale(stamp_age, limit) == stamp_age = None \/ stamp_age > limit

\* Rule 2 is missing.
BadOperatorCheck(req, scan_age, cmd_age) ==
  \/ Stale(scan_age, ScanTimeout)
  \/ \E axis \in Axes : ~isfinite(req[axis])

\* Rule 1 is missing.
BadRefused(req, scan_age, cmd_age) ==
  \/ Stale(cmd_age, CmdTimeout)
  \/ \E axis \in Axes : ~isfinite(req[axis])

\* Rules 1 to 3: nothing to go by, so no motion at all.
Refused(req, scan_age, cmd_age) ==
  \/ Stale(scan_age, ScanTimeout)
  \/ Stale(cmd_age, CmdTimeout)
  \/ \E axis \in Axes : ~isfinite(req[axis])

\* The cap on the yaw loses its sign.
BadCapped(req) ==
  [vx |-> Clamped(req.vx, -MaxReverseSpeed, MaxSpeed),
   vy |-> IF AllowLateral THEN Clamped(req.vy, -MaxSpeed, MaxSpeed) ELSE 0,
   wz |-> IF Abs(req.wz) > MaxYaw THEN MaxYaw ELSE req.wz]

\* Rules 4 and 5: lateral motion and the caps that hold whatever the lidar sees.
Capped(req) ==
  [vx |-> Clamped(req.vx, -MaxReverseSpeed, MaxSpeed),
   vy |-> IF AllowLateral THEN Clamped(req.vy, -MaxSpeed, MaxSpeed) ELSE 0,
   wz |-> Clamped(req.wz, -MaxYaw, MaxYaw)]

\* Rule 6: rotation next to an obstacle.
YawGated(t, range) ==
  IF range # Inf /\ range <= StopDistance
    THEN [t EXCEPT !.wz = Clamped(t.wz, -MaxYawNear, MaxYawNear)]
    ELSE t

\* Rule 7: forward motion only, towards what the sector sees.
Blocked(range) == range = Inf \/ range <= StopDistance

InSlowZone(range) == range # Inf /\ range > StopDistance /\ range < SlowDistance

\* The scale runs the wrong way.
BadSlowed(vx, range) ==
  (vx * (SlowDistance - range)) \div (SlowDistance - StopDistance)

Slowed(vx, range) ==
  (vx * (range - StopDistance)) \div (SlowDistance - StopDistance)

Braked(t, range) ==
  CASE t.vx <= 0                                 -> t
    [] t.vx > 0 /\ Blocked(range)                -> [Zero EXCEPT !.wz = t.wz]
    [] t.vx > 0 /\ InSlowZone(range)             -> [t EXCEPT !.vx = Slowed(t.vx, range)]
    [] OTHER                                     -> t

decide(req, range, scan_age, cmd_age) ==
  IF Refused(req, scan_age, cmd_age)
    THEN Zero
    ELSE Braked(YawGated(Capped(req), range), range)

\* What each branch that applies has to say, and about which axes.
Said(applies, reason) == IF applies THEN {reason} ELSE {}

About == [stale_scan    |-> Axes,   stale_command |-> Axes,  non_finite |-> Axes,
          lateral_zeroed |-> {"vy"}, lateral_capped |-> {"vy"},
          speed_capped  |-> {"vx"}, reverse_capped |-> {"vx"},
          yaw_capped    |-> {"wz"}, yaw_gated      |-> {"wz"},
          no_returns    |-> {"vx", "vy"}, obstacle |-> {"vx", "vy"},
          slowed        |-> {"vx"}]

Refusals == {"stale_scan", "stale_command", "non_finite"}

\* Rules 1 to 3 give one reason, the first that applies.
RefusalOf(scan_age, cmd_age) ==
  IF Stale(scan_age, ScanTimeout) THEN "stale_scan"
  ELSE IF Stale(cmd_age, CmdTimeout) THEN "stale_command" ELSE "non_finite"

\* Rules 4 to 6, one test each: the caps of the request, and the gate of the
\* yaw that is left of it.
Restrictions(req, range) ==
  UNION {Said(~AllowLateral /\ req.vy # 0, "lateral_zeroed"),
         Said(AllowLateral /\ Abs(req.vy) > MaxSpeed, "lateral_capped"),
         Said(req.vx > MaxSpeed, "speed_capped"),
         Said(req.vx < -MaxReverseSpeed, "reverse_capped"),
         Said(Abs(req.wz) > MaxYaw, "yaw_capped"),
         Said(/\ range # Inf /\ range <= StopDistance
              /\ Abs(Capped(req).wz) > MaxYawNear, "yaw_gated")}

\* Rule 7, for what the cap leaves of a forward request.
Obstructions(range) ==
  UNION {Said(range = Inf, "no_returns"),
         Said(range # Inf /\ range <= StopDistance, "obstacle"),
         Said(InSlowZone(range), "slowed")}

\* The reason of rule 7 replaces the ones before it.
BadReasons(req, range, scan_age, cmd_age) ==
  IF Refused(req, scan_age, cmd_age)
    THEN {RefusalOf(scan_age, cmd_age)}
    ELSE IF Capped(req).vx > 0 /\ Obstructions(range) # {}
           THEN Obstructions(range)
           ELSE Restrictions(req, range)

\* Decision.reason; Decision.limited says that there is one.
reasons(req, range, scan_age, cmd_age) ==
  IF Refused(req, scan_age, cmd_age)
    THEN {RefusalOf(scan_age, cmd_age)}
    ELSE Restrictions(req, range)
           \cup (IF Capped(req).vx > 0 THEN Obstructions(range) ELSE {})
-----------------------------------------------------------------------------
VARIABLES min_range,     \* nearest return ahead in the last scan, or Inf
          scan_age,      \* periods since the last scan, or None
          req,           \* the last request heard
          cmd_age,       \* periods since the last request, or None
          governor_due   \* the timer has still to fire in this period

governor_vars == <<min_range, scan_age, req, cmd_age, governor_due>>

AgesUpTo(limit) == (0 .. limit + 1) \cup {None}

GovernorTypeOK == /\ min_range \in Nat \cup {Inf}
                  /\ scan_age \in AgesUpTo(ScanTimeout)
                  /\ req \in Twist
                  /\ cmd_age \in AgesUpTo(CmdTimeout)
                  /\ governor_due \in BOOLEAN

\* A timer first fires one period after it was created.
GovernorInit == /\ min_range = Inf
                /\ scan_age = None
                /\ req = Zero
                /\ cmd_age = None
                /\ governor_due = FALSE

\* The memory of a process that has ended, and of one that has just started.
GovernorForgets == /\ min_range' = Inf
                   /\ scan_age' = None
                   /\ req' = Zero
                   /\ cmd_age' = None
                   /\ governor_due' = FALSE

OnScan(scan) == /\ min_range' = forward_min_range(scan)
                /\ scan_age' = 0
                /\ UNCHANGED <<req, cmd_age, governor_due>>

OnRequest(r) == /\ req' = r
                /\ cmd_age' = 0
                /\ UNCHANGED <<min_range, scan_age, governor_due>>

\* What the tick puts on /cmd_vel, zeros included, and the reasons it gives.
GovernorOutput  == decide(req, min_range, scan_age, cmd_age)
GovernorReasons == reasons(req, min_range, scan_age, cmd_age)

GovernorTick == /\ governor_due
                /\ governor_due' = FALSE
                /\ UNCHANGED <<min_range, scan_age, req, cmd_age>>

\* The limits of the two stamps are swapped.
BadGovernorElapse == /\ scan_age' = Older(scan_age, CmdTimeout + 1)
                     /\ cmd_age' = Older(cmd_age, ScanTimeout + 1)
                     /\ governor_due' = TRUE
                     /\ UNCHANGED <<min_range, req>>

\* What one period of the clock does to the node's ages.
GovernorElapse == /\ scan_age' = Older(scan_age, ScanTimeout + 1)
                  /\ cmd_age' = Older(cmd_age, CmdTimeout + 1)
                  /\ governor_due' = TRUE
                  /\ UNCHANGED <<min_range, req>>
=============================================================================
