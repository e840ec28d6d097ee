------------------------------ MODULE Approach ------------------------------
(***************************************************************************)
(* A governed car drives straight at a wall.  The lidar, the driver, the   *)
(* governor, the deadman and the firmware's latch are those of the other   *)
(* modules; what this one adds is the distance to the wall, and that each  *)
(* of them may fall silent while it shrinks.                               *)
(*                                                                         *)
(* Distances are in a unit the instance chooses and velocities in units    *)
(* per period.  /cmd_vel has one order here, the same for the firmware and *)
(* the deadman (SafetyStack is about what happens when it has not), and a  *)
(* command turns the wheels from the next period on: the latency between   *)
(* command and motion that docs/safety-case.md reports is one period.  The *)
(* wall does not move, the lidar is right about it, and the wheels follow  *)
(* a command without braking distance.                                     *)
(***************************************************************************)
EXTENDS Deadman, Governor

CONSTANTS Far,        \* the largest distance to the wall at first
          Clearance   \* the distance the car is to keep whatever fails

ASSUME ApproachAssumption == {Far, Clearance} \subseteq Nat /\ Clearance <= Far

VARIABLES gap,             \* distance left to the wall
          latched,         \* the command the firmware was last given
          wheels,          \* the forward velocity of this period
          echo,            \* the deadman has not yet heard its own zero
          governor_alive,
          lidar_alive

\* History variable: only the properties read it.
VARIABLE coast             \* distance covered since the governor last spoke

alive_vars    == <<governor_alive, lidar_alive>>
approach_vars == <<deadman_vars, governor_vars, alive_vars,
                   gap, latched, wheels, echo, coast>>

TypeOK == /\ DeadmanTypeOK
          /\ GovernorTypeOK
          /\ gap \in Int
          /\ latched \in Motion
          /\ wheels \in Int
          /\ echo \in BOOLEAN
          /\ governor_alive \in BOOLEAN
          /\ lidar_alive \in BOOLEAN
          /\ coast \in Int

Init == /\ DeadmanInit
        /\ GovernorInit
        /\ gap \in Clearance .. Far
        /\ latched = Zero
        /\ wheels = 0
        /\ echo = FALSE
        /\ governor_alive = TRUE
        /\ lidar_alive = TRUE
        /\ coast = 0
-----------------------------------------------------------------------------
\* The scan of the lidar: the wall straight ahead.
View == {[range |-> gap, angle |-> 0]}

Scan == /\ lidar_alive
        /\ governor_alive
        /\ OnScan(View)
        /\ UNCHANGED <<deadman_vars, alive_vars, gap, latched, wheels, echo, coast>>

Request(r) == /\ governor_alive
              /\ OnRequest(r)
              /\ UNCHANGED <<deadman_vars, alive_vars, gap, latched, wheels, echo, coast>>

GovernorTimer == /\ governor_alive
                 /\ ~echo
                 /\ GovernorTick
                 /\ latched' = GovernorOutput
                 /\ OnCmd(GovernorOutput)
                 /\ coast' = 0
                 /\ UNCHANGED <<alive_vars, gap, wheels, echo>>

DeadmanTimer == /\ DeadmanTick
                /\ latched' = IF DeadmanPublishes THEN Zero ELSE latched
                /\ echo' = DeadmanPublishes
                /\ UNCHANGED <<governor_vars, alive_vars, gap, wheels, coast>>

Echo == /\ echo
        /\ OnCmd(Zero)
        /\ echo' = FALSE
        /\ UNCHANGED <<governor_vars, alive_vars, gap, latched, wheels, coast>>

\* Killed: no zero from the finally block.
GovernorDies == /\ governor_alive
                /\ governor_alive' = FALSE
                /\ GovernorForgets
                /\ UNCHANGED <<deadman_vars, lidar_alive, gap, latched, wheels, echo, coast>>

GovernorStarts == /\ ~governor_alive
                  /\ governor_alive' = TRUE
                  /\ UNCHANGED <<deadman_vars, governor_vars, lidar_alive,
                                 gap, latched, wheels, echo, coast>>

LidarDies == /\ lidar_alive
             /\ lidar_alive' = FALSE
             /\ UNCHANGED <<deadman_vars, governor_vars, governor_alive,
                            gap, latched, wheels, echo, coast>>

Period == /\ ~deadman_due
          /\ governor_alive => ~governor_due
          /\ ~echo
          /\ gap' = gap - wheels
          /\ wheels' = latched.vx
          /\ coast' = coast + wheels
          /\ DeadmanElapse
          /\ IF governor_alive THEN GovernorElapse ELSE UNCHANGED governor_vars
          /\ UNCHANGED <<alive_vars, latched, echo>>

Next == \/ Scan
        \/ \E r \in Requests : Request(r)
        \/ GovernorTimer
        \/ DeadmanTimer
        \/ Echo
        \/ GovernorDies
        \/ GovernorStarts
        \/ LidarDies
        \/ Period

Spec == Init /\ [][Next]_approach_vars
-----------------------------------------------------------------------------
(* The car keeps its clearance to the wall: when the driver keeps asking   *)
(* for full speed, when the scan goes stale at the worst moment, and when  *)
(* the governor is killed with its last speed latched and started again,   *)
(* any number of times.                                                    *)
KeepsClearance == gap >= Clearance

\* The periods that the slow zone takes at the cap.
ZonePeriods == (SlowDistance - StopDistance) \div MaxSpeed

\* What the thresholds must be for that.  The zone is long enough for the governor to
\* brake in, on a scan as old as it may be and with the deadman's silence on top of it; and
\* the way from the stop line to the clearance holds what the two commands before the
\* governor's last one, bought at a greater distance, are still to cover.
IsSized == /\ MaxSpeed > 0
           /\ Timeout >= 1
           /\ ZonePeriods >= ScanTimeout + Timeout + 2
           /\ (StopDistance - Clearance) * ZonePeriods
                >= 2 * (ScanTimeout + Timeout) * MaxSpeed

(* A governor that died costs at most Timeout + 2 periods at the governed  *)
(* speed cap, one of them for the phase of the deadman's timer and one for *)
(* the latency ("a crash-case term", docs/safety-case.md:70).              *)
CoastIsBounded == coast <= MaxSpeed * (Timeout + 2)

(* The firmware, which never lets go of a command, and the deadman next to *)
(* it implement a firmware whose commands expire Timeout + 1 periods after *)
(* they were given, whether or not anybody is left to renew them.          *)
Lease == INSTANCE CommandLease
           WITH Term   <- Timeout + 1,
                moving <- is_moving_command(latched),
                left   <- IF is_moving_command(latched) THEN Timeout + 1 - age ELSE 0

ImplementsLease == Lease!Spec
=============================================================================
