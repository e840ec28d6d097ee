----------------------------- MODULE FakeRobot -----------------------------
(***************************************************************************)
(* The 2D simulator: fake_robot latches the last command as the firmware   *)
(* does, physics.step executes it, with the dead time and the deceleration *)
(* of the braking fixture or at once.  Along one axis, in units of a tick. *)
(***************************************************************************)
EXTENDS Integers

CONSTANTS MaxSpeed,    \* FIRMWARE_MAX_SPEED
          DeadTime,    \* the fixture's dead_time, in ticks
          MaxGap,      \* the longest dt that is integrated, half a second
          Far          \* the model ends there

ASSUME RobotAssumption == /\ MaxSpeed \in Nat /\ DeadTime \in Nat
                          /\ MaxGap \in Nat \ {0} /\ Far \in Nat

VARIABLES decel,       \* the fixture's deceleration, 0 without it
          slip,        \* halves of the speed that the wheels lose
          cmd,         \* the latched command
          exec_vx,     \* the speed in execution
          cmd_vx,      \* the command step() saw last
          pending,     \* dead time left
          x, odom_x,   \* where the robot is, and thinks it is
          on_air,      \* the speed of the last /odom_raw
          steady       \* ticks integrated since the command last changed

robot_vars == <<decel, slip, cmd, exec_vx, cmd_vx, pending, x, odom_x, on_air, steady>>

Speeds == (-MaxSpeed) .. MaxSpeed
Settling == DeadTime + 2 * MaxSpeed

RobotTypeOK == /\ decel \in 0 .. 1 /\ slip \in 0 .. 1
               /\ cmd \in Speeds /\ exec_vx \in Speeds /\ cmd_vx \in Speeds
               /\ on_air \in Speeds
               /\ pending \in 0 .. DeadTime
               /\ x \in Int /\ odom_x \in Int
               /\ steady \in 0 .. Settling

RobotInit == /\ decel \in 0 .. 1 /\ slip \in 0 .. 1
             /\ cmd = 0 /\ exec_vx = 0 /\ cmd_vx = 0 /\ pending = 0
             /\ x = 0 /\ odom_x = 0 /\ on_air = 0
             /\ steady = 0
-----------------------------------------------------------------------------
Least(a, b) == IF a < b THEN a ELSE b

\* Reverse is not limited.
BadApplyCommand(vx) == IF vx > MaxSpeed THEN MaxSpeed ELSE vx

apply_command(vx) == IF vx > MaxSpeed THEN MaxSpeed
                     ELSE IF vx < -MaxSpeed THEN -MaxSpeed ELSE vx

OnCommand(vx) == /\ cmd' = apply_command(vx)
                 /\ steady' = IF cmd' = cmd THEN steady ELSE 0
                 /\ UNCHANGED <<decel, slip, exec_vx, cmd_vx, pending, x, odom_x, on_air>>

\* Towards the command by at most what dt allows.
Toward(v, dt) == IF cmd >= v THEN v + Least(cmd - v, decel * dt)
                             ELSE v - Least(v - cmd, decel * dt)

\* Dead time starts again as long as the robot does not do what it was told.
BadExecute(dt) ==
  LET dead == IF cmd # exec_vx THEN DeadTime ELSE pending
  IN IF decel = 0 THEN exec_vx' = cmd /\ UNCHANGED <<cmd_vx, pending>>
     ELSE /\ cmd_vx' = cmd
          /\ pending' = IF dead > dt THEN dead - dt ELSE 0
          /\ exec_vx' = IF dead > 0 THEN exec_vx ELSE Toward(exec_vx, dt)

Execute(dt) ==
  LET dead == IF cmd # cmd_vx THEN DeadTime ELSE pending
  IN IF decel = 0 THEN exec_vx' = cmd /\ UNCHANGED <<cmd_vx, pending>>
     ELSE /\ cmd_vx' = cmd
          /\ pending' = IF dead > dt THEN dead - dt ELSE 0
          /\ exec_vx' = IF dead > 0 THEN exec_vx ELSE Toward(exec_vx, dt)

\* _tick_physics: a clock that stood still or jumped is not integrated.
TickPhysics(dt) ==
  /\ dt > 0 /\ dt <= MaxGap
  /\ Execute(dt)
  /\ x' = x + exec_vx' * (2 - slip) * dt
  /\ odom_x' = odom_x + 2 * exec_vx' * dt
  /\ x' \in (-Far) .. Far /\ odom_x' \in (-Far) .. Far
  /\ steady' = Least(steady + 1, Settling)
  /\ UNCHANGED <<decel, slip, cmd, on_air>>

TickOdom == /\ on_air' = exec_vx
            /\ UNCHANGED <<decel, slip, cmd, exec_vx, cmd_vx, pending, x, odom_x, steady>>

RobotNext == \/ \E vx \in (-MaxSpeed - 1) .. MaxSpeed + 1 : OnCommand(vx)
             \/ \E dt \in 0 .. MaxGap + 1 : TickPhysics(dt)
             \/ TickOdom
-----------------------------------------------------------------------------
(* The robot does what it was last told after the dead time and the        *)
(* braking from the speed it had, however often the command changed        *)
(* before: repeating a command does not start the dead time again (step).  *)
CommandTakesEffect == steady = Settling => exec_vx = cmd
=============================================================================
