----------------------------- MODULE IsaacLoop -----------------------------
(***************************************************************************)
(* sim_runner --ros: one pass reads the latched command, drives the        *)
(* wheels, steps the physics by one step and publishes what is due on the  *)
(* wall clock; then it waits for the wall clock to catch up.  Time is in   *)
(* passes; a hitch (a render, a busy machine) makes one pass last longer.  *)
(***************************************************************************)
EXTENDS Integers

CONSTANTS PassHz,       \* physics steps, and so passes, per second
          OdomHz, ImuHz,
          MaxHitch,     \* what a pass may last beyond its time
          MaxHitches    \* how often one does, in a run of the model

ASSUME LoopAssumption == /\ PassHz \in Nat \ {0}
                         /\ OdomHz \in 0 .. PassHz /\ ImuHz \in 0 .. PassHz
                         /\ MaxHitch \in Nat /\ MaxHitches \in Nat

VARIABLES t,            \* wall time since the loop began, within a second
          unsent,         \* messages due and not sent, per topic
          lag,          \* how far the simulated time is behind the wall clock
          hitches,      \* hitches so far
          request,      \* the last /cmd_vel
          wheels_cmd,   \* what the wheels were told
          loop          \* "running" or "stopped"

\* The rate of each topic.  The battery's is the contract's slowest.
Hz == [odom |-> OdomHz, truth |-> OdomHz, imu |-> ImuHz, batt |-> 1]

loop_vars == <<t, unsent, lag, hitches, request, wheels_cmd, loop>>

\* Requests and limits, in halves of FIRMWARE_MAX_SPEED and FIRMWARE_MAX_YAW.
Requests == [vx : {0, 3}, wz : {-1, 0}]
Wheels == [left : -4 .. 4, right : -4 .. 4]

LoopTypeOK == /\ t \in 0 .. PassHz - 1
              /\ unsent \in [DOMAIN Hz -> Nat]
              /\ lag \in 0 .. MaxHitch * MaxHitches
              /\ hitches \in 0 .. MaxHitches
              /\ request \in Requests
              /\ wheels_cmd \in Wheels
              /\ loop \in {"running", "stopped"}

LoopInit == /\ t = 0
            /\ unsent = [k \in DOMAIN Hz |-> 0]
            /\ lag = 0 /\ hitches = 0
            /\ request = [vx |-> 0, wz |-> 0]
            /\ wheels_cmd = [left |-> 0, right |-> 0]
            /\ loop = "running"
-----------------------------------------------------------------------------
CommandArrives == /\ loop = "running"
                  /\ request' \in Requests
                  /\ UNCHANGED <<t, unsent, lag, hitches, wheels_cmd, loop>>

Within(n, most) == IF n > most THEN most ELSE IF n < -most THEN -most ELSE n

\* What the firmware would execute.
read_cmd_vel == [vx |-> Within(request.vx, 2), wz |-> Within(request.wz, 2)]

\* More yaw than was asked for, to make up for the scrubbing of the wheels, up to a cap.
compensate_yaw(wz) == Within(2 * wz, 2)

drive(c) == [left  |-> c.vx - compensate_yaw(c.wz), right |-> c.vx + compensate_yaw(c.wz)]

\* A message that is late is late for ever.
BadDue(n) == IF n > 1 THEN n - 1 ELSE n

\* At most one message of a topic in a pass.
_due(n) == IF n > 0 THEN n - 1 ELSE n

\* publish: what has become due by the wall clock, int(t * hz), less what is sent now.
publish(now) == [k \in DOMAIN Hz |->
                   _due(unsent[k] + (now * Hz[k]) \div PassHz - (t * Hz[k]) \div PassHz)]

\* A pass lasts its time, or longer; without waiting while the simulation is behind.
Pass(lasts) ==
  /\ loop = "running"
  /\ lasts = 0 => lag > 0
  /\ lasts > 1 => hitches < MaxHitches
  /\ hitches' = IF lasts > 1 THEN hitches + 1 ELSE hitches
  /\ wheels_cmd' = drive(read_cmd_vel)
  /\ unsent' = publish(t + lasts)
  /\ t' = (t + lasts) % PassHz
  /\ lag' = IF lag + lasts > 0 THEN lag + lasts - 1 ELSE 0
  /\ UNCHANGED <<request, loop>>

\* Ctrl-C stops the robot before the loop ends.
Interrupted == /\ loop = "running"
               /\ loop' = "stopped"
               /\ wheels_cmd' = drive([vx |-> 0, wz |-> 0])
               /\ UNCHANGED <<t, unsent, lag, hitches, request>>

LoopNext == \/ CommandArrives \/ Interrupted
            \/ \E lasts \in 0 .. 1 + MaxHitch : Pass(lasts)
-----------------------------------------------------------------------------
(* After the last hitch every topic comes back to its rate and keeps it:   *)
(* what a hitch held up is sent, one message a pass (_due).                *)
RatesRecover == [](loop = "running") => <>[](\A k \in DOMAIN Hz : unsent[k] = 0)
=============================================================================
