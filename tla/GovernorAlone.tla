--------------------------- MODULE GovernorAlone ---------------------------
(***************************************************************************)
(* The governor under any driver and any lidar, with what it published and *)
(* the scan it had to go by.                                               *)
(***************************************************************************)
EXTENDS Governor

VARIABLES cmd_vel,     \* the twist last published on /cmd_vel
          last_reason, \* what it said of it; ~/limiting carries whether it said anything
          sight        \* the last scan received

vars == <<governor_vars, cmd_vel, last_reason, sight>>

TypeOK == /\ GovernorTypeOK
          /\ cmd_vel \in Motion
          /\ last_reason \in SUBSET DOMAIN About
          /\ sight \in Scans \cup {{}}

Init == /\ GovernorInit
        /\ cmd_vel = Zero
        /\ last_reason = {}
        /\ sight = {}

See(scan) == /\ OnScan(scan)
             /\ sight' = scan
             /\ UNCHANGED <<cmd_vel, last_reason>>

Ask(r) == OnRequest(r) /\ UNCHANGED <<cmd_vel, last_reason, sight>>

Tick == /\ GovernorTick
        /\ cmd_vel' = GovernorOutput
        /\ last_reason' = GovernorReasons
        /\ UNCHANGED sight

Elapse == /\ ~governor_due
          /\ GovernorElapse
          /\ UNCHANGED <<cmd_vel, last_reason, sight>>

Next == \/ \E scan \in Scans : See(scan)
        \/ \E r \in Requests : Ask(r)
        \/ Tick
        \/ Elapse

Spec == Init /\ [][Next]_vars
-----------------------------------------------------------------------------
Ticked == governor_due /\ ~governor_due'

\* out is what was asked for or less of it, in the same direction.
Reduces(out, asked) ==
  \A axis \in Axes :
    \/ out[axis] = 0
    \/ /\ isfinite(asked[axis])
       /\ \/ 0 < out[axis] /\ out[axis] <= asked[axis]
          \/ asked[axis] <= out[axis] /\ out[axis] < 0

(* "It never invents motion, it only reduces what was asked for"           *)
(* (governor.py:7): on no axis, through caps, gate and slow zone, does a   *)
(* tick publish more than the request, or the other way.                   *)
NeverInventsMotion == [][Ticked => Reduces(cmd_vel', req)]_vars

(* Forward motion is paid for by every reading ahead, not by the one the   *)
(* code picked: each is beyond the stop line and the speed is on or below  *)
(* the straight line from 0 at StopDistance to MaxSpeed at SlowDistance.   *)
(* A scan without a reading ahead buys none (forward_min_range, rule 7).   *)
PaidFor(vx, scan) ==
  /\ Ahead(scan) # {}
  /\ \A r \in Ahead(scan) :
       /\ r.range > StopDistance
       /\ r.range < SlowDistance =>
            vx * (SlowDistance - StopDistance) <= MaxSpeed * (r.range - StopDistance)

ForwardIsPaidFor ==
  [][Ticked /\ cmd_vel'.vx > 0 => PaidFor(cmd_vel'.vx, sight)]_vars

(* One more reading in a scan that already sees something ahead never      *)
(* makes the robot translate or turn faster (decide is antitone in what    *)
(* the lidar sees).                                                        *)
Speed(scan, axis) ==
  Abs(decide(req, forward_min_range(scan), scan_age, cmd_age)[axis])

MoreSeenIsNeverFaster ==
  \A more \in Scans : \A fewer \in SUBSET more :
    Ahead(fewer) # {} => \A axis \in Axes : Speed(more, axis) <= Speed(fewer, axis)

(* The operator is told what happened to the request, branch by branch:    *)
(* every axis on which the output differs from it is named by a reason     *)
(* given, the yaw that was gated as well as the obstacle that stopped the  *)
(* car ("appended to whatever else already applied, rather than replacing  *)
(* it", governor.py:155), and no reason but a refusal is given for an      *)
(* output that is as requested (Decision.reason, governor.py:66).          *)
Differs(axis) == cmd_vel'[axis] # req[axis]

EveryChangeIsNamed ==
  [][Ticked => /\ \A axis \in Axes :
                    Differs(axis) => \E why \in last_reason' : axis \in About[why]
               /\ \A why \in last_reason' \ Refusals :
                    \E axis \in About[why] : Differs(axis)]_vars

(* A period that ends without a request or a scan younger than its limit   *)
(* leaves a zero as the last word of the governor (rules 1 and 2): neither *)
(* a dead driver nor a dead lidar needs to say anything to stop the car.   *)
StaleMeansZero ==
  /\ ~governor_due
  /\ Stale(scan_age, ScanTimeout) \/ Stale(cmd_age, CmdTimeout)
  => cmd_vel = Zero

(* "A stale or empty scan stops the robot rather than being ignored"       *)
(* (cmd_vel_governor.py:26-27): a tick on a scan with no valid return      *)
(* ahead publishes no motion.                                              *)
EmptyScanStops == [][Ticked /\ Ahead(sight) = {} => cmd_vel' = Zero]_vars
=============================================================================
