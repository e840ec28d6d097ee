----------------------------- MODULE SafetyStack -----------------------------
(***************************************************************************)
(* The two safety nodes, the drivers and the car's firmware around the     *)
(* topic /cmd_vel.                                                         *)
(*                                                                         *)
(*   driver --> /cmd_vel_raw --> governor --+                              *)
(*   driver (direct) ----------------------+--> /cmd_vel --> firmware      *)
(*                            deadman <-----+---- deadman                   *)
(*                                                                         *)
(* A publication travels to each subscriber on its own: in order for one   *)
(* publisher, in any order between two of them, and within the period in   *)
(* which it was made.  The radio may drop what goes to the firmware.       *)
(* Either safety node may die at any moment, with or without the zero of   *)
(* its finally block.  The firmware keeps the last command it was given.   *)
(***************************************************************************)
EXTENDS Deadman, Governor, Sequences

CONSTANT MaxLoss   \* bound: how many messages the radio drops in a behaviour

ASSUME StackAssumption == MaxLoss \in Nat

VARIABLES governor_alive, deadman_alive,
          driving,       \* some driver may still publish
          to_firmware,   \* what each publisher has under way to the firmware
          to_deadman,    \* ... and to the deadman's own subscription
          latched        \* the command the firmware executes

\* History variables: only the properties read them.
VARIABLES losses,        \* messages the radio has dropped
          silence,       \* periods since a moving command was put on /cmd_vel
          still,         \* periods since a driver asked for motion or the
                         \* governor started, whichever came last
          burst          \* who made the last publications to overlap in flight

bus_vars     == <<to_firmware, to_deadman, silence, burst>>
alive_vars   == <<governor_alive, deadman_alive, driving>>
stack_vars   == <<deadman_vars, governor_vars, alive_vars, bus_vars, latched, losses, still>>

Publishers == {"governor", "deadman", "driver"}

\* Periods after which, with no loss, the last moving command is undone.
DeadmanBound  == Timeout + 2
GovernorBound == CmdTimeout + 2
SilenceCap    == DeadmanBound
StillCap      == GovernorBound + MaxLoss

Channels == [Publishers -> Seq(Twist)]
Quiet    == [p \in Publishers |-> <<>>]
Idle     == to_firmware = Quiet /\ to_deadman = Quiet

StackTypeOK == /\ DeadmanTypeOK
               /\ GovernorTypeOK
               /\ governor_alive \in BOOLEAN
               /\ deadman_alive \in BOOLEAN
               /\ driving \in BOOLEAN
               /\ to_firmware \in Channels
               /\ to_deadman \in Channels
               /\ latched \in Twist
               /\ losses \in 0 .. MaxLoss
               /\ silence \in (0 .. SilenceCap) \cup {None}
               /\ still \in (0 .. StillCap) \cup {None}
               /\ burst \subseteq Publishers

StackInit == /\ DeadmanInit
             /\ GovernorInit
             /\ governor_alive = FALSE
             /\ deadman_alive = FALSE
             /\ driving = TRUE
             /\ to_firmware = Quiet
             /\ to_deadman = Quiet
             /\ latched = Zero
             /\ losses = 0
             /\ silence = None
             /\ still = None
             /\ burst = {}
-----------------------------------------------------------------------------
\* p puts c on /cmd_vel.
Publish(p, c) ==
  /\ to_firmware' = [to_firmware EXCEPT ![p] = Append(@, c)]
  /\ to_deadman' = IF deadman_alive'
                     THEN [to_deadman EXCEPT ![p] = Append(@, c)]
                     ELSE Quiet
  /\ silence' = IF is_moving_command(c) THEN 0 ELSE silence
  /\ burst' = (IF Idle THEN {} ELSE burst) \cup {p}

\* The firmware takes the next command of p from the radio.
FirmwareReceives(p) ==
  /\ to_firmware[p] # <<>>
  /\ to_firmware' = [to_firmware EXCEPT ![p] = Tail(@)]
  /\ latched' = Head(to_firmware[p])
  /\ UNCHANGED <<deadman_vars, governor_vars, alive_vars, to_deadman, silence,
                 burst, losses, still>>

RadioDrops(p) ==
  /\ to_firmware[p] # <<>>
  /\ losses < MaxLoss
  /\ losses' = losses + 1
  /\ to_firmware' = [to_firmware EXCEPT ![p] = Tail(@)]
  /\ UNCHANGED <<deadman_vars, governor_vars, alive_vars, to_deadman, silence,
                 burst, latched, still>>

DeadmanReceives(p) ==
  /\ to_deadman[p] # <<>>
  /\ to_deadman' = [to_deadman EXCEPT ![p] = Tail(@)]
  /\ OnCmd(Head(to_deadman[p]))
  /\ UNCHANGED <<governor_vars, alive_vars, to_firmware, silence, burst, latched,
                 losses, still>>
-----------------------------------------------------------------------------
\* A driver that goes through the governor.
Request(r) ==
  /\ driving
  /\ governor_alive
  /\ OnRequest(r)
  /\ still' = IF is_moving_command(r) THEN 0 ELSE still
  /\ UNCHANGED <<deadman_vars, alive_vars, bus_vars, latched, losses>>

\* A driver that does not.
Command(c) ==
  /\ driving
  /\ to_firmware["driver"] = <<>> /\ to_deadman["driver"] = <<>>
  /\ UNCHANGED alive_vars
  /\ Publish("driver", c)
  /\ still' = IF is_moving_command(c) THEN 0 ELSE still
  /\ UNCHANGED <<deadman_vars, governor_vars, latched, losses>>

\* Every driver has died or been closed, whatever it said last.
DriversGone ==
  /\ driving
  /\ driving' = FALSE
  /\ UNCHANGED <<deadman_vars, governor_vars, governor_alive, deadman_alive,
                 bus_vars, latched, losses, still>>

Scan(scan) ==
  /\ governor_alive
  /\ OnScan(scan)
  /\ UNCHANGED <<deadman_vars, alive_vars, bus_vars, latched, losses, still>>
-----------------------------------------------------------------------------
\* A tick that has no fresh request to pass on says nothing.
BadGovernorTimer ==
  /\ governor_alive
  /\ UNCHANGED alive_vars
  /\ GovernorTick
  /\ IF Stale(cmd_age, CmdTimeout)
       THEN UNCHANGED bus_vars
       ELSE Publish("governor", GovernorOutput)
  /\ UNCHANGED <<deadman_vars, latched, losses, still>>

GovernorTimer ==
  /\ governor_alive
  /\ UNCHANGED alive_vars
  /\ GovernorTick
  /\ Publish("governor", GovernorOutput)
  /\ UNCHANGED <<deadman_vars, latched, losses, still>>

DeadmanTimer ==
  /\ deadman_alive
  /\ UNCHANGED alive_vars
  /\ DeadmanTick
  /\ IF DeadmanPublishes THEN Publish("deadman", Zero) ELSE UNCHANGED bus_vars
  /\ UNCHANGED <<governor_vars, latched, losses, still>>

\* main() of either node: says_zero is FALSE when the process is killed, and
\* when the publication in the finally block raises.
GovernorDies(says_zero) ==
  /\ governor_alive
  /\ governor_alive' = FALSE
  /\ UNCHANGED <<deadman_alive, driving>>
  /\ IF says_zero THEN Publish("governor", Zero) ELSE UNCHANGED bus_vars
  /\ GovernorForgets
  /\ UNCHANGED <<deadman_vars, latched, losses, still>>

DeadmanDies(says_zero) ==
  /\ deadman_alive
  /\ deadman_alive' = FALSE
  /\ UNCHANGED <<governor_alive, driving>>
  /\ IF says_zero
       THEN Publish("deadman", Zero)
       ELSE to_deadman' = Quiet /\ UNCHANGED <<to_firmware, silence, burst>>
  /\ DeadmanForgets
  /\ UNCHANGED <<governor_vars, latched, losses, still>>

\* safety_launch.py starts both nodes, in no particular order and whatever the
\* car is doing at the time.  A process takes longer to come up than a message
\* to arrive, so what was under way when it was started is not its concern.
GovernorStarts ==
  /\ ~governor_alive
  /\ Idle
  /\ governor_alive' = TRUE
  /\ still' = 0
  /\ UNCHANGED <<deadman_alive, driving, deadman_vars, governor_vars, bus_vars,
                 latched, losses>>

DeadmanStarts ==
  /\ ~deadman_alive
  /\ Idle
  /\ deadman_alive' = TRUE
  /\ UNCHANGED <<governor_alive, driving, deadman_vars, governor_vars, bus_vars,
                 latched, losses, still>>

\* A period ends: both timers have fired and everything under way has arrived.
Period ==
  /\ Idle
  /\ governor_alive => ~governor_due
  /\ deadman_alive => ~deadman_due
  /\ IF governor_alive THEN GovernorElapse ELSE UNCHANGED governor_vars
  /\ IF deadman_alive THEN DeadmanElapse ELSE UNCHANGED deadman_vars
  /\ silence' = Older(silence, SilenceCap)
  /\ still' = Older(still, StillCap)
  /\ UNCHANGED <<alive_vars, to_firmware, to_deadman, burst, latched, losses>>

StackNext ==
  \/ \E p \in Publishers : FirmwareReceives(p) \/ RadioDrops(p) \/ DeadmanReceives(p)
  \/ \E r \in Requests : Request(r)
  \/ \E c \in Commands : Command(c)
  \/ \E scan \in Scans : Scan(scan)
  \/ DriversGone
  \/ GovernorTimer
  \/ DeadmanTimer
  \/ \E says_zero \in BOOLEAN : GovernorDies(says_zero) \/ DeadmanDies(says_zero)
  \/ GovernorStarts
  \/ DeadmanStarts
  \/ Period

\* Live timers fire, what is under way arrives (or is dropped), time passes.
StackFairness ==
  /\ WF_stack_vars(GovernorTimer)
  /\ WF_stack_vars(DeadmanTimer)
  /\ \A p \in Publishers : /\ WF_stack_vars(FirmwareReceives(p))
                           /\ WF_stack_vars(DeadmanReceives(p))
  /\ WF_stack_vars(Period)

StackSpec == StackInit /\ [][StackNext]_stack_vars /\ StackFairness
-----------------------------------------------------------------------------
Stopped == ~is_moving_command(latched)

(* While the governor lives, the car stands still within CmdTimeout plus   *)
(* two periods of the last request for motion, plus one for each message   *)
(* the radio dropped: whoever asked, by whichever topic, and whatever the  *)
(* deadman heard (cmd_vel_governor.py _tick publishes in every period).    *)
GovernorStopsTheCar ==
  governor_alive /\ still # None /\ still >= GovernorBound + losses => Stopped

(* Once the governor is dead, the deadman stops the car within Timeout     *)
(* plus two periods of the last moving command on /cmd_vel, whoever died   *)
(* without saying stop - if it has heard anything since it started, the    *)
(* radio dropped nothing and the last publications did not overlap in      *)
(* flight.                                                                 *)
DeadmanStopsTheCar ==
  /\ deadman_alive /\ ~governor_alive
  /\ age # None
  /\ losses = 0
  /\ Cardinality(burst) <= 1
  /\ Idle
  /\ silence # None /\ silence >= DeadmanBound
  => Stopped

(* The same without the condition on overlapping publications: "It covers  *)
(* any publisher dying" (deadman.py:19), "Teleop or a test tool dies       *)
(* mid-command: yes" (docs/safety-case.md:79).                             *)
CoversAnyPublisherDying ==
  /\ deadman_alive
  /\ age # None
  /\ losses = 0
  /\ Idle
  /\ silence # None /\ silence >= DeadmanBound
  => Stopped

(* A deadman that has heard nothing since it started has nothing to stop:  *)
(* "nothing has been commanded, so there is nothing latched to expire"     *)
(* (deadman.py:58-59).                                                     *)
NoHistoryNothingLatched == deadman_alive /\ age = None /\ Idle => Stopped

(* "deadman released; car left stopped" (cmd_vel_deadman.py:85): when a    *)
(* hold runs out the car does stand still, even if the radio dropped all   *)
(* but one of the zeros - unless a moving command is on its way to the     *)
(* deadman at that moment.                                                 *)
HoldRunsOut == deadman_alive /\ deadman_due /\ holding = 0

ReleasedMeansStopped ==
  HoldRunsOut =>
    \/ Stopped
    \/ \E p \in Publishers : \E i \in DOMAIN to_deadman[p] :
         is_moving_command(to_deadman[p][i])

(* When the drivers are gone, whichever of the nodes crashes and however   *)
(* messages overlap, the car ends up standing still, or no node is left    *)
(* that knows it is moving.                                                *)
Covered == \/ governor_alive
           \/ /\ deadman_alive
              /\ age # None
              /\ losses = 0
              /\ Cardinality(burst) <= 1

DriverlessCarStops == ~driving ~> Stopped \/ ~Covered
=============================================================================
