------------------------------- MODULE Deadman -------------------------------
(***************************************************************************)
(* cmd_vel_deadman: the node that zeroes /cmd_vel when whoever was driving *)
(* stops talking.                                                          *)
(*                                                                         *)
(* Time advances in periods of the node's own timer (1/rate).  The timer   *)
(* fires once in every period, anywhere in it, so two consecutive ticks    *)
(* are less than two periods apart.  Commands arrive at any moment.        *)
(*                                                                         *)
(* Definitions whose name starts with Bad are plausible mistakes in the    *)
(* code, each written just before the definition it is a variant of; no    *)
(* specification uses them.                                                *)
(***************************************************************************)
EXTENDS Velocity

CONSTANTS Timeout,   \* DeadmanConfig.timeout, in periods
          Hold,      \* DeadmanConfig.hold, in periods
          Commands   \* the twists that publishers put on /cmd_vel

ASSUME DeadmanAssumption == /\ Timeout \in Nat
                            /\ Hold \in Nat
                            /\ Commands \subseteq Twist
                            /\ Zero \in Commands

VARIABLES last_moving,    \* the last command heard asked for motion
          age,            \* periods since the last command heard, or None
          holding,        \* periods left until holding_until, or None
          deadman_due     \* the timer has still to fire in this period

deadman_vars == <<last_moving, age, holding, deadman_due>>

\* Beyond the limit by a period and by more are told apart.
AgeCap == Timeout + 2
Ages   == (0 .. AgeCap) \cup {None}

DeadmanTypeOK == /\ last_moving \in BOOLEAN
                 /\ age \in Ages
                 /\ holding \in (0 .. Hold) \cup {None}
                 /\ deadman_due \in BOOLEAN

\* A timer first fires one period after it was created.
DeadmanInit == /\ last_moving = FALSE
               /\ age = None
               /\ holding = None
               /\ deadman_due = FALSE
-----------------------------------------------------------------------------
\* The memory of a process that has ended, and of one that has just started.
DeadmanForgets == /\ last_moving' = FALSE
                  /\ age' = None
                  /\ holding' = None
                  /\ deadman_due' = FALSE

\* A moving command does not release the hold.
BadOnCmd(c) == /\ last_moving' = is_moving_command(c)
               /\ age' = 0
               /\ UNCHANGED <<holding, deadman_due>>

\* A command of any publisher, this node's own zeros included.
OnCmd(c) == /\ holding' = IF is_moving_command(c) THEN None ELSE holding
            /\ last_moving' = is_moving_command(c)
            /\ age' = 0
            /\ UNCHANGED deadman_due

\* The limit is off by one period.
BadShouldIntervene == last_moving /\ age # None /\ age > Timeout + 1

should_intervene == last_moving /\ age # None /\ age > Timeout

Latched == holding # None /\ holding > 0

\* The trigger starts the hold and leaves the zero to the next tick.
BadDeadmanPublishes == Latched

\* The hold lasts only until the node hears its own zero.
BadRepublishing == should_intervene

\* The tick in which a hold runs out does nothing else.
BadFallThrough == Latched \/ (holding = None /\ should_intervene)

\* Whether DeadmanTick puts a zero on /cmd_vel.
DeadmanPublishes == Latched \/ should_intervene

\* The hold is counted on top of the timeout.
BadDeadmanTick == /\ deadman_due
                  /\ deadman_due' = FALSE
                  /\ holding' = CASE Latched                       -> holding
                                  [] ~Latched /\ should_intervene  -> Timeout + Hold
                                  [] ~Latched /\ ~should_intervene -> None
                  /\ UNCHANGED <<last_moving, age>>

\* A hold that has expired is dropped, and the same tick looks for a silence.
DeadmanTick == /\ deadman_due
               /\ deadman_due' = FALSE
               /\ holding' = CASE Latched                       -> holding
                               [] ~Latched /\ should_intervene  -> Hold
                               [] ~Latched /\ ~should_intervene -> None
               /\ UNCHANGED <<last_moving, age>>

\* What one period of the clock does to the node's ages.
DeadmanElapse == /\ age' = Older(age, AgeCap)
                 /\ holding' = IF Latched THEN holding - 1 ELSE holding
                 /\ deadman_due' = TRUE
                 /\ UNCHANGED last_moving
=============================================================================
