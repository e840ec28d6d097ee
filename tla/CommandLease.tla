---------------------------- MODULE CommandLease ----------------------------
(***************************************************************************)
(* What the safety nodes add up to: a base whose commands expire.  The     *)
(* firmware has no command watchdog; this is the watchdog it lacks.        *)
(***************************************************************************)
EXTENDS Naturals

CONSTANT Term      \* periods for which a moving command is good

VARIABLES moving,  \* the base executes a moving command
          left     \* periods left to it

lease_vars == <<moving, left>>

Init == moving = FALSE /\ left = 0

Grant == moving' = TRUE /\ left' = Term

Stop == moving' = FALSE /\ left' = 0

\* Time passes, except over the end of a lease.
Elapse == /\ moving
          /\ left > 0
          /\ left' = left - 1
          /\ UNCHANGED moving

Spec == Init /\ [][Grant \/ Stop \/ Elapse]_lease_vars
=============================================================================
