----------------------------- MODULE RobotChecks -----------------------------
(***************************************************************************)
(* check_odom_properties: does odometry measure the wheels, or does the    *)
(* simulator copy its ground truth into it?  The robot reverses, goes      *)
(* forward, and then drives on for so long that a simulator with           *)
(* collisions pins it against a wall.  Each topic may fall silent and come *)
(* back; what is compared are the last messages of both.                   *)
(***************************************************************************)
EXTENDS Integers

CONSTANTS SlipSteps    \* steps of the long drive, 20 s at 0.15 m/s in all

ASSUME ChecksAssumption == SlipSteps \in Nat \ {0}

VARIABLES backend,      \* "2D", "slipping" or "collision"
          odom_source,       \* what the backend reports as odometry
          odom_pc,
          drove,        \* steps of the long drive
          wheel_at, body_at,      \* how far wheels and body went
          talking,      \* the topics that are heard
          odom_last, truth_last,  \* the last messages
          odom_from, truth_from,  \* those at the beginning of the long drive
          truth_fell_silent,
          odom_fails, unproven, odom_code

place_vars == <<drove, wheel_at, body_at, odom_last, truth_last, odom_from, truth_from>>
check_vars == <<backend, odom_source, odom_pc, place_vars, talking, truth_fell_silent, odom_fails,
                unproven, odom_code>>

Unheard == -1
Places  == Unheard .. SlipSteps
Spoken  == {"odom", "truth"}

ChecksTypeOK == /\ backend \in {"2D", "slipping", "collision"}
                /\ odom_source \in {"wheels", "unsigned", "truth"}
                /\ odom_pc \in {"reverse", "await", "slip", "compare", "end", "gone"}
                /\ {drove, wheel_at, body_at} \subseteq 0 .. SlipSteps
                /\ {odom_last, truth_last, odom_from, truth_from} \subseteq Places
                /\ talking \subseteq Spoken
                /\ {truth_fell_silent, odom_fails, unproven} \subseteq BOOLEAN
                /\ odom_code \in {0, 1}

ChecksInit == /\ backend \in {"2D", "slipping", "collision"}
              /\ odom_source \in {"wheels", "unsigned", "truth"}
              /\ odom_pc = "reverse" /\ drove = 0 /\ wheel_at = 0 /\ body_at = 0
              /\ talking \in SUBSET Spoken
              /\ odom_last = Unheard /\ truth_last = Unheard
              /\ odom_from = Unheard /\ truth_from = Unheard
              /\ truth_fell_silent = FALSE /\ odom_fails = FALSE /\ unproven = FALSE
              /\ odom_code = 0
-----------------------------------------------------------------------------
OdomFails(condition) == odom_fails' = (odom_fails \/ condition)

\* A topic falls silent or is heard again.
TopicChanges(t) == /\ odom_pc # "gone"
                   /\ talking' = (talking \ {t}) \cup ({t} \ talking)
                   /\ truth_fell_silent' = (truth_fell_silent
                                              \/ (odom_pc \in {"slip", "compare"} /\ t = "truth"))
                   /\ UNCHANGED <<backend, odom_source, odom_pc, place_vars, odom_fails, unproven,
                                  odom_code>>

\* Reverse, then forward: no odometry in reverse is a failure, so is speed without a sign.
\* Both lists are emptied afterwards.
ReverseDrive == /\ odom_pc = "reverse"
           /\ odom_pc' = "await"
           /\ \E heard \in {FALSE, "odom" \in talking} :
                OdomFails(~heard \/ odom_source = "unsigned")
           /\ UNCHANGED <<backend, odom_source, place_vars, talking, truth_fell_silent, unproven,
                          odom_code>>

Hear == /\ odom_last'  = IF "odom" \notin talking THEN odom_last
                         ELSE IF odom_source = "truth" THEN body_at' ELSE wheel_at'
        /\ truth_last' = IF "truth" \in talking THEN body_at' ELSE truth_last

\* Ten seconds for one message of each; without both there is nothing to compare.
AwaitBoth ==
  /\ odom_pc = "await"
  /\ UNCHANGED <<drove, wheel_at, body_at>>
  /\ Hear
  /\ OdomFails(Unheard \in {odom_last', truth_last'})
  /\ odom_pc' = IF Unheard \in {odom_last', truth_last'} THEN "end" ELSE "slip"
  /\ odom_from' = odom_last' /\ truth_from' = truth_last'
  /\ UNCHANGED <<backend, odom_source, talking, truth_fell_silent, unproven, odom_code>>

\* The wheels turn, if commands reach them; what the body does of it depends on the backend.
BodyMoves == body_at' \in IF wheel_at' = wheel_at THEN {body_at}
                          ELSE CASE backend = "2D"        -> {body_at + 1}
                                 [] backend = "slipping"  -> {drove' \div 2}
                                 [] backend = "collision" -> {body_at, body_at + 1}
SlipDrive == /\ odom_pc = "slip" /\ drove < SlipSteps
             /\ drove' = drove + 1
             /\ \/ backend # "slipping" /\ wheel_at' \in {wheel_at, wheel_at + 1}
                \/ backend = "slipping" /\ wheel_at' = wheel_at + 1
             /\ BodyMoves
             /\ Hear
             /\ UNCHANGED <<backend, odom_source, odom_pc, talking, odom_from, truth_from,
                            truth_fell_silent, odom_fails, unproven, odom_code>>

\* The two seconds of standing still bring the last messages up to date.
Settle == /\ odom_pc = "slip" /\ drove = SlipSteps
          /\ odom_pc' = "compare"
          /\ UNCHANGED <<wheel_at, body_at>>
          /\ Hear
          /\ UNCHANGED <<backend, odom_source, drove, talking, odom_from, truth_from,
                         truth_fell_silent, odom_fails, unproven, odom_code>>

odo_d  == odom_last - odom_from
true_d == truth_last - truth_from
Stalled      == odo_d < 1
Demonstrated == (odo_d - true_d) * 100 >= 3 * odo_d

\* Without slip a backend with collisions has failed; one without proves nothing.
Compare == /\ odom_pc = "compare"
           /\ odom_pc' = "end"
           /\ OdomFails(Stalled \/ (~Demonstrated /\ backend = "collision"))
           /\ unproven' = (~Stalled /\ ~Demonstrated /\ backend # "collision")
           /\ UNCHANGED <<backend, odom_source, place_vars, talking, truth_fell_silent,
                           odom_code>>

SaysOdometry == /\ odom_pc = "end"
                /\ odom_pc' = "gone"
                /\ odom_code' = IF odom_fails \/ unproven THEN 1 ELSE 0
                /\ UNCHANGED <<backend, odom_source, place_vars, talking, truth_fell_silent,
                                odom_fails, unproven>>

ChecksNext == \/ \E t \in Spoken : TopicChanges(t)
              \/ ReverseDrive \/ AwaitBoth \/ SlipDrive \/ Settle \/ Compare \/ SaysOdometry
-----------------------------------------------------------------------------
(* Odometry that passes is that of the wheels, signed, and the wheels were *)
(* seen to slip: neither a copy of ground truth nor odometry that falls    *)
(* silent gets through, as long as ground truth itself is heard from the   *)
(* beginning of the long drive to its end ("it is never assumed").         *)
CheatIsCaught ==
  odom_pc = "gone" /\ odom_code = 0 /\ ~truth_fell_silent
    => odom_source = "wheels" /\ body_at < wheel_at
=============================================================================
