----------------------------- MODULE BypassAlarm -----------------------------
(***************************************************************************)
(* cmd_vel_governor's watch over /cmd_vel: every five seconds it lists the *)
(* publishers, and says which of them drive past it and whether the        *)
(* deadman is there.  Publishers come and go between two polls, and any of *)
(* them may vanish between being listed and being asked.                   *)
(***************************************************************************)
EXTENDS Integers, FiniteSets

CONSTANTS Rogues,      \* nodes that publish /cmd_vel and should not
          Companion    \* the name of the deadman, expected_publishers

ASSUME AlarmAssumption == Companion \notin Rogues

VARIABLES publishers,     \* who publishes /cmd_vel besides the governor
          warned,         \* _warned_bypass
          seen_expected,  \* _seen_expected
          told,           \* rogues named in an error since a poll last missed them
          listed,         \* rogues that the last poll found
          complained      \* the last poll said that there is no deadman

alarm_vars == <<publishers, warned, seen_expected, told, listed, complained>>

AlarmTypeOK == /\ publishers \subseteq Rogues \cup {Companion}
               /\ seen_expected \subseteq {Companion}
               /\ warned \subseteq Rogues /\ told \subseteq Rogues /\ listed \subseteq Rogues
               /\ complained \in BOOLEAN

AlarmInit == /\ publishers \in SUBSET (Rogues \cup {Companion})
             /\ warned = {} /\ seen_expected = {}
             /\ told = {} /\ listed = {} /\ complained = FALSE
-----------------------------------------------------------------------------
PublisherChanges == \E p \in Rogues \cup {Companion} :
                      /\ publishers' = (publishers \ {p}) \cup ({p} \ publishers)
                      /\ UNCHANGED <<warned, seen_expected, told, listed, complained>>

\* What a poll may get to see: the nodes that vanish meanwhile are skipped.
_cmd_vel_publishers == SUBSET publishers

\* unexpected and expected_seen.
bypassing_nodes(seen) == [unexpected |-> seen \ {Companion}, expected |-> seen \cap {Companion}]

\* The names once warned of are kept when they are gone.
BadNewlyWarned(names) == IF names = {} THEN warned ELSE names

NewlyWarned(names) == names

_check_bypass ==
  \E seen \in _cmd_vel_publishers :
    LET found == bypassing_nodes(seen)
    IN /\ seen_expected' = found.expected
       /\ complained' = (found.expected = {})
       /\ warned' = NewlyWarned(found.unexpected)
       /\ listed' = found.unexpected
       /\ told' = (told \cap found.unexpected)
                    \cup (IF found.unexpected \notin {{}, warned} THEN found.unexpected ELSE {})
       /\ UNCHANGED publishers

AlarmNext == PublisherChanges \/ _check_bypass
-----------------------------------------------------------------------------
(* Whoever a poll finds driving past the governor has been named in an     *)
(* error since it last was absent from one: a publisher that leaves and    *)
(* comes back is reported again, whoever else came and went meanwhile.     *)
EveryReturnIsReported == listed \subseteq told
=============================================================================
