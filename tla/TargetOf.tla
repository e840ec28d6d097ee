------------------------------ MODULE TargetOf ------------------------------
(***************************************************************************)
(* _cmd_vel_safety: whom a tool is about to drive.                          *)
(*                                                                         *)
(* Participants of the domain are discovered one by one, in any order and  *)
(* at any time.  The tool looks once a second; a car ends the search, a    *)
(* simulator starts a dwell that looks for a car.                          *)
(***************************************************************************)
EXTENDS Integers

CONSTANTS Seconds,   \* how long target_of looks
          Confirm,   \* how long it goes on looking once it has seen a simulator
          None

ASSUME TargetAssumption == /\ Seconds \in Nat
                           /\ Confirm \in Nat
                           /\ None \notin Int

\* Viewers subscribe to the simulator's topic, which makes the topic exist.
Participants == {"car", "simulator", "viewer"}

VARIABLES car_domain,    \* ROS_DOMAIN_ID is CAR_DOMAIN
          visible,       \* the participants that discovery has shown
          elapsed,       \* seconds since the search began
          sim_seen_at,   \* when a look first saw a simulator, or None
          car_seen_at,   \* when discovery showed the car, or None
          guard          \* what has become of the tool's request to drive

\* How long the clock runs on after the search.
Horizon == Seconds + Confirm

target_vars == <<car_domain, visible, elapsed, sim_seen_at, car_seen_at, guard>>

TargetTypeOK == /\ car_domain \in BOOLEAN
                /\ visible \subseteq Participants
                /\ elapsed \in 0 .. Horizon
                /\ sim_seen_at \in (0 .. Seconds) \cup {None}
                /\ car_seen_at \in (0 .. Horizon) \cup {None}
                /\ guard \in {"asked", "looking", "open", "refused"}

TargetInit == /\ car_domain \in BOOLEAN
              /\ visible = {}
              /\ elapsed = 0
              /\ sim_seen_at = None
              /\ car_seen_at = None
              /\ guard = "asked"
-----------------------------------------------------------------------------
\* Discovery shows one more participant, also while the tool already drives.
Discover(p) == /\ guard # "refused"
               /\ p \notin visible
               /\ visible' = visible \cup {p}
               /\ car_seen_at' = IF p = "car" THEN elapsed ELSE car_seen_at
               /\ UNCHANGED <<car_domain, elapsed, sim_seen_at, guard>>

\* A second in which the tool has stopped looking.
Later == /\ guard = "open"
         /\ elapsed < Horizon
         /\ elapsed' = elapsed + 1
         /\ UNCHANGED <<car_domain, visible, sim_seen_at, car_seen_at, guard>>

\* A participant other than the car leaves the domain.
Vanish(p) == /\ guard \in {"asked", "looking"}
             /\ p \in visible \ {"car"}
             /\ visible' = visible \ {p}
             /\ UNCHANGED <<car_domain, elapsed, sim_seen_at, car_seen_at, guard>>

\* The structural refusal, before any discovery.
forbid_car_domain == /\ guard = "asked"
                     /\ guard' = IF car_domain THEN "refused" ELSE "looking"
                     /\ UNCHANGED <<car_domain, visible, elapsed, sim_seen_at, car_seen_at>>

real == "car" \in visible
sim  == visible \cap {"simulator", "viewer"} # {}

target == CASE real /\ sim   -> "both"
            [] real /\ ~sim  -> "hardware"
            [] ~real /\ sim  -> "simulator"
            [] ~real /\ ~sim -> "nothing"

require_simulator == IF target = "simulator" THEN "open" ELSE "refused"

\* The search ends with the first evidence of either kind.
BadLook == /\ guard = "looking"
           /\ elapsed < Seconds
           /\ elapsed' = elapsed + 1
           /\ sim_seen_at' = IF sim /\ sim_seen_at = None THEN elapsed' ELSE sim_seen_at
           /\ guard' = IF real \/ sim \/ elapsed' = Seconds THEN require_simulator ELSE guard
           /\ UNCHANGED <<car_domain, visible, car_seen_at>>

\* One turn of the loop of target_of, and what require_simulator makes of its end.
Look == LET now       == elapsed + 1
            confirmed == sim /\ sim_seen_at # None /\ now - sim_seen_at >= Confirm
            ends      == real \/ confirmed \/ now = Seconds
        IN /\ guard = "looking"
           /\ elapsed < Seconds
           /\ elapsed' = now
           /\ sim_seen_at' = IF sim /\ ~real /\ sim_seen_at = None THEN now ELSE sim_seen_at
           /\ guard' = IF ends THEN require_simulator ELSE guard
           /\ UNCHANGED <<car_domain, visible, car_seen_at>>

TargetNext == \/ \E p \in Participants : Discover(p) \/ Vanish(p)
              \/ forbid_car_domain
              \/ Look
              \/ Later
-----------------------------------------------------------------------------
(* A car that is driven surfaced no sooner than Confirm after the           *)
(* simulator did, whatever the order in which participants come and go:    *)
(* the asymmetric exit of target_of.  The condition says that the search   *)
(* had Confirm seconds left when it saw the simulator; else the deadline   *)
(* cuts the dwell short.                                                   *)
CarInTheDwellIsFound ==
  guard = "open" /\ car_seen_at # None /\ sim_seen_at + Confirm <= Seconds
    => car_seen_at - sim_seen_at >= Confirm

(* "its presence is therefore positive evidence of a simulator rather than *)
(* the mere absence of evidence of a robot" (_cmd_vel_safety.py:81), of a  *)
(* topic that any subscriber brings into existence.                        *)
OpenMeansSimulator == guard = "open" => "simulator" \in visible
=============================================================================
