----------------------------- MODULE TwinVerdict -----------------------------
(***************************************************************************)
(* verify_twin and its fixture _tf_source: does the simulated chassis      *)
(* follow the odometry it is told to adopt?  Each render frame takes the   *)
(* latched message and authors the pose; two negative controls must fail.  *)
(* A moment is the time between two odometry messages; a frame may take    *)
(* several, and a message may be lost or late.                             *)
(***************************************************************************)
EXTENDS Integers, FiniteSets

CONSTANTS Hold,       \* moments that the fixture stays at each waypoint
          MaxGap,     \* --max-gap, in moments
          FrameMax    \* moments that the slowest frame takes

ASSUME TwinAssumption == Hold \in Nat \ {0} /\ MaxGap \in Nat /\ FrameMax \in Nat \ {0}

\* The places a chassis can be, the waypoints first.
Waypoints == 1 .. 5
Origin    == 1
Fallen    == 0
Other     == 6     \* where a real robot goes

Aftermath      == 2     \* what the tool samples for beyond the last waypoint
DropAfter == 3     \* when the drop test drops the base
Duration  == 5 * Hold + Aftermath

VARIABLES twin_mode,    \* "fixture", "live", "no_tf" or "drop_test"
          twin_pc,
          clock,            \* moments of sampling
          latched,      \* the message the graph holds: when it came and what it says
          chassis,      \* where the base is
          samples,      \* where a frame has seen it
          stamps,       \* distinct messages that a frame has seen
          last_at,      \* when a frame saw the last new one
          worst_gap,
          dropped,
          twin_code

twin_vars == <<twin_mode, twin_pc, clock, latched, chassis, samples, stamps, last_at, worst_gap,
               dropped, twin_code>>

NoMessage == [stamp |-> 0, place |-> Origin]

TwinTypeOK == /\ twin_mode \in {"fixture", "live", "no_tf", "drop_test"}
              /\ twin_pc \in {"setup", "sample", "judge", "gone"}
              /\ clock \in 0 .. Duration + FrameMax
              /\ latched.stamp \in 0 .. Duration + FrameMax
              /\ {latched.place, chassis} \cup samples \subseteq 0 .. 6
              /\ stamps \in 0 .. Duration + 1
              /\ {last_at, worst_gap} \subseteq 0 .. Duration + FrameMax
              /\ dropped \in BOOLEAN
              /\ twin_code \in {0, 1, 2}

TwinInit == /\ twin_mode \in {"fixture", "live", "no_tf", "drop_test"}
            /\ twin_pc = "setup" /\ clock = 0
            /\ latched = NoMessage /\ chassis = Origin /\ samples = {}
            /\ stamps = 0 /\ last_at = 0 /\ worst_gap = 0
            /\ dropped = FALSE /\ twin_code = 0
-----------------------------------------------------------------------------
\* No arena, no base link or no graph: 2.  Else the stage, and the fixture but for two modes.
Setup == /\ twin_pc = "setup"
         /\ \/ twin_pc' = "gone" /\ twin_code' = 2
            \/ twin_pc' = "sample" /\ UNCHANGED twin_code
         /\ UNCHANGED <<twin_mode, clock, latched, chassis, samples, stamps, last_at, worst_gap,
                        dropped>>

\* Where the fixture is at a moment: five waypoints, one after the other, then it ends.
FixtureAt(moment) == 1 + (moment - 1) \div Hold

\* What may have arrived by a moment, newest last: nothing new, or the message of one of
\* the moments since the last frame.
Arrived(before, now) ==
  {latched} \cup
    CASE twin_mode = "no_tf" -> {}
      [] twin_mode = "live"  -> {[stamp |-> m, place |-> p] : m \in before + 1 .. now,
                                                              p \in {Origin, Other}}
      [] OTHER -> {[stamp |-> m, place |-> FixtureAt(m)] :
                     m \in {n \in before + 1 .. now : n <= 5 * Hold}}

\* The drop test goes on authoring nothing once it has dropped the base.
Suspended == twin_mode = "drop_test" /\ dropped

\* One pass of the loop: step, take the latched message, author its pose, sample, drop.
Frame ==
  /\ twin_pc = "sample" /\ clock < Duration
  /\ \E took \in 1 .. FrameMax :
       /\ clock' = clock + took
       /\ latched' \in Arrived(clock, clock')
       /\ LET takes == latched'.stamp > 0 /\ ~Suspended
              new   == takes /\ latched'.stamp # latched.stamp
              after == IF takes THEN latched'.place ELSE chassis
              drops == twin_mode = "drop_test" /\ ~dropped /\ clock' > DropAfter
          IN /\ stamps'    = IF new THEN stamps + 1 ELSE stamps
             /\ worst_gap' = IF new /\ stamps > 0 /\ clock' - last_at > worst_gap
                             THEN clock' - last_at ELSE worst_gap
             /\ last_at'   = IF new THEN clock' ELSE last_at
             /\ samples'   = samples \cup {after}
             /\ chassis'   = IF drops THEN Fallen ELSE after
             /\ dropped'   = (dropped \/ drops)
  /\ UNCHANGED <<twin_mode, twin_pc, twin_code>>

\* The time is over; the fixture is killed.
SamplingEnds == /\ twin_pc = "sample" /\ clock >= Duration
                /\ twin_pc' = "judge"
                /\ UNCHANGED <<twin_mode, clock, latched, chassis, samples, stamps, last_at,
                               worst_gap, dropped, twin_code>>

\* In the order of the code: the floor, no motion, a latched message, and then what a robot
\* owes (no gap) or the fixture does (every waypoint).
Follows == /\ Fallen \notin samples
           /\ \E p \in samples : p # Origin
           /\ stamps >= 2
           /\ IF twin_mode = "live" THEN worst_gap <= MaxGap ELSE Waypoints \subseteq samples

\* A live twin must also have reached every pose by the next frame, within the tolerance.
JudgeTwin == /\ twin_pc = "judge"
             /\ twin_pc' = "gone"
             /\ \E reached \in BOOLEAN :
                  twin_code' = IF Follows /\ (twin_mode = "live" => reached) THEN 0 ELSE 1
             /\ UNCHANGED <<twin_mode, clock, latched, chassis, samples, stamps, last_at, worst_gap,
                            dropped>>

TwinNext == Setup \/ Frame \/ SamplingEnds \/ JudgeTwin
-----------------------------------------------------------------------------
(* Only a twin that follows passes: neither negative control does, however *)
(* slow the frames and whatever is lost of the stream ("a verifier that    *)
(* cannot fail is decoration").                                            *)
OnlyAFollowerPasses ==
  twin_pc = "gone" /\ twin_code = 0
    => /\ twin_mode \notin {"no_tf", "drop_test"}
       /\ stamps >= 2 /\ chassis # Fallen
=============================================================================
