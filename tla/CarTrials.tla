------------------------------ MODULE CarTrials ------------------------------
(***************************************************************************)
(* The tools that drive the elevated car without the guard: car_selftest,  *)
(* measure_latency, ekf_ab_test and twin_motion_sequence.  The link comes  *)
(* and goes: without it neither commands nor odometry arrive, and the car  *)
(* keeps the last command.  Odometry is a callback of another thread: the  *)
(* tools look at the last message, whenever that came.  Whether it is that *)
(* of encoders or repeats the command is what --handspin is to find out,   *)
(* and whether the motors turn the wheels at all nobody but a person sees. *)
(***************************************************************************)
EXTENDS Integers, FiniteSets, SequencesExt

CONSTANTS Nothing,          \* no value
          LatencyRepeats,   \* --repeats of measure_latency
          PushTime,         \* how long it pushes
          QuietTime,        \* how long it listens before
          OdomPeriod,       \* between two messages of /odom_raw
          MaxLatency        \* the slowest car

ASSUME TrialsAssumption == /\ LatencyRepeats \in Nat /\ PushTime \in Nat /\ QuietTime \in Nat
                           /\ OdomPeriod \in Nat \ {0} /\ MaxLatency \in Nat
                           /\ Nothing \notin {"linear", "turn", "rest"}

VARIABLES trial,        \* the tool
          option,       \* how it was called
          step,         \* what it is doing
          hears,        \* the car hears and is heard
          encoders,     \* /odom_raw is of the wheels, and not of the last command
          motors,       \* the wheels do what the firmware says
          wheels,       \* the command the firmware carries out
          last_odom,    \* the last message of /odom_raw
          obeyed,       \* every motion it ever carried out
          leg,          \* the leg, or the configuration, or the repeat
          peak,         \* what was read of /odom_raw during this leg
          failed,       \* a row of the self-test failed
          fused,        \* per configuration, what the filter says the held car moved
          brackets,     \* the latencies measured
          bound,        \* the upper bound reported, or Nothing
          ekf_verdict,      \* of ekf_ab_test
          helpers,      \* processes started
          trial_code    \* the exit code

call_vars   == <<trial, option, encoders, motors>>
result_vars == <<failed, fused, brackets, bound, ekf_verdict>>
trial_vars  == <<call_vars, step, hears, wheels, last_odom, obeyed, leg, peak, result_vars,
                 helpers, trial_code>>

Motions  == {"linear", "turn"}
Contract == {"/scan", "/imu", "/odom_raw", "/battery"}
Configs  == <<"vendor", "corrected">>

\* What each tool drives, leg by leg; a repeat of measure_latency is a leg of its own kind.
Legs == [selftest |-> <<"linear", "linear", "turn">>,
         latency  |-> [i \in 1 .. LatencyRepeats |-> "linear"],
         ekf      |-> <<"linear", "linear">>,
         sequence |-> <<"linear", "linear", "turn", "turn", "linear">>]

Options == [selftest |-> {"motion", "sensors", "handspin"},
            latency  |-> {"motion", "sensors"},
            ekf      |-> {"both", "vendor", "corrected"},
            sequence |-> {"motion"}]

TrialsTypeOK ==
  /\ trial \in DOMAIN Legs /\ option \in Options[trial]
  /\ step \in {"agent", "sample", "handspin", "drive", "leg", "finally", "report",
               "gone"}
  /\ {hears, encoders, motors} \subseteq BOOLEAN
  /\ wheels \in Motions \cup {"rest"}
  /\ last_odom \in Motions \cup {"rest", Nothing}
  /\ obeyed \subseteq Motions
  /\ leg \in 1 .. Len(Legs[trial]) + 1
  /\ peak \subseteq Motions \cup {"rest", Nothing}
  /\ failed \in BOOLEAN
  /\ fused \in [1 .. 2 -> 0 .. 2 \cup {Nothing}]
  /\ Len(brackets) <= LatencyRepeats
  /\ bound \in 0 .. PushTime \cup {Nothing}
  /\ ekf_verdict \in {"held", "worse", "inconclusive", "incomplete", Nothing}
  /\ helpers \subseteq {"bag", "imu", "filter", "laser"}
  /\ trial_code \in {0, 1, 130}

TrialsInit == /\ trial \in DOMAIN Legs /\ option \in Options[trial]
              /\ step = "agent"
              /\ encoders \in BOOLEAN /\ motors \in BOOLEAN
              /\ hears \in BOOLEAN /\ wheels = "rest" /\ last_odom = Nothing /\ obeyed = {}
              /\ leg = 1 /\ peak = {} /\ failed = FALSE
              /\ fused = [i \in 1 .. 2 |-> Nothing]
              /\ brackets = <<>> /\ bound = Nothing /\ ekf_verdict = Nothing
              /\ helpers = {} /\ trial_code = 0
-----------------------------------------------------------------------------
(* The car. *)

Obeys(motion) == wheels' = motion /\ obeyed' = obeyed \cup ({motion} \cap Motions)
Commands(motion) == IF hears THEN Obeys(motion) ELSE UNCHANGED <<wheels, obeyed>>

\* Wheels that stand still show, to encoders.
Shows == encoders => motors
Reported == IF Shows THEN wheels ELSE "rest"

OdomArrives == /\ step # "gone" /\ hears
               /\ last_odom' = Reported
               /\ UNCHANGED <<call_vars, step, hears, wheels, obeyed, leg, peak, result_vars,
                              helpers, trial_code>>

HearingChanges == /\ step # "gone"
                  /\ hears' = ~hears
                  /\ UNCHANGED <<call_vars, step, wheels, last_odom, obeyed, leg, peak,
                                 result_vars, helpers, trial_code>>
-----------------------------------------------------------------------------
(* car_selftest.  Its rows only ever turn failed on. *)

Row(passes) == failed' = (failed \/ ~passes)

\* Without an agent there is nothing to test; the bag is the tool's own child.
AgentLook == /\ trial = "selftest" /\ step = "agent"
             /\ \/ /\ step' = "gone" /\ trial_code' = 1 /\ Row(FALSE)
                   /\ UNCHANGED helpers
                \/ /\ step' = "sample" /\ helpers' \in {{}, {"bag"}}
                   /\ UNCHANGED <<failed, trial_code>>
             /\ UNCHANGED <<call_vars, hears, wheels, last_odom, obeyed, leg, peak, fused,
                            brackets, bound, ekf_verdict>>

\* The rates of the contract, then the pack.  Not one message on any topic ends the test, a
\* low pack rules out the motion, and a pack that was not heard of does not.
Sample == /\ trial = "selftest" /\ step = "sample"
          /\ \E arrived \in IF hears THEN SUBSET Contract ELSE {{}} :
             \E in_tolerance \in SUBSET arrived, enough_points, low \in BOOLEAN :
               /\ low => "/battery" \in arrived
               /\ Row(in_tolerance = Contract /\ enough_points /\ ~low)
               /\ last_odom' = IF "/odom_raw" \in arrived THEN Reported ELSE last_odom
               /\ step' = CASE arrived = {} \/ option = "sensors" -> "finally"
                            [] option = "handspin"                -> "handspin"
                            [] low                                -> "finally"
                            [] OTHER                              -> "drive"
          /\ UNCHANGED <<call_vars, hears, wheels, obeyed, leg, peak, fused, brackets, bound,
                         ekf_verdict, helpers, trial_code>>

\* Nothing is commanded; somebody turns a wheel, and /odom_raw says so or does not.
HandSpin == /\ step = "handspin"
            /\ step' = "finally"
            /\ \E responds \in {FALSE, hears /\ encoders} : Row(responds)
            /\ UNCHANGED <<call_vars, hears, wheels, last_odom, obeyed, leg, peak, fused,
                           brackets, bound, ekf_verdict, helpers, trial_code>>
-----------------------------------------------------------------------------
(* The legs of car_selftest, ekf_ab_test and twin_motion_sequence. *)

\* Once around the loop of a leg: the command goes out, the last odometry is looked at.
LegBegins == /\ step = "drive" /\ trial # "latency"
             /\ leg <= Len(Legs[trial])
             /\ step' = "leg"
             /\ Commands(Legs[trial][leg])
             /\ peak' = {last_odom}
             /\ UNCHANGED <<call_vars, hears, last_odom, leg, result_vars, helpers, trial_code>>
LegGoesOn == /\ step = "leg"
             /\ Commands(Legs[trial][leg])
             /\ peak' = peak \cup {last_odom}
             /\ UNCHANGED <<call_vars, step, hears, last_odom, leg, result_vars, helpers,
                            trial_code>>

\* The zeros after a leg and the row it earns, of what the robot reported.
Shown == Legs[trial][leg] \in peak
LegEnds == /\ step = "leg" /\ trial # "ekf"
           /\ Commands("rest")
           /\ leg' = leg + 1
           /\ step' = IF leg = Len(Legs[trial]) THEN "finally" ELSE "drive"
           /\ IF trial = "selftest" THEN Row(Shown) ELSE UNCHANGED failed
           /\ peak' = {}
           /\ UNCHANGED <<call_vars, hears, last_odom, fused, brackets, bound, ekf_verdict, helpers,
                          trial_code>>

SequenceBegins == /\ trial = "sequence" /\ step = "agent"
                  /\ step' = "drive"
                  /\ Commands("rest")
                  /\ UNCHANGED <<call_vars, hears, last_odom, leg, peak, result_vars, helpers,
                                 trial_code>>
-----------------------------------------------------------------------------
(* ekf_ab_test: a filter per configuration, started, driven past, killed. *)

Skipped == option # "both" /\ option # Configs[leg]

\* A configuration not asked for, or whose file is missing, is passed over.
StartFilter == /\ trial = "ekf" /\ step = "agent" /\ leg <= 2
               /\ \/ /\ ~Skipped
                     /\ \E bag \in {{}, {"bag"}} :
                          helpers' = {"imu", "filter"} \cup bag
                                       \cup IF Configs[leg] = "corrected" THEN {"laser"} ELSE {}
                     /\ step' = "drive"
                     /\ UNCHANGED leg
                  \/ /\ leg' = leg + 1
                     /\ UNCHANGED <<helpers, step>>
               /\ UNCHANGED <<call_vars, hears, wheels, last_odom, obeyed, peak, result_vars,
                              trial_code>>

\* The displacement the filter reports between its first and its last message, if any came.
Collect == /\ trial = "ekf" /\ step = "leg"
           /\ Commands("rest")
           /\ \E moved \in (IF peak \cap Motions # {} THEN 0 .. 2 ELSE {0}) \cup {Nothing} :
                fused' = [fused EXCEPT ![leg] = moved]
           /\ step' = "finally" /\ peak' = {}
           /\ UNCHANGED <<call_vars, hears, last_odom, leg, failed, brackets, bound, ekf_verdict,
                          helpers, trial_code>>

Judged(vendor, corrected) ==
  CASE vendor = Nothing \/ corrected = Nothing -> "incomplete"
    [] 2 * corrected < vendor                  -> "held"
    [] corrected > vendor                      -> "worse"
    [] OTHER                                   -> "inconclusive"

JudgeFilters == /\ trial = "ekf" /\ step = "agent" /\ leg = 3
                /\ step' = "gone" /\ trial_code' = 0
                /\ ekf_verdict' = Judged(fused[1], fused[2])
                /\ UNCHANGED <<call_vars, hears, wheels, last_odom, obeyed, leg, peak, failed,
                               fused, brackets, bound, helpers>>
-----------------------------------------------------------------------------
(* measure_latency: how long after the first command does the car move? *)

\* Fewer than five scans and nothing more is measured.
ScanGate == /\ trial = "latency" /\ step = "agent"
            /\ \/ /\ step' = "gone" /\ trial_code' = 1
               \/ /\ hears /\ UNCHANGED trial_code
                  /\ step' = IF option = "motion" THEN "drive" ELSE "report"
            /\ UNCHANGED <<call_vars, hears, wheels, last_odom, obeyed, leg, peak, result_vars,
                           helpers>>

\* When odometry is due, relative to the first command.
Due(offset) == {t \in (-QuietTime) .. PushTime : (t - offset) % OdomPeriod = 0}

\* heard are the times odometry came, over those of them at which it was above the threshold.
Bracket(heard, over) ==
  LET first == Min({t \in over : t > 0})
      prev  == Max({t \in heard \ over : t < first} \cup {0})
  IN [lo |-> IF prev > 0 THEN prev ELSE 0, hi |-> first]

\* The repeats: zeros, a pause, commands, zeros.  Any zeros may be lost: the car then rolls
\* on, into the next repeat, and nothing looks.  No motion that shows, no bracket.
Trial == /\ trial = "latency" /\ step = "drive" /\ leg <= LatencyRepeats
         /\ \E latency \in 0 .. MaxLatency, offset \in 0 .. OdomPeriod - 1 :
            \E heard \in IF hears THEN SUBSET Due(offset) ELSE {{}},
               rolls \in {FALSE, wheels # "rest"} :
              LET over == {t \in heard : Shows /\ (rolls \/ t >= latency)}
              IN brackets' = IF \A t \in over : t <= 0 THEN brackets
                             ELSE Append(brackets, [took |-> latency, rolled |-> rolls,
                                                    says |-> Bracket(heard, over)])
         /\ \/ Obeys("rest") \/ Obeys("linear")
         /\ leg' = leg + 1
         /\ step' = IF leg = LatencyRepeats THEN "report" ELSE "drive"
         /\ UNCHANGED <<call_vars, hears, last_odom, peak, failed, fused, bound, ekf_verdict,
                        helpers, trial_code>>

\* The k-th smallest: the least of the values that k of them do not exceed.
ranked(values, k) ==
  LET upto(v) == Cardinality({i \in DOMAIN values : values[i] <= v})
  IN Min({values[i] : i \in {j \in DOMAIN values : upto(values[j]) >= k}})

\* pct: the value at the rounded rank.
pct(values, p) == ranked(values, 1 + (p * (Len(values) - 1) + 50) \div 100)

BadUpper == pct([i \in DOMAIN brackets |-> brackets[i].says.hi], 50)
Upper == pct([i \in DOMAIN brackets |-> brackets[i].says.hi], 95)

\* The results are written whatever they hold, and the tool ends well.
ReportLatency == /\ trial = "latency" /\ step = "report"
                 /\ step' = "gone" /\ trial_code' = 0
                 /\ bound' = IF brackets = <<>> THEN Nothing ELSE Upper
                 /\ Commands("rest")
                 /\ UNCHANGED <<call_vars, hears, last_odom, leg, peak, failed, fused, brackets,
                                ekf_verdict, helpers>>
-----------------------------------------------------------------------------
(* The ends. *)

\* The finalizers: zeros, then the processes.  ekf_ab_test goes on with the next configuration.
Finally == /\ step = "finally"
           /\ Commands("rest")
           /\ helpers' = {}
           /\ IF trial = "ekf" THEN step' = "agent" /\ leg' = leg + 1 /\ UNCHANGED trial_code
              ELSE step' = "gone" /\ trial_code' = (IF failed THEN 1 ELSE 0) /\ UNCHANGED leg
           /\ UNCHANGED <<call_vars, hears, last_odom, peak, result_vars>>

\* The stop handlers send zeros and leave; the finalizers do not run.
TrialSignalled == /\ step \in {"sample", "handspin", "drive", "leg", "finally"}
                  /\ step' = "gone" /\ trial_code' = 130
                  /\ Commands("rest")
                  /\ UNCHANGED <<call_vars, hears, last_odom, leg, peak, result_vars, helpers>>

TrialsNext == \/ OdomArrives \/ HearingChanges
              \/ AgentLook \/ Sample \/ HandSpin
              \/ LegBegins \/ LegGoesOn \/ LegEnds \/ SequenceBegins
              \/ StartFilter \/ Collect \/ JudgeFilters
              \/ ScanGate \/ Trial \/ ReportLatency
              \/ Finally \/ TrialSignalled
-----------------------------------------------------------------------------
(* What a passed self-test is worth, whenever the link was lost and        *)
(* whatever stale odometry was read meanwhile: with --motion, that the     *)
(* firmware carried out every motion, and that the wheels made it if       *)
(* odometry is of encoders; with --handspin, that it is.  Neither pass     *)
(* says alone that the wheels turned ("they do NOT prove the wheels        *)
(* physically turned. Use --handspin"): the two together do.               *)
PassShowsWhatItSays ==
  trial = "selftest" /\ step = "gone" /\ trial_code = 0
    => /\ option = "motion" => obeyed = Motions /\ (encoders => motors)
       /\ option = "handspin" => encoders

(* The bound measure_latency tells the reader to use is not below the 95th *)
(* percentile of the latencies that it met, however the odometry falls     *)
(* between the commands and however much of it is lost, as long as each    *)
(* repeat begins at rest ("Use the UPPER bound for safety sizing").  They  *)
(* are latencies of the car it ran on, elevated, as its odometry tells     *)
(* them: on the floor it answers later, which no bound of these includes.  *)
UpperBoundHolds ==
  bound # Nothing /\ (\A i \in DOMAIN brackets : ~brackets[i].rolled)
    => pct([i \in DOMAIN brackets |-> brackets[i].took], 95) <= bound
=============================================================================
