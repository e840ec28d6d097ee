----------------------------- MODULE BenchMotion -----------------------------
(***************************************************************************)
(* bench_motion: the elevated car is driven phase by phase, by the tool    *)
(* itself or by a driver process that it kills to see what the car does    *)
(* without one.  The link to the car comes and goes: without it neither    *)
(* commands nor odometry arrive, and the car keeps the last command.       *)
(***************************************************************************)
EXTENDS Integers

CONSTANTS BenchReps     \* --reps of the phases that take it

ASSUME BenchAssumption == BenchReps \in Nat \ {0}

VARIABLES bench_phase, graph, battery,    \* what is asked for, who is there, the pack
          bench_pc,
          trials_left,
          link,       \* the car hears and is heard
          spinning,   \* its wheels turn
          driver,     \* a _bench_driver lives
          chain,      \* the safety launch that phase_deadman starts is up
          valid,      \* this trial showed what it had to show
          good_trials,   \* trials that did
          phase_ok, bench_code    \* the phase's verdict, the exit code

bench_vars == <<bench_phase, graph, battery, bench_pc, trials_left, link, spinning, driver, chain,
                valid, good_trials, phase_ok, bench_code>>
given_vars == <<bench_phase, graph, battery>>
tally_vars == <<good_trials, phase_ok>>

SelfDriven == {"matrix", "step"}
Phases     == SelfDriven \cup {"latch", "estop", "deadman"}
Safe       == {"drive", "wait", "watch", "stop", "verify", "teardown", "tally"}  \* in SafeCmdVel
Trials     == [matrix |-> 4, step |-> 2 * BenchReps, latch |-> 1, estop |-> 1,
               deadman |-> BenchReps]

BenchTypeOK == /\ bench_phase \in Phases
               /\ graph \subseteq {"car", "sim", "rival"}
               /\ battery \in {"silent", "low", "good"}
               /\ bench_pc \in Safe \cup {"hardware", "battery", "rivals", "final", "look", "gone"}
               /\ trials_left \in 0 .. Trials[bench_phase]
               /\ {link, spinning, driver, chain, valid, phase_ok} \subseteq BOOLEAN
               /\ good_trials \in 0 .. Trials[bench_phase]
               /\ bench_code \in {0, 1, 2, 130}

BenchInit == /\ bench_phase \in Phases /\ graph \in SUBSET {"car", "sim", "rival"}
             /\ battery \in {"silent", "low", "good"}
             /\ bench_pc = "hardware" /\ trials_left = Trials[bench_phase]
             /\ link = TRUE /\ spinning = FALSE /\ driver = FALSE /\ chain = FALSE
             /\ valid = FALSE /\ good_trials = 0 /\ phase_ok = FALSE /\ bench_code = 0
-----------------------------------------------------------------------------
(* The guardrails, before SafeCmdVel is entered.  Each may exit with 2. *)

Refuse == bench_pc' = "gone" /\ bench_code' = 2

\* Any look may see only part of the graph; the first that shows the car ends the search.
require_bench_hardware ==
  /\ bench_pc = "hardware"
  /\ \E seen \in SUBSET graph : IF "sim" \notin seen /\ "car" \in seen
                                THEN bench_pc' = "battery" /\ UNCHANGED bench_code
                                ELSE Refuse
  /\ UNCHANGED <<given_vars, trials_left, link, spinning, driver, chain, valid, tally_vars>>

battery_volts == /\ bench_pc = "battery"
                 /\ IF battery = "good" /\ link
                    THEN bench_pc' = "rivals" /\ UNCHANGED bench_code
                    ELSE Refuse
                 /\ UNCHANGED <<given_vars, trials_left, link, spinning, driver, chain, valid,
                                tally_vars>>

\* A governor or deadman of somebody else's; phase_deadman fails on it instead of exiting.
\* Then the phase begins, phase_deadman with a chain of its own that may not come up.
no_rival_publishers ==
  /\ bench_pc = "rivals"
  /\ \/ "rival" \in graph /\ bench_phase # "deadman" /\ Refuse /\ UNCHANGED chain
     \/ /\ "rival" \in graph /\ bench_phase = "deadman"
        /\ bench_pc' = "final" /\ UNCHANGED <<bench_code, chain>>
     \/ "rival" \notin graph /\ bench_pc' = "drive" /\ chain' = (bench_phase = "deadman")
        /\ UNCHANGED bench_code
     \/ "rival" \notin graph /\ bench_phase = "deadman" /\ bench_pc' = "teardown" /\ chain' = TRUE
        /\ UNCHANGED bench_code
  /\ UNCHANGED <<given_vars, trials_left, link, spinning, driver, valid, tally_vars>>
-----------------------------------------------------------------------------
(* One trial: drive, look, stop, verify. *)

\* Zeros reach the car or they do not.
stop == spinning' = (spinning /\ ~link)

\* Rest has been seen: samples came, and all of them were at rest.
BadObservedZero == ~link \/ ~spinning
observed_zero == link /\ ~spinning

\* The tool drives and looks at the odometry meanwhile.
DriveSelf == /\ bench_pc = "drive" /\ bench_phase \in SelfDriven
             /\ bench_pc' = "stop"
             /\ spinning' = (spinning \/ link)
             /\ valid' \in {FALSE, link}
             /\ UNCHANGED <<given_vars, trials_left, link, driver, chain, tally_vars, bench_code>>

spawn_driver == /\ bench_pc = "drive" /\ bench_phase \notin SelfDriven
                /\ bench_pc' = "wait"
                /\ driver' = TRUE /\ valid' = FALSE
                /\ UNCHANGED <<given_vars, trials_left, link, spinning, chain, tally_vars,
                               bench_code>>

\* _bench_driver publishes until somebody kills it, through the chain if there is one.
DriverDrives == /\ driver /\ link
                /\ spinning' = TRUE
                /\ UNCHANGED <<given_vars, bench_pc, trials_left, link, driver, chain, valid,
                               tally_vars, bench_code>>

\* Motion is seen and the driver killed.
AwaitMotion == /\ bench_pc = "wait" /\ spinning /\ link
               /\ bench_pc' = "watch" /\ driver' = FALSE
               /\ UNCHANGED <<given_vars, trials_left, link, spinning, chain, valid, tally_vars,
                              bench_code>>

\* No motion in time.  phase_deadman kills the driver and goes on with the next run.
NoMotion == /\ bench_pc = "wait"
            /\ IF bench_phase = "deadman"
               THEN /\ driver' = FALSE
                    /\ trials_left' = trials_left - 1
                    /\ bench_pc' = IF trials_left > 1 THEN "drive" ELSE "teardown"
               ELSE bench_pc' = "stop" /\ UNCHANGED <<driver, trials_left>>
            /\ UNCHANGED <<given_vars, link, spinning, chain, valid, tally_vars, bench_code>>

\* Without a driver: the car goes on (latch), simctl estop zeroes it, the chain does.
Watch == /\ bench_pc = "watch"
         /\ bench_pc' = "stop"
         /\ IF bench_phase = "latch" THEN UNCHANGED spinning
            ELSE spinning' \in {spinning /\ ~link, spinning}
         /\ valid' = (link /\ (spinning' <=> bench_phase = "latch"))
         /\ UNCHANGED <<given_vars, trials_left, link, driver, chain, tally_vars, bench_code>>

\* The finalizer of a trial: the driver first, then the zeros.
Stop == /\ bench_pc = "stop"
        /\ bench_pc' = "verify"
        /\ driver' = FALSE
        /\ stop
        /\ UNCHANGED <<given_vars, trials_left, link, chain, valid, tally_vars, bench_code>>

\* What a phase says when its trials are over.
Verdict(passed) ==
  CASE bench_phase = "matrix" -> passed = 4
    [] bench_phase = "step"   -> passed > 0
    [] OTHER            -> passed = 1

\* Rest not seen ends the phase with a failure, but for an invalid trial of phase_step: that
\* trial is not done with, so a deadman phase is not tallied as complete.
Verify == /\ bench_pc = "verify"
          /\ good_trials' = IF valid THEN good_trials + 1 ELSE good_trials
          /\ LET goes_on == observed_zero \/ (bench_phase = "step" /\ ~valid)
             IN /\ trials_left' = IF goes_on THEN trials_left - 1 ELSE trials_left
                /\ IF goes_on /\ trials_left > 1
                   THEN bench_pc' = "drive" /\ UNCHANGED phase_ok
                   ELSE IF bench_phase = "deadman"
                        THEN bench_pc' = "teardown" /\ UNCHANGED phase_ok
                        ELSE bench_pc' = "final" /\ phase_ok' = (goes_on /\ Verdict(good_trials'))
          /\ UNCHANGED <<given_vars, link, spinning, driver, chain, valid, bench_code>>

\* The car first, then the safety launch; the phase passes on enough trials and on rest.
Teardown == /\ bench_pc = "teardown"
            /\ bench_pc' = "tally"
            /\ stop
            /\ chain' = FALSE
            /\ UNCHANGED <<given_vars, trials_left, link, driver, valid, tally_vars, bench_code>>
Tally == /\ bench_pc = "tally"
         /\ bench_pc' = "final"
         /\ phase_ok' = (/\ trials_left = 0 /\ observed_zero
                   /\ good_trials >= IF BenchReps > 4 THEN BenchReps - 1 ELSE 3)
         /\ UNCHANGED <<given_vars, trials_left, link, spinning, driver, chain, valid, good_trials,
                        bench_code>>

\* Leaving SafeCmdVel sends zeros once more; the last look decides with the verdict.
Leave == /\ bench_pc = "final"
         /\ bench_pc' = "look"
         /\ stop
         /\ UNCHANGED <<given_vars, trials_left, link, driver, chain, valid, tally_vars,
                        bench_code>>
LastLook == /\ bench_pc = "look"
            /\ bench_pc' = "gone"
            /\ bench_code' = IF phase_ok /\ observed_zero THEN 0 ELSE 1
            /\ UNCHANGED <<given_vars, trials_left, link, spinning, driver, chain, valid,
                           tally_vars>>
-----------------------------------------------------------------------------
(* The handler of SafeCmdVel sends its zeros and leaves with os._exit: no finalizer runs. *)
Signalled == /\ bench_pc \in Safe
             /\ bench_pc' = "gone" /\ bench_code' = 130
             /\ stop
             /\ UNCHANGED <<given_vars, trials_left, link, driver, chain, valid, tally_vars>>

LinkChanges == /\ bench_pc # "gone"
               /\ link' = ~link
               /\ UNCHANGED <<given_vars, bench_pc, trials_left, spinning, driver, chain,
                              valid, tally_vars, bench_code>>

BenchNext == \/ require_bench_hardware \/ battery_volts \/ no_rival_publishers
             \/ DriveSelf \/ spawn_driver \/ DriverDrives \/ AwaitMotion \/ NoMotion
             \/ Watch \/ Stop \/ Verify \/ Teardown \/ Tally \/ Leave \/ LastLook
             \/ Signalled \/ LinkChanges
-----------------------------------------------------------------------------
(* A phase that passes leaves the car at rest and nothing that could drive *)
(* it, however the link came and went while it stopped the car and looked  *)
(* ("publishing zeros is not the same as the car having stopped").         *)
PassMeansAtRest ==
  bench_pc = "gone" /\ bench_code = 0 => ~spinning /\ ~driver /\ ~chain

(* Whatever ends the tool, nothing it started drives the car afterwards    *)
(* ("every phase runs inside SafeCmdVel (zeros on exit, exception, SIGINT, *)
(* SIGTERM)"; "ALWAYS leaves the robot stopped").                          *)
NothingDrivesOn == bench_pc = "gone" => ~driver
=============================================================================
