---------------------------- MODULE RenderPacing ----------------------------
(***************************************************************************)
(* sim_runner: the loop that renders often enough for the lidar to turn at *)
(* the rate of the contract.  How many scans a render yields is not known  *)
(* and drifts; a probe outside measures what comes out, a relay in between *)
(* may drop a part of it.  Rates are in tenths of a hertz.                 *)
(***************************************************************************)
EXTENDS Integers, Sequences

CONSTANTS ScanHz,       \* SCAN_HZ, and the least the loop renders
          CeilingHz,    \* the most it renders
          FirstHz,      \* the guess the loop starts from
          EarlyTrims,   \* trims of the first 30 s, which are not damped
          Gains,        \* scans per ten renders, while the lidar follows the renders
          FlatRates,    \* scan rates of a machine that renders do not speed up
          MaxDrift      \* how often the lidar changes, in a run of the model

ASSUME PacingAssumption == /\ ScanHz \in Nat /\ CeilingHz \in Nat /\ ScanHz < CeilingHz
                           /\ FirstHz \in Nat /\ EarlyTrims \in Nat /\ MaxDrift \in Nat
                           /\ Gains \subseteq Nat /\ FlatRates \subseteq Nat

VARIABLES render_hz,    \* the pacing in force
          plant,        \* what the lidar makes of it
          share,        \* half or both halves of the scans pass the relay
          drifts,       \* changes of the lidar so far
          trims,        \* trims so far, up to EarlyTrims
          trim_log,     \* the last trims but one, <<pacing, measured>>
          trim_held     \* the last trim did not divide again

pacing_vars == <<render_hz, plant, share, drifts, trims, trim_log, trim_held>>

Plants == [follows : {TRUE}, by : Gains] \cup [follows : {FALSE}, by : FlatRates]

PacingTypeOK == /\ render_hz \in {FirstHz} \cup ScanHz .. CeilingHz
                /\ plant \in Plants
                /\ share \in 1 .. 2
                /\ drifts \in 0 .. MaxDrift
                /\ trims \in 0 .. EarlyTrims
                /\ Len(trim_log) <= 3
                /\ trim_held \in BOOLEAN

PacingInit == /\ render_hz = FirstHz
              /\ plant \in Plants
              /\ share = 2
              /\ drifts = 0
              /\ trims = 0
              /\ trim_log = <<>>
              /\ trim_held = FALSE
-----------------------------------------------------------------------------
\* The lidar changes with the machine, the relay with what the lidar emits.
PlantDrifts == /\ drifts < MaxDrift
               /\ drifts' = drifts + 1
               /\ plant' \in Plants
               /\ UNCHANGED <<render_hz, share, trims, trim_log, trim_held>>
RelayDrops == /\ drifts < MaxDrift
              /\ drifts' = drifts + 1
              /\ share' = 3 - share
              /\ UNCHANGED <<render_hz, plant, trims, trim_log, trim_held>>

\* What a subscriber of /scan counts.
Emitted  == IF plant.follows THEN (render_hz * plant.by) \div 10 ELSE plant.by
ScanRate == (share * Emitted) \div 2

Distance(a, b) == IF a < b THEN b - a ELSE a - b
Clamped(hz) == IF hz < ScanHz THEN ScanHz ELSE IF hz > CeilingHz THEN CeilingHz ELSE hz

\* The guard compares with the first trim of the session.
BadUnresponsive(log, measured) ==
  /\ Len(log) >= 3
  /\ LET first == FirstHz IN Distance(first, render_hz) > first \/ 2 * render_hz < first

\* The pacing moved more than twofold over four trims and the rate less than a tenth.
Unresponsive(log, measured) ==
  /\ Len(log) >= 3
  /\ LET hz == log[1][1]
         m  == log[1][2]
     IN /\ render_hz > 2 * hz \/ hz > 2 * render_hz
        /\ 10 * Distance(measured, m) < m

trim_render_pacing(measured) ==
  LET new  == (render_hz * ScanHz) \div measured
      goal == IF trims < EarlyTrims THEN new ELSE (render_hz + new) \div 2
  IN IF Unresponsive(trim_log, measured) THEN render_hz ELSE Clamped(goal)

\* One trim; a reading that is absurd, as of a probe that sees nothing, is ignored.
Trim == /\ ScanRate > 20 /\ ScanRate < 1000
        /\ render_hz' = trim_render_pacing(ScanRate)
        /\ trim_held' = Unresponsive(trim_log, ScanRate)
        /\ trim_log' = LET log == Append(trim_log, <<render_hz, ScanRate>>)
                       IN IF Len(log) > 3 THEN Tail(log) ELSE log
        /\ trims' = IF trims < EarlyTrims THEN trims + 1 ELSE trims
        /\ UNCHANGED <<plant, share, drifts>>

PacingNext == PlantDrifts \/ RelayDrops \/ Trim
-----------------------------------------------------------------------------
InBand  == 100 * ScanRate \in (94 * ScanHz) .. (106 * ScanHz)
AtLimit == \/ render_hz = ScanHz /\ ScanRate > ScanHz
           \/ render_hz = CeilingHz /\ ScanRate < ScanHz
Settled == InBand \/ AtLimit

(* Once the lidar follows the renders again and no longer changes, /scan   *)
(* comes to the rate of the contract or the pacing to the limit on the     *)
(* side where it is; the guard against a machine that does not follow lets *)
(* go of one that does (trim_render_pacing).                                *)
PacingSettles == <>[](plant.follows) => <>[]Settled
=============================================================================
