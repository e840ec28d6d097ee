------------------------------ MODULE SlamGate ------------------------------
(***************************************************************************)
(* slam_preflight: can scans be transformed at their own stamps?  A scan   *)
(* is looked up the moment it comes, against the transforms that have come *)
(* by then; the gate counts successes and the longest run of failures.     *)
(***************************************************************************)
EXTENDS Integers, SequencesExt

CONSTANTS WindowLength,   \* scans that can come while the tool listens
          Warmup,         \* of those, how many come during the warm-up
          MaxStreak,      \* --max-streak
          Threshold       \* --threshold, in percent

ASSUME GateAssumption == /\ WindowLength \in Nat /\ Warmup \in Nat /\ MaxStreak \in Nat
                         /\ Threshold \in 0 .. 100

VARIABLES gate_pc,
          static_known,   \* the frame of the laser has been heard of
          oldest, newest, \* the stamps between which odom -> base is known; newest is 0 before
          scanned,        \* the stamp of the last scan
          looked_up,      \* per scan that came: its stamp, and whether it was transformed
          gate_code

gate_vars == <<gate_pc, static_known, oldest, newest, scanned, looked_up, gate_code>>

Stamps == 0 .. WindowLength

GateTypeOK == /\ gate_pc \in {"listen", "gone"}
              /\ static_known \in BOOLEAN
              /\ {oldest, newest, scanned} \subseteq Stamps
              /\ Len(looked_up) <= WindowLength
              /\ gate_code \in {0, 1}

GateInit == /\ gate_pc = "listen" /\ static_known \in BOOLEAN
            /\ oldest = 0 /\ newest = 0 /\ scanned = 0
            /\ looked_up = <<>> /\ gate_code = 0
-----------------------------------------------------------------------------
\* /tf_static is latched but may come late.
StaticArrives == /\ gate_pc = "listen" /\ ~static_known
                 /\ static_known' = TRUE
                 /\ UNCHANGED <<gate_pc, oldest, newest, scanned, looked_up, gate_code>>

\* The filter's transform comes before, with or after the scan of its time, or not at all;
\* between two that came the buffer interpolates.
TransformArrives == \E stamp \in scanned .. scanned + 1 :
                      /\ gate_pc = "listen" /\ stamp \in Stamps /\ stamp > newest
                      /\ newest' = stamp
                      /\ oldest' = IF newest = 0 THEN stamp ELSE oldest
                      /\ UNCHANGED <<gate_pc, static_known, scanned, looked_up, gate_code>>

can_transform(stamp) == static_known /\ newest # 0 /\ stamp \in oldest .. newest

\* A scan comes; it may also be lost, and then nothing is counted.
on_scan == /\ gate_pc = "listen" /\ scanned < WindowLength
           /\ scanned' = scanned + 1
           /\ looked_up' \in {looked_up, Append(looked_up, [stamp |-> scanned',
                                                             ok |-> can_transform(scanned')])}
           /\ UNCHANGED <<gate_pc, static_known, oldest, newest, gate_code>>
-----------------------------------------------------------------------------
(* evaluate_tf_gate. *)

NoTally == [attempted |-> 0, succeeded |-> 0, streak |-> 0, longest |-> 0]

\* A run of failures that no success ends is not counted.
BadTallied(was, scan) ==
  IF scan.stamp <= Warmup THEN was
  ELSE IF scan.ok
       THEN [attempted |-> was.attempted + 1, succeeded |-> was.succeeded + 1, streak |-> 0,
             longest |-> IF was.streak > was.longest THEN was.streak ELSE was.longest]
       ELSE [attempted |-> was.attempted + 1, succeeded |-> was.succeeded,
             streak |-> was.streak + 1, longest |-> was.longest]

\* One scan more: the warm-up is discarded, a success ends the run of failures, a failure that
\* makes it the longest is kept.
Tallied(was, scan) ==
  IF scan.stamp <= Warmup THEN was
  ELSE IF scan.ok
       THEN [attempted |-> was.attempted + 1, succeeded |-> was.succeeded + 1, streak |-> 0,
             longest |-> was.longest]
       ELSE [attempted |-> was.attempted + 1, succeeded |-> was.succeeded,
             streak |-> was.streak + 1,
             longest |-> IF was.streak + 1 > was.longest THEN was.streak + 1
                         ELSE was.longest]

tally(samples) ==
  LET after[n \in 0 .. Len(samples)] ==
        IF n = 0 THEN NoTally ELSE Tallied(after[n - 1], samples[n])
  IN after[Len(samples)]

gate_passed == LET res == tally(looked_up)
               IN /\ res.attempted > 0
                  /\ res.succeeded * 100 >= Threshold * res.attempted
                  /\ res.longest <= MaxStreak

\* The rates, latencies and duplicates are reported and decide nothing.
Evaluate == /\ gate_pc = "listen" /\ scanned = WindowLength
            /\ gate_pc' = "gone"
            /\ gate_code' = IF gate_passed THEN 0 ELSE 1
            /\ UNCHANGED <<static_known, oldest, newest, scanned, looked_up>>

GateNext == StaticArrives \/ TransformArrives \/ on_scan \/ Evaluate
-----------------------------------------------------------------------------
(* The gate passes exactly when the scans after the warm-up are there, are *)
(* mostly transformed and hold no burst of failures, wherever it falls:    *)
(* among any MaxStreak + 1 in a row one succeeds ("a burst empties a       *)
(* message-filter queue; scattered failures do not").                      *)
NoBurstPasses ==
  LET scans  == {i \in DOMAIN looked_up : looked_up[i].stamp > Warmup}
      good   == {i \in scans : looked_up[i].ok}
      bursts == {i \in scans : /\ i + MaxStreak \in scans
                               /\ \A j \in i .. i + MaxStreak : j \notin good}
  IN gate_pc = "gone" =>
       (gate_code = 0 <=> /\ scans # {} /\ bursts = {}
                          /\ Cardinality(good) * 100 >= Threshold * Cardinality(scans))
=============================================================================
