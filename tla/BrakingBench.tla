---------------------------- MODULE BrakingBench ----------------------------
(***************************************************************************)
(* measure_braking: the store of calibrations and runs, which every        *)
(* invocation loads at its start and saves whole at its end, and the       *)
(* stopping envelope fitted to the runs.  Nothing keeps two invocations    *)
(* apart.  Lengths of the store are decimetres, scales tenths; stopping    *)
(* distances are half millimetres, speeds multiples of the slowest stage.  *)
(***************************************************************************)
EXTENDS Integers, Sequences, FiniteSetsExt

CONSTANTS Invocations,     \* processes of the tool
          MaxInvocations,  \* how often it is started
          Scales,          \* tape / odometry, that a push may give
          Lengths,         \* lengths of a push by odometry
          Stages,          \* speeds that are measured
          Stops            \* stopping distances that are measured

ASSUME BrakingAssumption == /\ MaxInvocations \in Nat
                            /\ Scales \subseteq Nat /\ Lengths \subseteq Nat
                            /\ Stages \subseteq Nat \ {0} /\ Stops \subseteq Nat

VARIABLES file,       \* the store on disk
          torn,       \* a save has truncated it and not written it yet
          inv,        \* per invocation: where it is, its copy, its new runs
          invoked,    \* invocations so far; also the clock that stamps them
          measured    \* the evidence of one fit: sequence of [v, d]

store_vars   == <<file, torn, inv, invoked>>
braking_vars == <<store_vars, measured>>

Gyros == {"none", "no span", "bad", "straight"}     \* bad: flat, curved or snaked
\* A good push is of 10 decimetres, and its scale 10 tenths.
Calibration == [id : 0 .. MaxInvocations, k : Scales \cup {10}, odom : Lengths \cup {10}, gyro : Gyros]
Run         == [cal : 0 .. MaxInvocations, k : Scales \cup {10}]
Empty       == [k |-> 0, active |-> 0, cals |-> <<>>, runs |-> <<>>]     \* 0 is null
\* A store from before calibrations had identities and gyro records.
Legacy(k)   == [k |-> k, active |-> 0, runs |-> <<[cal |-> 0, k |-> k]>>,
                cals |-> <<[id |-> 0, k |-> k, odom |-> 10, gyro |-> "no span"]>>]

Idle(copy) == [pc |-> "idle", copy |-> copy, new |-> <<>>, stamp |-> 0]

StoreTypeOK(store) == /\ store.k \in Scales \cup {0, 10}
                      /\ store.active \in 0 .. MaxInvocations
                      /\ \A i \in DOMAIN store.cals : store.cals[i] \in Calibration
                      /\ \A i \in DOMAIN store.runs : store.runs[i] \in Run
BrakingTypeOK == /\ StoreTypeOK(file) /\ torn \in BOOLEAN
                 /\ \A p \in Invocations : /\ StoreTypeOK(inv[p].copy)
                                           /\ inv[p].pc \in {"idle", "pushing", "driving",
                                                             "save", "writing"}
                 /\ invoked \in 0 .. MaxInvocations
                 /\ \A i \in DOMAIN measured : measured[i] \in [v : Stages, d : Stops]

BrakingInit == /\ file \in {Empty, Legacy(10)} /\ torn = FALSE
               /\ inv = [p \in Invocations |-> Idle(Empty)]
               /\ invoked = 0 /\ measured = <<>>
-----------------------------------------------------------------------------
(* Calibrations and the runs measured under them. *)

\* What is wrong with a push: any of these forbids driving.
calibration_problems(cal) ==
  UNION {IF cal.odom < 10 THEN {"short"} ELSE {},
         IF cal.gyro # "straight" THEN {cal.gyro} ELSE {},
         IF 8 < cal.k /\ cal.k < 13 THEN {} ELSE {"implausible"}}

\* By identity; by scale for stores that have none.  A dangling identity finds nothing.
active_calibration(store) ==
  LET found == {i \in DOMAIN store.cals :
                  IF store.active # 0 THEN store.cals[i].id = store.active
                  ELSE store.k # 0 /\ store.cals[i].k = store.k}
  IN IF found = {} THEN {} ELSE {store.cals[Min(found)]}

runs_for_active_calibration(store) ==
  {i \in DOMAIN store.runs :
     /\ store.k # 0
     /\ IF store.active # 0 THEN store.runs[i].cal = store.active
        ELSE store.runs[i].k = store.k}

\* Only the scale is switched; the identity stays behind.
BadUseCalibration(store, i) == [store EXCEPT !.k = store.cals[i].k]

UseCalibration(store, i) == [store EXCEPT !.k = store.cals[i].k, !.active = store.cals[i].id]

Calibrated(store, cal) == [store EXCEPT !.cals = Append(@, cal), !.k = cal.k, !.active = cal.id]

\* A run carries the scale and the identity of the copy it was measured with.
NewRun(store) == [cal |-> store.active, k |-> store.k]
-----------------------------------------------------------------------------
(* An invocation. *)

\* The file is loaded first; a torn one ends the invocation there.
Starts(p, pc, copy) == /\ inv[p].pc = "idle" /\ ~torn
                       /\ invoked < MaxInvocations
                       /\ invoked' = invoked + 1
                       /\ inv' = [inv EXCEPT ![p] = [pc |-> pc, copy |-> copy, new |-> <<>>,
                                                     stamp |-> invoked + 1]]
                       /\ UNCHANGED <<file, torn, measured>>

\* --use-calibration
SwitchCalibration(p) == \E i \in DOMAIN file.cals : Starts(p, "save", UseCalibration(file, i))

StartCalibration(p) == Starts(p, "pushing", file)

\* Driving needs a scale, and a calibration nothing is wrong with.
StartMeasuring(p) == /\ file.k # 0
                     /\ \E cal \in active_calibration(file) : calibration_problems(cal) = {}
                     /\ Starts(p, "driving", file)

InvocationEnds(p) == inv' = [inv EXCEPT ![p] = Idle(Empty)]

\* Pushes by hand against a tape that differ from a good one in one thing at most.  No
\* movement and an absurd scale are not recorded; a problem is recorded with the push and
\* found when somebody wants to drive.
Pushes(stamp) == LET good == [id |-> stamp, k |-> 10, odom |-> 10, gyro |-> "straight"]
                 IN {[good EXCEPT !.k = k] : k \in Scales} \cup
                    {[good EXCEPT !.odom = odom] : odom \in Lengths} \cup
                    {[good EXCEPT !.gyro = gyro] : gyro \in Gyros \ {"no span"}}

Calibrate(p) ==
  /\ inv[p].pc = "pushing"
  /\ \E cal \in Pushes(inv[p].stamp) :
       IF cal.odom = 0 \/ ~(5 < cal.k /\ cal.k < 20)
       THEN InvocationEnds(p)
       ELSE inv' = [inv EXCEPT ![p].pc = "save", ![p].copy = Calibrated(@, cal)]
  /\ UNCHANGED <<file, torn, invoked, measured>>

\* A run is kept, or discarded for want of a tape reading or of a speed.
RunOnce(p) == /\ inv[p].pc = "driving" /\ inv[p].new = <<>>
              /\ inv' = [inv EXCEPT ![p].new = <<NewRun(inv[p].copy)>>]
              /\ UNCHANGED <<file, torn, invoked, measured>>

RunsEnd(p) == /\ inv[p].pc = "driving"
              /\ inv' = [inv EXCEPT ![p].pc = "save", ![p].copy.runs = @ \o inv[p].new]
              /\ UNCHANGED <<file, torn, invoked, measured>>

\* save truncates the file and writes it, whatever has happened to it since it was loaded.
Truncate(p) == /\ inv[p].pc = "save"
               /\ torn' = TRUE
               /\ inv' = [inv EXCEPT ![p].pc = "writing"]
               /\ UNCHANGED <<file, invoked, measured>>
Save(p) == /\ inv[p].pc = "writing"
           /\ torn' = FALSE /\ file' = inv[p].copy
           /\ InvocationEnds(p)
           /\ UNCHANGED <<invoked, measured>>

\* Ctrl-C or a kill: nothing is saved, and a file in the middle of a save stays torn.
Interrupted(p) == /\ inv[p].pc # "idle"
                  /\ InvocationEnds(p)
                  /\ UNCHANGED <<file, torn, invoked, measured>>
-----------------------------------------------------------------------------
(* The fit: d = T v + b v^2 by least squares; every curve over the same     *)
(* speeds has the same denominator, so curves are compared by numerators.  *)
(* The bootstrap is a choice: it agrees with the fit or it does not.       *)

Total(terms) == LET upto[n \in 0 .. Len(terms)] == IF n = 0 THEN 0 ELSE upto[n - 1] + terms[n]
              IN upto[Len(terms)]

Squares(points) == Total([i \in DOMAIN points |-> points[i].v * points[i].v])
Cubes(points)   == Total([i \in DOMAIN points |-> points[i].v * points[i].v * points[i].v])
Fourths(points) == Total([i \in DOMAIN points |->
                          points[i].v * points[i].v * points[i].v * points[i].v])
Det(points)     == Squares(points) * Fourths(points) - Cubes(points) * Cubes(points)

\* T and b, times Det, when every distance is off by bias.
_lstsq(points, bias) ==
  LET vd  == Total([i \in DOMAIN points |-> points[i].v * (points[i].d + bias)])
      vvd == Total([i \in DOMAIN points |-> points[i].v * points[i].v * (points[i].d + bias)])
  IN [t |-> vd * Fourths(points) - vvd * Cubes(points),
      b |-> vvd * Squares(points) - vd * Cubes(points)]

SumAt(points, v) == Total([i \in DOMAIN points |-> IF points[i].v = v THEN points[i].d ELSE 0])
Count(points, v) == Cardinality({i \in DOMAIN points : points[i].v = v})

physical(curve) == curve.t > 0 /\ curve.b > 0

\* Three stages over a factor of 2.5, three runs at each, a fit a robot could have, and
\* means that rise with the speed.
identifiable(points) ==
  LET speeds == {points[i].v : i \in DOMAIN points}
  IN /\ Cardinality(speeds) >= 3
     /\ 2 * Max(speeds) >= 5 * Min(speeds)
     /\ \A v \in speeds : Count(points, v) >= 3
     /\ physical(_lstsq(points, 0))
     /\ \A v, w \in speeds : v < w =>
          SumAt(points, v) * Count(points, w) <= SumAt(points, w) * Count(points, v)

Biases == {-2, -1, 1, 2}              \* half and whole millimetres

Swept(points) == \A bias \in Biases : physical(_lstsq(points, bias))

\* The worst of the curves and of the stops observed up to that speed, times Det; {} for
\* None.  The margin on top of it is the same everywhere.
envelope(points, speed) ==
  IF ~identifiable(points) \/ ~Swept(points) THEN {}
  ELSE {Max({LET c == _lstsq(points, bias) IN c.t * speed + c.b * (speed * speed)
               : bias \in Biases \cup {0}}
            \cup {points[i].d * Det(points) : i \in {j \in DOMAIN points :
                                                     points[j].v <= speed}})}

\* Three runs at a stage, or two.
MeasureStage == /\ invoked = 0 /\ Len(measured) <= 6
                /\ \E v \in Stages, d1, d2, d3 \in Stops :
                     /\ \A i \in DOMAIN measured : measured[i].v < v
                     /\ d1 <= d2
                     /\ LET two == <<[v |-> v, d |-> d1], [v |-> v, d |-> d2]>>
                        IN measured' \in {measured \o two} \cup
                             (IF d2 <= d3 THEN {measured \o Append(two, [v |-> v, d |-> d3])}
                              ELSE {})
                /\ UNCHANGED store_vars

\* The store and the fit, one at a time.
BrakingNext == \/ /\ measured = <<>>
                  /\ \E p \in Invocations :
                       \/ SwitchCalibration(p) \/ StartCalibration(p) \/ StartMeasuring(p)
                       \/ Calibrate(p) \/ RunOnce(p) \/ RunsEnd(p)
                       \/ Truncate(p) \/ Save(p) \/ Interrupted(p)
               \/ MeasureStage
-----------------------------------------------------------------------------
(* The runs a fit pools were measured under the scale in force, and those  *)
(* that carry an identity under a calibration nothing is wrong with,       *)
(* whichever invocations overwrote each other's stores meanwhile           *)
(* (runs_for_active_calibration: "mixed calibrations").                    *)
KeptRunsAreOfOneScale ==
  \A i \in runs_for_active_calibration(file) :
    /\ file.runs[i].k = file.k
    /\ file.runs[i].cal # 0 => \E j \in DOMAIN file.cals :
         file.cals[j].id = file.runs[i].cal /\ calibration_problems(file.cals[j]) = {}

(* An envelope that is given is positive and never shorter at a higher     *)
(* speed, extrapolated speeds included: a fit that the sweep of biases can *)
(* turn unphysical gives none.                                             *)
EnvelopeRisesWithSpeed ==
  \A v \in 1 .. 6 : \A e \in envelope(measured, v), f \in envelope(measured, v + 1) :
    0 < e /\ e <= f
=============================================================================
