--------------------------- MODULE GovernorProofs ---------------------------
(***************************************************************************)
(* Proofs about the governor on its own, for every threshold, timeout,     *)
(* scan and request.  The invariant keeps the range the node remembers     *)
(* equal to the nearest reading ahead of the last scan; everything else is *)
(* a fact about decide.                                                    *)
(***************************************************************************)
EXTENDS GovernorAlone, DecideProofs

\* The reasons given, one condition each.
LEMMA RestrictionsAre ==
  ASSUME NEW r, NEW range, NEW why
  PROVE  why \in Restrictions(r, range) <=>
           \/ why = "lateral_zeroed" /\ ~AllowLateral /\ r.vy # 0
           \/ why = "lateral_capped" /\ AllowLateral /\ Abs(r.vy) > MaxSpeed
           \/ why = "speed_capped" /\ r.vx > MaxSpeed
           \/ why = "reverse_capped" /\ r.vx < -MaxReverseSpeed
           \/ why = "yaw_capped" /\ Abs(r.wz) > MaxYaw
           \/ /\ why = "yaw_gated" /\ range # Inf /\ range <= StopDistance
              /\ Abs(Capped(r).wz) > MaxYawNear
  BY Zenon DEF Restrictions, Said

LEMMA ObstructionsAre ==
  ASSUME NEW range, NEW why
  PROVE  why \in Obstructions(range) <=>
           \/ why = "no_returns" /\ range = Inf
           \/ why = "obstacle" /\ range # Inf /\ range <= StopDistance
           \/ why = "slowed" /\ InSlowZone(range)
  BY Zenon DEF Obstructions, Said

\* The axes each reason is about.
LEMMA AboutIs ==
  /\ About["lateral_zeroed"] = {"vy"} /\ About["lateral_capped"] = {"vy"}
  /\ About["speed_capped"] = {"vx"}   /\ About["reverse_capped"] = {"vx"}
  /\ About["yaw_capped"] = {"wz"}     /\ About["yaw_gated"] = {"wz"}
  /\ About["no_returns"] = {"vx", "vy"} /\ About["obstacle"] = {"vx", "vy"}
  /\ About["slowed"] = {"vx"}
  BY DEF About

LEMMA ReasonsAreKnown ==
  ASSUME NEW r, NEW range, NEW s, NEW c
  PROVE  reasons(r, range, s, c) \in SUBSET DOMAIN About
<1>1. \A why \in Restrictions(r, range) \cup Obstructions(range) : why \in DOMAIN About
  BY RestrictionsAre, ObstructionsAre DEF About
<1>2. RefusalOf(s, c) \in DOMAIN About
  BY DEF RefusalOf, About
<1> QED BY <1>1, <1>2 DEF reasons

\* Inside the slow zone some speed is always taken away.
LEMMA SlowedIsStrict ==
  ASSUME NEW v \in Nat, v > 0, NEW range \in Nat,
         range > StopDistance, range < SlowDistance
  PROVE  Slowed(v, range) < v
<1> DEFINE left == range - StopDistance
           zone == SlowDistance - StopDistance
           out  == Slowed(v, range)
<1>1. left \in Nat /\ zone \in Nat /\ left < zone
  BY GovernorAssumption
<1>2. out \in Nat /\ out * zone <= v * left
  BY SlowedBounds
<1> HIDE DEF left, zone, out
<1>3. v * left < v * zone
  BY <1>1
<1>4. out * zone < v * zone
  <2>1. /\ out * zone \in Int /\ v * left \in Int /\ v * zone \in Int
    BY <1>1, <1>2
  <2> QED BY <1>2, <1>3, <2>1
<1>5. ~(v <= out)
  <2>1. v <= out => v * zone <= out * zone
    BY <1>1, <1>2
  <2>2. /\ out * zone \in Int /\ v * zone \in Int
    BY <1>1, <1>2
  <2> QED BY <1>4, <2>1, <2>2
<1> QED BY <1>2, <1>5 DEF out

\* What decide makes of each component of a finite request.
LEMMA DecidedComponents ==
  ASSUME NEW r \in Motion, NEW range \in Nat \cup {Inf}
  PROVE  /\ Gated(Capped(r), range).vx =
              IF Capped(r).vx <= 0 THEN Capped(r).vx
              ELSE IF Blocked(range) THEN 0
              ELSE IF InSlowZone(range) THEN Slowed(Capped(r).vx, range)
              ELSE Capped(r).vx
         /\ Gated(Capped(r), range).vy =
              IF Capped(r).vx > 0 /\ Blocked(range) THEN 0 ELSE Capped(r).vy
         /\ Gated(Capped(r), range).wz =
              IF range # Inf /\ range <= StopDistance
                THEN Clamped(Capped(r).wz, -MaxYawNear, MaxYawNear)
                ELSE Capped(r).wz
<1>1. Capped(r) \in Motion
  BY CappedIsWithin
<1>2. CASE range = Inf
  <2>1. YawGated(Capped(r), range) = Capped(r) /\ Blocked(range)
    BY <1>2 DEF YawGated, Blocked
  <2>2. Capped(r).vx \in Int
    BY <1>1 DEF Motion
  <2>3. CASE Capped(r).vx <= 0
    <3>1. Gated(Capped(r), range) = Capped(r)
      BY <2>1, <2>2, <2>3 DEF Gated, Braked
    <3> QED BY <1>2, <2>1, <2>2, <2>3, <3>1
  <2>4. CASE Capped(r).vx > 0
    <3> DEFINE c == Capped(r)
    <3>1. c.vx > 0 /\ ~(c.vx <= 0) /\ ~InSlowZone(range) /\ c.vx > 0 /\ Blocked(range)
      BY <1>2, <2>1, <2>2, <2>4 DEF InSlowZone
    <3> HIDE DEF c
    <3>2. Braked(c, range) = [Zero EXCEPT !.wz = c.wz]
      BY <3>1 DEF Braked
    <3>3. Gated(Capped(r), range) = [Zero EXCEPT !.wz = Capped(r).wz]
      BY <2>1, <3>2 DEF Gated, c
    <3> QED BY <1>2, <2>1, <2>2, <2>4, <3>3 DEF Zero
  <2> QED BY <2>2, <2>3, <2>4
<1>3. CASE range \in Nat
  BY <1>1, <1>3, GatedComponents, VelocityAssumption
<1> QED BY <1>2, <1>3

\* The reasons given for a request that is not refused.
Given(r, range) ==
  Restrictions(r, range) \cup (IF Capped(r).vx > 0 THEN Obstructions(range) ELSE {})

\* An axis that changes is named.
LEMMA ChangesHaveReasons ==
  ASSUME NEW r \in Motion, NEW range \in Nat \cup {Inf}, NEW axis \in Axes,
         Gated(Capped(r), range)[axis] # r[axis]
  PROVE  \E why \in Given(r, range) : axis \in About[why]
<1> DEFINE c == Capped(r)   d == Gated(Capped(r), range)
<1>1. /\ r.vx \in Int /\ r.vy \in Int /\ r.wz \in Int
      /\ c.vx \in Int /\ c.vy \in Int /\ c.wz \in Int
  BY CappedIsWithin DEF Motion
<1>2. /\ c.vx = Clamped(r.vx, -MaxReverseSpeed, MaxSpeed)
      /\ c.vy = IF AllowLateral THEN Clamped(r.vy, -MaxSpeed, MaxSpeed) ELSE 0
      /\ c.wz = Clamped(r.wz, -MaxYaw, MaxYaw)
  BY DEF Capped
<1>3. /\ MaxSpeed \in Nat /\ MaxYaw \in Nat /\ MaxYawNear \in Nat
  BY GovernorAssumption
<1>4. Blocked(range) /\ c.vx > 0 =>
        \E why \in Given(r, range) : why \in {"no_returns", "obstacle"}
  BY ObstructionsAre DEF Blocked, Given
<1>5. CASE axis = "vx"
  <2>1. d.vx # r.vx
    BY <1>5
  <2>2. \/ r.vx > MaxSpeed \/ r.vx < -MaxReverseSpeed
        \/ c.vx > 0 /\ (Blocked(range) \/ InSlowZone(range))
    BY <1>1, <1>2, <2>1, DecidedComponents DEF Clamped
  <2>3. \E why \in Given(r, range) :
          why \in {"speed_capped", "reverse_capped", "no_returns", "obstacle", "slowed"}
    BY <1>4, <2>2, RestrictionsAre, ObstructionsAre DEF Given
  <2> QED BY <1>5, <2>3, AboutIs
<1>6. CASE axis = "vy"
  <2>1. d.vy # r.vy
    BY <1>6
  <2>2. \/ ~AllowLateral /\ r.vy # 0
        \/ AllowLateral /\ (r.vy > MaxSpeed \/ r.vy < -MaxSpeed)
        \/ c.vx > 0 /\ Blocked(range)
    BY <1>1, <1>2, <2>1, DecidedComponents, GovernorAssumption DEF Clamped
  <2>3. r.vy > MaxSpeed \/ r.vy < -MaxSpeed => Abs(r.vy) > MaxSpeed
    BY <1>1, <1>3 DEF Abs
  <2>4. \E why \in Given(r, range) :
          why \in {"lateral_zeroed", "lateral_capped", "no_returns", "obstacle"}
    BY <1>4, <2>2, <2>3, RestrictionsAre DEF Given
  <2> QED BY <1>6, <2>4, AboutIs
<1>7. CASE axis = "wz"
  <2>1. d.wz # r.wz
    BY <1>7
  <2>2. \/ r.wz > MaxYaw \/ r.wz < -MaxYaw
        \/ /\ range # Inf /\ range <= StopDistance
           /\ c.wz > MaxYawNear \/ c.wz < -MaxYawNear
    BY <1>1, <1>2, <2>1, DecidedComponents DEF Clamped
  <2>3. /\ r.wz > MaxYaw \/ r.wz < -MaxYaw => Abs(r.wz) > MaxYaw
        /\ c.wz > MaxYawNear \/ c.wz < -MaxYawNear => Abs(c.wz) > MaxYawNear
    BY <1>1, <1>3 DEF Abs
  <2>4. \E why \in Given(r, range) : why \in {"yaw_capped", "yaw_gated"}
    BY <2>2, <2>3, RestrictionsAre DEF Given
  <2> QED BY <1>7, <2>4, AboutIs
<1> QED BY <1>5, <1>6, <1>7 DEF Axes

\* A reason is given only for an axis that changes.
LEMMA ReasonsAreTrue ==
  ASSUME NEW r \in Motion, NEW range \in Nat \cup {Inf},
         NEW why \in Given(r, range)
  PROVE  \E axis \in About[why] : Gated(Capped(r), range)[axis] # r[axis]
<1> DEFINE c == Capped(r)   d == Gated(Capped(r), range)
<1>1. /\ r.vx \in Int /\ r.vy \in Int /\ r.wz \in Int
      /\ c.vx \in Int /\ c.vy \in Int /\ c.wz \in Int
  BY CappedIsWithin DEF Motion
<1>2. /\ c.vx = Clamped(r.vx, -MaxReverseSpeed, MaxSpeed)
      /\ c.vy = IF AllowLateral THEN Clamped(r.vy, -MaxSpeed, MaxSpeed) ELSE 0
      /\ c.wz = Clamped(r.wz, -MaxYaw, MaxYaw)
  BY DEF Capped
<1>3. /\ MaxSpeed \in Nat /\ MaxReverseSpeed \in Nat /\ MaxYaw \in Nat
      /\ MaxYawNear \in Nat /\ AllowLateral \in BOOLEAN
      /\ StopDistance \in Nat /\ SlowDistance \in Nat
  BY GovernorAssumption
<1>4. /\ r.vx > 0 => c.vx <= r.vx
      /\ r.vx <= 0 => c.vx <= 0
  BY <1>1, <1>2, <1>3, ClampedReduces
<1>5. CASE why \in Restrictions(r, range)
  <2>1. CASE why \in {"lateral_zeroed", "lateral_capped"}
    <3>1. d.vy # r.vy
      BY <1>1, <1>2, <1>3, <1>5, <2>1, RestrictionsAre, DecidedComponents DEF Abs, Clamped
    <3> QED BY <2>1, <3>1, AboutIs
  <2>2. CASE why = "speed_capped"
    <3>1. r.vx > MaxSpeed
      BY <1>5, <2>2, RestrictionsAre
    <3>2. c.vx = MaxSpeed /\ d.vx <= c.vx
      <4>1. c.vx = MaxSpeed
        BY <1>2, <3>1 DEF Clamped
      <4>2. range \in Nat => (InSlowZone(range) => Slowed(c.vx, range) <= c.vx)
        BY <1>3, <4>1, SlowedIsLess
      <4>3. InSlowZone(range) => range \in Nat
        BY DEF InSlowZone
      <4> QED BY <1>3, <4>1, <4>2, <4>3, DecidedComponents
    <3>3. d.vx # r.vx
      BY <1>1, <1>3, <3>1, <3>2
    <3> QED BY <2>2, <3>3, AboutIs
  <2>3. CASE why = "reverse_capped"
    <3>1. c.vx = -MaxReverseSpeed /\ r.vx < -MaxReverseSpeed
      BY <1>1, <1>2, <1>3, <1>5, <2>3, RestrictionsAre DEF Clamped
    <3>2. d.vx = c.vx
      BY <1>3, <3>1, DecidedComponents
    <3> QED BY <1>1, <1>3, <2>3, <3>1, <3>2, AboutIs
  <2>4. CASE why \in {"yaw_capped", "yaw_gated"}
    <3>1. \/ Abs(r.wz) > MaxYaw
          \/ range # Inf /\ range <= StopDistance /\ Abs(c.wz) > MaxYawNear
      BY <1>5, <2>4, RestrictionsAre
    <3>2. d.wz = IF range # Inf /\ range <= StopDistance
                   THEN Clamped(c.wz, -MaxYawNear, MaxYawNear) ELSE c.wz
      BY DecidedComponents
    <3>3. d.wz # r.wz
      BY <1>1, <1>2, <1>3, <3>1, <3>2 DEF Abs, Clamped
    <3> QED BY <2>4, <3>3, AboutIs
  <2> QED BY <1>5, <2>1, <2>2, <2>3, <2>4, RestrictionsAre
<1>6. CASE c.vx > 0 /\ why \in Obstructions(range)
  <2>1. r.vx > 0 /\ c.vx <= r.vx
    BY <1>1, <1>4, <1>6
  <2>2. Blocked(range) => d.vx = 0
    BY <1>1, <1>6, DecidedComponents
  <2>3. InSlowZone(range) => d.vx < c.vx
    <3>1. SUFFICES ASSUME InSlowZone(range)
                   PROVE  d.vx < c.vx
      OBVIOUS
    <3>2. range \in Nat /\ StopDistance < range /\ range < SlowDistance
      BY <3>1 DEF InSlowZone
    <3>3. ~Blocked(range)
      BY <1>3, <3>1, <3>2 DEF InSlowZone, Blocked
    <3>4. Slowed(c.vx, range) < c.vx
      BY <1>1, <1>3, <1>6, <3>2, SlowedIsStrict
    <3>5. d.vx = Slowed(c.vx, range)
      BY <1>1, <1>6, <3>1, <3>3, DecidedComponents
    <3> QED BY <3>4, <3>5
  <2>4. Blocked(range) \/ InSlowZone(range)
    BY <1>6, ObstructionsAre DEF Blocked
  <2>5. d.vx # r.vx
    <3>1. CASE Blocked(range)
      BY <1>1, <2>1, <2>2, <3>1
    <3>2. CASE InSlowZone(range)
      <4>1. range \in Nat => Slowed(c.vx, range) \in Int
        BY <1>1, <1>6, <3>2, SlowedIsLess
      <4>2. d.vx \in Int
        BY <1>1, <3>2, <4>1, DecidedComponents DEF InSlowZone
      <4> QED BY <1>1, <2>1, <2>3, <3>2, <4>2
    <3> QED BY <2>4, <3>1, <3>2
  <2>6. "vx" \in About[why]
    BY <1>6, ObstructionsAre, AboutIs
  <2> QED BY <2>5, <2>6
<1> QED BY <1>5, <1>6 DEF Given
-----------------------------------------------------------------------------
Inv == /\ TypeOK
       /\ min_range = forward_min_range(sight)
       /\ StaleMeansZero
-----------------------------------------------------------------------------
LEMMA InitInv == Init => Inv
<1> SUFFICES ASSUME Init
             PROVE  Inv
  OBVIOUS
<1>1. Zero \in Motion
  BY DEF Zero, Motion
<1>2. TypeOK
  BY <1>1, GovernorInitType DEF Init, TypeOK
<1>3. forward_min_range({}) = Inf
  BY NearestAhead DEF Ahead
<1> QED BY <1>2, <1>3 DEF Inv, Init, GovernorInit, StaleMeansZero

LEMMA SeeInv ==
  ASSUME Inv, NEW scan \in Scans, See(scan)
  PROVE  Inv'
<1>1. TypeOK'
  BY OnScanType DEF Inv, TypeOK, See
<1>2. (min_range = forward_min_range(sight))'
  BY DEF See, OnScan
<1>3. StaleMeansZero'
  <2>1. ~Stale(0, ScanTimeout)
    BY VelocityAssumption, GovernorAssumption DEF Stale
  <2> QED BY <2>1 DEF Inv, StaleMeansZero, See, OnScan
<1> QED BY <1>1, <1>2, <1>3 DEF Inv

LEMMA AskInv ==
  ASSUME Inv, NEW r \in Requests, Ask(r)
  PROVE  Inv'
<1>1. TypeOK'
  BY OnRequestType DEF Inv, TypeOK, Ask
<1>2. (min_range = forward_min_range(sight))'
  BY DEF Inv, Ask, OnRequest
<1>3. StaleMeansZero'
  <2>1. ~Stale(0, CmdTimeout)
    BY VelocityAssumption, GovernorAssumption DEF Stale
  <2> QED BY <2>1 DEF Inv, StaleMeansZero, Ask, OnRequest
<1> QED BY <1>1, <1>2, <1>3 DEF Inv

LEMMA TickInv ==
  ASSUME Inv, Tick
  PROVE  Inv'
<1>1. GovernorReasons \in SUBSET DOMAIN About
  BY ReasonsAreKnown DEF GovernorReasons
<1>2. TypeOK'
  BY <1>1, OutputIsMotion, GovernorTickType DEF Inv, TypeOK, Tick
<1>3. (min_range = forward_min_range(sight))'
  BY DEF Inv, Tick, GovernorTick
<1>4. StaleMeansZero'
  BY DEF StaleMeansZero, Tick, GovernorTick, GovernorOutput, decide, Refused
<1> QED BY <1>2, <1>3, <1>4 DEF Inv

LEMMA ElapseInv ==
  ASSUME Inv, Elapse
  PROVE  Inv'
<1>1. TypeOK'
  BY GovernorElapseType DEF Inv, TypeOK, Elapse
<1>2. (min_range = forward_min_range(sight))' /\ StaleMeansZero'
  BY DEF Inv, Elapse, GovernorElapse, StaleMeansZero
<1> QED BY <1>1, <1>2 DEF Inv

LEMMA NextInv == Inv /\ [Next]_vars => Inv'
<1> SUFFICES ASSUME Inv, [Next]_vars
             PROVE  Inv'
  OBVIOUS
<1>1. ASSUME NEW scan \in Scans, See(scan)
      PROVE  Inv'
  BY <1>1, SeeInv
<1>2. ASSUME NEW r \in Requests, Ask(r)
      PROVE  Inv'
  BY <1>2, AskInv
<1>3. CASE Tick
  BY <1>3, TickInv
<1>4. CASE Elapse
  BY <1>4, ElapseInv
<1>5. CASE UNCHANGED vars
  BY <1>5
  DEF Inv, TypeOK, GovernorTypeOK, StaleMeansZero, vars, governor_vars
<1> QED BY <1>1, <1>2, <1>3, <1>4, <1>5 DEF Next

\* The invariant holds throughout every behaviour of the governor.
LEMMA Invariance == Spec => []Inv
  BY InitInv, NextInv, PTL DEF Spec
-----------------------------------------------------------------------------
(* Every variable keeps to its type; above all, what is published is       *)
(* finite whatever was requested.                                          *)
THEOREM TypeCorrect == Spec => []TypeOK
<1>1. Inv => TypeOK
  BY DEF Inv
<1> QED BY <1>1, Invariance, PTL

(* Whatever the timeouts are, a period that ends with a stale scan or a    *)
(* stale request ends with a zero as the governor's last word.             *)
THEOREM StaleStops == Spec => []StaleMeansZero
<1>1. Inv => StaleMeansZero
  BY DEF Inv
<1> QED BY <1>1, Invariance, PTL

\* A tick is the only step that fires the timer.
LEMMA TickedIsTick == Next /\ Ticked => Tick
  BY DEF Next, Ticked, See, OnScan, Ask, OnRequest, Elapse, GovernorElapse

(* "It never invents motion, it only reduces what was asked for": for any  *)
(* request, any scan and any thresholds.                                   *)
THEOREM NoInventedMotion == Spec => NeverInventsMotion
<1> DEFINE Step == Ticked => Reduces(cmd_vel', req)
<1>1. Inv /\ [Next]_vars => [Step]_vars
  <2> SUFFICES ASSUME Inv, Tick
               PROVE  Reduces(cmd_vel', req)
    BY TickedIsTick
  <2>1. cmd_vel' = decide(req, min_range, scan_age, cmd_age)
    BY DEF Tick, GovernorOutput
  <2>2. CASE Refused(req, scan_age, cmd_age)
    BY <2>1, <2>2 DEF decide, Reduces, Zero, Axes
  <2>3. CASE ~Refused(req, scan_age, cmd_age)
    <3>1. /\ req \in Motion /\ cmd_vel' \in Motion
          /\ Within(cmd_vel', req)
      BY <2>1, <2>3, DecideIsWithin DEF Inv, TypeOK, GovernorTypeOK
    <3>2. \A axis \in Axes : req[axis] \in Int /\ cmd_vel'[axis] \in Int
      BY <3>1 DEF Motion, Axes
    <3> QED BY <3>1, <3>2 DEF Within, Reduces, isfinite
  <2> QED BY <2>2, <2>3
<1> QED BY <1>1, Invariance, PTL DEF Spec, NeverInventsMotion

(* Forward speed never exceeds what the nearest - hence any - reading      *)
(* ahead pays for, and a scan that sees nothing ahead buys none.           *)
THEOREM ForwardPaidFor == Spec => ForwardIsPaidFor
<1> DEFINE Step == Ticked /\ cmd_vel'.vx > 0 => PaidFor(cmd_vel'.vx, sight)
<1>1. Inv /\ [Next]_vars => [Step]_vars
  <2> SUFFICES ASSUME Inv, Tick, cmd_vel'.vx > 0
               PROVE  PaidFor(cmd_vel'.vx, sight)
    BY TickedIsTick
  <2>1. cmd_vel' = decide(req, min_range, scan_age, cmd_age)
    BY DEF Tick, GovernorOutput
  <2>2. ~Refused(req, scan_age, cmd_age)
    BY <2>1 DEF decide, Zero
  <2> DEFINE vx == cmd_vel'.vx
  <2>3. /\ cmd_vel' \in Motion
        /\ min_range \in Nat /\ min_range > StopDistance
        /\ min_range < SlowDistance =>
             vx * (SlowDistance - StopDistance)
               <= MaxSpeed * (min_range - StopDistance)
    BY <2>1, <2>2, DecideIsWithin DEF Inv, TypeOK, GovernorTypeOK
  <2>4. vx \in Int
    BY <2>3 DEF Motion
  <2> HIDE DEF vx
  <2>5. /\ Ahead(sight) # {}
        /\ \A r \in Ahead(sight) : r.range \in Nat /\ min_range <= r.range
    BY <2>3, NearestAhead, VelocityAssumption DEF Inv
  <2>6. ASSUME NEW r \in Ahead(sight)
        PROVE  /\ r.range > StopDistance
               /\ r.range < SlowDistance =>
                    vx * (SlowDistance - StopDistance)
                      <= MaxSpeed * (r.range - StopDistance)
    <3>1. /\ StopDistance \in Nat /\ SlowDistance \in Nat /\ MaxSpeed \in Nat
          /\ r.range \in Nat /\ min_range <= r.range
      BY <2>5, GovernorAssumption
    <3>2. r.range > StopDistance
      BY <2>3, <3>1
    <3>3. MaxSpeed * (min_range - StopDistance) <= MaxSpeed * (r.range - StopDistance)
      BY <2>3, <3>1
    <3>4. ASSUME r.range < SlowDistance
          PROVE  vx * (SlowDistance - StopDistance)
                   <= MaxSpeed * (r.range - StopDistance)
      BY <2>3, <2>4, <3>1, <3>3, <3>4
    <3> QED BY <3>2, <3>4
  <2> QED BY <2>5, <2>6 DEF PaidFor, vx
<1> QED BY <1>1, Invariance, PTL DEF Spec, ForwardIsPaidFor

(* For any request, scan and thresholds, an axis that a tick changes is    *)
(* named by a reason it gives, and a reason other than a refusal is given  *)
(* only for an axis that changed.                                          *)
THEOREM ChangesAreNamed == Spec => EveryChangeIsNamed
<1> DEFINE Step == Ticked => /\ \A axis \in Axes :
                                 Differs(axis) =>
                                   \E why \in last_reason' : axis \in About[why]
                             /\ \A why \in last_reason' \ Refusals :
                                  \E axis \in About[why] : Differs(axis)
<1>1. Inv /\ [Next]_vars => [Step]_vars
  <2> SUFFICES ASSUME Inv, Tick
               PROVE  Step
    BY TickedIsTick
  <2>1. /\ cmd_vel' = decide(req, min_range, scan_age, cmd_age)
        /\ last_reason' = reasons(req, min_range, scan_age, cmd_age)
    BY DEF Tick, GovernorOutput, GovernorReasons
  <2>2. req \in Twist /\ min_range \in Nat \cup {Inf}
    BY DEF Inv, TypeOK, GovernorTypeOK
  <2>3. CASE Refused(req, scan_age, cmd_age)
    <3>1. last_reason' = {RefusalOf(scan_age, cmd_age)}
      BY <2>1, <2>3 DEF reasons
    <3>2. /\ RefusalOf(scan_age, cmd_age) \in Refusals
          /\ About[RefusalOf(scan_age, cmd_age)] = Axes
      BY DEF RefusalOf, Refusals, About
    <3> QED BY <3>1, <3>2
  <2>4. CASE ~Refused(req, scan_age, cmd_age)
    <3>1. req \in Motion
      BY <2>2, <2>4, DecideIsWithin
    <3>2. /\ cmd_vel' = Gated(Capped(req), min_range)
          /\ last_reason' = Given(req, min_range)
      BY <2>1, <2>4 DEF decide, reasons, Gated, Given
    <3>3. \A axis \in Axes : Differs(axis) =>
            \E why \in last_reason' : axis \in About[why]
      BY <2>2, <3>1, <3>2, ChangesHaveReasons DEF Differs
    <3>4. \A why \in last_reason' : \E axis \in About[why] : Differs(axis)
      BY <2>2, <3>1, <3>2, ReasonsAreTrue DEF Differs
    <3> QED BY <3>3, <3>4
  <2> QED BY <2>3, <2>4
<1> QED BY <1>1, Invariance, PTL DEF Spec, EveryChangeIsNamed

(* Whatever is asked and whatever the thresholds are, decide is antitone   *)
(* in what the lidar sees: a reading more ahead makes the car faster on no *)
(* axis.                                                                   *)
THEOREM MoreSeenNotFaster == Spec => []MoreSeenIsNeverFaster
<1>1. TypeOK => MoreSeenIsNeverFaster
  <2> SUFFICES ASSUME TypeOK, NEW more \in Scans, NEW fewer \in SUBSET more,
                      Ahead(fewer) # {}, NEW axis \in Axes
               PROVE  Speed(more, axis) <= Speed(fewer, axis)
    BY DEF MoreSeenIsNeverFaster
  <2> DEFINE near == forward_min_range(more)   far == forward_min_range(fewer)
  <2>1. near \in Nat /\ far \in Nat /\ near <= far
    BY MoreSeenIsNearer
  <2> HIDE DEF near, far
  <2>2. CASE Refused(req, scan_age, cmd_age)
    <3>1. Speed(more, axis) = Abs(Zero[axis]) /\ Speed(fewer, axis) = Abs(Zero[axis])
      BY <2>2 DEF Speed, decide
    <3> QED BY <3>1 DEF Zero, Axes, Abs
  <2>3. CASE ~Refused(req, scan_age, cmd_age)
    <3>1. Capped(req) \in Motion
      BY <2>1, <2>3, DecideIsWithin, CappedIsWithin DEF TypeOK, GovernorTypeOK
    <3>2. /\ Speed(more, axis) = Abs(Gated(Capped(req), near)[axis])
          /\ Speed(fewer, axis) = Abs(Gated(Capped(req), far)[axis])
      BY <2>3 DEF Speed, decide, Gated, near, far
    <3>3. Abs(Gated(Capped(req), near)[axis]) <= Abs(Gated(Capped(req), far)[axis])
      BY <2>1, <3>1, NearerIsSlower
    <3> QED BY <3>2, <3>3
  <2> QED BY <2>2, <2>3
<1> QED BY <1>1, TypeCorrect, PTL
=============================================================================
