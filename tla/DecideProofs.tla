---------------------------- MODULE DecideProofs ----------------------------
(***************************************************************************)
(* Lemmas about the governor's pure functions, for every threshold: what   *)
(* forward_min_range returns for a scan, and what decide returns for a     *)
(* request and a range.  The proofs about the modules that contain a       *)
(* governor rest on them.                                                  *)
(***************************************************************************)
EXTENDS Governor, WellFoundedInduction, TLAPS

\* A set of naturals that is not empty has a least element, and Min is it.
LEMMA MinIsLeast ==
  ASSUME NEW S \in SUBSET Nat, S # {}
  PROVE  Min(S) \in S /\ \A n \in S : Min(S) <= n
<1> DEFINE Below == {pair \in Nat \X Nat : pair[1] < pair[2]}
<1>1. IsWellFoundedOn(Below, Nat)
  BY NatLessThanWellFounded, Zenon DEF OpToRel
<1>2. \E m \in S : \A n \in S : <<n, m>> \notin Below
  <2> HIDE DEF Below
  <2> QED BY <1>1, WFMin
<1>3. \A n, m \in Nat : n < m => <<n, m>> \in Below
  OBVIOUS
<1>4. \E m \in S : \A n \in S : m <= n
  <2> HIDE DEF Below
  <2>1. PICK m \in S : \A n \in S : <<n, m>> \notin Below
    BY <1>2
  <2>2. \A n \in S : ~ (n < m)
    BY <1>3, <2>1
  <2> QED BY <2>2
<1> QED BY <1>4 DEF Min

\* What the node remembers of a scan: the least of the ranges ahead.
LEMMA NearestAhead ==
  ASSUME NEW scan
  PROVE  /\ forward_min_range(scan) \in Nat \cup {Inf}
         /\ forward_min_range(scan) = Inf <=> Ahead(scan) = {}
         /\ \A r \in Ahead(scan) : /\ r.range \in Nat
                                   /\ forward_min_range(scan) <= r.range
<1> DEFINE ranges == {r.range : r \in Ahead(scan)}
<1>1. \A r \in Ahead(scan) : r.range \in Nat
  BY GovernorAssumption DEF Ahead, isfinite
<1>2. ranges \subseteq Nat
  BY <1>1
<1>3. ranges = {} <=> Ahead(scan) = {}
  OBVIOUS
<1>4. CASE Ahead(scan) = {}
  <2>1. forward_min_range(scan) = Inf
    BY <1>3, <1>4 DEF forward_min_range
  <2> QED BY <1>4, <2>1
<1>5. CASE Ahead(scan) # {}
  <2>1. forward_min_range(scan) = Min(ranges)
    BY <1>3, <1>5 DEF forward_min_range
  <2> HIDE DEF ranges
  <2>2. Min(ranges) \in ranges /\ \A n \in ranges : Min(ranges) <= n
    BY <1>2, <1>3, <1>5, MinIsLeast
  <2>3. \A r \in Ahead(scan) : r.range \in ranges
    BY DEF ranges
  <2>4. forward_min_range(scan) \in Nat /\ forward_min_range(scan) # Inf
    <3>1. Min(ranges) \in Nat
      BY <1>2, <2>2
    <3> HIDE DEF ranges
    <3> QED BY <2>1, <3>1, VelocityAssumption
  <2>5. \A r \in Ahead(scan) : forward_min_range(scan) <= r.range
    BY <2>1, <2>2, <2>3
  <2> QED BY <1>1, <1>5, <2>4, <2>5
<1> QED BY <1>4, <1>5

\* The slow zone takes speed away, in proportion to the distance left.
LEMMA SlowedBounds ==
  ASSUME NEW vx \in Nat, NEW range \in Nat, range > StopDistance, range < SlowDistance
  PROVE  /\ Slowed(vx, range) \in 0 .. vx
         /\ Slowed(vx, range) * (SlowDistance - StopDistance) <= vx * (range - StopDistance)
<1> DEFINE left == range - StopDistance
           zone == SlowDistance - StopDistance
           out  == (vx * left) \div zone
<1>1. left \in Nat /\ zone \in Nat /\ zone > 0 /\ left < zone
  BY GovernorAssumption
<1> HIDE DEF left, zone
<1>2. vx * left \in Nat
  BY <1>1
<1>3. out \in Int /\ out * zone <= vx * left /\ vx * left < (out + 1) * zone
  BY <1>1, <1>2 DEF out
<1>4. vx * left <= vx * zone
  BY <1>1
<1> HIDE DEF out
<1>5. out >= 0
  BY <1>1, <1>2, <1>3
<1>6. out <= vx
  BY <1>1, <1>3, <1>4, <1>5
<1> QED BY <1>3, <1>5, <1>6 DEF Slowed, out, left, zone
-----------------------------------------------------------------------------
\* The three ways in which a component of the request is changed.
LEMMA ClampedReduces ==
  ASSUME NEW v \in Int, NEW low \in Nat, NEW high \in Nat
  PROVE  /\ Clamped(v, -low, high) \in Int
         /\ Clamped(v, -low, high) <= high
         /\ v > 0 => 0 <= Clamped(v, -low, high) /\ Clamped(v, -low, high) <= v
         /\ v <= 0 => v <= Clamped(v, -low, high) /\ Clamped(v, -low, high) <= 0
  BY DEF Clamped

\* A motion whose every component is the request's or less of it.
Within(t, asked) ==
  \A axis \in Axes : \/ 0 <= t[axis] /\ t[axis] <= asked[axis]
                     \/ asked[axis] <= t[axis] /\ t[axis] <= 0

LEMMA CappedIsWithin ==
  ASSUME NEW r \in Motion
  PROVE  /\ Capped(r) \in Motion
         /\ Within(Capped(r), r)
         /\ Capped(r).vx <= MaxSpeed
<1>1. r.vx \in Int /\ r.vy \in Int /\ r.wz \in Int
  BY DEF Motion
<1>2. /\ MaxSpeed \in Nat /\ MaxReverseSpeed \in Nat /\ MaxYaw \in Nat
      /\ AllowLateral \in BOOLEAN
  BY GovernorAssumption
<1> DEFINE vx == Clamped(r.vx, -MaxReverseSpeed, MaxSpeed)
           vy == IF AllowLateral THEN Clamped(r.vy, -MaxSpeed, MaxSpeed) ELSE 0
           wz == Clamped(r.wz, -MaxYaw, MaxYaw)
<1>3. /\ vx \in Int /\ vx <= MaxSpeed
      /\ r.vx > 0 => 0 <= vx /\ vx <= r.vx
      /\ r.vx <= 0 => r.vx <= vx /\ vx <= 0
  BY <1>1, <1>2, ClampedReduces
<1>4. /\ vy \in Int
      /\ r.vy > 0 => 0 <= vy /\ vy <= r.vy
      /\ r.vy <= 0 => r.vy <= vy /\ vy <= 0
  BY <1>1, <1>2, ClampedReduces
<1>5. /\ wz \in Int
      /\ r.wz > 0 => 0 <= wz /\ wz <= r.wz
      /\ r.wz <= 0 => r.wz <= wz /\ wz <= 0
  BY <1>1, <1>2, ClampedReduces
<1>6. Capped(r) = [vx |-> vx, vy |-> vy, wz |-> wz]
  BY DEF Capped
<1> HIDE DEF vx, vy, wz
<1>7. Capped(r) \in Motion /\ Capped(r).vx <= MaxSpeed
  BY <1>3, <1>4, <1>5, <1>6 DEF Motion
<1>8. Within(Capped(r), r)
  BY <1>1, <1>3, <1>4, <1>5, <1>6 DEF Within, Axes
<1> QED BY <1>7, <1>8

LEMMA YawGatedIsWithin ==
  ASSUME NEW t \in Motion, NEW range \in Nat \cup {Inf}
  PROVE  /\ YawGated(t, range) \in Motion
         /\ Within(YawGated(t, range), t)
         /\ YawGated(t, range).vx = t.vx
<1> DEFINE wz == Clamped(t.wz, -MaxYawNear, MaxYawNear)
<1>1. t.vx \in Int /\ t.vy \in Int /\ t.wz \in Int /\ MaxYawNear \in Nat
  BY GovernorAssumption DEF Motion
<1>2. /\ wz \in Int
      /\ t.wz > 0 => 0 <= wz /\ wz <= t.wz
      /\ t.wz <= 0 => t.wz <= wz /\ wz <= 0
  BY <1>1, ClampedReduces
<1>3. YawGated(t, range) = t \/ YawGated(t, range) = [t EXCEPT !.wz = wz]
  BY DEF YawGated
<1> HIDE DEF wz
<1>4. CASE YawGated(t, range) = t
  BY <1>1, <1>4 DEF Within, Axes
<1>5. CASE YawGated(t, range) = [t EXCEPT !.wz = wz]
  BY <1>1, <1>2, <1>5 DEF Within, Axes, Motion
<1> QED BY <1>3, <1>4, <1>5

LEMMA BrakedIsWithin ==
  ASSUME NEW t \in Motion, NEW range \in Nat \cup {Inf}
  PROVE  /\ Braked(t, range) \in Motion
         /\ Within(Braked(t, range), t)
         /\ Braked(t, range).vx > 0 =>
              /\ range \in Nat /\ range > StopDistance
              /\ range < SlowDistance =>
                   Braked(t, range).vx * (SlowDistance - StopDistance)
                     <= t.vx * (range - StopDistance)
<1> USE GovernorAssumption, VelocityAssumption
<1>1. t.vx \in Int /\ t.vy \in Int /\ t.wz \in Int
  BY DEF Motion
<1>2. CASE t.vx <= 0
  <2>1. Braked(t, range) = t
    BY <1>1, <1>2 DEF Braked
  <2> QED BY <1>1, <1>2, <2>1 DEF Within, Axes
<1>3. CASE t.vx > 0 /\ Blocked(range)
  <2>1. Braked(t, range) = [Zero EXCEPT !.wz = t.wz]
    BY <1>1, <1>3 DEF Braked, Blocked, InSlowZone
  <2>2. Braked(t, range) \in Motion /\ Braked(t, range).vx = 0
    BY <1>1, <2>1 DEF Motion, Zero
  <2>3. Within(Braked(t, range), t)
    BY <1>1, <1>3, <2>1 DEF Within, Axes, Motion, Zero
  <2> QED BY <2>2, <2>3
<1>4. CASE t.vx > 0 /\ InSlowZone(range)
  <2> DEFINE vx == Slowed(t.vx, range)
  <2>1. Braked(t, range) = [t EXCEPT !.vx = vx]
    BY <1>1, <1>4 DEF Braked, Blocked, InSlowZone
  <2>2. range \in Nat /\ range > StopDistance /\ range < SlowDistance
    BY <1>4 DEF InSlowZone
  <2>3. /\ vx \in 0 .. t.vx
        /\ vx * (SlowDistance - StopDistance) <= t.vx * (range - StopDistance)
    BY <1>1, <1>4, <2>2, SlowedBounds
  <2> HIDE DEF vx
  <2>4. Braked(t, range) \in Motion /\ Braked(t, range).vx = vx
    BY <1>1, <2>1, <2>3 DEF Motion
  <2>5. Within(Braked(t, range), t)
    BY <1>1, <1>4, <2>1, <2>3 DEF Within, Axes, Motion
  <2>6. Braked(t, range).vx * (SlowDistance - StopDistance)
          <= t.vx * (range - StopDistance)
    BY <2>3, <2>4
  <2> QED BY <2>2, <2>4, <2>5, <2>6
<1>5. CASE t.vx > 0 /\ ~Blocked(range) /\ ~InSlowZone(range)
  <2>1. Braked(t, range) = t
    BY <1>1, <1>5 DEF Braked, Blocked, InSlowZone
  <2>2. range \in Nat /\ range > StopDistance /\ ~(range < SlowDistance)
    BY <1>5 DEF Blocked, InSlowZone
  <2> QED BY <1>1, <2>1, <2>2 DEF Within, Axes
<1> QED BY <1>1, <1>2, <1>3, <1>4, <1>5

\* What decide returns for a request it does not refuse.
LEMMA DecideIsWithin ==
  ASSUME NEW r \in Twist, NEW range \in Nat \cup {Inf}, NEW s, NEW c,
         ~Refused(r, s, c)
  PROVE  /\ r \in Motion
         /\ decide(r, range, s, c) \in Motion
         /\ Within(decide(r, range, s, c), r)
         /\ decide(r, range, s, c).vx <= MaxSpeed
         /\ decide(r, range, s, c).vx > 0 =>
              /\ range \in Nat /\ range > StopDistance
              /\ range < SlowDistance =>
                   decide(r, range, s, c).vx * (SlowDistance - StopDistance)
                     <= MaxSpeed * (range - StopDistance)
<1> DEFINE a == Capped(r)
           b == YawGated(a, range)
           d == Braked(b, range)
<1>1. \A axis \in Axes : r[axis] \in Int
  BY DEF Refused, isfinite
<1>2. r \in Motion
  BY <1>1 DEF Axes, Twist, Motion
<1>3. decide(r, range, s, c) = d
  BY DEF decide
<1>4. a \in Motion /\ Within(a, r) /\ a.vx <= MaxSpeed
  BY <1>2, CappedIsWithin
<1> HIDE DEF a
<1>5. b \in Motion /\ Within(b, a) /\ b.vx = a.vx
  BY <1>4, YawGatedIsWithin
<1> HIDE DEF b
<1>6. /\ d \in Motion
      /\ Within(d, b)
      /\ d.vx > 0 => /\ range \in Nat /\ range > StopDistance
                     /\ range < SlowDistance =>
                          d.vx * (SlowDistance - StopDistance)
                            <= b.vx * (range - StopDistance)
  BY <1>5, BrakedIsWithin
<1> HIDE DEF d
<1>7. \A axis \in Axes : /\ r[axis] \in Int /\ a[axis] \in Int
                        /\ b[axis] \in Int /\ d[axis] \in Int
  BY <1>2, <1>4, <1>5, <1>6 DEF Motion, Axes
<1>8. Within(d, r)
  BY <1>4, <1>5, <1>6, <1>7 DEF Within
<1>9. ASSUME d.vx > 0, range < SlowDistance
      PROVE  d.vx * (SlowDistance - StopDistance) <= MaxSpeed * (range - StopDistance)
  <2>1. /\ range - StopDistance \in Nat /\ MaxSpeed \in Nat /\ b.vx \in Int
        /\ b.vx <= MaxSpeed /\ d.vx \in Int /\ SlowDistance - StopDistance \in Int
    BY <1>4, <1>5, <1>6, <1>9, GovernorAssumption DEF Motion
  <2>2. b.vx * (range - StopDistance) <= MaxSpeed * (range - StopDistance)
    BY <2>1
  <2> QED BY <1>6, <1>9, <2>1, <2>2
<1>10. d.vx <= MaxSpeed
  <2>1. b.vx <= MaxSpeed /\ MaxSpeed \in Nat /\ b.vx \in Int /\ d.vx \in Int
    BY <1>4, <1>5, <1>6, GovernorAssumption DEF Motion
  <2> QED BY <1>6, <2>1 DEF Within, Axes
<1> QED BY <1>2, <1>3, <1>6, <1>8, <1>9, <1>10
\* Nothing but a motion leaves the governor, and none above the cap.
LEMMA OutputIsMotion ==
  ASSUME GovernorTypeOK
  PROVE  GovernorOutput \in Motion /\ GovernorOutput.vx <= MaxSpeed
<1>1. CASE Refused(req, scan_age, cmd_age)
  BY <1>1, GovernorAssumption DEF GovernorOutput, decide, Zero, Motion
<1>2. CASE ~Refused(req, scan_age, cmd_age)
  BY <1>2, DecideIsWithin DEF GovernorTypeOK, GovernorOutput
<1> QED BY <1>1, <1>2
-----------------------------------------------------------------------------
\* The handlers and the clock, which every module that has a governor uses,
\* keep its state to its types.
LEMMA GovernorOlder ==
  ASSUME NEW limit \in Nat, NEW a \in AgesUpTo(limit)
  PROVE  Older(a, limit + 1) \in AgesUpTo(limit)
  BY VelocityAssumption DEF AgesUpTo, Older

LEMMA GovernorInitType == GovernorInit => GovernorTypeOK
<1>1. Zero \in Twist
  BY DEF Zero, Twist, Scalar
<1> QED BY <1>1 DEF GovernorInit, GovernorTypeOK, AgesUpTo

LEMMA GovernorForgetsType == GovernorForgets => GovernorTypeOK'
<1>1. Zero \in Twist
  BY DEF Zero, Twist, Scalar
<1> QED BY <1>1 DEF GovernorForgets, GovernorTypeOK, AgesUpTo

LEMMA OnScanType ==
  ASSUME GovernorTypeOK, NEW scan, OnScan(scan)
  PROVE  GovernorTypeOK'
<1>1. 0 \in AgesUpTo(ScanTimeout)
  BY GovernorAssumption DEF AgesUpTo
<1> QED BY <1>1, NearestAhead DEF GovernorTypeOK, OnScan

LEMMA OnRequestType ==
  ASSUME GovernorTypeOK, NEW r \in Requests, OnRequest(r)
  PROVE  GovernorTypeOK'
<1>1. 0 \in AgesUpTo(CmdTimeout) /\ r \in Twist
  BY GovernorAssumption DEF AgesUpTo
<1> QED BY <1>1 DEF GovernorTypeOK, OnRequest

LEMMA GovernorTickType == GovernorTypeOK /\ GovernorTick => GovernorTypeOK'
  BY DEF GovernorTypeOK, GovernorTick

LEMMA GovernorElapseType == GovernorTypeOK /\ GovernorElapse => GovernorTypeOK'
  BY GovernorOlder, GovernorAssumption DEF GovernorTypeOK, GovernorElapse

LEMMA GovernorStutterType == GovernorTypeOK /\ UNCHANGED governor_vars => GovernorTypeOK'
  BY DEF GovernorTypeOK, governor_vars
-----------------------------------------------------------------------------
\* The nearer of two returns leaves no more of any component.
LEMMA SlowedIsMonotone ==
  ASSUME NEW vx \in Nat, NEW near \in Nat, NEW far \in Nat,
         StopDistance < near, near <= far, far < SlowDistance
  PROVE  Slowed(vx, near) <= Slowed(vx, far)
<1> DEFINE zone == SlowDistance - StopDistance
           low  == vx * (near - StopDistance)
           high == vx * (far - StopDistance)
<1>1. zone \in Nat /\ zone > 0 /\ low \in Int /\ high \in Int /\ low <= high
  BY GovernorAssumption
<1>2. Slowed(vx, near) = low \div zone /\ Slowed(vx, far) = high \div zone
  BY DEF Slowed
<1> HIDE DEF zone, low, high
<1> DEFINE a == low \div zone   b == high \div zone
<1>3. /\ a \in Int /\ a * zone <= low /\ low < (a + 1) * zone
      /\ b \in Int /\ b * zone <= high /\ high < (b + 1) * zone
  BY <1>1
<1> HIDE DEF a, b
<1>4. ~ (b + 1 <= a)
  <2> SUFFICES ASSUME b + 1 <= a
               PROVE  FALSE
    OBVIOUS
  <2>1. (b + 1) * zone <= a * zone
    BY <1>1, <1>3
  <2> DEFINE bz == (b + 1) * zone   az == a * zone
  <2>2. bz \in Int /\ az \in Int
    BY <1>1, <1>3
  <2> HIDE DEF bz, az
  <2>3. bz <= az /\ az <= low /\ low <= high /\ high < bz
    BY <1>1, <1>3, <2>1 DEF bz, az
  <2> QED BY <1>1, <2>2, <2>3
<1> QED BY <1>2, <1>3, <1>4 DEF a, b

LEMMA SlowedIsLess ==
  ASSUME NEW vx \in Nat, NEW range \in Nat
  PROVE  InSlowZone(range) => Slowed(vx, range) \in 0 .. vx
  BY SlowedBounds DEF InSlowZone

Gated(t, range) == Braked(YawGated(t, range), range)

\* What the gate and the zone leave of each component.
LEMMA GatedComponents ==
  ASSUME NEW t \in Motion, NEW range \in Nat
  PROVE  /\ Gated(t, range).vx = IF t.vx <= 0 THEN t.vx
                                ELSE IF Blocked(range) THEN 0
                                ELSE IF InSlowZone(range) THEN Slowed(t.vx, range)
                                ELSE t.vx
         /\ Gated(t, range).vy = IF t.vx > 0 /\ Blocked(range) THEN 0 ELSE t.vy
         /\ Gated(t, range).wz = IF range <= StopDistance
                                  THEN Clamped(t.wz, -MaxYawNear, MaxYawNear) ELSE t.wz
<1> DEFINE y == YawGated(t, range)
<1>1. /\ t.vx \in Int /\ t.vy \in Int /\ t.wz \in Int /\ range # Inf
  BY VelocityAssumption DEF Motion
<1>2. /\ y.vx = t.vx /\ y.vy = t.vy
      /\ y.wz = IF range <= StopDistance
                  THEN Clamped(t.wz, -MaxYawNear, MaxYawNear) ELSE t.wz
      /\ y \in [vx : Int, vy : Int, wz : {y.wz}]
  BY <1>1 DEF YawGated, Motion
<1> HIDE DEF y
<1>3. CASE t.vx <= 0
  <2>1. Braked(y, range) = y
    BY <1>1, <1>2, <1>3 DEF Braked
  <2> QED BY <1>1, <1>2, <1>3, <2>1 DEF Gated, y
<1>4. CASE t.vx > 0 /\ Blocked(range)
  <2>1. Braked(y, range) = [Zero EXCEPT !.wz = y.wz]
    BY <1>1, <1>2, <1>4, GovernorAssumption DEF Braked, Blocked, InSlowZone
  <2> QED BY <1>1, <1>2, <1>4, <2>1 DEF Gated, Zero, y
<1>5. CASE t.vx > 0 /\ ~Blocked(range) /\ InSlowZone(range)
  <2>1. Braked(y, range) = [y EXCEPT !.vx = Slowed(y.vx, range)]
    BY <1>1, <1>2, <1>5 DEF Braked
  <2> QED BY <1>1, <1>2, <1>5, <2>1 DEF Gated, y
<1>6. CASE t.vx > 0 /\ ~Blocked(range) /\ ~InSlowZone(range)
  <2>1. Braked(y, range) = y
    BY <1>1, <1>2, <1>6 DEF Braked
  <2> QED BY <1>1, <1>2, <1>6, <2>1 DEF Gated, y
<1> QED BY <1>1, <1>3, <1>4, <1>5, <1>6

LEMMA NearerIsSlower ==
  ASSUME NEW t \in Motion, NEW near \in Nat, NEW far \in Nat, near <= far,
         NEW axis \in Axes
  PROVE  Abs(Gated(t, near)[axis]) <= Abs(Gated(t, far)[axis])
<1>1. /\ t.vx \in Int /\ t.vy \in Int /\ t.wz \in Int
      /\ StopDistance \in Nat /\ SlowDistance \in Nat /\ MaxYawNear \in Nat
  BY GovernorAssumption DEF Motion
<1>2. near # Inf /\ far # Inf
  BY VelocityAssumption
<1>3. Abs(Gated(t, near).vx) <= Abs(Gated(t, far).vx)
  <2> DEFINE a == Gated(t, near).vx   b == Gated(t, far).vx
  <2>1. CASE t.vx <= 0
    BY <1>1, <2>1, GatedComponents DEF Abs
  <2>2. CASE t.vx > 0
    <3>1. t.vx \in Nat
      BY <1>1, <2>2
    <3>2. a = IF Blocked(near) THEN 0
              ELSE IF InSlowZone(near) THEN Slowed(t.vx, near) ELSE t.vx
      BY <1>1, <2>2, GatedComponents
    <3>3. b = IF Blocked(far) THEN 0
              ELSE IF InSlowZone(far) THEN Slowed(t.vx, far) ELSE t.vx
      BY <1>1, <2>2, GatedComponents
    <3>4. InSlowZone(near) => Slowed(t.vx, near) \in 0 .. t.vx
      BY <3>1, SlowedIsLess
    <3>5. InSlowZone(far) => Slowed(t.vx, far) \in 0 .. t.vx
      BY <3>1, SlowedIsLess
    <3>6. InSlowZone(near) /\ InSlowZone(far) => Slowed(t.vx, near) <= Slowed(t.vx, far)
      BY <3>1, SlowedIsMonotone DEF InSlowZone
    <3>7. Blocked(far) => Blocked(near)
      BY <1>1, <1>2 DEF Blocked
    <3>8. InSlowZone(far) => Blocked(near) \/ InSlowZone(near)
      BY <1>1, <1>2 DEF Blocked, InSlowZone
    <3> HIDE DEF a, b
    <3>9. a \in Nat /\ b \in Nat /\ a <= b
      BY <3>1, <3>2, <3>3, <3>4, <3>5, <3>6, <3>7, <3>8
    <3>10. Abs(a) = a /\ Abs(b) = b
      BY <3>9 DEF Abs
    <3> QED BY <3>9, <3>10 DEF a, b
  <2> QED BY <1>1, <2>1, <2>2
<1>4. Abs(Gated(t, near).vy) <= Abs(Gated(t, far).vy)
  BY <1>1, <1>2, GatedComponents DEF Blocked, Abs
<1>5. Abs(Gated(t, near).wz) <= Abs(Gated(t, far).wz)
  BY <1>1, GatedComponents DEF Clamped, Abs
<1> QED BY <1>3, <1>4, <1>5 DEF Axes

\* A scan that sees more ahead has a nearer nearest reading.
LEMMA MoreSeenIsNearer ==
  ASSUME NEW more, NEW fewer \in SUBSET more, Ahead(fewer) # {}
  PROVE  /\ forward_min_range(more) \in Nat /\ forward_min_range(fewer) \in Nat
         /\ forward_min_range(more) <= forward_min_range(fewer)
<1> DEFINE ranges == {r.range : r \in Ahead(fewer)}
<1>1. Ahead(fewer) \subseteq Ahead(more)
  BY DEF Ahead
<1>2. forward_min_range(more) \in Nat /\ forward_min_range(fewer) \in Nat
  BY <1>1, NearestAhead
<1>3. PICK r \in Ahead(fewer) : forward_min_range(fewer) = r.range
  <2>1. ranges # {} /\ forward_min_range(fewer) = Min(ranges)
    BY DEF forward_min_range
  <2>2. ranges \subseteq Nat
    BY NearestAhead
  <2> HIDE DEF ranges
  <2>3. forward_min_range(fewer) \in ranges
    BY <2>1, <2>2, MinIsLeast
  <2> QED BY <2>3 DEF ranges
<1> QED BY <1>1, <1>2, <1>3, NearestAhead
=============================================================================
