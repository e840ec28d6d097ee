--------------------------- MODULE ApproachProofs ---------------------------
(***************************************************************************)
(* For every timeout, hold, cap and request: the deadman makes the         *)
(* commands of a firmware that never lets go expire, and a governor that   *)
(* died costs a bounded distance.  Both rest on one invariant: while the   *)
(* firmware executes a move, the move is the last word the deadman heard,  *)
(* and the deadman's age is the age of the move.  And thresholds in a   *)
(* certain proportion keep the car off the wall: every command that can    *)
(* still move it was paid for by a scan, and what is left of it fits in    *)
(* the room that remains.                                                  *)
(***************************************************************************)
EXTENDS Approach, DecideProofs, DeadmanLemmas

Moving == is_moving_command(latched)

MoveIsHeard ==
  Moving => /\ last_moving
            /\ ~echo
            /\ age # None
            /\ age <= Timeout + 1
            /\ ~deadman_due => age <= Timeout

\* How the distance covered follows the age of the last word of the governor,
\* and what is left of it once the deadman has said zero.
CoastFollowsAge ==
  /\ Moving => coast <= MaxSpeed * age
  /\ ~Moving => \/ coast <= MaxSpeed * (Timeout + 1)
                \/ wheels <= 0 /\ coast <= MaxSpeed * (Timeout + 2)

SpeedIsCapped == latched.vx <= MaxSpeed /\ wheels <= MaxSpeed

Inv == /\ TypeOK
       /\ MoveIsHeard
       /\ SpeedIsCapped
       /\ CoastFollowsAge
-----------------------------------------------------------------------------
\* What does not move has no forward speed.
LEMMA StillHasNoSpeed ==
  ASSUME NEW c \in Motion, ~is_moving_command(c)
  PROVE  c.vx = 0
  BY DEF is_moving_command, Axes
-----------------------------------------------------------------------------
LEMMA InitInv == Init => Inv
<1> SUFFICES ASSUME Init
             PROVE  Inv
  OBVIOUS
<1> USE DeadmanAssumption, GovernorAssumption, ApproachAssumption
<1>1. DeadmanTypeOK
  BY DEF Init, DeadmanInit, DeadmanTypeOK, Ages
<1>2. TypeOK
  <2>1. GovernorTypeOK /\ latched \in Motion
    BY GovernorInitType, ZeroIsStill DEF Init
  <2>2. gap \in Int /\ wheels \in Int /\ coast \in Int
    BY DEF Init
  <2> QED BY <1>1, <2>1, <2>2 DEF Init, TypeOK
<1>3. ~Moving /\ SpeedIsCapped
  BY ZeroIsStill DEF Init, Moving, SpeedIsCapped
<1>4. MaxSpeed * (Timeout + 1) >= 0
  OBVIOUS
<1>5. CoastFollowsAge
  BY <1>3, <1>4 DEF Init, CoastFollowsAge
<1> QED BY <1>2, <1>3, <1>5 DEF Inv, MoveIsHeard

\* Steps that leave the car, the firmware and the deadman alone.
Aside == /\ GovernorTypeOK'
         /\ governor_alive' \in BOOLEAN
         /\ lidar_alive' \in BOOLEAN
         /\ UNCHANGED <<deadman_vars, gap, latched, wheels, echo, coast>>

LEMMA AsideInv ==
  ASSUME Inv, Aside
  PROVE  Inv'
<1>1. TypeOK'
  BY DEF Inv, Aside, TypeOK, DeadmanTypeOK, deadman_vars
<1>2. Moving' = Moving
  BY DEF Aside, Moving, is_moving_command
<1> QED
  BY <1>1, <1>2
  DEF Inv, Aside, MoveIsHeard, SpeedIsCapped, CoastFollowsAge, deadman_vars

LEMMA GovernorTimerInv ==
  ASSUME Inv, GovernorTimer
  PROVE  Inv'
<1> USE DeadmanAssumption, GovernorAssumption, ApproachAssumption
<1>1. GovernorOutput \in Motion /\ GovernorOutput.vx <= MaxSpeed
  BY OutputIsMotion DEF Inv, TypeOK
<1>2. DeadmanTypeOK' /\ GovernorTypeOK'
  BY OnCmdType, GovernorTickType DEF Inv, TypeOK, GovernorTimer
<1>3. TypeOK'
  BY <1>1, <1>2 DEF Inv, TypeOK, GovernorTimer, alive_vars
<1>4. MoveIsHeard'
  BY VelocityAssumption DEF MoveIsHeard, Moving, GovernorTimer, OnCmd
<1>5. SpeedIsCapped'
  BY <1>1 DEF Inv, SpeedIsCapped, GovernorTimer
<1>6. coast' = 0 /\ age' = 0 /\ MaxSpeed * (Timeout + 1) >= 0 /\ MaxSpeed * 0 = 0
  BY DEF GovernorTimer, OnCmd
<1>7. CoastFollowsAge'
  BY <1>6 DEF CoastFollowsAge
<1> QED BY <1>3, <1>4, <1>5, <1>7 DEF Inv

LEMMA DeadmanTimerInv ==
  ASSUME Inv, DeadmanTimer
  PROVE  Inv'
<1> USE DeadmanAssumption, GovernorAssumption, ApproachAssumption
<1>1. /\ DeadmanTick
      /\ UNCHANGED <<last_moving, age, governor_vars, alive_vars, gap, wheels, coast>>
      /\ ~deadman_due'
      /\ echo' = DeadmanPublishes
      /\ latched' = IF DeadmanPublishes THEN Zero ELSE latched
  BY DEF DeadmanTimer, DeadmanTick
<1>2. DeadmanPublishes \in BOOLEAN
  BY DEF DeadmanPublishes, Latched, should_intervene
<1>3. DeadmanTypeOK' /\ GovernorTypeOK'
  BY <1>1, DeadmanTickType, GovernorStutterType DEF Inv, TypeOK
<1>4. TypeOK'
  BY <1>1, <1>2, <1>3, ZeroIsStill DEF Inv, TypeOK, alive_vars
<1>5. CASE DeadmanPublishes
  <2>1. ~Moving' /\ MoveIsHeard'
    BY <1>1, <1>5, ZeroIsStill DEF Moving, MoveIsHeard
  <2>2. SpeedIsCapped'
    BY <1>1, <1>5, ZeroIsStill DEF Inv, SpeedIsCapped
  <2>3. ASSUME Moving
        PROVE  coast <= MaxSpeed * (Timeout + 1)
    <3>1. age \in Nat /\ age <= Timeout + 1 /\ coast <= MaxSpeed * age
      BY <2>3, VelocityAssumption
      DEF Inv, TypeOK, DeadmanTypeOK, Ages, AgeCap, MoveIsHeard, CoastFollowsAge
    <3>2. MaxSpeed * age <= MaxSpeed * (Timeout + 1)
      BY <3>1
    <3> QED BY <3>1, <3>2 DEF Inv, TypeOK
  <2>4. CoastFollowsAge'
    BY <1>1, <2>1, <2>3 DEF Inv, CoastFollowsAge
  <2> QED BY <1>4, <2>1, <2>2, <2>4 DEF Inv
<1>6. CASE ~DeadmanPublishes
  <2>1. latched' = latched /\ ~echo'
    BY <1>1, <1>2, <1>6
  <2>2. Moving' = Moving
    BY <2>1 DEF Moving, is_moving_command
  <2>3. Moving => age <= Timeout
    BY <1>6, VelocityAssumption
    DEF Inv, TypeOK, DeadmanTypeOK, Ages, AgeCap, MoveIsHeard, DeadmanPublishes,
        should_intervene
  <2>4. MoveIsHeard'
    BY <1>1, <2>1, <2>2, <2>3 DEF Inv, MoveIsHeard
  <2>5. SpeedIsCapped' /\ CoastFollowsAge'
    BY <1>1, <2>1, <2>2 DEF Inv, SpeedIsCapped, CoastFollowsAge
  <2> QED BY <1>4, <2>4, <2>5 DEF Inv
<1> QED BY <1>5, <1>6

LEMMA EchoInv ==
  ASSUME Inv, Echo
  PROVE  Inv'
<1>1. DeadmanTypeOK' /\ GovernorTypeOK'
  BY OnCmdType, GovernorStutterType DEF Inv, TypeOK, Echo
<1>2. TypeOK'
  BY <1>1 DEF Inv, TypeOK, Echo, alive_vars
<1>3. ~Moving /\ ~Moving'
  BY DEF Inv, MoveIsHeard, Echo, Moving, is_moving_command
<1> QED
  BY <1>2, <1>3 DEF Inv, MoveIsHeard, SpeedIsCapped, CoastFollowsAge, Echo

LEMMA PeriodInv ==
  ASSUME Inv, Period
  PROVE  Inv'
<1> USE DeadmanAssumption, GovernorAssumption, ApproachAssumption
<1>1. /\ gap \in Int /\ wheels \in Int /\ coast \in Int
      /\ latched \in Motion /\ latched.vx \in Int
      /\ wheels <= MaxSpeed /\ latched.vx <= MaxSpeed
      /\ age \in Ages
  BY DEF Inv, TypeOK, DeadmanTypeOK, SpeedIsCapped, Motion
<1>2. /\ ~deadman_due /\ ~echo
      /\ gap' = gap - wheels /\ wheels' = latched.vx /\ coast' = coast + wheels
      /\ age' = Older(age, AgeCap) /\ deadman_due'
      /\ UNCHANGED <<last_moving, alive_vars, latched, echo>>
  BY DEF Period, DeadmanElapse
<1>3. DeadmanTypeOK' /\ GovernorTypeOK'
  BY DeadmanElapseType, GovernorElapseType, GovernorStutterType DEF Inv, TypeOK, Period
<1>4. TypeOK'
  BY <1>1, <1>2, <1>3 DEF Inv, TypeOK, alive_vars
<1>5. SpeedIsCapped'
  BY <1>1, <1>2 DEF SpeedIsCapped
<1>6. Moving' = Moving
  BY <1>2 DEF Moving, is_moving_command
<1>7. CASE Moving
  <2>1. last_moving /\ age \in Nat /\ age <= Timeout /\ coast <= MaxSpeed * age
    BY <1>1, <1>2, <1>7, VelocityAssumption
    DEF Inv, MoveIsHeard, CoastFollowsAge, Ages, AgeCap
  <2>2. age' = age + 1
    BY <1>2, <2>1, VelocityAssumption DEF Older, AgeCap
  <2>3. MoveIsHeard'
    BY <1>2, <2>1, <2>2, VelocityAssumption DEF MoveIsHeard
  <2>4. MaxSpeed * (age + 1) = MaxSpeed * age + MaxSpeed
    BY <2>1
  <2>5. coast' <= MaxSpeed * age'
    <3> DEFINE sofar == MaxSpeed * age
    <3>1. sofar \in Int /\ MaxSpeed \in Int
      BY <2>1
    <3> HIDE DEF sofar
    <3>2. coast <= sofar /\ MaxSpeed * age' = sofar + MaxSpeed
      BY <2>1, <2>2, <2>4 DEF sofar
    <3> QED BY <1>1, <1>2, <3>1, <3>2
  <2> QED BY <1>4, <1>5, <1>6, <1>7, <2>3, <2>5 DEF Inv, CoastFollowsAge
<1>8. CASE ~Moving
  <2>1. wheels' = 0
    BY <1>1, <1>2, <1>8, StillHasNoSpeed DEF Moving
  <2> DEFINE reach == MaxSpeed * (Timeout + 1)
  <2>2. MaxSpeed * (Timeout + 2) = reach + MaxSpeed /\ reach \in Int
    OBVIOUS
  <2>3. coast <= reach \/ (wheels <= 0 /\ coast <= MaxSpeed * (Timeout + 2))
    BY <1>8 DEF Inv, CoastFollowsAge
  <2> HIDE DEF reach
  <2>4. coast' <= reach + MaxSpeed
    BY <1>1, <1>2, <2>2, <2>3
  <2>5. CoastFollowsAge'
    BY <1>6, <1>8, <2>1, <2>2, <2>4 DEF CoastFollowsAge
  <2> QED BY <1>4, <1>5, <1>6, <1>8, <2>5 DEF Inv, MoveIsHeard
<1> QED BY <1>7, <1>8

\* The other actions of Next only concern the governor's own memory.
LEMMA SetAside ==
  ASSUME Inv,
         \/ Scan \/ (\E r \in Requests : Request(r)) \/ GovernorDies
         \/ GovernorStarts \/ LidarDies
  PROVE  Aside
<1>1. CASE Scan
  BY <1>1, OnScanType DEF Inv, TypeOK, Scan, Aside, alive_vars
<1>2. ASSUME NEW r \in Requests, Request(r)
      PROVE  Aside
  BY <1>2, OnRequestType DEF Inv, TypeOK, Request, Aside, alive_vars
<1>3. CASE GovernorDies
  BY <1>3, GovernorForgetsType DEF Inv, TypeOK, GovernorDies, Aside
<1>4. CASE GovernorStarts
  BY <1>4, GovernorStutterType DEF Inv, TypeOK, GovernorStarts, Aside
<1>5. CASE LidarDies
  BY <1>5, GovernorStutterType DEF Inv, TypeOK, LidarDies, Aside
<1> QED BY <1>1, <1>2, <1>3, <1>4, <1>5

LEMMA StutterAside ==
  ASSUME Inv, UNCHANGED approach_vars
  PROVE  Aside
  BY GovernorStutterType DEF Inv, TypeOK, approach_vars, alive_vars, Aside

LEMMA NextInv == Inv /\ [Next]_approach_vars => Inv'
<1> SUFFICES ASSUME Inv, [Next]_approach_vars
             PROVE  Inv'
  OBVIOUS
<1>1. CASE Aside
  BY <1>1, AsideInv
<1>2. CASE GovernorTimer
  BY <1>2, GovernorTimerInv
<1>3. CASE DeadmanTimer
  BY <1>3, DeadmanTimerInv
<1>4. CASE Echo
  BY <1>4, EchoInv
<1>5. CASE Period
  BY <1>5, PeriodInv
<1> QED BY <1>1, <1>2, <1>3, <1>4, <1>5, SetAside, StutterAside DEF Next

\* The invariant holds throughout every approach.
LEMMA Invariance == Spec => []Inv
  BY InitInv, NextInv, PTL DEF Spec
-----------------------------------------------------------------------------
(* Every variable keeps to its type: the firmware is never given anything  *)
(* but finite velocities, whatever the driver asks for.                    *)
THEOREM TypeCorrect == Spec => []TypeOK
<1>1. Inv => TypeOK
  BY DEF Inv
<1> QED BY <1>1, Invariance, PTL

(* Whatever the timeout and the cap are, a car whose governor falls silent *)
(* covers at most Timeout + 2 periods at the cap before it stands still.   *)
THEOREM BoundedCoast == Spec => []CoastIsBounded
<1> USE DeadmanAssumption, GovernorAssumption
<1>1. ASSUME Inv
      PROVE  CoastIsBounded
  <2>1. coast \in Int /\ age \in Ages
    BY <1>1 DEF Inv, TypeOK, DeadmanTypeOK
  <2>2. MaxSpeed * (Timeout + 1) <= MaxSpeed * (Timeout + 2)
    OBVIOUS
  <2>3. CASE Moving
    <3>1. age \in Nat /\ age <= Timeout + 1 /\ coast <= MaxSpeed * age
      BY <1>1, <2>1, <2>3, VelocityAssumption
      DEF Inv, MoveIsHeard, CoastFollowsAge, Ages, AgeCap
    <3>2. MaxSpeed * age <= MaxSpeed * (Timeout + 2)
      BY <3>1
    <3> QED BY <2>1, <3>1, <3>2 DEF CoastIsBounded
  <2>4. CASE ~Moving
    BY <1>1, <2>1, <2>2, <2>4 DEF Inv, CoastFollowsAge, CoastIsBounded
  <2> QED BY <2>3, <2>4
<1> QED BY <1>1, Invariance, PTL
-----------------------------------------------------------------------------
LEMMA LeaseInit == Init => Lease!Init
  BY ZeroIsStill DEF Init, Lease!Init

\* A step that changes neither the firmware's command nor the deadman's age.
LEMMA LeaseStutters ==
  ASSUME UNCHANGED <<latched, age>>
  PROVE  UNCHANGED Lease!lease_vars
  BY DEF Lease!lease_vars, is_moving_command

LEMMA GovernorTimerLease ==
  ASSUME GovernorTimer
  PROVE  Lease!Grant \/ Lease!Stop
<1>1. age' = 0
  BY DEF GovernorTimer, OnCmd
<1>2. CASE Moving'
  <2>1. is_moving_command(latched)' = TRUE
    BY <1>2, MovingIsBoolean DEF Moving
  <2> QED BY <1>1, <2>1, DeadmanAssumption DEF Lease!Grant
<1>3. CASE ~Moving'
  <2>1. is_moving_command(latched)' = FALSE
    BY <1>3, MovingIsBoolean DEF Moving
  <2> QED BY <2>1 DEF Lease!Stop
<1> QED BY <1>2, <1>3

LEMMA DeadmanTimerLease ==
  ASSUME DeadmanTimer
  PROVE  Lease!Stop \/ UNCHANGED Lease!lease_vars
<1>1. CASE DeadmanPublishes
  <2>1. latched' = Zero
    BY <1>1 DEF DeadmanTimer
  <2>2. is_moving_command(latched)' = FALSE
    BY <2>1, ZeroIsStill, MovingIsBoolean
  <2> QED BY <2>2 DEF Lease!Stop
<1>2. CASE ~DeadmanPublishes
  BY <1>2, LeaseStutters DEF DeadmanTimer, DeadmanTick
<1> QED BY <1>1, <1>2

LEMMA EchoLease ==
  ASSUME Inv, Echo
  PROVE  UNCHANGED Lease!lease_vars
<1>1. latched' = latched /\ ~is_moving_command(latched)
  BY DEF Inv, MoveIsHeard, Moving, Echo
<1> QED BY <1>1 DEF Lease!lease_vars, is_moving_command

LEMMA PeriodLease ==
  ASSUME Inv, Period
  PROVE  Lease!Elapse \/ UNCHANGED Lease!lease_vars
<1>1. latched' = latched /\ ~deadman_due /\ age' = Older(age, AgeCap)
  BY DEF Period, DeadmanElapse
<1>2. is_moving_command(latched)' = is_moving_command(latched)
  BY <1>1 DEF is_moving_command
<1>3. CASE Moving
  <2>1. age \in Nat /\ age <= Timeout
    BY <1>1, <1>3, VelocityAssumption, DeadmanAssumption
    DEF Inv, TypeOK, DeadmanTypeOK, MoveIsHeard, Ages, AgeCap
  <2>2. age' = age + 1
    BY <1>1, <2>1, VelocityAssumption, DeadmanAssumption DEF Older, AgeCap
  <2>3. Timeout + 1 - age > 0 /\ Timeout + 1 - age' = (Timeout + 1 - age) - 1
    BY <2>1, <2>2, DeadmanAssumption
  <2> QED BY <1>2, <1>3, <2>3 DEF Lease!Elapse, Moving
<1>4. CASE ~Moving
  BY <1>2, <1>4 DEF Lease!lease_vars, Moving
<1> QED BY <1>3, <1>4

(* The firmware and the deadman together implement a base whose commands   *)
(* expire Timeout + 1 periods after they were given: the watchdog that the *)
(* firmware lacks.                                                         *)
THEOREM LeaseImplemented == Spec => ImplementsLease
<1>1. Init => Lease!Init
  BY LeaseInit
<1>2. Inv /\ [Next]_approach_vars =>
        [Lease!Grant \/ Lease!Stop \/ Lease!Elapse]_(Lease!lease_vars)
  <2> SUFFICES ASSUME Inv, [Next]_approach_vars
               PROVE  \/ Lease!Grant \/ Lease!Stop \/ Lease!Elapse
                      \/ UNCHANGED Lease!lease_vars
    OBVIOUS
  <2>1. CASE Aside
    BY <2>1, LeaseStutters DEF Aside, deadman_vars
  <2>2. CASE GovernorTimer
    BY <2>2, GovernorTimerLease
  <2>3. CASE DeadmanTimer
    BY <2>3, DeadmanTimerLease
  <2>4. CASE Echo
    BY <2>4, EchoLease
  <2>5. CASE Period
    BY <2>5, PeriodLease
  <2> QED BY <2>1, <2>2, <2>3, <2>4, <2>5, SetAside, StutterAside DEF Next
<1> QED BY <1>1, <1>2, Invariance, PTL DEF Spec, ImplementsLease, Lease!Spec
-----------------------------------------------------------------------------
\* Forward speed, of which a car that stands or backs off has none.
Forward(v) == IF v > 0 THEN v ELSE 0

\* The speed at which the wheels turn in the next period, if nobody says anything more.
ToCome == IF Moving /\ age <= Timeout THEN Forward(latched.vx) ELSE 0

\* The scan that the governor may still go by.
Fresh == scan_age # None /\ scan_age <= ScanTimeout /\ min_range # Inf

\* The speeds that the governor may buy with it.
Affordable == {v \in 1 .. MaxSpeed : v * ZonePeriods <= min_range - StopDistance}

DeadIsBlank == ~governor_alive => scan_age = None /\ ~governor_due

\* The wall is nearer than the scan says by what was covered since at most.
ScanIsNear == Fresh => min_range <= gap + scan_age * MaxSpeed

\* The latched command was paid for by a scan, and so was the one the wheels follow.
CommandWasPaid ==
  Moving /\ latched.vx > 0 =>
    latched.vx * ZonePeriods <= gap - StopDistance + (ScanTimeout + age) * MaxSpeed

WheelsWerePaid ==
  wheels > 0 =>
    /\ wheels * ZonePeriods <= gap - StopDistance + (ScanTimeout + Timeout + 1) * MaxSpeed
    /\ Moving /\ age >= 1 =>
         wheels * ZonePeriods <= gap - StopDistance + (ScanTimeout + age) * MaxSpeed

\* What the latched command can still cover before the deadman ends it fits in.
LeaseFits ==
  /\ gap - Forward(wheels) >= Clearance
  /\ Moving => gap - Forward(wheels) - Forward(latched.vx) * (Timeout + 1 - age) >= Clearance

\* So does what the governor can still buy, until the scan is stale and the lease is over.
ScanFits ==
  Fresh => \A v \in Affordable :
    IF governor_due
      THEN gap - Forward(wheels) - v * (ScanTimeout - scan_age + Timeout + 1) >= Clearance
      ELSE gap - Forward(wheels) - ToCome - v * (ScanTimeout - scan_age + Timeout) >= Clearance

ClearanceInv == /\ DeadIsBlank
                /\ ScanIsNear
                /\ CommandWasPaid
                /\ WheelsWerePaid
                /\ LeaseFits
                /\ ScanFits
-----------------------------------------------------------------------------
\* The arithmetic of a fresh scan at a distance y beyond the stop line, with P periods in
\* the zone and K periods until the deadman ends what the scan buys: with only the wheels
\* to stop, and with a latched command next after the wheels.
LEMMA RoomForOne ==
  ASSUME NEW S \in Int, NEW y \in Int, NEW w \in Int, NEW v \in Int, NEW P \in Int,
         NEW K \in Int, NEW M \in Int, NEW C \in Int,
         v >= 1, K >= 1, M >= 1, P >= K + 2,
         v * P <= y, w * P <= y + (K + 1) * M, (S - C) * P >= 2 * K * M
  PROVE  S + y - w - v * (K + 1) >= C
<1> DEFINE room == S + y - w - v * (K + 1) - C
           vP == v * P   yP == y * P   wP == w * P   KM == K * M   yK == y * K
<1>1. room * P = (S - C) * P + yP - wP - vP * (K + 1)
  OBVIOUS
<1>2. vP * (K + 1) <= y * (K + 1)
  OBVIOUS
<1>3. y * (K + 1) = yK + y /\ (K + 1) * M = KM + M /\ 2 * K * M = 2 * KM
  OBVIOUS
<1>4. y >= 1
  <2>1. v * P >= P
    OBVIOUS
  <2> QED BY <2>1
<1>5. yP >= yK + 2 * y
  <2>1. y * P >= y * (K + 2)
    BY <1>4
  <2>2. y * (K + 2) = yK + 2 * y
    OBVIOUS
  <2> QED BY <2>1, <2>2
<1>6. KM >= M
  OBVIOUS
<1>7. room * P >= 0
  <2>1. /\ yP \in Int /\ wP \in Int /\ yK \in Int /\ KM \in Int /\ vP * (K + 1) \in Int
        /\ (S - C) * P \in Int
    OBVIOUS
  <2>2. wP <= y + KM + M /\ (S - C) * P >= 2 * KM /\ vP * (K + 1) <= yK + y
    BY <1>2, <1>3
  <2> HIDE DEF room, vP, yP, wP, KM, yK
  <2> QED BY <1>1, <1>4, <1>5, <1>6, <2>1, <2>2
<1>8. room \in Int
  OBVIOUS
<1> HIDE DEF room
<1>9. room >= 0
  BY <1>7, <1>8
<1> QED BY <1>9 DEF room

LEMMA RoomForTwo ==
  ASSUME NEW S \in Int, NEW y \in Int, NEW w \in Int, NEW n \in Int, NEW v \in Int,
         NEW P \in Int, NEW K \in Int, NEW M \in Int, NEW C \in Int,
         v >= 1, K >= 1, M >= 1, P >= K + 2,
         v * P <= y, w * P + n * P <= 2 * y + 2 * K * M, (S - C) * P >= 2 * K * M
  PROVE  S + y - w - n - v * K >= C
<1> DEFINE room == S + y - w - n - v * K - C
           vP == v * P   yP == y * P   wP == w * P   nP == n * P
           KM == K * M   yK == y * K
<1>1. room * P = (S - C) * P + yP - wP - nP - vP * K
  OBVIOUS
<1>2. vP * K <= yK
  OBVIOUS
<1>4. y >= 1
  <2>1. v * P >= P
    OBVIOUS
  <2> QED BY <2>1
<1>5. yP >= yK + 2 * y
  <2>1. y * P >= y * (K + 2)
    BY <1>4
  <2>2. y * (K + 2) = yK + 2 * y
    OBVIOUS
  <2> QED BY <2>1, <2>2
<1>7. room * P >= 0
  <2>1. /\ yP \in Int /\ wP \in Int /\ nP \in Int /\ yK \in Int /\ KM \in Int
        /\ vP * K \in Int /\ (S - C) * P \in Int
    OBVIOUS
  <2>2. wP + nP <= 2 * y + 2 * KM /\ (S - C) * P >= 2 * KM
    OBVIOUS
  <2> HIDE DEF room, vP, yP, wP, nP, KM, yK
  <2> QED BY <1>1, <1>2, <1>4, <1>5, <2>1, <2>2
<1>8. room \in Int
  OBVIOUS
<1> HIDE DEF room
<1>9. room >= 0
  BY <1>7, <1>8
<1> QED BY <1>9 DEF room
-----------------------------------------------------------------------------
\* The types of what the arithmetic is about.
LEMMA Sizes ==
  ASSUME IsSized
  PROVE  /\ MaxSpeed \in Int /\ MaxSpeed >= 1
         /\ ScanTimeout \in Nat /\ Timeout \in Nat /\ Timeout >= 1
         /\ ZonePeriods \in Int /\ ZonePeriods >= ScanTimeout + Timeout + 2
         /\ ZonePeriods * MaxSpeed <= SlowDistance - StopDistance
         /\ StopDistance \in Int /\ SlowDistance \in Int /\ Clearance \in Int /\ Clearance <= Far
         /\ (StopDistance - Clearance) * ZonePeriods
              >= 2 * (ScanTimeout + Timeout) * MaxSpeed
<1> USE DeadmanAssumption, GovernorAssumption, ApproachAssumption
<1>1. MaxSpeed \in Int /\ MaxSpeed >= 1 /\ SlowDistance - StopDistance \in Int
  BY DEF IsSized
<1>2. ZonePeriods \in Int /\ ZonePeriods * MaxSpeed <= SlowDistance - StopDistance
  BY <1>1 DEF ZonePeriods
<1> QED BY <1>1, <1>2 DEF IsSized

LEMMA Numbers ==
  ASSUME Inv
  PROVE  /\ gap \in Int /\ wheels \in Int /\ latched \in Motion /\ latched.vx \in Int
         /\ wheels <= MaxSpeed /\ latched.vx <= MaxSpeed
         /\ Moving => age \in Nat /\ age <= Timeout + 1
         /\ Fresh => /\ min_range \in Nat
                     /\ scan_age \in Nat /\ scan_age <= ScanTimeout
         /\ ~Moving => latched.vx = 0
<1>1. Moving => age \in Nat
  BY VelocityAssumption, DeadmanAssumption
  DEF Inv, TypeOK, DeadmanTypeOK, MoveIsHeard, Ages, AgeCap
<1>2. Fresh => min_range \in Nat /\ scan_age \in Nat
  BY GovernorAssumption DEF Inv, TypeOK, GovernorTypeOK, Fresh, AgesUpTo
<1>3. latched \in Motion /\ latched.vx \in Int
  BY DEF Inv, TypeOK, Motion
<1> QED
  BY <1>1, <1>2, <1>3, StillHasNoSpeed
  DEF Inv, TypeOK, MoveIsHeard, SpeedIsCapped, Fresh, Moving

\* A speed that the governor gives out is one that its scan can pay for.
LEMMA SpeedIsAffordable ==
  ASSUME Inv, IsSized, GovernorOutput.vx > 0
  PROVE  Fresh /\ GovernorOutput.vx \in Affordable
<1> DEFINE v    == GovernorOutput.vx
           zone == SlowDistance - StopDistance
           r    == min_range - StopDistance
<1>1. ~Refused(req, scan_age, cmd_age)
  BY DEF GovernorOutput, decide, Zero
<1>2. /\ GovernorOutput \in Motion
      /\ v <= MaxSpeed
      /\ min_range \in Nat /\ min_range > StopDistance
      /\ min_range < SlowDistance => v * zone <= MaxSpeed * r
  BY <1>1, DecideIsWithin DEF Inv, TypeOK, GovernorTypeOK, GovernorOutput
<1>3. Fresh
  BY <1>1, <1>2, VelocityAssumption, GovernorAssumption
  DEF Inv, TypeOK, GovernorTypeOK, AgesUpTo, Refused, Stale, Fresh
<1>4. v \in 1 .. MaxSpeed
  BY <1>2, Sizes DEF Motion
<1>5. v * ZonePeriods <= r
  <2> HIDE DEF v
  <2>1. /\ r \in Int /\ zone \in Int /\ v \in Int /\ v >= 1 /\ v <= MaxSpeed
        /\ MaxSpeed \in Int /\ MaxSpeed >= 1
        /\ ZonePeriods \in Int /\ ZonePeriods >= 0 /\ ZonePeriods * MaxSpeed <= zone
    BY <1>2, <1>4, Sizes
  <2>2. CASE min_range < SlowDistance
    <3>1. v * zone <= MaxSpeed * r
      BY <1>2, <2>2
    <3>2. v * (ZonePeriods * MaxSpeed) <= v * zone
      <4> HIDE DEF zone
      <4> QED BY <2>1
    <3>3. v * (ZonePeriods * MaxSpeed) = MaxSpeed * (v * ZonePeriods)
      BY <2>1
    <3> DEFINE vP == v * ZonePeriods
    <3>4. vP \in Int /\ MaxSpeed * vP <= MaxSpeed * r
      <4> HIDE DEF r, zone
      <4> QED BY <2>1, <3>1, <3>2, <3>3
    <3> HIDE DEF vP, r, zone
    <3>5. vP <= r
      BY <2>1, <3>4
    <3> QED BY <3>5 DEF vP
  <2>3. CASE ~(min_range < SlowDistance)
    <3>1. zone <= r
      BY <1>2, <2>3, Sizes
    <3>2. v * ZonePeriods <= ZonePeriods * MaxSpeed
      BY <2>1
    <3> HIDE DEF zone, r
    <3> QED BY <2>1, <3>1, <3>2
  <2> QED BY <2>2, <2>3
<1> QED BY <1>3, <1>4, <1>5 DEF Affordable
-----------------------------------------------------------------------------
\* What a car that is not told anything does is not changed by what the governor hears, nor
\* by its coming up.
LEMMA QuietKeeps ==
  ASSUME ClearanceInv,
         UNCHANGED <<gap, latched, wheels, age, min_range, scan_age, governor_due>>,
         governor_alive' = governor_alive \/ governor_alive'
  PROVE  ClearanceInv'
<1>1. /\ Moving' = Moving /\ ToCome' = ToCome /\ Fresh' = Fresh
      /\ Affordable' = Affordable
  BY DEF Moving, ToCome, Fresh, Affordable, is_moving_command
<1>2. DeadIsBlank'
  BY DEF ClearanceInv, DeadIsBlank
<1>3. ScanIsNear' /\ CommandWasPaid' /\ WheelsWerePaid' /\ LeaseFits'
  BY <1>1 DEF ClearanceInv, ScanIsNear, CommandWasPaid, WheelsWerePaid, LeaseFits
<1>4. ScanFits'
  BY <1>1 DEF ClearanceInv, ScanFits
<1> QED BY <1>2, <1>3, <1>4 DEF ClearanceInv

\* A governor that has died remembers nothing to go by.
LEMMA DeathKeeps ==
  ASSUME ClearanceInv, GovernorDies
  PROVE  ClearanceInv'
<1>1. /\ UNCHANGED <<gap, latched, wheels, age>>
      /\ scan_age' = None /\ ~governor_due'
  BY DEF GovernorDies, GovernorForgets, deadman_vars
<1>2. Moving' = Moving /\ ~Fresh'
  BY <1>1 DEF Moving, Fresh, is_moving_command
<1> QED
  BY <1>1, <1>2
  DEF ClearanceInv, DeadIsBlank, ScanIsNear, CommandWasPaid, WheelsWerePaid, LeaseFits,
      ScanFits

\* A scan buys no more than there is room for.
LEMMA ScanKeeps ==
  ASSUME Inv, IsSized, ClearanceInv, Scan
  PROVE  ClearanceInv'
<1>1. /\ UNCHANGED <<gap, latched, wheels, age, governor_due, governor_alive>>
      /\ min_range' = forward_min_range(View) /\ scan_age' = 0
  BY DEF Scan, OnScan, deadman_vars, alive_vars
<1>2. Moving' = Moving /\ ToCome' = ToCome
  BY <1>1 DEF Moving, ToCome, is_moving_command
<1>3. min_range' # Inf => min_range' \in Nat /\ min_range' <= gap
  BY <1>1, NearestAhead, VelocityAssumption DEF Ahead, View
<1>4. DeadIsBlank' /\ CommandWasPaid' /\ WheelsWerePaid' /\ LeaseFits'
  BY <1>1, <1>2
  DEF Scan, ClearanceInv, DeadIsBlank, CommandWasPaid, WheelsWerePaid, LeaseFits
<1>5. ScanIsNear'
  BY <1>1, <1>3, Sizes, Numbers DEF ScanIsNear, Fresh
<1>6. ScanFits'
  <2> DEFINE y == gap - StopDistance
             w == Forward(wheels)
             K == ScanTimeout + Timeout
  <2> SUFFICES ASSUME Fresh', NEW v \in Affordable'
               PROVE  IF governor_due THEN gap - w - v * (K + 1) >= Clearance
                                      ELSE gap - w - ToCome - v * K >= Clearance
    BY <1>1, <1>2, Sizes DEF ScanFits
  <2>1. v \in Int /\ v >= 1 /\ v <= MaxSpeed
    BY Sizes DEF Affordable
  <2>2. v * ZonePeriods <= y
    <3>1. v * ZonePeriods <= min_range' - StopDistance /\ min_range' \in Nat /\ min_range' <= gap
      BY <1>3 DEF Affordable, Fresh
    <3> DEFINE vP == v * ZonePeriods
    <3>2. vP \in Int
      BY <2>1, Sizes
    <3> HIDE DEF vP
    <3> QED BY <3>1, <3>2, Sizes, Numbers DEF vP
  <2>3. /\ y \in Int /\ w \in Int /\ w >= 0 /\ K \in Int /\ K >= 1
        /\ ZonePeriods >= K + 2
    BY Sizes, Numbers DEF Forward
  <2>4. w * ZonePeriods <= y + (K + 1) * MaxSpeed
    <3>1. CASE wheels > 0
      BY <3>1, Sizes, Numbers DEF ClearanceInv, WheelsWerePaid, Forward
    <3>2. CASE ~(wheels > 0)
      <4>1. w * ZonePeriods = 0 /\ (K + 1) * MaxSpeed >= 0
        BY <3>2, Sizes DEF Forward
      <4>2. v * ZonePeriods >= 0
        BY <2>1, Sizes
      <4>3. (K + 1) * MaxSpeed \in Int /\ v * ZonePeriods \in Int
        BY <2>1, Sizes
      <4> HIDE DEF y, w, K
      <4> QED BY <2>2, <2>3, <4>1, <4>2, <4>3
    <3> QED BY <3>1, <3>2
  <2>5. StopDistance + y - w - v * (K + 1) >= Clearance
    <3> HIDE DEF y, w, K
    <3>1. (StopDistance - Clearance) * ZonePeriods >= 2 * K * MaxSpeed
      BY Sizes DEF K
    <3> QED BY <2>1, <2>2, <2>3, <2>4, <3>1, Sizes, RoomForOne
  <2>6. StopDistance + y = gap
    BY Sizes, Numbers
  <2>7. CASE governor_due
    <3> HIDE DEF y, w, K
    <3>1. gap - w - v * (K + 1) >= Clearance
      BY <2>1, <2>3, <2>5, <2>6, Numbers, Sizes
    <3> QED BY <2>7, <3>1
  <2>8. CASE ~governor_due /\ ToCome = 0
    <3>1. v * (K + 1) = v * K + v /\ v * K \in Int
      BY <2>1, <2>3
    <3>2. v * (K + 1) \in Int /\ gap \in Int /\ Clearance \in Int
      BY <2>1, <2>3, Numbers, Sizes
    <3> HIDE DEF y, w, K
    <3> DEFINE vK == v * K
    <3>3. gap - w - 0 - vK >= Clearance
      <4>1. vK \in Int /\ v * (K + 1) = vK + v
        BY <3>1
      <4> HIDE DEF vK
      <4> QED BY <2>1, <2>3, <2>5, <2>6, <3>2, <4>1, Sizes
    <3> QED BY <2>8, <3>3
  <2>9. CASE ~governor_due /\ ToCome # 0
    <3> DEFINE n == latched.vx
    <3>1. /\ Moving /\ age \in Nat /\ age <= Timeout
          /\ n \in Int /\ n > 0 /\ ToCome = n
      BY <2>9, Numbers DEF ToCome, Forward
    <3>2. n * ZonePeriods <= y + (ScanTimeout + age) * MaxSpeed
      BY <3>1 DEF ClearanceInv, CommandWasPaid
    <3> DEFINE M == MaxSpeed
               sM == ScanTimeout * M   tM == Timeout * M   aM == age * M
    <3>3. /\ (ScanTimeout + age) * M = sM + aM
          /\ (K + 1) * M = sM + tM + M
          /\ 2 * K * M = 2 * sM + 2 * tM
          /\ sM \in Int /\ tM \in Int /\ aM \in Int /\ M \in Int
          /\ sM >= 0 /\ tM >= 0 /\ aM <= tM /\ M <= tM
      BY <3>1, Sizes
    <3> DEFINE wP == w * ZonePeriods   nP == n * ZonePeriods
    <3>4. wP \in Int /\ nP \in Int
      BY <2>3, <3>1, Sizes
    <3>5. wP + nP <= 2 * y + 2 * K * M
      <4>1. CASE age = 0
        <5>1. aM = 0
          BY <4>1, Sizes
        <5> HIDE DEF y, w, K, n, M, sM, tM, aM, wP, nP
        <5> QED BY <2>3, <2>4, <3>2, <3>3, <3>4, <5>1 DEF wP, nP, M
      <4>2. CASE age >= 1 /\ wheels > 0
        <5>1. wP <= y + (ScanTimeout + age) * M
          BY <3>1, <4>2 DEF ClearanceInv, WheelsWerePaid, Forward
        <5> HIDE DEF y, w, K, n, M, sM, tM, aM, wP, nP
        <5> QED BY <2>3, <3>2, <3>3, <3>4, <5>1 DEF nP, M
      <4>3. CASE age >= 1 /\ ~(wheels > 0)
        <5>1. wP = 0 /\ v * ZonePeriods >= 0 /\ v * ZonePeriods \in Int
          BY <2>1, <4>3, Sizes DEF Forward
        <5> DEFINE vP == v * ZonePeriods
        <5>2. vP >= 0 /\ vP \in Int /\ vP <= y
          BY <2>2, <5>1
        <5> HIDE DEF y, w, K, n, M, sM, tM, aM, wP, nP, vP
        <5> QED BY <2>3, <3>2, <3>3, <3>4, <5>1, <5>2 DEF nP, M
      <4> QED BY <3>1, <4>1, <4>2, <4>3
    <3>6. StopDistance + y - w - n - v * K >= Clearance
      <4>1. (StopDistance - Clearance) * ZonePeriods >= 2 * K * MaxSpeed
        BY Sizes
      <4> HIDE DEF y, w, K, n
      <4> QED BY <2>1, <2>2, <2>3, <3>1, <3>5, <4>1, Sizes, RoomForTwo
    <3>7. ToCome = n /\ ~governor_due
      BY <2>9, <3>1
    <3> HIDE DEF y, w, K, n
    <3>8. gap - w - n - v * K >= Clearance
      <4> DEFINE vK == v * K
      <4>1. vK \in Int
        BY <2>1, <2>3
      <4>2. StopDistance + y - w - n - vK >= Clearance
        BY <3>6
      <4> HIDE DEF vK
      <4>3. gap - w - n - vK >= Clearance
        BY <2>3, <2>6, <3>1, <4>1, <4>2, Sizes
      <4> QED BY <4>3 DEF vK
    <3> QED BY <3>7, <3>8
  <2> QED BY <2>7, <2>8, <2>9
<1> QED BY <1>4, <1>5, <1>6 DEF ClearanceInv

LEMMA TimerKeeps ==
  ASSUME Inv, IsSized, ClearanceInv, GovernorTimer
  PROVE  ClearanceInv'
<1> DEFINE o    == GovernorOutput.vx
           room == gap - Forward(wheels)
           rest == ScanTimeout - scan_age + Timeout
<1>1. /\ governor_alive /\ governor_due /\ ~governor_due'
      /\ UNCHANGED <<gap, wheels, min_range, scan_age, governor_alive>>
      /\ latched' = GovernorOutput /\ age' = 0
  BY DEF GovernorTimer, GovernorTick, OnCmd, alive_vars
<1>2. Fresh' = Fresh /\ Affordable' = Affordable /\ room' = room /\ room \in Int
  BY <1>1, Numbers DEF Fresh, Affordable, Forward
<1>3. o \in Int
  BY OutputIsMotion DEF Inv, TypeOK, Motion
<1>4. o > 0 => Fresh /\ o \in Affordable
  BY SpeedIsAffordable
<1>5. Fresh => rest \in Nat /\ rest >= Timeout
  BY Numbers, Sizes
<1>6. ASSUME Fresh, NEW v \in Affordable
      PROVE  v \in Nat /\ room - v * (rest + 1) >= Clearance
  BY <1>1, <1>6, Sizes DEF ClearanceInv, ScanFits, Affordable
<1>7. room >= Clearance
  BY DEF ClearanceInv, LeaseFits
<1>8. DeadIsBlank' /\ ScanIsNear'
  BY <1>1, <1>2 DEF ClearanceInv, DeadIsBlank, ScanIsNear
<1>9. CommandWasPaid'
  <2> SUFFICES ASSUME o > 0
               PROVE  o * ZonePeriods <= gap - StopDistance + ScanTimeout * MaxSpeed
    BY <1>1, Sizes DEF CommandWasPaid
  <2> DEFINE oP == o * ZonePeriods   sM == ScanTimeout * MaxSpeed
             now == scan_age * MaxSpeed
  <2>1. oP <= min_range - StopDistance /\ min_range <= gap + now
    BY <1>4 DEF Affordable, ClearanceInv, ScanIsNear
  <2>2. /\ oP \in Int /\ sM \in Int /\ now \in Int /\ now <= sM
        /\ gap \in Int /\ min_range \in Int /\ StopDistance \in Int
    BY <1>3, <1>4, Sizes, Numbers
  <2> HIDE DEF oP, sM, now
  <2>3. oP <= gap - StopDistance + sM
    BY <2>1, <2>2
  <2> QED BY <2>3 DEF oP, sM
<1>10. WheelsWerePaid'
  BY <1>1 DEF ClearanceInv, WheelsWerePaid
<1>11. Forward(o) \in Nat /\ (o <= 0 => Forward(o) = 0) /\ (o > 0 => Forward(o) = o)
  BY <1>3 DEF Forward
<1>12. LeaseFits'
  <2> SUFFICES room - Forward(o) * (Timeout + 1) >= Clearance
    BY <1>1, <1>2, <1>7, Sizes DEF LeaseFits
  <2>1. CASE o <= 0
    <3>1. Forward(o) * (Timeout + 1) = 0
      BY <1>11, <2>1, Sizes
    <3> HIDE DEF room, o
    <3> QED BY <1>2, <1>7, <3>1
  <2>2. CASE o > 0
    <3>1. room - o * (rest + 1) >= Clearance /\ rest \in Nat /\ rest >= Timeout
      BY <1>4, <1>5, <1>6, <2>2
    <3> HIDE DEF room, o, rest
    <3>2. o * (Timeout + 1) <= o * (rest + 1)
      BY <1>3, <2>2, <3>1, Sizes
    <3> DEFINE a == o * (Timeout + 1)   b == o * (rest + 1)
    <3>3. a \in Int /\ b \in Int /\ a <= b /\ room - b >= Clearance
      BY <1>3, <3>1, <3>2, Sizes
    <3> HIDE DEF a, b
    <3>4. room - a >= Clearance
      BY <1>2, <3>3, Sizes
    <3> QED BY <1>11, <2>2, <3>4 DEF a
  <2> QED BY <1>3, <2>1, <2>2
<1>13. ScanFits'
  <2> SUFFICES ASSUME Fresh, NEW v \in Affordable
               PROVE  room - ToCome' - v * rest >= Clearance
    BY <1>1, <1>2 DEF ScanFits
  <2>1. ToCome' \in Nat /\ ToCome' <= Forward(o)
    BY <1>1, <1>11 DEF ToCome
  <2>2. PICK m \in Affordable : m >= v /\ Forward(o) <= m
    <3>1. v \in Int
      BY DEF Affordable
    <3>2. CASE o > v
      BY <1>3, <1>4, <1>11, <3>1, <3>2, Sizes DEF Affordable
    <3>3. CASE ~(o > v)
      BY <1>3, <1>11, <3>1, <3>3, Sizes DEF Affordable
    <3> QED BY <3>2, <3>3
  <2>3. room - m * (rest + 1) >= Clearance /\ rest \in Nat /\ m \in Nat /\ v \in Nat
    BY <1>5, <1>6
  <2> HIDE DEF room, o, rest
  <2> DEFINE mr == m * rest   vr == v * rest
  <2>4. mr \in Int /\ vr \in Int /\ vr <= mr /\ m * (rest + 1) = mr + m
    BY <2>2, <2>3
  <2> HIDE DEF mr, vr
  <2>5. room - ToCome' - vr >= Clearance
    BY <1>2, <1>11, <2>1, <2>2, <2>3, <2>4, Sizes
  <2> QED BY <2>5 DEF vr
<1> QED BY <1>8, <1>9, <1>10, <1>12, <1>13 DEF ClearanceInv

\* The command in force may be taken away, and its age forgotten with it.
LEMMA StoppingKeeps ==
  ASSUME Inv, IsSized, ClearanceInv, ~Moving',
         UNCHANGED <<gap, wheels, min_range, scan_age, governor_due, governor_alive>>
  PROVE  ClearanceInv'
<1>1. Fresh' = Fresh /\ Affordable' = Affordable /\ ToCome' = 0
  BY DEF Fresh, Affordable, ToCome
<1>2. ToCome \in Nat
  BY Numbers DEF ToCome, Forward
<1>3. /\ DeadIsBlank' /\ ScanIsNear' /\ CommandWasPaid' /\ WheelsWerePaid' /\ LeaseFits'
  BY <1>1
  DEF ClearanceInv, DeadIsBlank, ScanIsNear, CommandWasPaid, WheelsWerePaid, LeaseFits
<1>4. ScanFits'
  <2> SUFFICES ASSUME Fresh, NEW v \in Affordable, ~governor_due
               PROVE  gap - Forward(wheels) - 0 - v * (ScanTimeout - scan_age + Timeout)
                        >= Clearance
    BY <1>1 DEF ClearanceInv, ScanFits
  <2> DEFINE room  == gap - Forward(wheels)
             spent == v * (ScanTimeout - scan_age + Timeout)
  <2>1. room - ToCome - spent >= Clearance
    BY DEF ClearanceInv, ScanFits
  <2>2. room \in Int /\ spent \in Int
    BY Numbers, Sizes DEF Forward, Affordable
  <2> HIDE DEF room, spent
  <2>3. room - 0 - spent >= Clearance
    BY <1>2, <2>1, <2>2, Sizes
  <2> QED BY <2>3 DEF room, spent
<1> QED BY <1>3, <1>4 DEF ClearanceInv

LEMMA DeadmanKeeps ==
  ASSUME Inv, IsSized, ClearanceInv, DeadmanTimer \/ Echo
  PROVE  ClearanceInv'
<1>1. UNCHANGED <<gap, wheels, min_range, scan_age, governor_due, governor_alive>>
  BY DEF DeadmanTimer, Echo, governor_vars, alive_vars
<1>2. CASE Echo
  <2>1. ~Moving'
    BY <1>2 DEF Inv, MoveIsHeard, Echo, Moving, is_moving_command
  <2> QED BY <1>1, <2>1, StoppingKeeps
<1>3. CASE DeadmanTimer /\ DeadmanPublishes
  <2>1. ~Moving'
    BY <1>3, ZeroIsStill DEF DeadmanTimer, Moving
  <2> QED BY <1>1, <2>1, StoppingKeeps
<1>4. CASE DeadmanTimer /\ ~DeadmanPublishes
  BY <1>1, <1>4, QuietKeeps DEF DeadmanTimer, DeadmanTick
<1> QED BY <1>2, <1>3, <1>4

\* A product with one factor more.
LEMMA OneMore ==
  ASSUME NEW k \in Int, NEW m \in Int
  PROVE  k * m \in Int /\ (k + 1) * m = k * m + m
OBVIOUS

\* A period takes one step off everything that is allowed for.
LEMMA PeriodKeeps ==
  ASSUME Inv, IsSized, ClearanceInv, Period
  PROVE  ClearanceInv'
<1> USE DeadmanAssumption, GovernorAssumption
<1> DEFINE n == latched.vx
<1>1. /\ ~deadman_due /\ (governor_alive => ~governor_due)
      /\ gap' = gap - wheels /\ wheels' = n
      /\ age' = Older(age, AgeCap)
      /\ UNCHANGED <<latched, governor_alive>>
      /\ IF governor_alive THEN GovernorElapse ELSE UNCHANGED governor_vars
  BY DEF Period, DeadmanElapse, alive_vars
<1>2. Moving' = Moving
  BY <1>1 DEF Moving, is_moving_command
<1>3. Moving => age \in Nat /\ age <= Timeout /\ age' = age + 1
  BY <1>1, Numbers, VelocityAssumption DEF Inv, MoveIsHeard, Older, AgeCap
<1>4. /\ gap \in Int /\ wheels \in Int /\ n \in Int /\ gap' \in Int
      /\ wheels <= MaxSpeed /\ n <= MaxSpeed /\ (~Moving => n = 0)
  BY <1>1, Numbers
<1>5. gap' >= gap - Forward(wheels) /\ gap' >= gap - MaxSpeed
  BY <1>1, <1>4, Sizes DEF Forward
<1>6. ToCome = Forward(n) /\ Forward(wheels') = Forward(n) /\ Forward(n) \in Nat
  BY <1>1, <1>3, <1>4 DEF ToCome, Forward
<1>7. Fresh' => /\ governor_alive /\ ~governor_due /\ governor_due'
                /\ Fresh /\ scan_age' = scan_age + 1 /\ min_range' = min_range
                /\ scan_age \in Nat /\ scan_age + 1 <= ScanTimeout
  <2> SUFFICES ASSUME Fresh'
               PROVE  /\ governor_alive /\ ~governor_due /\ governor_due'
                      /\ Fresh /\ scan_age' = scan_age + 1 /\ min_range' = min_range
                      /\ scan_age \in Nat /\ scan_age + 1 <= ScanTimeout
    OBVIOUS
  <2>1. governor_alive
    BY <1>1 DEF ClearanceInv, DeadIsBlank, governor_vars, Fresh
  <2>2. governor_due' /\ min_range' = min_range /\ scan_age' = Older(scan_age, ScanTimeout + 1)
    BY <1>1, <2>1 DEF GovernorElapse
  <2>3. scan_age \in Nat /\ scan_age' = scan_age + 1
    BY <2>2, VelocityAssumption DEF Inv, TypeOK, GovernorTypeOK, AgesUpTo, Fresh, Older
  <2> QED BY <1>1, <2>1, <2>2, <2>3, VelocityAssumption DEF Fresh
<1>8. DeadIsBlank'
  BY <1>1 DEF ClearanceInv, DeadIsBlank, governor_vars
<1>9. ScanIsNear'
  <2> SUFFICES ASSUME Fresh'
               PROVE  min_range <= gap' + (scan_age + 1) * MaxSpeed
    BY <1>7 DEF ScanIsNear
  <2> DEFINE covered == scan_age * MaxSpeed
  <2>1. min_range <= gap + covered /\ min_range \in Int
    BY <1>7, Numbers DEF ClearanceInv, ScanIsNear
  <2>2. covered \in Int /\ (scan_age + 1) * MaxSpeed = covered + MaxSpeed
    <3>1. scan_age \in Int /\ MaxSpeed \in Int
      BY <1>7, Sizes
    <3> QED BY <3>1, OneMore
  <2> HIDE DEF covered
  <2> QED BY <1>4, <1>5, <2>1, <2>2, Sizes
<1>10. ASSUME Moving, n > 0
       PROVE  n * ZonePeriods <= gap' - StopDistance + (ScanTimeout + age') * MaxSpeed
  <2> DEFINE nP == n * ZonePeriods   sofar == (ScanTimeout + age) * MaxSpeed
  <2>1. nP <= gap - StopDistance + sofar
    BY <1>10 DEF ClearanceInv, CommandWasPaid
  <2>2. /\ nP \in Int /\ sofar \in Int
        /\ (ScanTimeout + age') * MaxSpeed = sofar + MaxSpeed
    <3> DEFINE k == ScanTimeout + age
    <3>1. k \in Int /\ MaxSpeed \in Int /\ ScanTimeout + age' = k + 1
      BY <1>3, <1>10, Sizes
    <3>2. nP \in Int
      BY <1>4, Sizes
    <3> HIDE DEF k, nP
    <3>3. k * MaxSpeed \in Int /\ (k + 1) * MaxSpeed = k * MaxSpeed + MaxSpeed
      BY <3>1, OneMore
    <3> QED BY <3>1, <3>2, <3>3 DEF k
  <2> HIDE DEF nP, sofar, n
  <2>3. nP <= gap' - StopDistance + (sofar + MaxSpeed)
    BY <1>4, <1>5, <2>1, <2>2, Sizes
  <2> QED BY <2>2, <2>3 DEF nP
<1>11. CommandWasPaid'
  BY <1>1, <1>2, <1>10 DEF CommandWasPaid
<1>12. WheelsWerePaid'
  <2> SUFFICES ASSUME Moving, n > 0
               PROVE  n * ZonePeriods
                        <= gap' - StopDistance + (ScanTimeout + Timeout + 1) * MaxSpeed
    BY <1>1, <1>2, <1>4, <1>10 DEF WheelsWerePaid
  <2> DEFINE nP == n * ZonePeriods
             a  == (ScanTimeout + age') * MaxSpeed
             b  == (ScanTimeout + Timeout + 1) * MaxSpeed
  <2>1. nP <= gap' - StopDistance + a
    BY <1>10
  <2>2. nP \in Int /\ a \in Int /\ b \in Int /\ a <= b
    BY <1>3, <1>4, Sizes
  <2> HIDE DEF nP, a, b
  <2>3. nP <= gap' - StopDistance + b
    BY <1>4, <2>1, <2>2, Sizes
  <2> QED BY <2>3 DEF nP, b
<1>13. LeaseFits'
  <2> DEFINE f == Forward(n)
  <2>1. CASE ~Moving
    <3>1. f = 0
      BY <1>4, <2>1 DEF Forward
    <3>2. gap' - f >= Clearance
      BY <1>4, <1>5, <3>1, Sizes DEF ClearanceInv, LeaseFits, Forward
    <3> QED BY <1>2, <1>6, <2>1, <3>2 DEF LeaseFits
  <2>2. CASE Moving
    <3> DEFINE more == f * (Timeout - age)
    <3>1. gap - Forward(wheels) - f * (Timeout + 1 - age) >= Clearance
      BY <2>2 DEF ClearanceInv, LeaseFits
    <3>2. more \in Int /\ more >= 0 /\ f * (Timeout + 1 - age) = more + f
      BY <1>3, <1>6, <2>2
    <3>3. f * (Timeout + 1 - age') = more
      BY <1>3, <2>2
    <3>4. Forward(wheels) \in Int /\ f \in Int
      BY <1>4, <1>6 DEF Forward
    <3> HIDE DEF more, f
    <3>5. gap' - f >= Clearance /\ gap' - f - more >= Clearance
      BY <1>4, <1>5, <3>1, <3>2, <3>4, Sizes
    <3> QED BY <1>1, <1>6, <3>3, <3>5 DEF LeaseFits, f
  <2> QED BY <2>1, <2>2
<1>14. ScanFits'
  <2> SUFFICES ASSUME Fresh', NEW v \in Affordable'
               PROVE  gap' - Forward(n) - v * (ScanTimeout - (scan_age + 1) + Timeout + 1)
                        >= Clearance
    BY <1>6, <1>7 DEF ScanFits
  <2> DEFINE spent == v * (ScanTimeout - scan_age + Timeout)
             f     == Forward(n)
  <2>1. v \in Affordable /\ v \in Nat
    BY <1>7, Sizes DEF Affordable
  <2>2. gap - Forward(wheels) - f - spent >= Clearance
    BY <1>6, <1>7, <2>1 DEF ClearanceInv, ScanFits
  <2>3. /\ spent \in Int /\ f \in Int /\ Forward(wheels) \in Int
        /\ v * (ScanTimeout - (scan_age + 1) + Timeout + 1) = spent
    BY <1>4, <1>6, <1>7, <2>1, Sizes DEF Forward
  <2> HIDE DEF spent, f
  <2>4. gap' - f - spent >= Clearance
    BY <1>4, <1>5, <2>2, <2>3, Sizes
  <2> QED BY <2>3, <2>4 DEF f
<1> QED BY <1>8, <1>9, <1>11, <1>12, <1>13, <1>14 DEF ClearanceInv

LEMMA ClearanceInit == IsSized /\ Init => ClearanceInv
<1> SUFFICES ASSUME IsSized, Init
             PROVE  ClearanceInv
  OBVIOUS
<1>1. /\ gap >= Clearance /\ gap \in Int /\ wheels = 0 /\ scan_age = None /\ ~governor_due
  BY ApproachAssumption DEF Init, GovernorInit
<1>2. ~Moving /\ ~Fresh
  BY <1>1, ZeroIsStill DEF Init, Moving, Fresh
<1> QED
  BY <1>1, <1>2, Sizes
  DEF ClearanceInv, DeadIsBlank, ScanIsNear, CommandWasPaid, WheelsWerePaid, LeaseFits,
      ScanFits, Forward

LEMMA ClearanceNext == Inv /\ IsSized /\ ClearanceInv /\ [Next]_approach_vars => ClearanceInv'
<1> SUFFICES ASSUME Inv, IsSized, ClearanceInv, [Next]_approach_vars
             PROVE  ClearanceInv'
  OBVIOUS
<1>1. CASE Scan
  BY <1>1, ScanKeeps
<1>2. CASE GovernorTimer
  BY <1>2, TimerKeeps
<1>3. CASE DeadmanTimer \/ Echo
  BY <1>3, DeadmanKeeps
<1>4. CASE GovernorDies
  BY <1>4, DeathKeeps
<1>5. CASE Period
  BY <1>5, PeriodKeeps
<1>6. CASE (\E r \in Requests : Request(r)) \/ GovernorStarts \/ LidarDies
  BY <1>6, QuietKeeps
  DEF Request, OnRequest, GovernorStarts, LidarDies, deadman_vars, governor_vars, alive_vars
<1>7. CASE UNCHANGED approach_vars
  BY <1>7, QuietKeeps DEF approach_vars, deadman_vars, governor_vars, alive_vars
<1> QED BY <1>1, <1>2, <1>3, <1>4, <1>5, <1>6, <1>7 DEF Next

(* Whatever the thresholds are that IsSized lets pass: however often the   *)
(* governor and the lidar fail, and whatever the driver asks for, the car  *)
(* keeps its clearance.                                                    *)
THEOREM ClearanceKept == IsSized /\ Spec => []KeepsClearance
<1>1. IsSized /\ Inv /\ ClearanceInv => KeepsClearance
  BY Numbers, Sizes DEF ClearanceInv, LeaseFits, KeepsClearance, Forward
<1>2. ASSUME IsSized
      PROVE  Spec => []KeepsClearance
  <2>1. Init => ClearanceInv
    BY <1>2, ClearanceInit
  <2>2. Inv /\ ClearanceInv /\ [Next]_approach_vars => ClearanceInv'
    BY <1>2, ClearanceNext
  <2>3. Inv /\ ClearanceInv => KeepsClearance
    BY <1>1, <1>2
  <2> QED BY <2>1, <2>2, <2>3, Invariance, PTL DEF Spec
<1> QED BY <1>2
=============================================================================
