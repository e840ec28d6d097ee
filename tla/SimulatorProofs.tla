-------------------------- MODULE SimulatorProofs --------------------------
(***************************************************************************)
(* Of the parts that stand in for the car, of what reads what it says, and *)
(* of the tools that drive it once the guard lets them, for every value of *)
(* the constants: commands take effect in time, the twin's wheels stop     *)
(* with the odometry, a second bridge is noticed, laser odometry counts no *)
(* motion twice; a car that answers during the dwell is not driven, and    *)
(* what was driven is left stopped.                                        *)
(***************************************************************************)
EXTENDS MCSimulator, Driving, FiniteSetTheorems, SequenceTheorems, TLAPS

RobotSpec  == RobotInit /\ [][RobotNext]_robot_vars
BridgeSpec == BridgeInit /\ [][BridgeNext]_bridge_vars
LaserSpec  == LaserInit /\ [][LaserNext]_laser_vars
RelaySpec  == RelayInit /\ [][RelayNext]_relay_vars
-----------------------------------------------------------------------------
(* Laser odometry. *)

LaserInv == /\ prev_xy = NoScan <=> first = NoScan
            /\ prev_xy # NoScan => prev_xy \in Int /\ first \in Int
            /\ pose \in Int /\ dropped \in Int
            /\ prev_xy = NoScan => pose = 0 /\ dropped = 0
            /\ ~publish_degenerate /\ prev_xy # NoScan => pose + dropped = prev_xy - first

LEMMA MatchLaser ==
  ASSUME LaserInv, NEW at \in Places, NEW r \in Answers, MatchScan(at, r)
  PROVE  LaserInv'
<1>1. /\ at \in Int /\ NoScan \notin Int
      /\ prev_xy \in Int /\ first \in Int /\ pose \in Int /\ dropped \in Int
      /\ prev_xy # NoScan /\ first # NoScan /\ at - prev_xy \in Int
  BY LaserAssumption DEF LaserInv, MatchScan
<1>2. prev_xy' = at /\ first' = first /\ publish_degenerate' = publish_degenerate
  BY DEF MatchScan, Kept
<1>3. CASE Used(r)
  <2>1. PICK step \in Steps(r, at) : pose' = pose + step /\ dropped' = dropped
    BY <1>3 DEF MatchScan
  <2>2. step \in Int /\ (~publish_degenerate => step = at - prev_xy)
    BY <1>1, <1>3, <2>1 DEF Steps, Used
  <2>3. pose + step \in Int
    BY <1>1, <2>2
  <2>4. ~publish_degenerate => (pose + step) + dropped = at - first
    BY <1>1, <2>2 DEF LaserInv
  <2> QED BY <1>1, <1>2, <2>1, <2>3, <2>4 DEF LaserInv
<1>4. CASE ~Used(r)
  <2>1. pose' = pose /\ dropped' = dropped + (at - prev_xy)
    BY <1>4 DEF MatchScan
  <2>2. dropped + (at - prev_xy) \in Int
    BY <1>1
  <2>3. ~publish_degenerate => pose + (dropped + (at - prev_xy)) = at - first
    BY <1>1 DEF LaserInv
  <2> QED BY <1>1, <1>2, <2>1, <2>2, <2>3 DEF LaserInv
<1> QED BY <1>3, <1>4

LEMMA LaserInductive == LaserInv /\ [LaserNext]_laser_vars => LaserInv'
<1> SUFFICES ASSUME LaserInv, [LaserNext]_laser_vars
             PROVE  LaserInv'
  OBVIOUS
<1>1. CASE TransformAppears
  BY <1>1 DEF LaserInv, TransformAppears
<1>2. ASSUME NEW at \in Places, FirstScan(at)
      PROVE  LaserInv'
  <2>1. at \in Int /\ NoScan \notin Int /\ 0 + 0 = at - at
    BY LaserAssumption
  <2> QED BY <1>2, <2>1 DEF LaserInv, FirstScan
<1>3. CASE UNCHANGED laser_vars
  BY <1>3 DEF LaserInv, laser_vars
<1> QED BY <1>1, <1>2, <1>3, MatchLaser DEF LaserNext

(* The pose is the motion since the first scan less that between scans     *)
(* whose match was not used, wherever the robot goes and whatever the      *)
(* matcher answers (LaserOdometryNode._on_scan).                           *)
THEOREM PoseMatched == LaserSpec => []PoseIsTheMatchedMotion
<1>1. LaserInit => LaserInv
  BY DEF LaserInit, LaserInv
<1>2. LaserInv => PoseIsTheMatchedMotion
  BY DEF LaserInv, PoseIsTheMatchedMotion
<1> QED BY <1>1, <1>2, LaserInductive, PTL DEF LaserSpec
-----------------------------------------------------------------------------
(* The check for a second bridge.  A process that has been cleared misses  *)
(* those that came up since it began to look, and no others.               *)

Up == {b \in Bridges : phase[b] = "up"}

SoleInv ==
  /\ phase \in [Bridges -> {"absent", "looking", "cleared", "refused", "up"}]
  /\ missed \in [Bridges -> SUBSET Bridges]
  /\ ~override =>
       \A b \in Bridges, o \in Up : b # o =>
         /\ phase[b] = "cleared" => o \in missed[b]
         /\ phase[b] = "up" => b \in missed[o] \/ o \in missed[b]

LEMMA SoleInductive == SoleInv /\ [BridgeNext]_bridge_vars => SoleInv'
<1> SUFFICES ASSUME SoleInv, [BridgeNext]_bridge_vars
             PROVE  SoleInv'
  OBVIOUS
<1>1. ASSUME NEW b \in Bridges, Start(b)
      PROVE  SoleInv'
  BY <1>1 DEF SoleInv, Start, Up
<1>2. ASSUME NEW b \in Bridges, assert_sole_publisher(b)
      PROVE  SoleInv'
  <2>1. PICK n \in count_other_publishers(b) :
          phase' = [phase EXCEPT ![b] = IF override \/ n = 0 THEN "cleared" ELSE "refused"]
    BY <1>2 DEF assert_sole_publisher
  <2>2. PICK unseen \in SUBSET missed[b] :
          n = Cardinality({o \in Bridges \ {b} : phase[o] = "up"} \ unseen)
    BY <2>1 DEF count_other_publishers
  <2>3. ASSUME n = 0
        PROVE  \A o \in Up \ {b} : o \in missed[b]
    <3>1. IsFiniteSet({o \in Bridges \ {b} : phase[o] = "up"} \ unseen)
      BY BridgeAssumption, FS_Subset
    <3>2. {o \in Bridges \ {b} : phase[o] = "up"} \ unseen = {}
      BY <2>2, <2>3, <3>1, FS_EmptySet
    <3> QED BY <2>2, <3>2 DEF Up
  <2>4. UNCHANGED <<override, missed>> /\ phase[b] = "looking" /\ Up' = Up
    BY <1>2, <2>1 DEF assert_sole_publisher, Up, SoleInv
  <2> QED BY <2>1, <2>3, <2>4 DEF SoleInv, Up
<1>3. ASSUME NEW b \in Bridges, CreatePublisher(b)
      PROVE  SoleInv'
  BY <1>3 DEF SoleInv, CreatePublisher, Up
<1>4. ASSUME NEW b \in Bridges, Stop(b)
      PROVE  SoleInv'
  BY <1>4 DEF SoleInv, Stop, Up
<1>5. ASSUME UNCHANGED <<override, phase, missed>>
      PROVE  SoleInv'
  BY <1>5 DEF SoleInv, Up
<1>6. ASSUME NEW vx \in Rates, NEW wz \in Rates, OnOdom(vx, wz)
      PROVE  SoleInv'
  BY <1>5, <1>6 DEF OnOdom
<1>7. CASE Elapse \/ TickBridge
  BY <1>5, <1>7 DEF Elapse, TickBridge
<1>8. CASE UNCHANGED bridge_vars
  BY <1>5, <1>8 DEF bridge_vars
<1> QED BY <1>1, <1>2, <1>3, <1>4, <1>6, <1>7, <1>8 DEF BridgeNext

(* For any number of processes: two bridges publish side by side only if   *)
(* they were told to, or one came up while the other was looking           *)
(* (single_instance.assert_sole_publisher).                                *)
THEOREM SoleBridge == BridgeSpec => []SoleUnlessTogether
<1>1. BridgeInit => SoleInv
  BY DEF BridgeInit, SoleInv, Up
<1>2. SoleInv => SoleUnlessTogether
  BY DEF SoleInv, SoleUnlessTogether, Up
<1> QED BY <1>1, <1>2, SoleInductive, PTL DEF BridgeSpec
-----------------------------------------------------------------------------
(* The wheels.  As long as odometry is fresh they have turned by no more   *)
(* than the full rate over its age and what ran before it, less the time   *)
(* that the next tick has still to integrate; from then on they stand.     *)

WheelInv == /\ twist \in [vx : Rates, wz : Rates]
            /\ age \in -1 .. OdomTimeout + 1
            /\ since \in Nat /\ before \in Nat /\ overrun \in Nat
            /\ age = -1 => overrun = 0
            /\ age \in 0 .. OdomTimeout =>
                 /\ since <= age + before
                 /\ overrun <= 2 * MaxRate * ((age + before) - since)
            /\ overrun <= 2 * MaxRate * (OdomTimeout + before)

LEMMA FullRate ==
  ASSUME NEW rate \in Int, NEW dt \in Nat, rate <= 2 * MaxRate, rate >= 0
  PROVE  rate * dt \in Nat /\ rate * dt <= 2 * MaxRate * dt
<1>1. 2 * MaxRate \in Nat
  BY BridgeAssumption
<1> QED BY <1>1

\* A process that has just started.
LEMMA WheelsStart ==
  /\ Resting \in [vx : Rates, wz : Rates]
  /\ -1 \in -1 .. OdomTimeout + 1 /\ -1 \notin 0 .. OdomTimeout
  /\ 0 <= 2 * MaxRate * (OdomTimeout + 0)
<1>1. /\ MaxRate \in Nat /\ OdomTimeout \in Nat /\ 2 * MaxRate \in Nat
      /\ OdomTimeout + 0 \in Nat
  BY BridgeAssumption
<1>2. 0 \in Rates
  BY <1>1 DEF Rates
<1> QED BY <1>1, <1>2 DEF Resting

LEMMA FullAge ==
  ASSUME NEW a \in Nat, NEW b \in Nat, a <= b
  PROVE  2 * MaxRate * a <= 2 * MaxRate * b
<1>1. 2 * MaxRate \in Nat
  BY BridgeAssumption
<1> QED BY <1>1

LEMMA FreshTick ==
  ASSUME NEW o \in Nat, NEW a \in Nat, NEW dt \in Nat, NEW rate \in Int,
         o <= 2 * MaxRate * a, 0 <= rate, rate <= 2 * MaxRate
  PROVE  /\ o + rate * dt \in Nat
         /\ o + rate * dt <= 2 * MaxRate * (a + dt)
<1>1. rate * dt \in Nat /\ rate * dt <= 2 * MaxRate * dt
  BY FullRate
<1>2. 2 * MaxRate * (a + dt) = 2 * MaxRate * a + 2 * MaxRate * dt
  BY BridgeAssumption
<1>3. 2 * MaxRate * a \in Nat /\ 2 * MaxRate * dt \in Nat
  BY BridgeAssumption
<1> QED BY <1>1, <1>2, <1>3

LEMMA RateOfWheel ==
  ASSUME NEW vx \in Rates, NEW wz \in Rates
  PROVE  /\ Magnitude(vx - wz) \in Int
         /\ 0 <= Magnitude(vx - wz) /\ Magnitude(vx - wz) <= 2 * MaxRate
  BY BridgeAssumption DEF Rates, Magnitude

LEMMA TickWheels ==
  ASSUME WheelInv, TickBridge
  PROVE  WheelInv'
<1>1. /\ since \in Nat /\ OdomTimeout \in Nat /\ MaxRate \in Nat /\ before \in Nat
      /\ age \in -1 .. OdomTimeout + 1 /\ age \in Int /\ overrun \in Nat
  BY BridgeAssumption DEF WheelInv
<1>2. 0 \in Rates /\ Resting \in [vx : Rates, wz : Rates]
  BY <1>1 DEF Rates, Resting
<1> DEFINE stale == age \in {-1, OdomTimeout + 1}
<1>3. /\ age' = age /\ before' = before /\ since' = 0
      /\ twist' = IF stale THEN Resting ELSE twist
      /\ overrun' = overrun + Magnitude(twist'.vx - twist'.wz) * since
  BY DEF TickBridge, Hold, wheel_rates
<1>4. CASE stale
  <2>1. Magnitude(0 - 0) * since = 0 /\ overrun + 0 = overrun
    BY <1>1 DEF Magnitude
  <2>2. overrun' = overrun /\ twist' = Resting
    BY <1>3, <1>4, <2>1 DEF Resting
  <2>3. age \notin 0 .. OdomTimeout
    BY <1>1, <1>4
  <2> QED BY <1>1, <1>2, <1>3, <2>2, <2>3 DEF WheelInv
<1>5. CASE ~stale
  <2>1. age \in 0 .. OdomTimeout /\ age \in Nat /\ age # -1
    BY <1>1, <1>5
  <2> DEFINE spent == (age + before) - since
  <2>2. spent \in Nat /\ overrun <= 2 * MaxRate * spent /\ spent + since = age + before
    BY <1>1, <2>1 DEF WheelInv
  <2> HIDE DEF spent
  <2>3. twist.vx \in Rates /\ twist.wz \in Rates
    BY DEF WheelInv
  <2>4. twist' = twist /\ overrun' = overrun + Magnitude(twist.vx - twist.wz) * since
    BY <1>3, <1>5
  <2>5. overrun' \in Nat /\ overrun' <= 2 * MaxRate * (age + before)
    BY <1>1, <2>2, <2>3, <2>4, FreshTick, RateOfWheel
  <2>6. 2 * MaxRate * (age + before) <= 2 * MaxRate * (OdomTimeout + before)
    BY <1>1, <2>1, FullAge
  <2>7. /\ 2 * MaxRate * (age + before) \in Int
        /\ 2 * MaxRate * (OdomTimeout + before) \in Int
    BY <1>1, <2>1
  <2>8. overrun' <= 2 * MaxRate * (OdomTimeout + before)
    BY <2>5, <2>6, <2>7
  <2>9. (age + before) - 0 = age + before /\ 0 <= age + before
    BY <1>1, <2>1
  <2> QED BY <1>1, <1>3, <2>1, <2>4, <2>5, <2>8, <2>9 DEF WheelInv
<1> QED BY <1>4, <1>5

\* Time that passes adds to the age of the odometry as to what is to be integrated.
LEMMA ElapseWheels ==
  ASSUME WheelInv, Elapse
  PROVE  WheelInv'
<1>1. /\ since \in Nat /\ OdomTimeout \in Nat /\ before \in Nat
      /\ age \in -1 .. OdomTimeout + 1 /\ age \in Int
  BY BridgeAssumption DEF WheelInv
<1>2. /\ since' = since + 1 /\ UNCHANGED <<twist, overrun, before>>
      /\ age' = IF age \in {-1, OdomTimeout + 1} THEN age ELSE age + 1
  BY DEF Elapse
<1>3. CASE age \in {-1, OdomTimeout + 1}
  <2>1. age' = age /\ age \notin 0 .. OdomTimeout
    BY <1>1, <1>2, <1>3
  <2> QED BY <1>1, <1>2, <2>1 DEF WheelInv
<1>4. CASE age \notin {-1, OdomTimeout + 1}
  <2>1. /\ age \in 0 .. OdomTimeout /\ age' = age + 1 /\ age' # -1
        /\ age' \in -1 .. OdomTimeout + 1
    BY <1>1, <1>2, <1>4
  <2>2. /\ since + 1 <= (age + 1) + before
        /\ ((age + 1) + before) - (since + 1) = (age + before) - since
    BY <1>1, <2>1 DEF WheelInv
  <2> QED BY <1>1, <1>2, <2>1, <2>2 DEF WheelInv
<1> QED BY <1>3, <1>4

LEMMA WheelInductive == WheelInv /\ [BridgeNext]_bridge_vars => WheelInv'
<1> SUFFICES ASSUME WheelInv, [BridgeNext]_bridge_vars
             PROVE  WheelInv'
  OBVIOUS
<1>1. ASSUME UNCHANGED wheel_vars
      PROVE  WheelInv'
  BY <1>1 DEF WheelInv, wheel_vars
<1>2. ASSUME twist' = Resting, since' = 0, age' = -1, overrun' = 0, before' = 0
      PROVE  WheelInv'
  BY <1>2, WheelsStart DEF WheelInv
<1>3. ASSUME NEW b \in Bridges,
             Start(b) \/ assert_sole_publisher(b) \/ CreatePublisher(b) \/ Stop(b)
      PROVE  WheelInv'
  BY <1>1, <1>2, <1>3 DEF Start, assert_sole_publisher, CreatePublisher, Stop
<1>4. ASSUME NEW vx \in Rates, NEW wz \in Rates, OnOdom(vx, wz)
      PROVE  WheelInv'
  <2>1. /\ age' = 0 /\ overrun' = 0 /\ twist' = [vx |-> vx, wz |-> wz]
        /\ before' = since /\ since' = since /\ since \in Nat
    BY <1>4 DEF OnOdom, WheelInv
  <2>2. 0 \in -1 .. OdomTimeout + 1 /\ 0 # -1
    BY BridgeAssumption
  <2>3. /\ since <= 0 + since
        /\ 0 <= 2 * MaxRate * ((0 + since) - since)
        /\ 0 <= 2 * MaxRate * (OdomTimeout + since)
    <3>1. (0 + since) - since = 0 /\ OdomTimeout + since \in Nat /\ 2 * MaxRate \in Nat
      BY <2>1, BridgeAssumption
    <3> QED BY <2>1, <3>1
  <2> QED BY <2>1, <2>2, <2>3 DEF WheelInv
<1>5. CASE UNCHANGED bridge_vars
  BY <1>1, <1>5 DEF bridge_vars, wheel_vars
<1> QED BY <1>3, <1>4, <1>5, ElapseWheels, TickWheels DEF BridgeNext

(* For every rate, timeout and gap of the ticks the wheels of the twin     *)
(* turn on, after the last odometry, for no longer than it stays fresh and *)
(* what had run since the last tick when it came (JointStateBridge._tick). *)
THEOREM WheelsFollow == BridgeSpec => []WheelsFollowOdometry
<1>1. BridgeInit => WheelInv
  BY WheelsStart DEF BridgeInit, WheelInv
<1>2. WheelInv => WheelsFollowOdometry
  BY DEF WheelInv, WheelsFollowOdometry
<1> QED BY <1>1, <1>2, WheelInductive, PTL DEF BridgeSpec
-----------------------------------------------------------------------------
(* The 2D simulator.  Every tick after the command changed takes one off   *)
(* the dead time and the distance to the command, together.                *)

\* How far a speed is from a command.
Between(v, c) == IF v >= c THEN v - c ELSE c - v

RobotInv == /\ decel \in {0, 1}
            /\ cmd \in Speeds /\ exec_vx \in Speeds
            /\ pending \in 0 .. DeadTime
            /\ steady \in 0 .. Settling
            /\ decel = 0 /\ steady > 0 => exec_vx = cmd
            /\ decel = 1 /\ steady > 0 => cmd_vx = cmd
            /\ decel = 1 /\ cmd_vx = cmd =>
                 pending + Between(exec_vx, cmd) <= Settling - steady

LEMMA SpeedsAreInt ==
  /\ MaxSpeed \in Nat /\ DeadTime \in Nat /\ Settling \in Nat
  /\ Settling = DeadTime + 2 * MaxSpeed /\ Speeds = -MaxSpeed .. MaxSpeed
  BY RobotAssumption DEF Settling, Speeds

LEMMA BetweenSpeeds ==
  ASSUME NEW v \in Speeds, NEW c \in Speeds
  PROVE  /\ Between(v, c) \in Nat /\ Between(v, c) <= 2 * MaxSpeed
         /\ Between(v, c) = 0 => v = c
  BY SpeedsAreInt DEF Between

\* One tick towards the command stays within the speeds and takes one off the distance.
LEMMA TowardCloses ==
  ASSUME decel = 1, cmd \in Speeds, exec_vx \in Speeds, NEW dt \in Nat, dt > 0
  PROVE  /\ Toward(exec_vx, dt) \in Speeds
         /\ \/ Between(Toward(exec_vx, dt), cmd) = 0
            \/ Between(Toward(exec_vx, dt), cmd) <= Between(exec_vx, cmd) - 1
<1>1. exec_vx \in Int /\ cmd \in Int /\ decel * dt = dt
  BY SpeedsAreInt
<1>2. CASE cmd >= exec_vx /\ cmd - exec_vx < dt
  <2>1. Toward(exec_vx, dt) = cmd
    BY <1>1, <1>2 DEF Toward, Least
  <2> QED BY <1>1, <2>1 DEF Between
<1>3. CASE cmd >= exec_vx /\ cmd - exec_vx >= dt
  <2>1. Toward(exec_vx, dt) = exec_vx + dt
    BY <1>1, <1>3 DEF Toward, Least
  <2> QED BY <1>1, <1>3, <2>1, SpeedsAreInt DEF Between
<1>4. CASE cmd < exec_vx /\ exec_vx - cmd < dt
  <2>1. Toward(exec_vx, dt) = cmd
    BY <1>1, <1>4 DEF Toward, Least
  <2> QED BY <1>1, <2>1 DEF Between
<1>5. CASE cmd < exec_vx /\ exec_vx - cmd >= dt
  <2>1. Toward(exec_vx, dt) = exec_vx - dt
    BY <1>1, <1>5 DEF Toward, Least
  <2> QED BY <1>1, <1>5, <2>1, SpeedsAreInt DEF Between
<1> QED BY <1>1, <1>2, <1>3, <1>4, <1>5

LEMMA CommandRobot ==
  ASSUME RobotInv, NEW vx \in Int, OnCommand(vx)
  PROVE  RobotInv'
<1>1. cmd' \in Speeds
  BY SpeedsAreInt DEF OnCommand, apply_command
<1>2. UNCHANGED <<decel, exec_vx, cmd_vx, pending>>
  BY DEF OnCommand
<1>3. CASE cmd' = cmd
  <2>1. steady' = steady
    BY <1>3 DEF OnCommand
  <2> QED BY <1>2, <1>3, <2>1 DEF RobotInv
<1>4. CASE cmd' # cmd
  <2>1. steady' = 0 /\ 0 \in 0 .. Settling
    BY <1>4, SpeedsAreInt DEF OnCommand
  <2>2. \A c \in Speeds : pending + Between(exec_vx, c) <= Settling - 0
    <3>1. pending \in Nat /\ pending <= DeadTime /\ exec_vx \in Speeds
      BY SpeedsAreInt DEF RobotInv
    <3>2. ASSUME NEW c \in Speeds
          PROVE  pending + Between(exec_vx, c) <= Settling - 0
      <4>1. Between(exec_vx, c) \in Nat /\ Between(exec_vx, c) <= 2 * MaxSpeed
        BY <3>1, BetweenSpeeds
      <4> QED BY <3>1, <4>1, SpeedsAreInt
    <3> QED BY <3>2
  <2> QED BY <1>1, <1>2, <2>1, <2>2 DEF RobotInv
<1> QED BY <1>3, <1>4

LEMMA TickRobot ==
  ASSUME RobotInv, NEW dt \in Nat, TickPhysics(dt)
  PROVE  RobotInv'
<1>1. dt > 0 /\ Execute(dt) /\ steady' = Least(steady + 1, Settling) /\ UNCHANGED <<decel, cmd>>
  BY DEF TickPhysics
<1>2. /\ steady \in Nat /\ steady <= Settling /\ pending \in Nat /\ pending <= DeadTime
      /\ Least(steady + 1, Settling) \in 0 .. Settling
  BY SpeedsAreInt DEF RobotInv, Least
<1>3. CASE decel = 0
  <2>1. exec_vx' = cmd /\ UNCHANGED <<cmd_vx, pending>>
    BY <1>1, <1>3 DEF Execute
  <2> QED BY <1>1, <1>2, <1>3, <2>1 DEF RobotInv
<1>4. CASE decel = 1
  <2> DEFINE dead == IF cmd # cmd_vx THEN DeadTime ELSE pending
             rest == IF dead > dt THEN dead - dt ELSE 0
             next == IF dead > 0 THEN exec_vx ELSE Toward(exec_vx, dt)
  <2>1. cmd_vx' = cmd /\ pending' = rest /\ exec_vx' = next
    BY <1>1, <1>4 DEF Execute
  <2>2. dead \in Nat /\ dead <= DeadTime
    BY <1>2, SpeedsAreInt
  <2>3. rest \in 0 .. DeadTime /\ (dead > 0 => rest <= dead - 1) /\ (dead = 0 => rest = 0)
    BY <1>1, <2>2, SpeedsAreInt
  <2>4. cmd \in Speeds /\ exec_vx \in Speeds
    BY DEF RobotInv
  <2>5. next \in Speeds
    BY <1>1, <1>4, <2>4, TowardCloses
  <2>6. dead + Between(exec_vx, cmd) <= Settling - steady
    <3>1. CASE cmd # cmd_vx
      <4>1. steady = 0 /\ dead = DeadTime
        BY <1>2, <1>4, <3>1 DEF RobotInv
      <4>2. Between(exec_vx, cmd) \in Nat /\ Between(exec_vx, cmd) <= 2 * MaxSpeed
        BY <2>4, BetweenSpeeds
      <4> QED BY <4>1, <4>2, SpeedsAreInt
    <3>2. CASE cmd = cmd_vx
      BY <1>4, <3>2 DEF RobotInv
    <3> QED BY <3>1, <3>2
  <2>7. rest + Between(next, cmd) <= Settling - Least(steady + 1, Settling)
    <3> HIDE DEF rest, next, dead
    <3>0. rest \in Nat
      BY <2>3, SpeedsAreInt
    <3>1. rest \in Nat /\ Between(next, cmd) \in Nat /\ Between(exec_vx, cmd) \in Nat
      BY <2>4, <2>5, <3>0, BetweenSpeeds
    <3>2. CASE rest + Between(next, cmd) = 0
      BY <1>2, <3>2, SpeedsAreInt
    <3>3. CASE dead > 0
      <4>1. Between(next, cmd) = Between(exec_vx, cmd)
        BY <3>3 DEF next
      <4> QED BY <1>2, <2>2, <2>3, <2>6, <3>1, <3>3, <4>1, SpeedsAreInt DEF Least
    <3>4. CASE dead = 0 /\ rest + Between(next, cmd) # 0
      <4>1. rest = 0 /\ next = Toward(exec_vx, dt)
        BY <2>3, <3>4 DEF next
      <4>2. Between(next, cmd) <= Between(exec_vx, cmd) - 1
        BY <1>1, <1>4, <2>4, <3>1, <3>4, <4>1, TowardCloses
      <4> QED BY <1>2, <2>6, <3>1, <3>4, <4>1, <4>2, SpeedsAreInt DEF Least
    <3> QED BY <2>2, <3>2, <3>3, <3>4
  <2> QED BY <1>1, <1>2, <1>4, <2>1, <2>3, <2>4, <2>5, <2>7 DEF RobotInv
<1> QED BY <1>3, <1>4 DEF RobotInv

LEMMA RobotInductive == RobotInv /\ [RobotNext]_robot_vars => RobotInv'
<1> SUFFICES ASSUME RobotInv, [RobotNext]_robot_vars
             PROVE  RobotInv'
  OBVIOUS
<1>1. ASSUME NEW vx \in (-MaxSpeed - 1) .. MaxSpeed + 1, OnCommand(vx)
      PROVE  RobotInv'
  BY <1>1, CommandRobot, SpeedsAreInt
<1>2. ASSUME NEW dt \in 0 .. MaxGap + 1, TickPhysics(dt)
      PROVE  RobotInv'
  BY <1>2, TickRobot, RobotAssumption
<1>3. CASE TickOdom
  BY <1>3 DEF RobotInv, TickOdom
<1>4. CASE UNCHANGED robot_vars
  BY <1>4 DEF RobotInv, robot_vars
<1> QED BY <1>1, <1>2, <1>3, <1>4 DEF RobotNext

(* For every dead time and speed the robot does what it was last told once *)
(* the dead time and the braking from its speed are over, however often    *)
(* the command changed before (physics.step).                              *)
THEOREM TakesEffect == RobotSpec => []CommandTakesEffect
<1>1. RobotInit => RobotInv
  BY SpeedsAreInt DEF RobotInit, RobotInv, Between
<1>2. ASSUME RobotInv, steady = Settling
      PROVE  exec_vx = cmd
  <2>1. exec_vx \in Speeds /\ cmd \in Speeds /\ pending \in Nat
    BY <1>2, SpeedsAreInt DEF RobotInv
  <2>2. CASE Settling = 0
    BY <2>1, <2>2, SpeedsAreInt
  <2>3. CASE Settling > 0 /\ decel = 0
    BY <1>2, <2>3 DEF RobotInv
  <2>4. CASE Settling > 0 /\ decel = 1
    <3>1. pending + Between(exec_vx, cmd) <= Settling - steady
      BY <1>2, <2>4 DEF RobotInv
    <3>2. /\ Between(exec_vx, cmd) \in Nat
          /\ Between(exec_vx, cmd) = 0 => exec_vx = cmd
      BY <2>1, BetweenSpeeds
    <3>3. Between(exec_vx, cmd) = 0
      BY <1>2, <2>1, <3>1, <3>2, SpeedsAreInt
    <3> QED BY <3>2, <3>3
  <2> QED BY <1>2, <2>2, <2>3, <2>4, SpeedsAreInt DEF RobotInv
<1>3. RobotInv => CommandTakesEffect
  BY <1>2 DEF CommandTakesEffect
<1> QED BY <1>1, <1>3, RobotInductive, PTL DEF RobotSpec
-----------------------------------------------------------------------------
(* The relay.  While it filters in a room that fits, the verdicts it       *)
(* remembers are what the lidar did to the revolutions, the newest last;   *)
(* in a room that does not fit they are failures.                          *)

Aligned(log, flags) ==
  \A i \in 1 .. Len(log) : log[i] = ~flags[(Window - Len(log)) + i]

RelayInv ==
  /\ RelayTypeOK
  /\ ~pose_known => recent = <<>>
  /\ room_fits /\ ~overwhelmed => ~fail_open /\ shown \notin Corrupted
  /\ room_fits /\ ~fail_open => Aligned(recent, corrupt)
  /\ ~room_fits /\ ~fail_open => /\ Len(recent) < Window
                                 /\ \A i \in 1 .. Len(recent) : ~recent[i]

\* A revolution passes, in the room that fits, just when it is not corrupted,
\* and never in one that does not.
LEMMA Verdicts ==
  ASSUME NEW kind \in Kinds
  PROVE  LET ok == Beams(kind).valid >= 200 /\ ~impossible(Beams(kind))
         IN  /\ kind # "outside" => ok = (kind \notin Corrupted)
             /\ kind \in {"rotated", "outside"} => ~ok
<1>1. CASE kind = "clean"
  BY <1>1 DEF Beams, impossible, Corrupted
<1>2. CASE kind = "boxes"
  BY <1>2 DEF Beams, impossible, Corrupted
<1>3. CASE kind = "rotated"
  BY <1>3 DEF Beams, impossible, Corrupted
<1>4. CASE kind = "sentinel"
  BY <1>4 DEF Beams, impossible, Corrupted
<1>5. CASE kind = "outside"
  BY <1>5 DEF Beams, impossible, Corrupted
<1> QED BY <1>1, <1>2, <1>3, <1>4, <1>5 DEF Kinds

\* A full window of verdicts counts the revolutions that were corrupted.
LEMMA FailsAreCorruptions ==
  ASSUME NEW log \in Seq(BOOLEAN), Len(log) = Window,
         NEW flags \in [1 .. Window -> BOOLEAN], Aligned(log, flags)
  PROVE  Fails(log) = Corruptions(flags)
<1>1. /\ DOMAIN log = 1 .. Window /\ DOMAIN flags = 1 .. Window /\ Window \in Nat
      /\ \A i \in 1 .. Window : (Window - Window) + i = i
  BY RelayAssumption
<1>2. \A i \in 1 .. Window : log[i] = ~flags[i]
  BY <1>1 DEF Aligned
<1>3. {i \in DOMAIN log : ~log[i]} = {i \in DOMAIN flags : flags[i]}
  BY <1>1, <1>2
<1> QED BY <1>3 DEF Fails, Corruptions, Quantify

\* A full window of failures is more than nine in ten.
LEMMA AllFailGivesUp ==
  ASSUME NEW log \in Seq(BOOLEAN), Len(log) = Window, \A i \in 1 .. Window : ~log[i]
  PROVE  GivesUp(log)
<1>1. Window \in Nat \ {0} /\ DOMAIN log = 1 .. Window
  BY RelayAssumption
<1>2. {i \in DOMAIN log : ~log[i]} = 1 .. Window
  BY <1>1
<1>3. Cardinality(1 .. Window) = Window
  BY <1>1, FS_Interval
<1>4. Fails(log) = Window
  BY <1>2, <1>3 DEF Fails, Quantify
<1> QED BY <1>1, <1>4 DEF GivesUp

\* A window takes a verdict: the newest is the last, the others move down when
\* it was full.
Slides(log, ok, slid) ==
  /\ slid \in Seq(BOOLEAN)
  /\ slid[Len(slid)] = ok
  /\ \/ /\ Len(log) = Window /\ Len(slid) = Window
        /\ \A i \in 1 .. Window - 1 : slid[i] = log[i + 1]
     \/ /\ Len(log) < Window /\ Len(slid) = Len(log) + 1
        /\ \A i \in 1 .. Len(log) : slid[i] = log[i]

LEMMA WindowSlides ==
  ASSUME NEW log \in Seq(BOOLEAN), Len(log) <= Window, NEW ok \in BOOLEAN
  PROVE  Slides(log, ok, LET all == Append(log, ok)
                         IN  IF Len(all) > Window THEN Tail(all) ELSE all)
<1> DEFINE all == Append(log, ok)
<1>1. /\ Window \in Nat \ {0} /\ Len(log) \in Nat
      /\ all \in Seq(BOOLEAN) /\ Len(all) = Len(log) + 1 /\ all[Len(log) + 1] = ok
      /\ \A i \in 1 .. Len(log) : all[i] = log[i]
  BY RelayAssumption
<1> HIDE DEF all
<1>2. CASE Len(log) = Window
  <2>1. all # <<>>
    BY <1>1
  <2>2. /\ Tail(all) \in Seq(BOOLEAN) /\ Len(Tail(all)) = Window
        /\ \A i \in 1 .. Window : Tail(all)[i] = all[i + 1]
    BY <1>1, <1>2, <2>1
  <2>3. Tail(all)[Window] = ok
    BY <1>1, <1>2, <2>2
  <2>4. \A i \in 1 .. Window - 1 : Tail(all)[i] = log[i + 1]
    <3> TAKE i \in 1 .. Window - 1
    <3>1. i \in 1 .. Window /\ i + 1 \in 1 .. Len(log)
      BY <1>1, <1>2
    <3> QED BY <1>1, <2>2, <3>1
  <2>5. Slides(log, ok, Tail(all))
    BY <1>2, <2>2, <2>3, <2>4 DEF Slides
  <2>6. Len(all) > Window
    BY <1>1, <1>2
  <2> QED BY <2>5, <2>6 DEF all
<1>3. CASE Len(log) < Window
  <2>1. ~(Len(all) > Window)
    BY <1>1, <1>3
  <2>2. Slides(log, ok, all)
    BY <1>1, <1>3 DEF Slides
  <2> QED BY <2>1, <2>2 DEF all
<1> QED BY <1>1, <1>2, <1>3

LEMMA ScanKeepsRelay ==
  ASSUME RelayInv, NEW kind \in Kinds, OnScan(kind)
  PROVE  RelayInv'
<1> DEFINE ok  == Beams(kind).valid >= 200 /\ ~impossible(Beams(kind))
           log == LET all == Append(recent, ok)
                  IN  IF Len(all) > Window THEN Tail(all) ELSE all
<1>0. /\ Window \in Nat \ {0} /\ ok \in BOOLEAN
      /\ room_fits \in BOOLEAN /\ pose_known \in BOOLEAN /\ fail_open \in BOOLEAN
      /\ recent \in Seq(BOOLEAN) /\ Len(recent) <= Window /\ Len(recent) \in Nat
      /\ shown \in Kinds \cup {"nothing"} /\ "nothing" \notin Corrupted
      /\ corrupt \in [1 .. Window -> BOOLEAN] /\ overwhelmed \in BOOLEAN
  BY RelayAssumption DEF RelayInv, RelayTypeOK, Corrupted
<1>1. /\ room_fits' = room_fits /\ pose_known' = pose_known
      /\ corrupt' = Spun(kind \in Corrupted)
      /\ overwhelmed' = (overwhelmed \/ 10 * Corruptions(corrupt') > 9 * Window)
      /\ room_fits => kind # "outside"
      /\ ~room_fits => kind \in {"rotated", "outside"}
  BY DEF OnScan
<1>2. /\ corrupt' \in [1 .. Window -> BOOLEAN] /\ corrupt'[Window] = (kind \in Corrupted)
      /\ \A i \in 1 .. Window : i < Window => corrupt'[i] = corrupt[i + 1]
  <2>1. /\ \A i \in 1 .. Window : i < Window => corrupt[i + 1] \in BOOLEAN
        /\ Window \in 1 .. Window /\ ~(Window < Window)
    BY <1>0
  <2>2. (kind \in Corrupted) \in BOOLEAN
    OBVIOUS
  <2> DEFINE hit == kind \in Corrupted
  <2>3. corrupt' = [i \in 1 .. Window |-> IF i < Window THEN corrupt[i + 1] ELSE hit]
    BY <1>1 DEF Spun
  <2>4. hit \in BOOLEAN
    BY <2>2
  <2> HIDE DEF hit
  <2>5. /\ corrupt' \in [1 .. Window -> BOOLEAN] /\ corrupt'[Window] = hit
        /\ \A i \in 1 .. Window : i < Window => corrupt'[i] = corrupt[i + 1]
    BY <2>1, <2>3, <2>4
  <2> QED BY <2>5 DEF hit
<1>3. overwhelmed' \in BOOLEAN
  BY <1>1
<1>4. /\ room_fits => ok = (kind \notin Corrupted)
      /\ ~room_fits => ~ok
  BY <1>1, Verdicts
<1> HIDE DEF ok
<1>5. Slides(recent, ok, log)
  BY <1>0, WindowSlides
<1> HIDE DEF log
<1>9. log \in Seq(BOOLEAN) /\ Len(log) \in 1 .. Window /\ log[Len(log)] = ok
  BY <1>0, <1>5 DEF Slides
<1>6. CASE pose_known /\ ~fail_open
  <2>1. /\ recent' = log /\ fail_open' = GivesUp(log)
        /\ shown' = IF ok THEN kind ELSE "nothing"
    BY <1>6, Zenon DEF OnScan, ok, log
  <2>2. GivesUp(log) \in BOOLEAN
    BY DEF GivesUp
  <2>3. RelayTypeOK' /\ pose_known'
    BY <1>0, <1>1, <1>2, <1>3, <1>6, <1>9, <2>1, <2>2 DEF RelayTypeOK
  <2>4. room_fits => Aligned(log, corrupt')
    <3> SUFFICES ASSUME room_fits, NEW i \in 1 .. Len(log)
                 PROVE  log[i] = ~corrupt'[(Window - Len(log)) + i]
      BY DEF Aligned
    <3>1. CASE i = Len(log)
      <4>1. (Window - Len(log)) + i = Window
        BY <1>0, <1>9, <3>1
      <4> QED BY <1>2, <1>4, <1>9, <3>1, <4>1
    <3>2. CASE i < Len(log) /\ Len(recent) = Window
      <4>1. Len(log) = Window /\ log[i] = recent[i + 1]
        BY <1>0, <1>5, <3>2 DEF Slides
      <4>2. /\ i + 1 \in 1 .. Len(recent) /\ i \in 1 .. Window /\ i < Window
            /\ (Window - Len(recent)) + (i + 1) = i + 1
            /\ (Window - Len(log)) + i = i
        BY <1>0, <1>9, <3>2, <4>1
      <4>3. recent[i + 1] = ~corrupt[i + 1]
        BY <1>6, <4>2 DEF RelayInv, Aligned
      <4> QED BY <1>2, <4>1, <4>2, <4>3
    <3>3. CASE i < Len(log) /\ Len(recent) < Window
      <4>1. Len(log) = Len(recent) + 1 /\ i \in 1 .. Len(recent)
        BY <1>0, <1>5, <3>3 DEF Slides
      <4>2. log[i] = recent[i]
        BY <1>0, <1>5, <3>3, <4>1 DEF Slides
      <4> DEFINE k == (Window - Len(log)) + i
      <4>3. k \in 1 .. Window /\ k < Window /\ (Window - Len(recent)) + i = k + 1
        BY <1>0, <3>3, <4>1
      <4>4. recent[i] = ~corrupt[k + 1]
        BY <1>6, <4>1, <4>3 DEF RelayInv, Aligned
      <4>5. corrupt'[k] = corrupt[k + 1]
        BY <1>2, <4>3
      <4> QED BY <4>2, <4>4, <4>5
    <3> QED BY <1>0, <1>9, <3>1, <3>2, <3>3
  <2>5. ASSUME room_fits, ~overwhelmed'
        PROVE  ~GivesUp(log)
    <3> SUFFICES ASSUME Len(log) = Window, 10 * Fails(log) > 9 * Window
                 PROVE  FALSE
      BY DEF GivesUp
    <3>1. Fails(log) = Corruptions(corrupt')
      BY <1>2, <1>9, <2>4, <2>5, FailsAreCorruptions
    <3> QED BY <1>1, <2>5, <3>1
  <2>6. room_fits => shown' \notin Corrupted
    BY <1>0, <1>4, <2>1
  <2>7. ASSUME ~room_fits, ~GivesUp(log)
        PROVE  Len(log) < Window /\ \A i \in 1 .. Len(log) : ~log[i]
    <3>1. \A i \in 1 .. Len(recent) : ~recent[i]
      BY <1>6, <2>7 DEF RelayInv
    <3>2. \A i \in 1 .. Len(log) : ~log[i]
      <4> TAKE i \in 1 .. Len(log)
      <4>1. CASE i = Len(log)
        BY <1>4, <1>9, <2>7, <4>1
      <4>2. CASE i < Len(log) /\ Len(recent) = Window
        <5>1. Len(log) = Window /\ log[i] = recent[i + 1] /\ i + 1 \in 1 .. Len(recent)
          BY <1>0, <1>5, <4>2 DEF Slides
        <5> QED BY <3>1, <5>1
      <4>3. CASE i < Len(log) /\ Len(recent) < Window
        <5>1. Len(log) = Len(recent) + 1 /\ i \in 1 .. Len(recent)
          BY <1>0, <1>5, <4>3 DEF Slides
        <5>2. log[i] = recent[i]
          BY <1>0, <1>5, <4>3, <5>1 DEF Slides
        <5> QED BY <3>1, <5>1, <5>2
      <4> QED BY <1>0, <1>9, <4>1, <4>2, <4>3
    <3>3. Len(log) # Window
      BY <1>9, <2>7, <3>2, AllFailGivesUp
    <3> QED BY <1>0, <1>9, <3>2, <3>3
  <2>8. room_fits' => Aligned(recent', corrupt')
    BY <1>1, <2>1, <2>4
  <2>9. Aligned(recent, corrupt)' <=> Aligned(recent', corrupt')
    BY DEF Aligned
  <2> QED BY <1>1, <2>1, <2>3, <2>5, <2>6, <2>7, <2>8, <2>9 DEF RelayInv
<1>7. CASE ~pose_known
  <2>1. recent' = recent /\ fail_open' = fail_open /\ shown' = "nothing"
    BY <1>7 DEF OnScan
  <2>2. recent = <<>>
    BY <1>7 DEF RelayInv
  <2>3. room_fits /\ ~overwhelmed' => ~fail_open'
    BY <1>0, <1>1, <2>1 DEF RelayInv
  <2>4. RelayTypeOK'
    BY <1>0, <1>1, <1>2, <1>3, <2>1 DEF RelayTypeOK
  <2>5. Aligned(recent, corrupt)' /\ Len(recent') < Window
    BY <1>0, <2>1, <2>2 DEF Aligned
  <2> QED BY <1>0, <1>1, <1>7, <2>1, <2>2, <2>3, <2>4, <2>5 DEF RelayInv
<1>8. CASE pose_known /\ fail_open
  <2>1. recent' = recent /\ fail_open' = fail_open /\ shown' = kind
    BY <1>8 DEF OnScan
  <2>2. RelayTypeOK'
    BY <1>0, <1>1, <1>2, <1>3, <2>1 DEF RelayTypeOK
  <2>3. room_fits => overwhelmed /\ overwhelmed'
    BY <1>0, <1>1, <1>8 DEF RelayInv
  <2> QED BY <1>1, <1>8, <2>1, <2>2, <2>3 DEF RelayInv
<1> QED BY <1>0, <1>6, <1>7, <1>8

LEMMA RelayInductive == RelayInv /\ [RelayNext]_relay_vars => RelayInv'
<1> SUFFICES ASSUME RelayInv, [RelayNext]_relay_vars
             PROVE  RelayInv'
  OBVIOUS
<1>1. CASE OnTruth
  BY <1>1 DEF RelayInv, RelayTypeOK, OnTruth, Aligned
<1>2. CASE UNCHANGED relay_vars
  BY <1>2 DEF RelayInv, RelayTypeOK, relay_vars, Aligned
<1> QED BY <1>1, <1>2, ScanKeepsRelay DEF RelayNext

LEMMA RelayStarts == RelayInit => RelayInv
<1> SUFFICES ASSUME RelayInit
             PROVE  RelayInv
  OBVIOUS
<1>1. /\ recent = <<>> /\ recent \in Seq(BOOLEAN) /\ Len(recent) = 0
      /\ Window \in Nat \ {0}
  BY RelayAssumption DEF RelayInit
<1>2. Aligned(recent, corrupt) /\ \A i \in 1 .. Len(recent) : ~recent[i]
  BY <1>1 DEF Aligned
<1>3. RelayTypeOK
  <2>1. TRUE \in BOOLEAN /\ FALSE \in BOOLEAN
    OBVIOUS
  <2>2. Len(recent) <= Window
    BY <1>1
  <2>3. [i \in 1 .. Window |-> FALSE] \in [1 .. Window -> BOOLEAN]
    OBVIOUS
  <2> QED BY <1>1, <2>1, <2>2, <2>3, Zenon DEF RelayInit, RelayTypeOK
<1>4. ~fail_open /\ shown \notin Corrupted
  BY DEF RelayInit, Corrupted
<1> QED BY <1>1, <1>2, <1>3, <1>4 DEF RelayInv

(* For windows of any length and any pattern of corruption, bursts of 36   *)
(* in 300 and mixtures of half among them: in the room it was written for  *)
(* the relay neither gives up nor shows a corrupted revolution before more *)
(* than nine in ten of some window were corrupted; in any other room it    *)
(* has given up when a window has been judged (ScanFilter._on_scan).       *)
THEOREM RoomFiltered == RelaySpec => []MatchingRoomIsFiltered
<1>1. RelayInv => MatchingRoomIsFiltered
  BY RelayAssumption DEF RelayInv, RelayTypeOK, MatchingRoomIsFiltered
<1> QED BY <1>1, RelayStarts, RelayInductive, PTL DEF RelaySpec
-----------------------------------------------------------------------------
(* The types of what simulates the robot, part by part.                    *)

PacingInv == PacingTypeOK /\ trim_log \in Seq(Int \X Int)

LEMMA TrimKeepsTypes == PacingInv /\ Trim => PacingInv'
<1> SUFFICES ASSUME PacingInv, Trim
             PROVE  PacingInv'
  OBVIOUS
<1>1. /\ ScanHz \in Nat /\ CeilingHz \in Nat /\ ScanHz < CeilingHz /\ FirstHz \in Nat
      /\ render_hz \in Nat /\ share \in 1 .. 2 /\ trims \in 0 .. EarlyTrims /\ EarlyTrims \in Nat
      /\ trim_log \in Seq(Int \X Int) /\ Len(trim_log) <= 3
  BY PacingAssumption DEF PacingInv, PacingTypeOK
<1>2. ScanRate \in Nat
  <2>1. plant.by \in Nat
    BY PacingAssumption DEF PacingInv, PacingTypeOK, Plants
  <2>2. render_hz * plant.by \in Nat
    BY <1>1, <2>1
  <2>3. Emitted \in Nat
    BY <2>1, <2>2 DEF Emitted
  <2>4. share * Emitted \in Nat
    BY <1>1, <2>3
  <2> QED BY <2>4 DEF ScanRate
<1>3. ScanRate > 20
  BY DEF Trim
<1>4. trim_render_pacing(ScanRate) \in {render_hz} \cup ScanHz .. CeilingHz
  <2> DEFINE new  == (render_hz * ScanHz) \div ScanRate
             goal == IF trims < EarlyTrims THEN new ELSE (render_hz + new) \div 2
  <2>1. render_hz * ScanHz \in Nat
    BY <1>1
  <2>2. new \in Int
    <3> DEFINE a == render_hz * ScanHz
               r == ScanRate
    <3> HIDE DEF a, r
    <3>1. a \in Nat /\ r \in Nat /\ r > 0
      BY <1>2, <1>3, <2>1 DEF a, r
    <3>2. a \div r \in Int
      BY <3>1
    <3> QED BY <3>2 DEF a, r
  <2> HIDE DEF new
  <2>3. goal \in Int
    BY <1>1, <2>2
  <2> HIDE DEF goal
  <2>4. Clamped(goal) \in ScanHz .. CeilingHz
    BY <1>1, <2>3 DEF Clamped
  <2>5. trim_render_pacing(ScanRate)
          = IF Unresponsive(trim_log, ScanRate) THEN render_hz ELSE Clamped(goal)
    BY DEF trim_render_pacing, goal, new
  <2> QED BY <2>4, <2>5
<1>5. render_hz' \in {FirstHz} \cup ScanHz .. CeilingHz
  BY <1>4 DEF Trim, PacingInv, PacingTypeOK
<1>6. trims' \in 0 .. EarlyTrims
  BY <1>1 DEF Trim
<1>7. trim_log' \in Seq(Int \X Int) /\ Len(trim_log') <= 3
  <2> DEFINE log == Append(trim_log, <<render_hz, ScanRate>>)
  <2>1. <<render_hz, ScanRate>> \in Int \X Int
    BY <1>1, <1>2
  <2>2. log \in Seq(Int \X Int) /\ Len(log) = Len(trim_log) + 1 /\ Len(trim_log) \in Nat
    BY <1>1, <2>1
  <2>3. trim_log' = IF Len(log) > 3 THEN Tail(log) ELSE log
    BY Zenon DEF Trim
  <2> HIDE DEF log
  <2>4. CASE Len(log) > 3
    <3>1. log # <<>> /\ Tail(log) \in Seq(Int \X Int) /\ Len(Tail(log)) = Len(log) - 1
      BY <2>2, <2>4
    <3> QED BY <1>1, <2>2, <2>3, <2>4, <3>1
  <2>5. CASE ~(Len(log) > 3)
    BY <2>2, <2>3, <2>5
  <2> QED BY <2>4, <2>5
<1>8. trim_held' \in BOOLEAN /\ UNCHANGED <<plant, share, drifts>>
  BY DEF Trim, Unresponsive
<1> QED BY <1>5, <1>6, <1>7, <1>8 DEF PacingInv, PacingTypeOK

LEMMA PacingKeepsTypes == PacingInv /\ [PacingNext]_pacing_vars => PacingInv'
<1> SUFFICES ASSUME PacingInv, [PacingNext]_pacing_vars
             PROVE  PacingInv'
  OBVIOUS
<1>1. CASE PlantDrifts
  BY <1>1, PacingAssumption DEF PacingInv, PacingTypeOK, PlantDrifts
<1>2. CASE RelayDrops
  BY <1>2, PacingAssumption DEF PacingInv, PacingTypeOK, RelayDrops
<1>3. CASE UNCHANGED pacing_vars
  BY <1>3 DEF PacingInv, PacingTypeOK, pacing_vars
<1> QED BY <1>1, <1>2, <1>3, TrimKeepsTypes DEF PacingNext

LEMMA RobotKeepsTypes == RobotTypeOK /\ [RobotNext]_robot_vars => RobotTypeOK'
<1> SUFFICES ASSUME RobotTypeOK, [RobotNext]_robot_vars
             PROVE  RobotTypeOK'
  OBVIOUS
<1>1. ASSUME NEW vx \in (-MaxSpeed - 1) .. MaxSpeed + 1, OnCommand(vx)
      PROVE  RobotTypeOK'
  <2>1. cmd' \in Speeds /\ steady' \in 0 .. Settling
    BY <1>1, SpeedsAreInt DEF OnCommand, apply_command, RobotTypeOK
  <2> QED BY <1>1, <2>1 DEF RobotTypeOK, OnCommand
<1>2. ASSUME NEW dt \in 0 .. MaxGap + 1, TickPhysics(dt)
      PROVE  RobotTypeOK'
  <2>1. /\ dt \in Nat /\ dt > 0 /\ Execute(dt) /\ UNCHANGED <<decel, slip, cmd, on_air>>
        /\ x' = x + exec_vx' * (2 - slip) * dt /\ odom_x' = odom_x + 2 * exec_vx' * dt
        /\ steady' = Least(steady + 1, Settling)
    BY <1>2, RobotAssumption DEF TickPhysics
  <2>2. steady' \in 0 .. Settling
    BY <2>1, SpeedsAreInt DEF RobotTypeOK, Least
  <2>3. exec_vx' \in Speeds /\ cmd_vx' \in Speeds /\ pending' \in 0 .. DeadTime
    <3>1. CASE decel = 0
      BY <2>1, <3>1 DEF Execute, RobotTypeOK
    <3>2. CASE decel = 1
      <4> DEFINE dead == IF cmd # cmd_vx THEN DeadTime ELSE pending
      <4>1. /\ cmd_vx' = cmd /\ pending' = IF dead > dt THEN dead - dt ELSE 0
            /\ exec_vx' = IF dead > 0 THEN exec_vx ELSE Toward(exec_vx, dt)
        BY <2>1, <3>2 DEF Execute
      <4>2. dead \in 0 .. DeadTime
        BY SpeedsAreInt DEF RobotTypeOK
      <4>3. cmd \in Speeds /\ exec_vx \in Speeds
        BY DEF RobotTypeOK
      <4>4. Toward(exec_vx, dt) \in Speeds
        BY <2>1, <3>2, <4>3, TowardCloses
      <4> HIDE DEF dead
      <4> QED BY <2>1, <4>1, <4>2, <4>3, <4>4, SpeedsAreInt
    <3> QED BY <3>1, <3>2 DEF RobotTypeOK
  <2>4. x' \in Int /\ odom_x' \in Int
    <3>1. exec_vx' \in Int /\ slip \in Int /\ x \in Int /\ odom_x \in Int
      BY <2>3, SpeedsAreInt DEF RobotTypeOK
    <3> QED BY <2>1, <3>1
  <2> QED BY <2>1, <2>2, <2>3, <2>4 DEF RobotTypeOK
<1>3. CASE TickOdom
  BY <1>3 DEF RobotTypeOK, TickOdom
<1>4. CASE UNCHANGED robot_vars
  BY <1>4 DEF RobotTypeOK, robot_vars
<1> QED BY <1>1, <1>2, <1>3, <1>4 DEF RobotNext

LEMMA LaserKeepsTypes == LaserTypeOK /\ [LaserNext]_laser_vars => LaserTypeOK'
<1> SUFFICES ASSUME LaserTypeOK, [LaserNext]_laser_vars
             PROVE  LaserTypeOK'
  OBVIOUS
<1>1. CASE TransformAppears
  BY <1>1 DEF LaserTypeOK, TransformAppears
<1>2. ASSUME NEW at \in Places, FirstScan(at)
      PROVE  LaserTypeOK'
  BY <1>2 DEF LaserTypeOK, FirstScan
<1>3. ASSUME NEW at \in Places, NEW r \in Answers, MatchScan(at, r)
      PROVE  LaserTypeOK'
  <2>1. at \in Int /\ prev_xy \in Int /\ at - prev_xy \in Int
    BY <1>3, LaserAssumption DEF LaserTypeOK, MatchScan
  <2>2. n_over' \in Nat /\ n_degenerate' \in Nat
    BY <1>3 DEF LaserTypeOK, MatchScan
  <2>3. prev_xy' = at /\ UNCHANGED <<publish_degenerate, tf, first>>
    BY <1>3 DEF MatchScan, Kept
  <2>4. /\ pose' \in Int /\ dropped' \in Int
        /\ n_matched' \in Nat /\ n_dropped' \in Nat /\ base_from_laser' \in BOOLEAN
    <3>1. CASE Used(r)
      <4>1. PICK step \in Steps(r, at) : pose' = pose + step
        BY <1>3, <3>1 DEF MatchScan
      <4>2. step \in Int
        BY <2>1, <4>1 DEF Steps
      <4>3. /\ base_from_laser' = (base_from_laser \/ tf) /\ n_matched' = n_matched + 1
            /\ UNCHANGED <<dropped, n_dropped>>
        BY <1>3, <3>1 DEF MatchScan
      <4>4. (base_from_laser \/ tf) \in BOOLEAN
        OBVIOUS
      <4> QED BY <4>1, <4>2, <4>3, <4>4 DEF LaserTypeOK
    <3>2. CASE ~Used(r)
      <4>1. /\ n_dropped' = n_dropped + 1 /\ dropped' = dropped + (at - prev_xy)
            /\ UNCHANGED <<pose, base_from_laser, n_matched>>
        BY <1>3, <3>2 DEF MatchScan
      <4> QED BY <2>1, <4>1 DEF LaserTypeOK
    <3> QED BY <3>1, <3>2
  <2> QED BY <2>2, <2>3, <2>4 DEF LaserTypeOK
<1>4. CASE UNCHANGED laser_vars
  BY <1>4 DEF LaserTypeOK, laser_vars
<1> QED BY <1>1, <1>2, <1>3, <1>4 DEF LaserNext

LEMMA BridgeKeepsTypes == BridgeTypeOK /\ [BridgeNext]_bridge_vars => BridgeTypeOK'
<1> SUFFICES ASSUME BridgeTypeOK, [BridgeNext]_bridge_vars
             PROVE  BridgeTypeOK'
  OBVIOUS
<1>1. ASSUME NEW b \in Bridges, Start(b)
      PROVE  BridgeTypeOK'
  <2>1. /\ 0 \in 0 .. MaxTickGap /\ -1 \in (-1) .. OdomTimeout + 1
        /\ Resting \in [vx : Rates, wz : Rates]
        /\ Unturned \in [{"left", "right"} -> 0 .. Turn - 1]
    BY WheelsStart, BridgeAssumption DEF Unturned
  <2>2. /\ phase' \in [Bridges -> {"absent", "looking", "cleared", "refused", "up"}]
        /\ missed' \in [Bridges -> SUBSET Bridges] /\ override' \in BOOLEAN
    BY <1>1 DEF BridgeTypeOK, Start
  <2>3. CASE b = Watched
    <3>1. /\ twist' = Resting /\ since' = 0 /\ age' = -1 /\ warned' = FALSE
          /\ wheels' = Unturned /\ overrun' = 0 /\ before' = 0
      BY <1>1, <2>3 DEF Start
    <3>2. 0 \in Nat /\ FALSE \in BOOLEAN
      OBVIOUS
    <3> QED BY <2>1, <2>2, <3>1, <3>2, Zenon DEF BridgeTypeOK
  <2>4. CASE b # Watched
    <3>1. UNCHANGED wheel_vars
      BY <1>1, <2>4 DEF Start
    <3> QED BY <2>2, <3>1 DEF BridgeTypeOK, wheel_vars
  <2> QED BY <2>3, <2>4
<1>2. ASSUME NEW b \in Bridges, assert_sole_publisher(b)
      PROVE  BridgeTypeOK'
  <2>1. phase' \in [Bridges -> {"absent", "looking", "cleared", "refused", "up"}]
    BY <1>2 DEF BridgeTypeOK, assert_sole_publisher
  <2> QED BY <1>2, <2>1 DEF BridgeTypeOK, assert_sole_publisher, wheel_vars
<1>3. ASSUME NEW b \in Bridges, CreatePublisher(b)
      PROVE  BridgeTypeOK'
  <2>1. \A o \in Bridges : missed[o] \in SUBSET Bridges /\ missed[o] \cup {b} \in SUBSET Bridges
    BY <1>3 DEF BridgeTypeOK
  <2>2. missed' \in [Bridges -> SUBSET Bridges]
    BY <1>3, <2>1 DEF CreatePublisher
  <2>3. phase' \in [Bridges -> {"absent", "looking", "cleared", "refused", "up"}]
    BY <1>3 DEF BridgeTypeOK, CreatePublisher
  <2> QED BY <1>3, <2>2, <2>3 DEF BridgeTypeOK, CreatePublisher, wheel_vars
<1>4. ASSUME NEW b \in Bridges, Stop(b)
      PROVE  BridgeTypeOK'
  BY <1>4 DEF BridgeTypeOK, Stop, wheel_vars
<1>5. ASSUME NEW vx \in Rates, NEW wz \in Rates, OnOdom(vx, wz)
      PROVE  BridgeTypeOK'
  <2>1. 0 \in (-1) .. OdomTimeout + 1 /\ 0 \in Nat
    BY BridgeAssumption
  <2> QED BY <1>5, <2>1 DEF BridgeTypeOK, OnOdom
<1>6. CASE TickBridge
  <2>1. /\ Turn \in Nat \ {0} /\ MaxRate \in Nat /\ OdomTimeout \in Nat /\ since \in Nat
        /\ 0 \in Rates /\ Rates \subseteq Int
    BY BridgeAssumption DEF Rates, BridgeTypeOK
  <2>2. UNCHANGED <<override, phase, missed>> /\ warned' \in BOOLEAN
    BY <1>6 DEF TickBridge
  <2>3. /\ age' \in (-1) .. OdomTimeout + 1
        /\ since' \in 0 .. MaxTickGap /\ before' \in 0 .. MaxTickGap
    BY <1>6, BridgeAssumption DEF TickBridge, BridgeTypeOK
  <2>4. twist' \in [vx : Rates, wz : Rates]
    <3>1. twist' = Resting \/ twist' = twist
      BY <1>6 DEF TickBridge, Hold
    <3> QED BY <3>1, WheelsStart DEF BridgeTypeOK
  <2>5. twist'.vx \in Int /\ twist'.wz \in Int
    BY <2>1, <2>4
  <2>6. /\ wheel_rates["left"] \in Int /\ wheel_rates["right"] \in Int
    BY <2>5 DEF wheel_rates
  <2>7. wheels' \in [{"left", "right"} -> 0 .. Turn - 1]
    <3>1. ASSUME NEW s \in {"left", "right"}
          PROVE  (wheels[s] + wheel_rates[s] * since) % Turn \in 0 .. Turn - 1
      <4>1. wheels[s] \in Int /\ wheel_rates[s] \in Int
        BY <2>1, <2>6, <3>1 DEF BridgeTypeOK
      <4>2. wheels[s] + wheel_rates[s] * since \in Int
        BY <2>1, <4>1
      <4>3. \A n \in Int : n % Turn \in 0 .. Turn - 1
        BY <2>1
      <4> QED BY <4>2, <4>3
    <3>2. wheels' = [s \in {"left", "right"} |-> (wheels[s] + wheel_rates[s] * since) % Turn]
      BY <1>6 DEF TickBridge, BridgeTypeOK
    <3> QED BY <3>1, <3>2
  <2>8. overrun' \in Nat
    <3>1. Magnitude(wheel_rates["left"]) \in Nat
      BY <2>6 DEF Magnitude
    <3>2. Magnitude(wheel_rates["left"]) * since \in Nat
      BY <2>1, <3>1
    <3>3. overrun' = overrun + Magnitude(wheel_rates["left"]) * since
      BY <1>6 DEF TickBridge
    <3> QED BY <3>2, <3>3 DEF BridgeTypeOK
  <2> QED BY <2>2, <2>3, <2>4, <2>7, <2>8 DEF BridgeTypeOK
<1>7. CASE Elapse
  <2>1. /\ since' \in 0 .. MaxTickGap
        /\ age' \in (-1) .. OdomTimeout + 1
    BY <1>7, BridgeAssumption DEF BridgeTypeOK, Elapse
  <2> QED BY <1>7, <2>1 DEF BridgeTypeOK, Elapse
<1>8. CASE UNCHANGED bridge_vars
  BY <1>8 DEF BridgeTypeOK, bridge_vars
<1> QED BY <1>1, <1>2, <1>3, <1>4, <1>5, <1>6, <1>7, <1>8 DEF BridgeNext

\* What is due by the wall clock does not become less.
LEMMA QuotientsOrder ==
  ASSUME NEW a \in Nat, NEW b \in Nat, NEW p \in Nat \ {0}, a <= b
  PROVE  a \div p \in Int /\ b \div p \in Int /\ a \div p <= b \div p
<1>1. PICK q \in Int : q = a \div p /\ q * p <= a /\ a < (q + 1) * p
  OBVIOUS
<1>2. PICK r \in Int : r = b \div p /\ r * p <= b /\ b < (r + 1) * p
  OBVIOUS
<1>3. q <= r
  <2> SUFFICES ASSUME r + 1 <= q
               PROVE  FALSE
    OBVIOUS
  <2>1. (r + 1) * p <= q * p
    <3>1. \A d \in Nat : ((r + 1) + d) * p = (r + 1) * p + d * p /\ d * p \in Nat
                         /\ (r + 1) * p \in Int
      OBVIOUS
    <3>2. q - (r + 1) \in Nat /\ q = (r + 1) + (q - (r + 1))
      OBVIOUS
    <3> QED BY <3>1, <3>2
  <2>2. (r + 1) * p \in Int /\ q * p \in Int
    OBVIOUS
  <2> QED BY <1>1, <1>2, <2>1, <2>2
<1> QED BY <1>1, <1>2, <1>3

\* What a hitch costs is behind the wall clock once.
LoopInv == LoopTypeOK /\ lag <= MaxHitch * hitches

\* A product does not get smaller when a factor gets bigger.
LEMMA ProductsOrder ==
  ASSUME NEW a \in Nat, NEW b \in Nat, NEW c \in Nat, a <= b
  PROVE  a * c <= b * c
<1>1. b = a + (b - a) /\ b - a \in Nat
  OBVIOUS
<1>2. \A d \in Nat : (a + d) * c = a * c + d * c /\ d * c \in Nat /\ a * c \in Nat
  OBVIOUS
<1> QED BY <1>1, <1>2

LEMMA PassKeepsTypes ==
  ASSUME LoopInv, NEW lasts \in 0 .. 1 + MaxHitch, Pass(lasts)
  PROVE  LoopInv'
<1>1. /\ PassHz \in Nat \ {0} /\ MaxHitch \in Nat /\ MaxHitches \in Nat /\ lasts \in Nat
      /\ t \in Nat /\ lag \in Nat /\ hitches \in 0 .. MaxHitches /\ request \in Requests
      /\ unsent \in [DOMAIN Hz -> Nat]
  BY LoopAssumption DEF LoopInv, LoopTypeOK
<1>2. t' \in 0 .. PassHz - 1
  <2>1. \A n \in Nat : n % PassHz \in 0 .. PassHz - 1
    BY <1>1
  <2> QED BY <1>1, <2>1 DEF Pass
<1>3. unsent' \in [DOMAIN Hz -> Nat]
  <2>1. ASSUME NEW k \in DOMAIN Hz
        PROVE  _due(unsent[k] + ((t + lasts) * Hz[k]) \div PassHz - (t * Hz[k]) \div PassHz) \in Nat
    <3>1. Hz[k] \in Nat
      BY <2>1, LoopAssumption DEF Hz
    <3>2. t * Hz[k] \in Nat /\ (t + lasts) * Hz[k] \in Nat /\ t * Hz[k] <= (t + lasts) * Hz[k]
      <4>1. \A a, l, h \in Nat : a * h \in Nat /\ (a + l) * h \in Nat /\ a * h <= (a + l) * h
        <5> TAKE a, l, h \in Nat
        <5>1. (a + l) * h = a * h + l * h /\ a * h \in Nat /\ l * h \in Nat
          OBVIOUS
        <5> QED BY <5>1
      <4> QED BY <1>1, <3>1, <4>1
    <3> DEFINE q == (t * Hz[k]) \div PassHz
               r == ((t + lasts) * Hz[k]) \div PassHz
    <3>3. q \in Int /\ r \in Int /\ q <= r
      BY <1>1, <3>2, QuotientsOrder
    <3>4. unsent[k] \in Nat
      BY <1>1, <2>1
    <3> HIDE DEF q, r
    <3>5. unsent[k] + r - q \in Nat
      BY <3>3, <3>4
    <3>6. _due(unsent[k] + r - q) \in Nat
      BY <3>5 DEF _due
    <3> QED BY <3>6 DEF q, r
  <2>2. unsent' = [k \in DOMAIN Hz |->
          _due(unsent[k] + ((t + lasts) * Hz[k]) \div PassHz - (t * Hz[k]) \div PassHz)]
    BY DEF Pass, publish
  <2> QED BY <2>1, <2>2
<1>4. /\ hitches' \in 0 .. MaxHitches /\ lag' \in 0 .. MaxHitch * MaxHitches
      /\ lag' <= MaxHitch * hitches'
  <2>1. /\ hitches' = IF lasts > 1 THEN hitches + 1 ELSE hitches
        /\ lag' = IF lag + lasts > 0 THEN lag + lasts - 1 ELSE 0
        /\ lasts > 1 => hitches < MaxHitches
    BY DEF Pass
  <2>2. hitches' \in 0 .. MaxHitches
    BY <1>1, <2>1
  <2>3. MaxHitch * (hitches + 1) = MaxHitch * hitches + MaxHitch
        /\ MaxHitch * hitches \in Nat
    BY <1>1
  <2>4. lag' \in Nat /\ lag' <= MaxHitch * hitches'
    BY <1>1, <2>1, <2>3 DEF LoopInv
  <2>5. \A a, b, c \in Nat : a <= b => c * a <= c * b /\ c * a \in Nat /\ c * b \in Nat
    <3> TAKE a, b, c \in Nat
    <3>1. c * a = a * c /\ c * b = b * c /\ a * c \in Nat /\ b * c \in Nat
      OBVIOUS
    <3>2. a <= b => a * c <= b * c
      BY ProductsOrder
    <3> QED BY <3>1, <3>2
  <2>6. MaxHitch * hitches' <= MaxHitch * MaxHitches
        /\ MaxHitch * hitches' \in Nat /\ MaxHitch * MaxHitches \in Nat
    <3>1. hitches' \in Nat /\ hitches' <= MaxHitches
      BY <1>1, <2>2
    <3> QED BY <1>1, <2>5, <3>1, Zenon
  <2> QED BY <2>2, <2>4, <2>6
<1>5. wheels_cmd' \in Wheels
  <2>1. read_cmd_vel.vx \in 0 .. 2 /\ read_cmd_vel.wz \in -1 .. 0
    BY <1>1 DEF read_cmd_vel, Requests, Within
  <2>2. compensate_yaw(read_cmd_vel.wz) \in -2 .. 2
    BY <2>1 DEF compensate_yaw, Within
  <2>3. wheels_cmd' = drive(read_cmd_vel)
    BY DEF Pass
  <2> HIDE DEF read_cmd_vel, compensate_yaw
  <2> QED BY <2>1, <2>2, <2>3 DEF drive, Wheels
<1>6. UNCHANGED <<request, loop>>
  BY DEF Pass
<1> QED BY <1>2, <1>3, <1>4, <1>5, <1>6 DEF LoopInv, LoopTypeOK

LEMMA LoopKeepsTypes == LoopInv /\ [LoopNext]_loop_vars => LoopInv'
<1> SUFFICES ASSUME LoopInv, [LoopNext]_loop_vars
             PROVE  LoopInv'
  OBVIOUS
<1>1. CASE CommandArrives
  BY <1>1 DEF LoopInv, LoopTypeOK, CommandArrives
<1>2. CASE Interrupted
  <2>1. drive([vx |-> 0, wz |-> 0]) \in Wheels
    <3>1. compensate_yaw(0) = 0
      BY DEF compensate_yaw, Within
    <3> QED BY <3>1 DEF drive, Wheels
  <2> QED BY <1>2, <2>1 DEF LoopInv, LoopTypeOK, Interrupted
<1>3. CASE UNCHANGED loop_vars
  BY <1>3 DEF LoopInv, LoopTypeOK, loop_vars
<1> QED BY <1>1, <1>2, <1>3, PassKeepsTypes DEF LoopNext

SimInv == /\ part \in Parts
          /\ PacingInv /\ RelayInv /\ RobotTypeOK /\ BridgeTypeOK /\ LaserTypeOK /\ LoopInv

LEMMA SimStarts == SimInit => SimInv
<1> SUFFICES ASSUME SimInit
             PROVE  SimInv
  OBVIOUS
<1>1. PacingInv
  <2>1. <<>> \in Seq(Int \X Int) /\ Len(<<>>) <= 3
    OBVIOUS
  <2>2. 0 \in 0 .. MaxDrift /\ 0 \in 0 .. EarlyTrims /\ 2 \in 1 .. 2 /\ FALSE \in BOOLEAN
    BY PacingAssumption
  <2>3. FirstHz \in {FirstHz} \cup ScanHz .. CeilingHz
    OBVIOUS
  <2> QED BY <2>1, <2>2, <2>3, Zenon DEF SimInit, PacingInit, PacingInv, PacingTypeOK
<1>2. RelayInv
  BY RelayStarts DEF SimInit
<1>3. RobotTypeOK
  BY SpeedsAreInt DEF SimInit, RobotInit, RobotTypeOK
<1>4. BridgeTypeOK
  <2>1. -1 \in (-1) .. OdomTimeout + 1 /\ 0 \in 0 .. MaxTickGap /\ 0 \in Nat
    BY BridgeAssumption
  <2>2. Resting \in [vx : Rates, wz : Rates]
    BY WheelsStart
  <2>3. Unturned \in [{"left", "right"} -> 0 .. Turn - 1]
    BY BridgeAssumption DEF Unturned
  <2>4. [b \in Bridges |-> "absent"] \in
           [Bridges -> {"absent", "looking", "cleared", "refused", "up"}]
    OBVIOUS
  <2>5. [b \in Bridges |-> {}] \in [Bridges -> SUBSET Bridges]
    OBVIOUS
  <2>6. FALSE \in BOOLEAN
    OBVIOUS
  <2> QED BY <2>1, <2>2, <2>3, <2>4, <2>5, <2>6, Zenon DEF SimInit, BridgeInit, BridgeTypeOK
<1>5. LaserTypeOK
  <2>1. 0 \in Int /\ 0 \in Nat /\ FALSE \in BOOLEAN /\ NoScan \in Places \cup {NoScan}
    OBVIOUS
  <2> QED BY <2>1, Zenon DEF SimInit, LaserInit, LaserTypeOK
<1>6. LoopInv
  BY LoopAssumption DEF SimInit, LoopInit, LoopInv, LoopTypeOK, Requests, Wheels
<1> QED BY <1>1, <1>2, <1>3, <1>4, <1>5, <1>6 DEF SimInv, SimInit

LEMMA SimInductive == SimInv /\ [SimNext]_sim_vars => SimInv'
<1> SUFFICES ASSUME SimInv, [SimNext]_sim_vars
             PROVE  SimInv'
  OBVIOUS
<1>1. /\ [PacingNext]_pacing_vars /\ [RelayNext]_relay_vars /\ [RobotNext]_robot_vars
      /\ [BridgeNext]_bridge_vars /\ [LaserNext]_laser_vars /\ [LoopNext]_loop_vars
  BY DEF SimNext, sim_vars
<1>2. part' = part
  BY DEF SimNext, sim_vars
<1> QED BY <1>1, <1>2, PacingKeepsTypes, RelayInductive, RobotKeepsTypes, BridgeKeepsTypes,
           LaserKeepsTypes, LoopKeepsTypes DEF SimInv

(* Every variable of what simulates the robot keeps to its type, for all   *)
(* rates, windows and limits: the pacing is clamped whatever a probe says, *)
(* the wheels stay within their turn, no topic has sent more than was due, *)
(* and the loop is behind by no more than its hitches (sim_runner).        *)
THEOREM SimTypeCorrect == SimSpec => []SimTypeOK
<1>1. SimInv => SimTypeOK
  BY DEF SimInv, SimTypeOK, PacingInv, RelayInv, LoopInv
<1> QED BY <1>1, SimStarts, SimInductive, PTL DEF SimSpec

(* What simulates the robot, in any order and for as long as somebody      *)
(* looks: the relay gives up just where nearly nothing fits, the 2D robot does*)
(* what it was told, the twin's wheels do not outlive their odometry, two  *)
(* bridges publish together only if told to, and the laser's pose is the   *)
(* motion that was matched (scan_frame_relay, physics, twin_bridge,        *)
(* laser_odometry).                                                        *)
THEOREM SimulatorsKeepTheirWord ==
  SimSpec => [](/\ MatchingRoomIsFiltered
                /\ CommandTakesEffect
                /\ WheelsFollowOdometry
                /\ SoleUnlessTogether
                /\ PoseIsTheMatchedMotion)
<1>1. SimInit => RelayInit /\ RobotInit /\ BridgeInit /\ LaserInit
  BY DEF SimInit
<1>2. [SimNext]_sim_vars => /\ [RelayNext]_relay_vars /\ [RobotNext]_robot_vars
                            /\ [BridgeNext]_bridge_vars /\ [LaserNext]_laser_vars
  BY DEF SimNext, sim_vars
<1> QED BY <1>1, <1>2, RoomFiltered, TakesEffect, WheelsFollow, SoleBridge, PoseMatched, PTL
        DEF SimSpec, RelaySpec, RobotSpec, BridgeSpec, LaserSpec
-----------------------------------------------------------------------------
(* The guard.  A car that has been seen stays visible and keeps the guard  *)
(* shut; when it opens, the dwell since the simulator was seen is over.    *)

TargetInv ==
  /\ elapsed \in Nat
  /\ sim_seen_at # None => sim_seen_at \in Nat /\ sim_seen_at <= elapsed
  /\ car_seen_at # None => car_seen_at \in Nat /\ "car" \in visible
  /\ guard \in {"asked", "looking", "open", "refused"}
  /\ "car" \in visible => car_seen_at # None
  /\ guard \in {"asked", "looking"} => elapsed <= Seconds
  /\ guard = "open" =>
       /\ sim_seen_at # None
       /\ sim_seen_at + Confirm <= Seconds =>
            /\ elapsed - sim_seen_at >= Confirm
            /\ car_seen_at # None => car_seen_at - sim_seen_at >= Confirm

LEMMA LookTarget ==
  ASSUME TargetInv, Look
  PROVE  TargetInv'
<1>1. /\ Seconds \in Nat /\ Confirm \in Nat /\ None \notin Int
      /\ elapsed \in Nat /\ elapsed + 1 \in Nat /\ elapsed + 1 <= Seconds
  BY TargetAssumption DEF TargetInv, Look
<1> DEFINE now      == elapsed + 1
           surfaced == IF sim /\ ~real /\ sim_seen_at = None THEN now ELSE sim_seen_at
           ends     == \/ real
                       \/ sim /\ sim_seen_at # None /\ now - sim_seen_at >= Confirm
                       \/ now = Seconds
<1>2. /\ guard = "looking" /\ elapsed' = now /\ sim_seen_at' = surfaced
      /\ guard' = IF ends THEN require_simulator ELSE guard
      /\ UNCHANGED <<visible, car_seen_at>>
  BY DEF Look
<1>3. /\ surfaced # None => surfaced \in Nat /\ surfaced <= now
      /\ sim /\ ~real => surfaced # None
  <2>1. CASE sim /\ ~real /\ sim_seen_at = None
    <3>1. surfaced = now
      BY <2>1
    <3>2. now \in Nat /\ now # None /\ now <= now
      BY <1>1
    <3> HIDE DEF surfaced, now
    <3> QED BY <3>1, <3>2
  <2>2. CASE ~sim \/ real \/ sim_seen_at # None
    <3>1. surfaced = sim_seen_at
      BY <2>2
    <3>2. sim_seen_at # None => sim_seen_at \in Nat /\ sim_seen_at <= now
      BY <1>1 DEF TargetInv
    <3> HIDE DEF surfaced, now
    <3> QED BY <2>2, <3>1, <3>2
  <2> QED BY <2>1, <2>2
<1>4. guard' \in {"looking", "open", "refused"}
  BY <1>2 DEF require_simulator
<1>5. ASSUME guard' = "open"
      PROVE  /\ car_seen_at = None /\ surfaced # None
             /\ surfaced + Confirm <= Seconds => now - surfaced >= Confirm
  <2>1. ends /\ target = "simulator"
    BY <1>2, <1>5 DEF require_simulator
  <2>2. ~real /\ sim
    BY <2>1 DEF target
  <2>3. car_seen_at = None
    BY <2>2 DEF TargetInv, real
  <2>4. surfaced # None /\ surfaced \in Nat
    BY <1>3, <2>2
  <2>5. CASE now = Seconds
    <3> HIDE DEF surfaced
    <3> QED BY <1>1, <2>3, <2>4, <2>5
  <2>6. CASE sim_seen_at # None /\ now - sim_seen_at >= Confirm
    BY <1>1, <2>3, <2>4, <2>6
  <2> QED BY <2>1, <2>2, <2>5, <2>6
<1>6. guard' = "looking" => now <= Seconds
  BY <1>1
<1> QED BY <1>1, <1>2, <1>3, <1>4, <1>5, <1>6 DEF TargetInv

LEMMA TargetInductive == TargetInv /\ [TargetNext]_target_vars => TargetInv'
<1> SUFFICES ASSUME TargetInv, [TargetNext]_target_vars
             PROVE  TargetInv'
  OBVIOUS
<1>1. ASSUME NEW p \in Participants, Discover(p)
      PROVE  TargetInv'
  <2>1. /\ guard # "refused" /\ visible' = visible \cup {p}
        /\ car_seen_at' = IF p = "car" THEN elapsed ELSE car_seen_at
        /\ UNCHANGED <<elapsed, sim_seen_at, guard>>
    BY <1>1 DEF Discover
  <2>2. elapsed \in Nat /\ elapsed # None
    BY TargetAssumption DEF TargetInv
  <2>3. CASE p = "car"
    BY <2>1, <2>2, <2>3 DEF TargetInv
  <2>4. CASE p # "car"
    BY <2>1, <2>2, <2>4 DEF TargetInv
  <2> QED BY <2>3, <2>4
<1>2. ASSUME NEW p \in Participants, Vanish(p)
      PROVE  TargetInv'
  BY <1>2 DEF TargetInv, Vanish
<1>3. CASE forbid_car_domain
  BY <1>3, TargetAssumption DEF TargetInv, forbid_car_domain
<1>4. CASE Later
  BY <1>4, TargetAssumption DEF TargetInv, Later
<1>5. CASE UNCHANGED target_vars
  BY <1>5 DEF TargetInv, target_vars
<1> QED BY <1>1, <1>2, <1>3, <1>4, <1>5, LookTarget DEF TargetNext
-----------------------------------------------------------------------------
(* The tools behind the guard.  Once one of them drives, its guard knows of  *)
(* no car any more; a topic that still executes a move has cost a loss for   *)
(* every zero that was sent; news of a motion does not outlive it by more    *)
(* than the lag of ground truth; and a window of the stuck detector in which *)
(* the robot was seen to move hands on less than a window of pushing.        *)

GuardHolds == TargetInv \/ car_seen_at = None

ZerosCount ==
  /\ \A topic \in Topics : latched[topic] => topic \in topics
  /\ pc = "waiting" => \A topic \in Topics : ~latched[topic]
  /\ pc \in {"zeroing", "handler"} =>
       /\ zeros_left > 0
       /\ \A topic \in Topics : latched[topic] => lost + zeros_left >= Reps
  /\ pc = "gone" => \A topic \in Topics : ~latched[topic]

WindowsCount ==
  /\ news > 0 => news + pushed <= MaxLag
  /\ ~seen => mark = None
  /\ mark = None => pushed = 0 /\ ~moved
  /\ mark # None => /\ mark \in 0 .. StuckTicks - 1
                    /\ moved => pushed <= MaxLag + mark
                    /\ ~moved => pushed <= MaxLag + StuckTicks + mark

LapsCount == pc \in Legs \cup {"waiting"} => laps_left # 0

DrivingInv == /\ TypeOK /\ (pc = "waiting" => TargetInv) /\ GuardHolds
              /\ ZerosCount /\ WindowsCount /\ LapsCount

LEMMA DrivingInit == Init => DrivingInv
<1> SUFFICES ASSUME Init
             PROVE  DrivingInv
  OBVIOUS
<1> USE DrivingAssumption, TargetAssumption
<1>1. TargetInv
  BY DEF Init, TargetInit, TargetInv
<1>2. TargetTypeOK
  BY DEF Init, TargetInit, TargetTypeOK, Horizon
<1>3. /\ 0 \in 0 .. Reps /\ 0 \in 0 .. MaxLoss
      /\ 0 \in 0 .. LegTicks + 2 * TurnTicks + StuckTicks
  OBVIOUS
<1>4. TypeOK
  <2>1. /\ tool \in {"patrol", "safe"}
        /\ pc \in {"waiting", "body", "zeroing", "handler", "gone", "killed"} \cup Legs
        /\ topics \subseteq Topics
        /\ latched \in [Topics -> BOOLEAN]
    BY DEF Init
  <2>2. laps_left \in (0 .. MaxLaps) \cup {None} /\ news \in 0 .. MaxLag
    <3>1. laps_left \in (1 .. MaxLaps) \cup {None} /\ news = 0
      BY DEF Init
    <3> QED BY <3>1
  <2>3. /\ signalled \in BOOLEAN /\ leg \in 1 .. 4 /\ seen \in BOOLEAN
        /\ mark \in (0 .. StuckTicks) \cup {None}
        /\ moved \in BOOLEAN /\ pushed \in Nat
    <3>1. signalled = FALSE /\ seen = FALSE /\ moved = FALSE /\ leg = 1 /\ mark = None /\ pushed = 0
      BY DEF Init
    <3>2. signalled \in BOOLEAN /\ seen \in BOOLEAN /\ moved \in BOOLEAN
      BY <3>1
    <3>3. leg \in 1 .. 4 /\ pushed \in Nat
      BY <3>1
    <3>4. mark \in (0 .. StuckTicks) \cup {None}
      BY <3>1
    <3> QED BY <3>2, <3>3, <3>4
  <2> QED BY <1>2, <1>3, <2>1, <2>2, <2>3 DEF Init, TypeOK
<1>5. ZerosCount /\ WindowsCount
  BY DEF Init, ZerosCount, WindowsCount
<1>6. LapsCount
  <2>1. laps_left \in (1 .. MaxLaps) \cup {None} /\ None # 0
    BY DEF Init
  <2> QED BY <2>1 DEF LapsCount
<1> QED BY <1>1, <1>4, <1>5, <1>6 DEF DrivingInv, GuardHolds

LEMMA TargetType == TargetTypeOK /\ [TargetNext]_target_vars => TargetTypeOK'
<1> SUFFICES ASSUME TargetTypeOK, [TargetNext]_target_vars
             PROVE  TargetTypeOK'
  OBVIOUS
<1> USE TargetAssumption DEF TargetTypeOK, Horizon
<1>1. ASSUME NEW p \in Participants, Discover(p)
      PROVE  TargetTypeOK'
  BY <1>1 DEF Discover
<1>2. ASSUME NEW p \in Participants, Vanish(p)
      PROVE  TargetTypeOK'
  BY <1>2 DEF Vanish
<1>3. CASE forbid_car_domain
  BY <1>3 DEF forbid_car_domain
<1>4. CASE Look
  <2>1. require_simulator \in {"open", "refused"}
    BY DEF require_simulator
  <2>2. elapsed + 1 \in 0 .. Seconds /\ elapsed + 1 \in 0 .. Horizon
    BY <1>4 DEF Look
  <2>3. /\ elapsed' = elapsed + 1
        /\ sim_seen_at' \in {elapsed + 1, sim_seen_at}
        /\ guard' \in {guard, require_simulator}
        /\ UNCHANGED <<car_domain, visible, car_seen_at>>
    BY <1>4 DEF Look
  <2> QED BY <2>1, <2>2, <2>3
<1>5. CASE Later
  BY <1>5 DEF Later
<1>6. CASE UNCHANGED target_vars
  BY <1>6 DEF target_vars
<1> QED BY <1>1, <1>2, <1>3, <1>4, <1>5, <1>6 DEF TargetNext

\* While the tool drives, the guard is not asked again.
LEMMA GuardIsBehind ==
  ASSUME DrivingInv, pc # "waiting", pc' # "waiting", UNCHANGED target_vars
  PROVE  (pc = "waiting" => TargetInv)' /\ GuardHolds'
  BY DEF DrivingInv, GuardHolds, TargetInv, target_vars, real, Participants

\* The laps change where a leg ends, and nowhere else.
LEMMA LapsStay ==
  ASSUME DrivingInv, laps_left' = laps_left,
         pc' \in Legs \cup {"waiting"} => pc \in Legs \cup {"waiting"}
  PROVE  LapsCount'
  BY DEF DrivingInv, LapsCount, Legs

\* What a leg starts with.
LEMMA StartsFits ==
  ASSUME TypeOK, NEW to \in Legs, NEW n \in 0 .. LegTicks + 2 * TurnTicks + StuckTicks,
         Starts(to, n), seen' = seen, news' \in 0 .. MaxLag
  PROVE  /\ pc' \in Legs
         /\ left' \in 0 .. LegTicks + 2 * TurnTicks + StuckTicks
         /\ mark' \in (0 .. StuckTicks) \cup {None}
         /\ moved' \in BOOLEAN /\ pushed' \in Nat
         /\ WindowsCount'
<1> USE DrivingAssumption, TargetAssumption
<1>1. /\ pc' = to /\ left' = n /\ mark' \in {0, None}
      /\ moved' = FALSE /\ pushed' = 0
      /\ ~seen' => mark' = None
  BY DEF Starts
<1>2. WindowsCount'
  <2>1. \A k \in 0 .. MaxLag : k > 0 => k + 0 <= MaxLag
    OBVIOUS
  <2>2. 0 \in 0 .. StuckTicks - 1 /\ 0 <= MaxLag + StuckTicks + 0
    OBVIOUS
  <2>3. news' > 0 => news' + pushed' <= MaxLag
    BY <1>1, <2>1
  <2>4. mark' # None => /\ mark' \in 0 .. StuckTicks - 1
                        /\ pushed' <= MaxLag + StuckTicks + mark'
    BY <1>1, <2>2
  <2>5. ~moved'
    BY <1>1
  <2> QED BY <1>1, <2>3, <2>4, <2>5 DEF WindowsCount
<1>3. 0 \in 0 .. StuckTicks
  OBVIOUS
<1> QED BY <1>1, <1>2, <1>3

LEMMA LegsFit ==
  /\ LegTicks \in 0 .. LegTicks + 2 * TurnTicks + StuckTicks
  /\ TurnTicks \in 0 .. LegTicks + 2 * TurnTicks + StuckTicks
  /\ StuckTicks \in 0 .. LegTicks + 2 * TurnTicks + StuckTicks
  /\ clearest_heading \subseteq 0 .. LegTicks + 2 * TurnTicks + StuckTicks
<1>1. TurnTicks \in Nat /\ LegTicks \in Nat /\ StuckTicks \in Nat
  BY DrivingAssumption
<1>2. (3 * TurnTicks) \div 2 \in Int /\ (3 * TurnTicks) \div 2 <= 2 * TurnTicks
  BY <1>1
<1> QED BY <1>1, <1>2 DEF clearest_heading

\* What is sent changes only what the topics in use execute.
LEMMA SendsType ==
  ASSUME NEW moving \in BOOLEAN, NEW gone, latched \in [Topics -> BOOLEAN], Sends(moving, gone)
  PROVE  /\ latched' \in [Topics -> BOOLEAN]
         /\ \A topic \in Topics : latched'[topic] = IF topic \in topics \ gone THEN moving ELSE latched[topic]
  BY DEF Sends

LEMMA BeginDrivingKeeps == DrivingInv /\ BeginDriving => DrivingInv'
<1> SUFFICES ASSUME DrivingInv, BeginDriving
             PROVE  DrivingInv'
  OBVIOUS
<1>1. GuardHolds' /\ (pc = "waiting" => TargetInv)'
  <2>1. pc' # "waiting"
    BY DEF BeginDriving, Starts
  <2> QED BY <2>1 DEF BeginDriving, GuardHolds
<1>2. TargetTypeOK'
  BY TargetAssumption DEF DrivingInv, TypeOK, TargetTypeOK, BeginDriving, Horizon
<1>0. LapsCount'
  BY LapsStay DEF BeginDriving
<1>3. CASE tool = "patrol"
  <2>1. Starts("forward", LegTicks)
    BY <1>3 DEF BeginDriving
  <2>2. /\ pc' \in Legs
        /\ left' \in 0 .. LegTicks + 2 * TurnTicks + StuckTicks
        /\ mark' \in (0 .. StuckTicks) \cup {None}
        /\ moved' \in BOOLEAN /\ pushed' \in Nat
        /\ WindowsCount'
    BY <2>1, LegsFit, StartsFits DEF DrivingInv, TypeOK, Legs, BeginDriving
  <2>3. ZerosCount'
    BY <2>2 DEF DrivingInv, ZerosCount, BeginDriving, Legs
  <2> QED BY <1>0, <1>1, <1>2, <2>2, <2>3 DEF DrivingInv, TypeOK, BeginDriving
<1>4. CASE tool # "patrol"
  <2>1. pc' = "body" /\ UNCHANGED <<left, mark, moved, pushed, seen, news>>
    BY <1>4 DEF BeginDriving
  <2>2. ZerosCount' /\ WindowsCount'
    BY <2>1 DEF DrivingInv, ZerosCount, WindowsCount, BeginDriving
  <2> QED BY <1>0, <1>1, <1>2, <2>1, <2>2 DEF DrivingInv, TypeOK, BeginDriving
<1> QED BY <1>3, <1>4

\* The ways out of a tool.
LEMMA ZeroingKeeps == DrivingInv /\ Zeroing => DrivingInv'
<1> SUFFICES ASSUME DrivingInv, Zeroing
             PROVE  DrivingInv'
  OBVIOUS
<1> USE DrivingAssumption
<1>1. PICK gone \in SUBSET topics :
        /\ Sends(FALSE, gone)
        /\ lost' = IF gone = {} THEN lost ELSE lost + 1
        /\ lost' <= MaxLoss
  BY DEF Zeroing
<1>2. /\ pc \in {"zeroing", "handler"} /\ zeros_left > 0 /\ zeros_left' = zeros_left - 1
      /\ pc' = IF zeros_left' = 0 THEN "gone" ELSE pc
      /\ UNCHANGED <<target_vars, tool, topics, signalled, patrol_vars>>
  BY DEF Zeroing
<1>3. /\ zeros_left \in 0 .. Reps /\ lost \in 0 .. MaxLoss
      /\ latched \in [Topics -> BOOLEAN] /\ topics \subseteq Topics
  BY DEF DrivingInv, TypeOK
<1>4. /\ latched' \in [Topics -> BOOLEAN]
      /\ \A topic \in Topics : latched'[topic] = IF topic \in topics \ gone THEN FALSE ELSE latched[topic]
  BY <1>1, <1>3, SendsType
<1>5. ASSUME NEW topic \in Topics, latched'[topic]
      PROVE  /\ topic \in topics /\ latched[topic]
             /\ lost' = lost + 1
             /\ lost' + zeros_left' >= Reps
  <2>1. latched[topic] /\ topic \in topics
    BY <1>4, <1>5 DEF DrivingInv, ZerosCount
  <2>2. topic \in gone
    BY <1>4, <1>5, <2>1
  <2>3. lost + zeros_left >= Reps
    BY <1>2, <2>1 DEF DrivingInv, ZerosCount
  <2> QED BY <1>1, <1>2, <1>3, <2>1, <2>2, <2>3
<1>6. ZerosCount'
  <2>1. CASE zeros_left' = 0
    <3>1. \A topic \in Topics : ~latched'[topic]
      BY <1>1, <1>3, <1>5, <2>1
    <3> QED BY <1>2, <2>1, <3>1 DEF ZerosCount
  <2>2. CASE zeros_left' # 0
    <3>1. pc' = pc /\ zeros_left' > 0
      BY <1>2, <1>3, <2>2
    <3> QED BY <1>2, <1>5, <3>1 DEF ZerosCount
  <2> QED BY <2>1, <2>2
<1>7. TypeOK'
  <2>1. lost' \in 0 .. MaxLoss /\ zeros_left' \in 0 .. Reps
    BY <1>1, <1>2, <1>3
  <2>2. TargetTypeOK'
    BY <1>2 DEF DrivingInv, TypeOK, TargetTypeOK, target_vars
  <2> QED BY <1>2, <1>4, <2>1, <2>2 DEF DrivingInv, TypeOK, patrol_vars
<1>8. WindowsCount'
  BY <1>2 DEF DrivingInv, WindowsCount, patrol_vars
<1>9. (pc = "waiting" => TargetInv)' /\ GuardHolds' /\ LapsCount'
  BY <1>2, GuardIsBehind, LapsStay DEF patrol_vars, Legs
<1> QED BY <1>6, <1>7, <1>8, <1>9 DEF DrivingInv

LEMMA EndsKeep == DrivingInv /\ (SafePublish \/ SafeExit \/ Kill \/ Stopping) => DrivingInv'
<1> SUFFICES ASSUME DrivingInv, SafePublish \/ SafeExit \/ Kill \/ Stopping
             PROVE  DrivingInv'
  OBVIOUS
<1>1. UNCHANGED <<target_vars, tool, topics, lost, signalled, patrol_vars>>
  BY DEF SafePublish, SafeExit, Kill, Stopping
<1>2. pc # "waiting" /\ pc' # "waiting" /\ pc' # "gone"
  BY DEF SafePublish, SafeExit, Kill, Stopping, Legs
<1>3. TargetTypeOK' /\ WindowsCount'
  BY <1>1 DEF DrivingInv, TypeOK, TargetTypeOK, target_vars, WindowsCount, patrol_vars
<1>4. (pc = "waiting" => TargetInv)' /\ GuardHolds' /\ LapsCount'
  <2>1. pc' \in Legs \cup {"waiting"} => pc \in Legs \cup {"waiting"}
    BY DEF SafePublish, SafeExit, Kill, Stopping, Legs
  <2> QED BY <1>1, <1>2, <2>1, GuardIsBehind, LapsStay DEF patrol_vars
<1>5. CASE SafePublish
  <2>1. PICK moving \in BOOLEAN, gone \in SUBSET topics : Sends(moving, gone)
    BY <1>5 DEF SafePublish
  <2>2. /\ latched' \in [Topics -> BOOLEAN]
        /\ \A topic \in Topics : latched'[topic] => latched[topic] \/ topic \in topics
    BY <2>1, SendsType DEF DrivingInv, TypeOK
  <2>3. TypeOK'
    BY <1>1, <1>3, <1>5, <2>2 DEF SafePublish, DrivingInv, TypeOK, patrol_vars
  <2>4. ZerosCount'
    BY <1>1, <1>5, <2>2 DEF SafePublish, DrivingInv, ZerosCount
  <2> QED BY <1>3, <1>4, <2>3, <2>4 DEF DrivingInv
<1>6. CASE SafeExit \/ Stopping
  <2>1. pc' = "zeroing" /\ zeros_left' = Reps /\ latched' = latched
    BY <1>6 DEF SafeExit, Stopping
  <2>2. TypeOK'
    BY <1>1, <1>3, <2>1, DrivingAssumption DEF DrivingInv, TypeOK, patrol_vars
  <2>3. ZerosCount'
    BY <1>1, <2>1, DrivingAssumption DEF DrivingInv, TypeOK, ZerosCount
  <2> QED BY <1>3, <1>4, <2>2, <2>3 DEF DrivingInv
<1>7. CASE Kill
  <2>1. pc' = "killed" /\ UNCHANGED <<zeros_left, latched>>
    BY <1>7 DEF Kill
  <2>2. TypeOK'
    BY <1>1, <1>3, <2>1 DEF DrivingInv, TypeOK, patrol_vars
  <2>3. ZerosCount'
    BY <1>1, <2>1 DEF DrivingInv, ZerosCount
  <2> QED BY <1>3, <1>4, <2>2, <2>3 DEF DrivingInv
<1> QED BY <1>5, <1>6, <1>7

LEMMA SignalKeeps == DrivingInv /\ Signal => DrivingInv'
<1> SUFFICES ASSUME DrivingInv, Signal
             PROVE  DrivingInv'
  OBVIOUS
<1>1. UNCHANGED <<target_vars, tool, topics, latched, lost, patrol_vars>>
  BY DEF Signal
<1>2. TargetTypeOK' /\ WindowsCount'
  BY <1>1 DEF DrivingInv, TypeOK, TargetTypeOK, target_vars, WindowsCount, patrol_vars
<1>3. GuardHolds' /\ (pc = "waiting" => TargetInv)' /\ LapsCount'
  <2>0. pc' \in Legs \cup {"waiting"} => pc \in Legs \cup {"waiting"}
    BY DEF Signal, DrivingInv, TypeOK, Legs
  <2>1. TargetInv => TargetInv'
    BY <1>1 DEF TargetInv, target_vars
  <2>2. car_seen_at' = car_seen_at
    BY <1>1 DEF target_vars
  <2>3. pc' = "waiting" => pc = "waiting"
    BY DEF Signal, DrivingInv, TypeOK
  <2>4. LapsCount'
    BY <1>1, <2>0, LapsStay DEF patrol_vars
  <2> QED BY <2>1, <2>2, <2>3, <2>4 DEF DrivingInv, GuardHolds
<1>4. CASE pc = "waiting"
  <2>1. pc' = "gone" /\ zeros_left' = zeros_left /\ signalled' = TRUE
    BY <1>4 DEF Signal
  <2>2. ZerosCount'
    BY <1>1, <1>4, <2>1 DEF DrivingInv, ZerosCount
  <2> QED BY <1>1, <1>2, <1>3, <2>1, <2>2 DEF DrivingInv, TypeOK, patrol_vars
<1>5. CASE pc # "waiting" /\ tool = "safe"
  <2>1. pc' = "handler" /\ zeros_left' = Reps /\ signalled' = TRUE
    BY <1>5 DEF Signal
  <2>2. ZerosCount'
    BY <1>1, <2>1, DrivingAssumption DEF DrivingInv, TypeOK, ZerosCount
  <2>3. zeros_left' \in 0 .. Reps
    BY <2>1, DrivingAssumption
  <2> QED BY <1>1, <1>2, <1>3, <2>1, <2>2, <2>3 DEF DrivingInv, TypeOK, patrol_vars
<1>6. CASE pc # "waiting" /\ tool = "patrol"
  <2>1. UNCHANGED <<pc, zeros_left>> /\ signalled' = TRUE
    BY <1>6 DEF Signal
  <2>2. ZerosCount'
    BY <1>1, <2>1 DEF DrivingInv, ZerosCount
  <2> QED BY <1>1, <1>2, <1>3, <2>1, <2>2 DEF DrivingInv, TypeOK, patrol_vars
<1> QED BY <1>4, <1>5, <1>6 DEF DrivingInv, TypeOK

\* What is left of the news, after a step.
NewsPasses(free) == news' = IF free /\ pc \in {"forward", "back"} THEN MaxLag
                            ELSE IF news > 0 THEN news - 1 ELSE 0

\* A step of the stuck detector that does not end the window of a robot that stands.
LEMMA WatchKeepsCount ==
  ASSUME TypeOK, WindowsCount, NEW free \in BOOLEAN, NEW shows \in BOOLEAN, NEW far \in BOOLEAN,
         shows => free \/ news > 0, far => moved \/ shows, NewsPasses(free), seen' = seen,
         ~Blocked(far), WatchPosition(free, shows)
  PROVE  /\ mark' \in (0 .. StuckTicks) \cup {None}
         /\ moved' \in BOOLEAN /\ pushed' \in Nat
         /\ WindowsCount'
<1> USE DrivingAssumption, TargetAssumption
<1>1. CASE ~watched
  <2>1. UNCHANGED <<mark, moved, pushed>>
    BY <1>1 DEF WatchPosition
  <2>2. news' > 0 => news' + pushed' <= MaxLag
    <3>1. CASE free /\ pc \in {"forward", "back"}
      <4>1. pushed = 0
        BY <1>1, <3>1 DEF watched, WindowsCount
      <4> QED BY <2>1, <3>1, <4>1 DEF NewsPasses
    <3>2. CASE ~(free /\ pc \in {"forward", "back"})
      BY <2>1, <3>2 DEF NewsPasses, TypeOK, WindowsCount
    <3> QED BY <3>1, <3>2
  <2> QED BY <2>1, <2>2 DEF TypeOK, WindowsCount
<1>0. CASE watched
  <2> DEFINE Now == IF free THEN 0 ELSE pushed + 1
  <2>1. /\ pushed \in Nat /\ news \in 0 .. MaxLag /\ moved \in BOOLEAN
        /\ news > 0 => news + pushed <= MaxLag
        /\ pushed' = Now
    BY <1>0 DEF TypeOK, WindowsCount, WatchPosition
  <2>2. /\ Now \in Nat
        /\ news' > 0 => news' + pushed' <= MaxLag
        /\ shows => Now <= MaxLag
    BY <1>0, <2>1 DEF NewsPasses, watched
  <2>3. seen'
    BY <1>0 DEF watched
  <2>4. ASSUME mark' = 0, moved' = FALSE, Now <= MaxLag + StuckTicks
        PROVE  /\ mark' \in (0 .. StuckTicks) \cup {None}
               /\ moved' \in BOOLEAN /\ pushed' \in Nat
               /\ WindowsCount'
    <3>1. mark' \in 0 .. StuckTicks /\ mark' \in 0 .. StuckTicks - 1 /\ mark' # None
      BY <2>4
    <3>2. pushed' <= MaxLag + StuckTicks + mark'
      BY <2>1, <2>2, <2>4
    <3> QED BY <2>1, <2>2, <2>3, <2>4, <3>1, <3>2 DEF WindowsCount
  <2>5. CASE mark = None
    <3>1. pushed = 0
      BY <2>5 DEF WindowsCount
    <3>2. mark' = 0 /\ moved' = FALSE
      BY <1>0, <2>5 DEF WatchPosition
    <3>3. Now <= MaxLag + StuckTicks
      BY <3>1
    <3> QED BY <2>4, <3>2, <3>3
  <2>6. CASE mark # None
    <3>1. /\ mark \in 0 .. StuckTicks - 1
          /\ moved => pushed <= MaxLag + mark
          /\ ~moved => pushed <= MaxLag + StuckTicks + mark
      BY <2>6 DEF WindowsCount
    <3>2. CASE mark + 1 >= StuckTicks
      <4>1. mark' = 0 /\ moved' = FALSE /\ (moved \/ shows)
        BY <1>0, <2>6, <3>2 DEF WatchPosition, Blocked
      <4>2. Now <= MaxLag + StuckTicks
        BY <2>1, <2>2, <3>1, <4>1
      <4> QED BY <2>4, <4>1, <4>2
    <3>3. CASE ~(mark + 1 >= StuckTicks)
      <4>1. mark' = mark + 1 /\ moved' = (moved \/ shows)
        BY <1>0, <2>6, <3>3 DEF WatchPosition
      <4>2. mark' \in 0 .. StuckTicks - 1 /\ mark' \in 0 .. StuckTicks
        BY <3>1, <3>3, <4>1
      <4>3. /\ moved' => pushed' <= MaxLag + mark'
            /\ ~moved' => pushed' <= MaxLag + StuckTicks + mark'
        BY <2>1, <2>2, <3>1, <4>1
      <4>4. mark' # None /\ moved' \in BOOLEAN
        BY <2>1, <4>1, <4>2
      <4> QED BY <2>1, <2>2, <2>3, <4>2, <4>3, <4>4 DEF WindowsCount
    <3> QED BY <3>2, <3>3
  <2> QED BY <2>5, <2>6
<1> QED BY <1>0, <1>1

LEMMA DriveKeeps == DrivingInv /\ Drive => DrivingInv'
<1> SUFFICES ASSUME DrivingInv, Drive
             PROVE  DrivingInv'
  OBVIOUS
<1>1. /\ pc \in Legs /\ left > 0
      /\ UNCHANGED <<target_vars, tool, topics, zeros_left, lost, signalled, laps_left, leg, seen>>
      /\ latched' \in [Topics -> BOOLEAN]
      /\ \A topic \in Topics : latched'[topic] => latched[topic] \/ topic \in topics
  <2>1. Sends(TRUE, {})
    BY DEF Drive
  <2> QED BY <2>1, SendsType DEF Drive, DrivingInv, TypeOK
<1>2. /\ pc' \in Legs
      /\ left' \in 0 .. LegTicks + 2 * TurnTicks + StuckTicks
      /\ mark' \in (0 .. StuckTicks) \cup {None}
      /\ moved' \in BOOLEAN /\ pushed' \in Nat /\ news' \in 0 .. MaxLag
      /\ WindowsCount'
  <2>1. PICK free \in BOOLEAN, shows \in BOOLEAN, far \in BOOLEAN :
          /\ shows => free \/ news > 0
          /\ far => moved \/ shows
          /\ NewsPasses(free)
          /\ IF Blocked(far)
             THEN \/ pc = "forward" /\ Starts("back", StuckTicks)
                  \/ pc = "back" /\ \E n \in clearest_heading : Starts("seek", n)
             ELSE left' = left - 1 /\ WatchPosition(free, shows) /\ UNCHANGED pc
    BY DEF Drive, NewsPasses
  <2>2. news' \in 0 .. MaxLag /\ seen' = seen
    BY <1>1, <2>1, DrivingAssumption DEF NewsPasses, DrivingInv, TypeOK
  <2>3. CASE Blocked(far) /\ pc = "forward"
    <3>1. Starts("back", StuckTicks)
      BY <2>1, <2>3
    <3> QED BY <2>2, <3>1, LegsFit, StartsFits DEF DrivingInv, Legs
  <2>4. CASE Blocked(far) /\ pc = "back"
    <3>1. PICK n \in clearest_heading : Starts("seek", n)
      BY <2>1, <2>4
    <3> QED BY <2>2, <3>1, LegsFit, StartsFits DEF DrivingInv, Legs
  <2>5. CASE ~Blocked(far)
    <3>1. left' = left - 1 /\ WatchPosition(free, shows) /\ pc' = pc
      BY <2>1, <2>5
    <3>2. left' \in 0 .. LegTicks + 2 * TurnTicks + StuckTicks
      BY <1>1, <3>1, DrivingAssumption DEF DrivingInv, TypeOK
    <3> QED BY <1>1, <2>1, <2>2, <2>5, <3>1, <3>2, WatchKeepsCount DEF DrivingInv
  <2> QED BY <2>1, <2>3, <2>4, <2>5
<1>3. pc # "waiting" /\ pc' # "waiting" /\ pc' \notin {"gone", "zeroing", "handler"}
  BY <1>1, <1>2 DEF Legs
<1>4. TypeOK'
  BY <1>1, <1>2 DEF DrivingInv, TypeOK, TargetTypeOK, target_vars
<1>5. ZerosCount' /\ LapsCount'
  BY <1>1, <1>3, LapsStay DEF DrivingInv, ZerosCount, Legs
<1> QED BY <1>1, <1>2, <1>3, <1>4, <1>5, GuardIsBehind DEF DrivingInv

LEMMA LegEndsKeeps == DrivingInv /\ LegEnds => DrivingInv'
<1> SUFFICES ASSUME DrivingInv, LegEnds
             PROVE  DrivingInv'
  OBVIOUS
<1> USE DrivingAssumption
<1>1. pc \in Legs /\ UNCHANGED <<target_vars, tool, topics, latched, lost, signalled, seen, news>>
  BY DEF LegEnds
<1>2. TargetTypeOK'
  BY <1>1 DEF DrivingInv, TypeOK, TargetTypeOK, target_vars
<1> DEFINE Begun(to, n) == /\ Starts(to, n) /\ zeros_left' = zeros_left
                              /\ laps_left' \in (0 .. MaxLaps) \cup {None}
                              /\ laps_left' # 0 /\ leg' \in 1 .. 4
<1>3. ASSUME NEW to \in Legs, NEW n \in 0 .. LegTicks + 2 * TurnTicks + StuckTicks,
             Begun(to, n)
      PROVE  DrivingInv'
  <2>1. /\ pc' \in Legs
        /\ left' \in 0 .. LegTicks + 2 * TurnTicks + StuckTicks
        /\ mark' \in (0 .. StuckTicks) \cup {None}
        /\ moved' \in BOOLEAN /\ pushed' \in Nat
        /\ WindowsCount'
    BY <1>1, <1>3, StartsFits DEF DrivingInv, TypeOK
  <2>2. pc # "waiting" /\ pc' # "waiting" /\ pc' \notin {"gone", "zeroing", "handler"}
    BY <1>1, <2>1 DEF Legs
  <2>3. TypeOK'
    BY <1>1, <1>2, <1>3, <2>1 DEF DrivingInv, TypeOK
  <2>4. ZerosCount' /\ LapsCount'
    BY <1>1, <1>3, <2>2 DEF DrivingInv, ZerosCount, LapsCount
  <2> QED BY <1>1, <2>1, <2>2, <2>3, <2>4, GuardIsBehind DEF DrivingInv
<1>a. laps_left # 0
  BY <1>1 DEF DrivingInv, LapsCount
<1>4. CASE pc = "forward"
  <2>1. Begun("turn", TurnTicks)
    BY <1>4, <1>a DEF LegEnds, DrivingInv, TypeOK
  <2> QED BY <1>3, <2>1, LegsFit DEF Legs
<1>5. CASE pc = "back"
  <2>1. PICK n \in clearest_heading : Begun("seek", n)
    BY <1>5, <1>a DEF LegEnds, DrivingInv, TypeOK
  <2> QED BY <1>3, <2>1, LegsFit DEF Legs
<1>6. CASE pc \in {"turn", "seek"}
  <2>1. NextLeg
    BY <1>6 DEF LegEnds
  <2>2. leg' \in 1 .. 4 /\ laps_left' \in (0 .. MaxLaps) \cup {None}
    <3>1. leg \in 1 .. 4 /\ laps_left \in (0 .. MaxLaps) \cup {None}
      BY DEF DrivingInv, TypeOK
    <3>2. leg' \in 1 .. 4
      BY <2>1, <3>1 DEF NextLeg
    <3>3. CASE leg = 4 /\ laps_left # None
      <4>1. laps_left' = laps_left - 1 /\ laps_left \in 1 .. MaxLaps
        BY <1>a, <2>1, <3>1, <3>3 DEF NextLeg
      <4>2. laps_left' \in 0 .. MaxLaps
        BY <4>1
      <4> QED BY <3>2, <4>2
    <3>4. CASE ~(leg = 4 /\ laps_left # None)
      BY <2>1, <3>1, <3>2, <3>4 DEF NextLeg
    <3> QED BY <3>3, <3>4
  <2>3. CASE leg = 4 /\ laps_left = 1
    <3>1. /\ pc' = "zeroing" /\ zeros_left' = Reps
          /\ UNCHANGED <<left, mark, moved, pushed>>
      BY <2>1, <2>3 DEF NextLeg
    <3>2. zeros_left' \in 0 .. Reps /\ zeros_left' > 0 /\ lost + zeros_left' >= Reps
      BY <3>1 DEF DrivingInv, TypeOK
    <3>3. TypeOK'
      BY <1>1, <1>2, <2>2, <3>1, <3>2 DEF DrivingInv, TypeOK
    <3>4. ZerosCount' /\ WindowsCount' /\ LapsCount'
      BY <1>1, <3>1, <3>2 DEF DrivingInv, ZerosCount, WindowsCount, LapsCount, Legs
    <3>5. (pc = "waiting" => TargetInv)' /\ GuardHolds'
      BY <1>1, <3>1, GuardIsBehind DEF Legs
    <3> QED BY <3>3, <3>4, <3>5 DEF DrivingInv
  <2>4. CASE ~(leg = 4 /\ laps_left = 1)
    <3>0. laps_left' # 0
      <4>1. laps_left \in (1 .. MaxLaps) \cup {None} /\ leg \in 1 .. 4
        BY <1>a DEF DrivingInv, TypeOK
      <4>2. CASE leg = 4 /\ laps_left # None
        <5>1. laps_left' = laps_left - 1 /\ laps_left \in 2 .. MaxLaps
          BY <2>1, <2>4, <4>1, <4>2 DEF NextLeg
        <5> QED BY <5>1
      <4>3. CASE ~(leg = 4 /\ laps_left # None)
        BY <1>a, <2>1, <4>3 DEF NextLeg
      <4> QED BY <4>2, <4>3
    <3>1. Begun("forward", LegTicks)
      BY <2>1, <2>2, <2>4, <3>0 DEF NextLeg
    <3> QED BY <1>3, <3>1, LegsFit DEF Legs
  <2> QED BY <2>3, <2>4
<1> QED BY <1>1, <1>4, <1>5, <1>6 DEF Legs

LEMMA DrivingInductive == DrivingInv /\ [Next]_vars => DrivingInv'
<1> SUFFICES ASSUME DrivingInv, [Next]_vars
             PROVE  DrivingInv'
  OBVIOUS
<1>1. CASE pc = "waiting" /\ TargetNext /\ UNCHANGED driving_vars
  <2>1. TargetTypeOK' /\ TargetInv'
    BY <1>1, TargetType, TargetInductive DEF DrivingInv, TypeOK
  <2>2. /\ UNCHANGED <<tool, pc, topics, latched, zeros_left, lost, signalled>>
        /\ UNCHANGED <<laps_left, leg, left, seen, mark, news, moved, pushed>>
    BY <1>1 DEF driving_vars, patrol_vars
  <2>3. TypeOK' /\ ZerosCount' /\ WindowsCount' /\ LapsCount'
    BY <2>1, <2>2, LapsStay DEF DrivingInv, TypeOK, ZerosCount, WindowsCount
  <2> QED BY <2>1, <2>3 DEF DrivingInv, GuardHolds
<1>2. CASE TruthArrives
  <2>1. /\ pc \in Legs /\ seen' = TRUE
        /\ UNCHANGED <<target_vars, tool, pc, topics, latched, zeros_left, lost,
                        signalled, laps_left, leg, left, mark, news, moved, pushed>>
    BY <1>2 DEF TruthArrives
  <2>2. TypeOK' /\ ZerosCount' /\ WindowsCount' /\ LapsCount'
    BY <2>1, LapsStay DEF DrivingInv, TypeOK, TargetTypeOK, target_vars, ZerosCount, WindowsCount
  <2> QED BY <2>1, <2>2, GuardIsBehind DEF DrivingInv, Legs
<1>3. CASE UNCHANGED vars
  <2>1. UNCHANGED target_vars /\ UNCHANGED driving_vars
    BY <1>3 DEF vars
  <2>2. TypeOK' /\ ZerosCount' /\ WindowsCount' /\ LapsCount'
    BY <2>1, LapsStay DEF DrivingInv, TypeOK, TargetTypeOK, target_vars, ZerosCount, WindowsCount,
                driving_vars, patrol_vars
  <2>3. (TargetInv => TargetInv') /\ (car_seen_at' = car_seen_at) /\ pc' = pc
    BY <2>1 DEF TargetInv, target_vars, driving_vars
  <2> QED BY <2>2, <2>3 DEF DrivingInv, GuardHolds
<1> QED BY <1>1, <1>2, <1>3, BeginDrivingKeeps, EndsKeep, ZeroingKeeps, SignalKeeps,
           DriveKeeps, LegEndsKeeps DEF Next

\* The invariant holds from before the guard is asked until the tool is gone.
LEMMA DrivingInvariance == Spec => []DrivingInv
  BY DrivingInit, DrivingInductive, PTL DEF Spec

(* Every variable of the tools that drive keeps to its type, for legs,     *)
(* windows and repetitions of any length.                                  *)
THEOREM DrivingTypeCorrect == Spec => []TypeOK
<1>1. DrivingInv => TypeOK
  BY DEF DrivingInv
<1> QED BY <1>1, DrivingInvariance, PTL

(* A car that is driven surfaced no sooner than Confirm seconds after the  *)
(* simulator did, for every deadline and every dwell that fits into it     *)
(* (_cmd_vel_safety.target_of).                                            *)
THEOREM CarIsFound == Spec => []CarInTheDwellIsFound
<1>1. DrivingInv => CarInTheDwellIsFound
  BY DEF DrivingInv, GuardHolds, TargetInv, CarInTheDwellIsFound
<1> QED BY <1>1, DrivingInvariance, PTL

(* However many zeros a tool sends on its way out, if the radio may drop   *)
(* all of them but one then every topic it drove is left with a zero,      *)
(* unless the tool was killed.                                             *)
THEOREM AllLeftStopped == Spec => []LeftStopped
<1>1. DrivingInv => LeftStopped
  BY DEF DrivingInv, ZerosCount, LeftStopped
<1> QED BY <1>1, DrivingInvariance, PTL

(* A patrol that pushes against something notices before two windows are   *)
(* over, counted from the last motion that ground truth had still to tell, *)
(* for every window, every leg and every lag (drive in sim_patrol).        *)
THEOREM PushingIsNoticed == Spec => []BlockedIsNoticed
<1>1. DrivingInv => BlockedIsNoticed
  BY DrivingAssumption DEF DrivingInv, TypeOK, WindowsCount, BlockedIsNoticed
<1> QED BY <1>1, DrivingInvariance, PTL
=============================================================================
