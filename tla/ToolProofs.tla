----------------------------- MODULE ToolProofs -----------------------------
(***************************************************************************)
(* What the tools around the car say of it is true, for every value of the *)
(* constants: a session that stops leaves nothing running, runs of two     *)
(* calibrations are never pooled, who passes the governor by is named, a   *)
(* car said to stand stays where it is, an exit code of 0 is earned, and   *)
(* the bounds that are measured err on the safe side.  The components      *)
(* share no state and are proved about one by one.                         *)
(***************************************************************************)
EXTENDS MCOperator, FiniteSetTheorems, WellFoundedInduction, TLAPS

SessionSpec == SessionInit /\ [][SessionNext]_session_vars
BrakingSpec == BrakingInit /\ [][BrakingNext]_braking_vars
BenchSpec   == BenchInit /\ [][BenchNext]_bench_vars
NavSpec     == NavInit /\ [][NavNext]_nav_vars
TrialsSpec  == TrialsInit /\ [][TrialsNext]_trial_vars
ChecksSpec  == ChecksInit /\ [][ChecksNext]_check_vars
TwinSpec    == TwinInit /\ [][TwinNext]_twin_vars
GateSpec    == GateInit /\ [][GateNext]_gate_vars
SuiteSpec   == SuiteInit /\ [][SuiteNext]_suite_vars
BoardSpec   == BoardInit /\ [][BoardNext]_board_vars
AlarmSpec   == AlarmInit /\ [][AlarmNext]_alarm_vars
-----------------------------------------------------------------------------
(* The alarm.  Whom it has warned of is whom the last poll found. *)

AlarmInv == listed = warned /\ warned \subseteq told

LEMMA AlarmInductive == AlarmInv /\ [AlarmNext]_alarm_vars => AlarmInv'
<1> SUFFICES ASSUME AlarmInv, [AlarmNext]_alarm_vars
             PROVE  AlarmInv'
  OBVIOUS
<1>1. CASE PublisherChanges \/ UNCHANGED alarm_vars
  BY <1>1 DEF AlarmInv, PublisherChanges, alarm_vars
<1>2. CASE _check_bypass
  <2>1. PICK names :
          /\ warned' = names /\ listed' = names
          /\ told' = (told \cap names) \cup (IF names \notin {{}, warned} THEN names ELSE {})
    BY <1>2 DEF _check_bypass, NewlyWarned
  <2>2. CASE names = {}
    BY <2>1, <2>2 DEF AlarmInv
  <2>3. CASE names = warned
    BY <2>1, <2>3 DEF AlarmInv
  <2>4. CASE names \notin {{}, warned}
    BY <2>1, <2>4 DEF AlarmInv
  <2> QED BY <2>2, <2>3, <2>4
<1> QED BY <1>1, <1>2 DEF AlarmNext

(* A publisher that drives past the governor has been named in an error    *)
(* since a poll last missed it, whoever the publishers are and however     *)
(* they come and go (cmd_vel_governor._check_bypass).                      *)
THEOREM ReturnsReported == AlarmSpec => []EveryReturnIsReported
<1>1. AlarmInit => AlarmInv
  BY DEF AlarmInit, AlarmInv
<1>2. AlarmInv => EveryReturnIsReported
  BY DEF AlarmInv, EveryReturnIsReported
<1> QED BY <1>1, <1>2, AlarmInductive, PTL DEF AlarmSpec
-----------------------------------------------------------------------------
(* Nav2.  A cancellation that is acknowledged is of a goal that the server *)
(* has: one that the tool has a handle of, or one that did not turn up     *)
(* over more rounds than a request may be late.                            *)

NavInv == /\ nav_pc = "start" => goal = "none" /\ ~known
          /\ nav_pc \in {"running", "cancel"} => known
          /\ known => goal # "sent"
          /\ rounds \in Nat /\ held \in Nat /\ held <= rounds
          /\ acked => nav_pc \in {"quiet", "zeros", "observe", "gone"} /\ goal # "sent"
          /\ acked /\ quiet => goal \notin Alive
          /\ quiet => nav_pc \in {"zeros", "observe", "gone"}
          /\ verdict = "stopped" => nav_pc = "gone" /\ acked /\ quiet /\ ~rolling

LEMMA NavServer == NavInv /\ Nav2 => NavInv'
<1> SUFFICES ASSUME NavInv, Nav2
             PROVE  NavInv'
  OBVIOUS
<1> USE DEF NavInv, Nav2, Becomes, Alive
<1>1. CASE Accepted
  BY <1>1 DEF Accepted
<1>2. CASE Rejected
  BY <1>2 DEF Rejected
<1>3. CASE Finishes
  BY <1>3 DEF Finishes
<1>4. CASE Canceled
  BY <1>4 DEF Canceled
<1>5. CASE OtherEnds
  BY <1>5 DEF OtherEnds
<1> QED BY <1>1, <1>2, <1>3, <1>4, <1>5

LEMMA NavGoal ==
  ASSUME NavInv, SendGoal \/ AwaitAcceptance \/ AwaitResult \/ Judge \/ OnSignal
  PROVE  NavInv'
<1>1. CASE SendGoal
  BY <1>1 DEF NavInv, SendGoal, Exits, Alive
<1>2. CASE AwaitAcceptance
  <2>1. nav_pc = "accepting" /\ UNCHANGED <<goal, rounds, held, acked, quiet, rolling, verdict>>
    BY <1>2 DEF AwaitAcceptance
  <2>2. \/ nav_pc' \in {"gone", "cancel all"} /\ known' = known
        \/ nav_pc' = "running" /\ known' = TRUE /\ goal # "sent"
    BY <1>2 DEF AwaitAcceptance, Exits
  <2>3. ~acked /\ ~quiet /\ verdict # "stopped"
    BY <2>1 DEF NavInv
  <2>4. CASE nav_pc' \in {"gone", "cancel all"} /\ known' = known
    BY <2>1, <2>3, <2>4 DEF NavInv
  <2>5. CASE nav_pc' = "running" /\ known' = TRUE /\ goal # "sent"
    BY <2>1, <2>3, <2>5 DEF NavInv
  <2> QED BY <2>2, <2>4, <2>5
<1>3. CASE AwaitResult
  BY <1>3 DEF NavInv, AwaitResult
<1>4. CASE Judge
  BY <1>4 DEF NavInv, Judge, Exits
<1>5. CASE OnSignal
  BY <1>5 DEF NavInv, OnSignal, Pending
<1> QED BY <1>1, <1>2, <1>3, <1>4, <1>5

LEMMA NavCancelAll == NavInv /\ CancelAll => NavInv'
<1> SUFFICES ASSUME NavInv, CancelAll
             PROVE  NavInv'
  OBVIOUS
<1>0. nav_pc = "cancel all" /\ ~acked /\ ~quiet /\ verdict # "stopped"
  BY DEF NavInv, CancelAll
<1>1. /\ rounds' = rounds + 1 /\ held' \in {0, held + 1}
      /\ nav_pc' \in {"quiet", "cancel all"}
      /\ acked' => nav_pc' = "quiet" /\ held' = HoldRounds
      /\ goal' = goal \/ (goal = "live" /\ goal' = "canceling")
      /\ UNCHANGED <<known, quiet, verdict>>
  BY DEF CancelAll, Cancels, Becomes, Held
<1>2. ASSUME acked'
      PROVE  goal' # "sent"
  <2>1. SUFFICES ASSUME goal = "sent"
                 PROVE  FALSE
    BY <1>1
  <2>2. rounds < MaxLate /\ HoldRounds \in {0, held + 1}
    BY <1>1, <1>2, <2>1 DEF CancelAll
  <2>3. rounds \in Nat /\ held \in Nat /\ held <= rounds
    BY DEF NavInv
  <2> QED BY <2>2, <2>3, NavAssumption
<1>3. rounds' \in Nat /\ held' \in Nat /\ held' <= rounds'
  <2>1. rounds \in Nat /\ held \in Nat /\ held <= rounds
    BY DEF NavInv
  <2>2. /\ rounds + 1 \in Nat /\ held + 1 \in Nat
        /\ 0 <= rounds + 1 /\ held + 1 <= rounds + 1
    BY <2>1
  <2>3. rounds' = rounds + 1 /\ (held' = 0 \/ held' = held + 1)
    BY <1>1
  <2> QED BY <2>2, <2>3
<1> QED BY <1>0, <1>1, <1>2, <1>3 DEF NavInv

LEMMA NavInductive == NavInv /\ [NavNext]_nav_vars => NavInv'
<1> SUFFICES ASSUME NavInv, [NavNext]_nav_vars
             PROVE  NavInv'
  OBVIOUS
<1>1. CASE CancelGoal
  BY <1>1 DEF NavInv, CancelGoal, Cancels, Becomes
<1>2. CASE WaitQuiet
  BY <1>2 DEF NavInv, WaitQuiet
<1>3. CASE PublishZeros
  <2>1. nav_pc = "zeros" /\ nav_pc' = "observe" /\ verdict # "stopped"
    BY <1>3 DEF NavInv, PublishZeros
  <2>2. UNCHANGED <<goal, known, rounds, held, acked, quiet, verdict>>
    BY <1>3 DEF PublishZeros
  <2> QED BY <2>1, <2>2 DEF NavInv
<1>4. CASE Observe
  BY <1>4 DEF NavInv, Observe
<1>5. CASE UNCHANGED nav_vars
  BY <1>5 DEF NavInv, nav_vars
<1> QED BY <1>1, <1>2, <1>3, <1>4, <1>5, NavServer, NavGoal, NavCancelAll DEF NavNext

(* Once the tool has said that the robot is stopped, no goal of its own    *)
(* drives it again, however late a request is accepted within MaxLate      *)
(* rounds (nav2_smoke.cancel_and_verify).                                  *)
THEOREM StaysStopped == NavSpec => []SaidStoppedStaysStopped
<1>1. NavInit => NavInv
  <2>1. 0 \in Nat /\ 0 <= 0
    OBVIOUS
  <2> QED BY <2>1 DEF NavInit, NavInv
<1>2. NavInv => SaidStoppedStaysStopped
  BY DEF NavInv, SaidStoppedStaysStopped
<1> QED BY <1>1, <1>2, NavInductive, PTL DEF NavSpec
-----------------------------------------------------------------------------
(* The bench.  A driver lives from its trial's start to its finalizer, the *)
(* chain from the start of its phase to the teardown.                      *)

BenchInv ==
  /\ driver => bench_pc \in {"wait", "stop", "gone"}
  /\ chain => /\ bench_phase = "deadman"
              /\ bench_pc \in {"drive", "wait", "watch", "stop", "verify", "teardown", "gone"}
  /\ bench_pc = "gone" /\ bench_code = 0 => ~spinning /\ ~driver /\ ~chain

LEMMA BenchInductive == BenchInv /\ [BenchNext]_bench_vars => BenchInv'
<1> SUFFICES ASSUME BenchInv, [BenchNext]_bench_vars
             PROVE  BenchInv'
  OBVIOUS
<1> USE DEF BenchInv, given_vars, tally_vars
<1>1. CASE require_bench_hardware
  BY <1>1 DEF require_bench_hardware, Refuse
<1>2. CASE battery_volts
  BY <1>2 DEF battery_volts, Refuse
<1>3. CASE no_rival_publishers
  <2>1. bench_pc = "rivals" /\ ~driver /\ ~chain /\ UNCHANGED <<driver, bench_phase>>
    BY <1>3 DEF no_rival_publishers
  <2>2. \/ bench_pc' = "gone" /\ bench_code' = 2 /\ chain' = chain
        \/ bench_pc' = "final" /\ chain' = chain
        \/ bench_pc' = "drive" /\ (chain' <=> bench_phase = "deadman")
        \/ bench_pc' = "teardown" /\ chain' /\ bench_phase = "deadman"
    BY <1>3 DEF no_rival_publishers, Refuse
  <2> QED BY <2>1, <2>2
<1>4. CASE DriveSelf
  BY <1>4 DEF DriveSelf
<1>5. CASE spawn_driver
  BY <1>5 DEF spawn_driver
<1>6. CASE DriverDrives
  BY <1>6 DEF DriverDrives
<1>7. CASE AwaitMotion
  BY <1>7 DEF AwaitMotion
<1>8. CASE NoMotion
  BY <1>8 DEF NoMotion
<1>9. CASE Watch
  BY <1>9 DEF Watch
<1>10. CASE Stop
  BY <1>10 DEF Stop, stop
<1>11. CASE Verify
  BY <1>11 DEF Verify
<1>12. CASE Teardown
  BY <1>12 DEF Teardown, stop
<1>13. CASE Tally
  BY <1>13 DEF Tally
<1>14. CASE Leave
  BY <1>14 DEF Leave, stop
<1>15. CASE LastLook
  BY <1>15 DEF LastLook, observed_zero
<1>16. CASE Signalled
  BY <1>16 DEF Signalled, stop, Safe
<1>17. CASE LinkChanges
  BY <1>17 DEF LinkChanges
<1>18. CASE UNCHANGED bench_vars
  BY <1>18 DEF bench_vars
<1> QED BY <1>1, <1>2, <1>3, <1>4, <1>5, <1>6, <1>7, <1>8, <1>9,
           <1>10, <1>11, <1>12, <1>13, <1>14, <1>15, <1>16, <1>17, <1>18 DEF BenchNext

(* A phase that passes leaves the car at rest, its driver killed and its   *)
(* safety chain taken down, for any number of trials and however the link  *)
(* comes and goes (bench_motion.main).                                     *)
THEOREM PassAtRest == BenchSpec => []PassMeansAtRest
<1>1. BenchInit => BenchInv
  BY DEF BenchInit, BenchInv
<1>2. BenchInv => PassMeansAtRest
  BY DEF BenchInv, PassMeansAtRest
<1> QED BY <1>1, <1>2, BenchInductive, PTL DEF BenchSpec
-----------------------------------------------------------------------------
(* The suite.  A robot that heads for the wall is throttled before it, and *)
(* no nearer than that when it was driven there; one that was turned away  *)
(* from it touches the other wall, and is never throttled.                 *)

SuiteInv ==
  /\ place \in Int /\ facing \in {-1, 0, 1}
  /\ 1 - ArenaHalf <= place /\ place <= ArenaHalf - 1
  /\ suite_pc = "loop" /\ loop_step # 0 => StopCells <= ArenaHalf - place
  /\ "obstacle-stop" \in contact
       => ~all_ok \/ rolled_far \/ (suite_pc = "loop" /\ facing = -1 /\ ~Throttled)
  /\ suite_code = 0 => suite_pc = "gone" /\ all_ok

LEMMA ClipIsFree ==
  ASSUME NEW at \in Int
  PROVE  /\ Clip(at) \in Int /\ 1 - ArenaHalf <= Clip(at) /\ Clip(at) <= ArenaHalf - 1
         /\ at \in 1 - ArenaHalf .. ArenaHalf - 1 => Clip(at) = at
  BY SuiteAssumption DEF Clip

LEMMA ApproachStepSuite == SuiteInv /\ ApproachStep => SuiteInv'
<1> SUFFICES ASSUME SuiteInv, ApproachStep
             PROVE  SuiteInv'
  OBVIOUS
<1>1. ArenaHalf \in Nat /\ StopCells \in Nat /\ 1 < StopCells
  BY SuiteAssumption
<1>2. /\ place \in Int /\ facing \in {-1, 0, 1} /\ facing \in Int
      /\ 1 - ArenaHalf <= place /\ place <= ArenaHalf - 1
  BY DEF SuiteInv
<1>3. /\ suite_pc = "loop" /\ suite_pc' = "loop" /\ ~Throttled /\ place' = Clip(place + facing * 1)
      /\ UNCHANGED <<facing, rolled_far, all_ok, suite_code>>
      /\ place' = place + facing * 1 => contact' = contact
  BY DEF ApproachStep, Moves
<1>4. ArenaHalf - place > StopCells
  BY <1>1, <1>2, <1>3 DEF Throttled
<1>5. facing * 1 = facing
  BY <1>2
<1>6. /\ place' \in Int /\ 1 - ArenaHalf <= place' /\ place' <= ArenaHalf - 1
      /\ place' <= place + 1
  <2>1. place + facing \in Int /\ place + facing <= place + 1
    BY <1>2
  <2>2. place' \in Int /\ 1 - ArenaHalf <= place' /\ place' <= ArenaHalf - 1
    BY <1>3, <1>5, <2>1, ClipIsFree
  <2>3. place' <= place + 1
    BY <1>1, <1>2, <1>3, <1>5, <2>1 DEF Clip
  <2> QED BY <2>2, <2>3
<1>7. StopCells <= ArenaHalf - place'
  <2>1. place \in Int /\ ArenaHalf - place > StopCells
    BY <1>2, <1>4
  <2>2. \A at \in Int : at <= place + 1 => StopCells <= ArenaHalf - at
    BY <1>1, <2>1
  <2> QED BY <1>6, <2>2
<1>8. CASE facing \in {0, 1}
  <2>1. place + facing \in 1 - ArenaHalf .. ArenaHalf - 1
    BY <1>1, <1>2, <1>4, <1>8
  <2>2. contact' = contact
    BY <1>2, <1>3, <1>5, <2>1, ClipIsFree
  <2>3. "obstacle-stop" \in contact' => ~all_ok \/ rolled_far
    BY <1>8, <2>2 DEF SuiteInv
  <2> QED BY <1>2, <1>3, <1>6, <1>7, <2>3 DEF SuiteInv
<1>9. CASE facing = -1
  <2>1. place' <= place
    BY <1>1, <1>2, <1>3, <1>9 DEF Clip
  <2>2. \A at \in Int : at <= place => ~(ArenaHalf - at <= StopCells)
    BY <1>1, <1>2, <1>4
  <2>3. ~Throttled'
    BY <1>6, <2>1, <2>2 DEF Throttled
  <2> QED BY <1>2, <1>3, <1>6, <1>7, <1>9, <2>3 DEF SuiteInv
<1> QED BY <1>2, <1>8, <1>9

LEMMA ApproachEndsSuite == SuiteInv /\ ApproachEnds => SuiteInv'
<1> SUFFICES ASSUME SuiteInv, ApproachEnds
             PROVE  SuiteInv'
  OBVIOUS
<1>1. /\ ArenaHalf \in Nat /\ StopCells \in Nat /\ MaxCoast \in Nat
      /\ 1 < StopCells /\ StopCells < ArenaHalf
  BY SuiteAssumption
<1>2. /\ place \in Int /\ facing \in {-1, 0, 1}
      /\ 1 - ArenaHalf <= place /\ place <= ArenaHalf - 1
  BY DEF SuiteInv
<1>3. PICK cells \in Coasts : Moves(cells) /\ rolled_far' = (rolled_far \/ cells >= StopCells)
  BY DEF ApproachEnds
<1>4. cells \in Nat /\ (loop_step = 0 => cells = 0)
  <2>1. CASE able \/ loop_step = 0
    BY <2>1 DEF Coasts
  <2>2. CASE ~(able \/ loop_step = 0)
    BY <1>1, <2>2 DEF Coasts
  <2> QED BY <2>1, <2>2
<1>5. /\ suite_pc = "loop" /\ suite_pc' = "tests" /\ UNCHANGED <<facing, suite_code>>
      /\ all_ok' => all_ok /\ Throttled
  BY DEF ApproachEnds, TestEnds
<1>6. facing * cells \in Int /\ place + facing * cells \in Int
  BY <1>2, <1>4
<1>7. place' \in Int /\ 1 - ArenaHalf <= place' /\ place' <= ArenaHalf - 1
  BY <1>3, <1>6, ClipIsFree DEF Moves
<1>8. ASSUME all_ok', ~rolled_far'
      PROVE  "obstacle-stop" \notin contact'
  <2>1. all_ok /\ Throttled /\ ~rolled_far /\ ~(cells >= StopCells)
    BY <1>3, <1>5, <1>8
  <2>2. "obstacle-stop" \notin contact
    BY <2>1 DEF SuiteInv
  <2>3. ArenaHalf - place <= StopCells /\ cells < StopCells
    BY <1>1, <1>4, <2>1 DEF Throttled
  <2>4. CASE loop_step = 0
    <3>1. cells = 0 /\ facing * cells = 0
      BY <1>2, <1>4, <2>4
    <3>2. place + facing * cells \in 1 - ArenaHalf .. ArenaHalf - 1
      BY <1>1, <1>2, <3>1
    <3>3. place' = place + facing * cells
      BY <1>3, <1>6, <3>2, ClipIsFree DEF Moves
    <3> QED BY <1>3, <2>2, <3>3 DEF Moves
  <2>5. CASE loop_step # 0
    <3>1. StopCells <= ArenaHalf - place
      BY <1>5, <2>5 DEF SuiteInv
    <3>2. -cells <= facing * cells /\ facing * cells <= cells
      BY <1>2, <1>4
    <3>3. place + facing * cells \in 1 - ArenaHalf .. ArenaHalf - 1
      <4> DEFINE roll == facing * cells
      <4>1. roll \in Int /\ -cells <= roll /\ roll <= cells
        BY <1>6, <3>2
      <4> HIDE DEF roll
      <4>2. place + roll \in 1 - ArenaHalf .. ArenaHalf - 1
        BY <1>1, <1>2, <1>4, <2>3, <3>1, <4>1
      <4> QED BY <4>2 DEF roll
    <3>4. place' = place + facing * cells
      BY <1>3, <1>6, <3>3, ClipIsFree DEF Moves
    <3> QED BY <1>3, <2>2, <3>4 DEF Moves
  <2> QED BY <2>4, <2>5
<1>9. suite_code' = 0 => FALSE
  BY <1>5 DEF SuiteInv
<1> QED BY <1>2, <1>5, <1>7, <1>8, <1>9 DEF SuiteInv

LEMMA SuiteInductive == SuiteInv /\ [SuiteNext]_suite_vars => SuiteInv'
<1> SUFFICES ASSUME SuiteInv, [SuiteNext]_suite_vars
             PROVE  SuiteInv'
  OBVIOUS
<1>0. CASE SceneUp
  BY <1>0 DEF SuiteInv, SceneUp
<1>1. CASE ObstacleStop
  BY <1>1 DEF SuiteInv, ObstacleStop, Begins
<1>2. CASE t_drive_straight
  <2>1. PICK cells \in Travels, straight \in BOOLEAN :
          Moves(cells) /\ TestEnds(2 * facing * (place' - place) > Leg /\ straight)
    BY <1>2 DEF t_drive_straight
  <2>2. cells \in Int /\ facing * cells \in Int /\ place + facing * cells \in Int
    <3>1. cells \in Int
      <4>1. Leg \in Nat
        BY SuiteAssumption
      <4> QED BY <4>1 DEF Travels
    <3> QED BY <3>1 DEF SuiteInv
  <2>3. place' \in Int /\ 1 - ArenaHalf <= place' /\ place' <= ArenaHalf - 1
    BY <2>1, <2>2, ClipIsFree DEF SuiteInv, Moves
  <2>4. /\ suite_pc = "tests" /\ Head(todo) = "drive-straight" /\ suite_pc' = "tests"
        /\ UNCHANGED <<facing, rolled_far, suite_code>> /\ (all_ok' => all_ok)
    BY <1>2 DEF t_drive_straight, TestEnds, Begins
  <2>5. contact' \in {contact, contact \cup {"drive-straight"}}
    BY <2>1, <2>4 DEF Moves
  <2> QED BY <2>3, <2>4, <2>5 DEF SuiteInv
<1>3. CASE t_rotate
  <2>1. suite_pc = "tests" /\ suite_pc' = "tests" /\ facing' \in {-facing, -1, 0, 1}
        /\ UNCHANGED <<place, contact, rolled_far, suite_code>> /\ (all_ok' => all_ok)
    BY <1>3 DEF t_rotate, TestEnds, Begins
  <2>2. -facing \in {-1, 0, 1}
    BY DEF SuiteInv
  <2> QED BY <2>1, <2>2 DEF SuiteInv
<1>4. CASE t_umbmark
  <2>1. /\ suite_pc = "tests" /\ suite_pc' = "tests" /\ place' \in {place} \cup Free
        /\ UNCHANGED <<facing, rolled_far, suite_code>> /\ (all_ok' => all_ok)
        /\ contact' \in {contact, contact \cup {"umbmark"}}
    BY <1>4 DEF t_umbmark, TestEnds, Begins
  <2>2. place' \in Int /\ 1 - ArenaHalf <= place' /\ place' <= ArenaHalf - 1
    BY <2>1, SuiteAssumption DEF Free, SuiteInv
  <2> QED BY <2>1, <2>2 DEF SuiteInv
<1>5. CASE Throws
  BY <1>5 DEF SuiteInv, Throws, TestEnds
<1>6. CASE SuiteEnds
  BY <1>6 DEF SuiteInv, SuiteEnds
<1>7. CASE UNCHANGED suite_vars
  BY <1>7 DEF SuiteInv, suite_vars, Throttled
<1> QED BY <1>0, <1>1, <1>2, <1>3, <1>4, <1>5, <1>6, <1>7, ApproachStepSuite, ApproachEndsSuite
        DEF SuiteNext

LEMMA SuiteStarts == SuiteInit => SuiteInv
<1>1. ArenaHalf \in Nat /\ ArenaHalf > 1
  BY SuiteAssumption
<1> QED BY <1>1 DEF SuiteInit, SuiteInv

(* A suite that passes has not been held by a wall in obstacle-stop, in an *)
(* arena of any size, wherever and however the tests before it left the    *)
(* robot, as long as it does not roll on, throttled, for the distance at   *)
(* which it was throttled (sim_runner).                                    *)
THEOREM NoContact == SuiteSpec => []PassedWithoutContact
<1>1. SuiteInv => PassedWithoutContact
  BY DEF SuiteInv, PassedWithoutContact
<1> QED BY <1>1, SuiteStarts, SuiteInductive, PTL DEF SuiteSpec
-----------------------------------------------------------------------------
(* The session.  The sources are gone before the zeros are sent, and what  *)
(* start launches after a stop began has meddled with it.                  *)

Zeroed  == {"close", "sweep", "mop", "finish"}      \* after the zeros
Quieted == {"zero", "retry"} \cup Zeroed            \* after the sources

FilesInv == /\ SessionTypeOK
            /\ start_pc = "looking" => latest < MaxSessions
            /\ start_pc \in Working \ {"looking"} => latest > 0

RecorderInv == \A s \in recorders : manifest[s] # "no bag"

RivalInv == ~rival => /\ stop_pc \in {"term", "kill"} => "unlisted" \notin procs
                      /\ stop_pc \in Quieted => procs \cap Drivers = {}
                      /\ stop_pc \in Zeroed /\ reading = "rest" => ~moving

MeddledInv == ~meddled => /\ start_pc \in Ended
                          /\ stop_pc \in Quieted \cup {"done"} => procs \cap Listed = {}
                          /\ stop_pc \in {"finish", "done"} => procs \cap SimProcs = {}
                          /\ stop_pc \in {"sweep", "mop", "finish", "done"}
                               => (latest \in recorders => manifest[latest] = "unclosed")

SessionInv == FilesInv /\ RecorderInv /\ RivalInv /\ MeddledInv

LEMMA Steps ==
  /\ After("idle") = "term" /\ After("done") = "term" /\ After("term") = "kill"
  /\ After("kill") = "zero" /\ After("zero") = "close" /\ After("retry") = "close"
  /\ After("close") = "sweep" /\ After("sweep") = "mop" /\ After("mop") = "finish"
  /\ After("finish") = "done"
BY DEF After

LEMMA EndsIs ==
  ASSUME NEW patterns, NEW asked \in BOOLEAN, Ends(patterns, asked)
  PROVE  /\ procs' \subseteq procs
         /\ procs \ patterns \subseteq procs'
         /\ ~asked => procs' \cap patterns = {}
         /\ moving' => moving
         /\ moving \in BOOLEAN => moving' \in BOOLEAN
BY DEF Ends, Loses

LEMMA SessionStarts == SessionInit => SessionInv
<1> SUFFICES ASSUME SessionInit PROVE SessionInv
  OBVIOUS
<1>a. 0 \in 0 .. MaxSessions /\ 0 \in 0 .. Budget
  BY SessionAssumption
<1>b. NoFlags \in Flags
  BY DEF NoFlags, Flags
<1>1. FilesInv
  BY <1>a, <1>b DEF SessionInit, FilesInv, SessionTypeOK, Working, Ended, Stopping_
<1>2. RecorderInv /\ RivalInv /\ MeddledInv
  BY DEF SessionInit, RecorderInv, RivalInv, MeddledInv, Ended, Zeroed, Quieted
<1> QED BY <1>1, <1>2 DEF SessionInv

LEMMA StartKeeps == SessionInv /\ (Ask \/ StartStep \/ StartKilled) => SessionInv'
<1> SUFFICES ASSUME SessionInv, Ask \/ StartStep \/ StartKilled PROVE SessionInv'
  OBVIOUS
<1> USE DEF SessionInv, Working, Ended
<1>0. FilesInv /\ RecorderInv /\ RivalInv /\ MeddledInv
  OBVIOUS
<1>a. NoFlags \in Flags
  BY DEF NoFlags, Flags
<1>n. /\ latest \in 0 .. MaxSessions /\ budget \in 0 .. Budget
      /\ MaxSessions \in Nat /\ Budget \in Nat
  BY <1>0, SessionAssumption DEF FilesInv, SessionTypeOK
<1>1. CASE Ask
  <2>1. FilesInv'
    BY <1>1, <1>0 DEF Ask, FilesInv, SessionTypeOK
  <2>2. (RecorderInv /\ RivalInv /\ MeddledInv)'
    BY <1>1, <1>0 DEF Ask, RecorderInv, RivalInv, MeddledInv
  <2> QED BY <2>1, <2>2
<1>2. CASE sim_target
  <2>1. FilesInv'
    <3>1. \/ start_pc' = "refused" /\ latest' = latest
          \/ start_pc' = "stack" /\ latest' = latest + 1 /\ latest < MaxSessions
      BY <1>2, <1>0 DEF sim_target, FilesInv
    <3>2. latest' \in 0 .. MaxSessions /\ (start_pc' = "stack" => latest' > 0)
      BY <1>n, <3>1
    <3>3. flags' \in Flags
      BY <1>0, <1>2, <1>a DEF sim_target, KeepFlags, FilesInv, SessionTypeOK
    <3> QED BY <1>0, <1>2, <3>1, <3>2, <3>3 DEF sim_target, FilesInv, SessionTypeOK
  <2>2. meddled /\ meddled'
    BY <1>2, <1>0 DEF sim_target, MeddledInv, FilesInv, SessionTypeOK
  <2>3. (RecorderInv /\ RivalInv)'
    BY <1>2, <1>0 DEF sim_target, RecorderInv, RivalInv
  <2> QED BY <2>1, <2>2, <2>3 DEF MeddledInv
<1>3. CASE LaunchStack
  <2>1. PICK new \in {{}, {"governor"}, {"sim"}} : Launches(new)
    BY <1>3 DEF LaunchStack
  <2>2. FilesInv'
    <3>1. procs' \subseteq Drivers \cup SimProcs /\ rival' \in BOOLEAN /\ meddled' \in BOOLEAN
      BY <2>1, <1>0 DEF Launches, FilesInv, SessionTypeOK, Drivers, SimProcs
    <3>2. flags' \in Flags
      BY <1>0, <1>3, <1>a DEF LaunchStack, KeepFlags, FilesInv, SessionTypeOK
    <3>3. /\ start_pc \in {"stack", "isaac"} /\ start_pc' \in {"isaac", "waiting"}
          /\ budget' \in {budget, Budget} /\ latest' = latest
      BY <1>3 DEF LaunchStack
    <3>5. budget' \in 0 .. Budget
      BY <1>n, <3>3
    <3>4. UNCHANGED <<moving, stop_pc, reading, manifest, recorders>>
      BY <1>3 DEF LaunchStack
    <3> QED BY <1>0, <3>1, <3>2, <3>3, <3>4, <3>5 DEF FilesInv, SessionTypeOK
  <2>3. meddled /\ meddled'
    BY <1>3, <2>1, <1>0 DEF LaunchStack, MeddledInv, FilesInv, SessionTypeOK, Launches
  <2>4. RecorderInv'
    BY <1>3, <1>0 DEF LaunchStack, RecorderInv
  <2>5. RivalInv'
    BY <1>3, <2>1, <1>0 DEF LaunchStack, RivalInv, Launches, Drivers, Listed
  <2> QED BY <2>2, <2>3, <2>4, <2>5 DEF MeddledInv
<1>4. CASE Waiting
  <2>1. FilesInv'
    <3>1. /\ start_pc = "waiting" /\ start_pc' \in {"aborted", "bag", "waiting"}
          /\ start_pc' = "waiting" => budget # 0
          /\ budget' = IF start_pc' = "waiting" THEN budget - 1 ELSE 0
      BY <1>4 DEF Waiting, WaitFor
    <3>2. budget' \in 0 .. Budget
      BY <1>n, <3>1
    <3>3. flags' \in Flags
      BY <1>0, <1>4, <1>a DEF Waiting, KeepFlags, FilesInv, SessionTypeOK
    <3> QED BY <1>0, <1>4, <3>1, <3>2, <3>3 DEF Waiting, FilesInv, SessionTypeOK
  <2>2. meddled /\ meddled'
    BY <1>4, <1>0 DEF Waiting, MeddledInv, FilesInv, SessionTypeOK
  <2>3. (RecorderInv /\ RivalInv)'
    BY <1>4, <1>0 DEF Waiting, RecorderInv, RivalInv
  <2> QED BY <2>1, <2>2, <2>3 DEF MeddledInv
<1>5. CASE start_session_bag
  <2>1. latest \in Sessions
    <3>1. latest > 0
      BY <1>5, <1>0 DEF start_session_bag, FilesInv
    <3> QED BY <1>n, <3>1 DEF Sessions
  <2>2. /\ recorders' \subseteq Sessions
        /\ manifest' \in [Sessions -> {"no bag", "recording", "closed", "unclosed"}]
        /\ RecorderInv'
    <3>1. CASE Recording
      BY <3>1, <2>1, <1>0 DEF Recording, FilesInv, SessionTypeOK, RecorderInv
    <3>2. CASE UNCHANGED <<manifest, recorders>>
      BY <3>2, <1>0 DEF FilesInv, SessionTypeOK, RecorderInv
    <3> QED BY <3>1, <3>2, <1>5 DEF start_session_bag
  <2>3. flags' \in Flags
    BY <1>0, <1>5, <1>a DEF start_session_bag, KeepFlags, FilesInv, SessionTypeOK
  <2>4. FilesInv'
    BY <1>0, <1>5, <2>2, <2>3 DEF start_session_bag, FilesInv, SessionTypeOK
  <2>5. RivalInv' /\ MeddledInv'
    BY <1>0, <1>5 DEF start_session_bag, RivalInv, MeddledInv
  <2> QED BY <2>2, <2>4, <2>5
<1>6. CASE LaunchSafety \/ LaunchPatrol
  <2>1. PICK new \in {{}, {"governor"}, {"patrol"}} : Launches(new)
    BY <1>6 DEF LaunchSafety, LaunchPatrol
  <2>0. /\ start_pc \in {"safety", "patrol"} /\ start_pc' \in {"patrol", "up"}
        /\ UNCHANGED <<moving, budget, stop_pc, reading, latest, manifest, recorders>>
        /\ KeepFlags
    BY <1>6 DEF LaunchSafety, LaunchPatrol
  <2>2. FilesInv'
    <3>1. procs' \subseteq Drivers \cup SimProcs /\ rival' \in BOOLEAN /\ meddled' \in BOOLEAN
      BY <2>1, <1>0 DEF Launches, FilesInv, SessionTypeOK, Drivers, SimProcs
    <3>2. flags' \in Flags
      BY <1>0, <2>0, <1>a DEF KeepFlags, FilesInv, SessionTypeOK
    <3> QED BY <1>0, <2>0, <3>1, <3>2 DEF FilesInv, SessionTypeOK
  <2>3. meddled /\ meddled'
    BY <2>0, <2>1, <1>0 DEF MeddledInv, FilesInv, SessionTypeOK, Launches
  <2>4. RecorderInv'
    BY <2>0, <1>0 DEF RecorderInv
  <2>5. RivalInv'
    <3> SUFFICES ASSUME ~rival' PROVE RivalInv'
      BY DEF RivalInv
    <3>1. ~rival /\ (stop_pc \in Stopping_ => new \cap Drivers = {}) /\ procs' = procs \cup new
      BY <2>1 DEF Launches
    <3>2. stop_pc' = stop_pc /\ moving' = moving /\ reading' = reading
      BY <2>0
    <3> QED BY <3>1, <3>2, <1>0 DEF RivalInv, Drivers, Quieted, Zeroed, Stopping_
  <2> QED BY <2>2, <2>3, <2>4, <2>5 DEF MeddledInv
<1>7. CASE StartKilled
  <2>1. FilesInv'
    BY <1>7, <1>0, <1>a DEF StartKilled, FilesInv, SessionTypeOK, KeepFlags
  <2>2. (RecorderInv /\ RivalInv /\ MeddledInv)'
    BY <1>7, <1>0 DEF StartKilled, RecorderInv, RivalInv, MeddledInv
  <2> QED BY <2>1, <2>2
<1> QED BY <1>1, <1>2, <1>3, <1>4, <1>5, <1>6, <1>7 DEF StartStep

LEMMA StopKeeps ==
  ASSUME SessionInv,
         StopBegins \/ SilenceSources \/ ZeroRobots \/ CloseBag \/ Sweep \/ StopEnds
  PROVE  SessionInv'
<1> USE DEF SessionInv
<1>0. FilesInv /\ RecorderInv /\ RivalInv /\ MeddledInv
  OBVIOUS
<1>n. latest \in 0 .. MaxSessions /\ MaxSessions \in Nat
  BY <1>0, SessionAssumption DEF FilesInv, SessionTypeOK
<1> USE DEF Quieted, Zeroed
<1>1. CASE StopBegins
  <2>1. stop_pc' = "term" /\ UNCHANGED <<procs, moving, start_vars, reading, latest, manifest, recorders>>
    BY <1>1, Steps DEF StopBegins
  <2>2. FilesInv' /\ RecorderInv'
    <3>1. rival' \in BOOLEAN /\ meddled' \in BOOLEAN
      BY <1>1 DEF StopBegins
    <3> QED BY <2>1, <3>1, <1>0 DEF FilesInv, SessionTypeOK, RecorderInv, start_vars, Stopping_
  <2>3. RivalInv' /\ MeddledInv'
    BY <1>1, <2>1, <1>0 DEF StopBegins, RivalInv, MeddledInv, FilesInv, SessionTypeOK, start_vars
  <2> QED BY <2>2, <2>3
<1>2. CASE SilenceSources
  <2>1. /\ \/ stop_pc = "term" /\ stop_pc' = "kill"
           \/ stop_pc = "kill" /\ stop_pc' = "zero"
        /\ UNCHANGED <<start_vars, reading, latest, manifest, recorders, rival, meddled>>
    BY <1>2, Steps DEF SilenceSources
  <2>2. /\ procs' \subseteq procs /\ moving' \in BOOLEAN
        /\ stop_pc = "kill" => procs' \cap Listed = {}
    BY <1>2, <1>0, EndsIs DEF SilenceSources, FilesInv, SessionTypeOK
  <2>3. FilesInv' /\ RecorderInv'
    BY <2>1, <2>2, <1>0 DEF FilesInv, SessionTypeOK, RecorderInv, start_vars, Stopping_
  <2>4. RivalInv' /\ MeddledInv'
    BY <2>1, <2>2, <1>0 DEF RivalInv, MeddledInv, Drivers, start_vars
  <2> QED BY <2>3, <2>4
<1>3. CASE ZeroRobots
  <2>1. /\ stop_pc \in {"zero", "retry"} /\ stop_pc' \in {"retry", "close"}
        /\ UNCHANGED <<procs, start_vars, latest, manifest, recorders, rival, meddled>>
    BY <1>3, Steps DEF ZeroRobots
  <2>2. PICK reaches \in BOOLEAN, answers \in BOOLEAN :
          /\ moving' \in IF "sim" \in procs /\ procs \cap Drivers # {} THEN BOOLEAN
                         ELSE {moving /\ ~reaches}
          /\ reading' = IF ~answers THEN "unknown" ELSE IF moving' THEN "moving" ELSE "rest"
    BY <1>3 DEF ZeroRobots, zero_domain
  <2>3. moving' \in BOOLEAN /\ reading' \in {"rest", "moving", "unknown"}
        /\ (reading' = "rest" => ~moving')
    BY <2>2
  <2>4. FilesInv' /\ RecorderInv'
    BY <2>1, <2>3, <1>0 DEF FilesInv, SessionTypeOK, RecorderInv, start_vars, Stopping_
  <2>5. RivalInv' /\ MeddledInv'
    BY <2>1, <2>3, <1>0 DEF RivalInv, MeddledInv, start_vars
  <2> QED BY <2>4, <2>5
<1>4. CASE CloseBag
  <2>1. /\ stop_pc = "close" /\ stop_pc' = "sweep"
        /\ UNCHANGED <<procs, moving, start_vars, reading, latest, rival, meddled>>
    BY <1>4, Steps DEF CloseBag
  <2>2. /\ recorders' \subseteq Sessions
        /\ manifest' \in [Sessions -> {"no bag", "recording", "closed", "unclosed"}]
        /\ RecorderInv'
        /\ latest \in recorders' => manifest'[latest] = "unclosed"
    <3>1. CASE latest > 0 /\ manifest[latest] # "no bag"
      <4>1. PICK closes \in BOOLEAN :
              /\ manifest' = [manifest EXCEPT ![latest] = IF closes THEN "closed" ELSE "unclosed"]
              /\ recorders' = IF closes THEN recorders \ {latest} ELSE recorders
        BY <1>4, <3>1 DEF CloseBag
      <4>2. latest \in Sessions
        <5>1. latest > 0
          BY <3>1
        <5> QED BY <5>1, <1>n DEF Sessions
      <4> QED BY <4>1, <4>2, <1>0 DEF FilesInv, SessionTypeOK, RecorderInv
    <3>2. CASE ~(latest > 0 /\ manifest[latest] # "no bag")
      <4>1. UNCHANGED <<manifest, recorders>>
        BY <1>4, <3>2 DEF CloseBag
      <4>2. latest \notin recorders
        <5>1. latest \in Sessions => latest > 0
          BY <1>n DEF Sessions
        <5> QED BY <3>2, <5>1, <1>0 DEF FilesInv, SessionTypeOK, RecorderInv
      <4> QED BY <4>1, <4>2, <1>0 DEF FilesInv, SessionTypeOK, RecorderInv
    <3> QED BY <3>1, <3>2
  <2>3. FilesInv'
    BY <2>1, <2>2, <1>0 DEF FilesInv, SessionTypeOK, start_vars, Stopping_
  <2>4. RivalInv' /\ MeddledInv'
    BY <2>1, <2>2, <1>0 DEF RivalInv, MeddledInv, start_vars
  <2> QED BY <2>2, <2>3, <2>4
<1>5. CASE Sweep
  <2>1. /\ \/ stop_pc = "sweep" /\ stop_pc' = "mop"
           \/ stop_pc = "mop" /\ stop_pc' = "finish"
        /\ UNCHANGED <<start_vars, reading, latest, manifest, recorders, rival, meddled>>
    BY <1>5, Steps DEF Sweep
  <2>2. /\ procs' \subseteq procs /\ moving' \in BOOLEAN /\ (moving' => moving)
        /\ stop_pc = "mop" => procs' \cap SimProcs = {}
    BY <1>5, <1>0, EndsIs DEF Sweep, FilesInv, SessionTypeOK
  <2>3. FilesInv' /\ RecorderInv'
    BY <2>1, <2>2, <1>0 DEF FilesInv, SessionTypeOK, RecorderInv, start_vars, Stopping_
  <2>4. RivalInv' /\ MeddledInv'
    BY <2>1, <2>2, <1>0 DEF RivalInv, MeddledInv, start_vars
  <2> QED BY <2>3, <2>4
<1>6. CASE StopEnds
  <2>1. /\ stop_pc = "finish" /\ stop_pc' = "done" /\ reading' = "unknown"
        /\ UNCHANGED <<procs, moving, start_vars, latest, manifest, recorders, rival, meddled>>
    BY <1>6, Steps DEF StopEnds
  <2>2. FilesInv' /\ RecorderInv'
    BY <2>1, <1>0 DEF FilesInv, SessionTypeOK, RecorderInv, start_vars, Stopping_
  <2>3. RivalInv' /\ MeddledInv'
    BY <2>1, <1>0 DEF RivalInv, MeddledInv, start_vars
  <2> QED BY <2>2, <2>3
<1> QED BY <1>1, <1>2, <1>3, <1>4, <1>5, <1>6

(* The others change what runs and how the robot moves, and nothing else. *)
LEMMA OthersKeep ==
  ASSUME SessionInv,
         \/ Teleop \/ TeleopEnds \/ Estop \/ Drives \/ SomebodyDrives
         \/ \E p \in {"sim", "patrol", "unlisted"} : Crashes(p)
  PROVE  SessionInv'
<1> USE DEF SessionInv
<1>0. FilesInv /\ RecorderInv /\ RivalInv /\ MeddledInv
  OBVIOUS
<1>1. /\ UNCHANGED <<start_vars, stop_pc, reading, latest, manifest, recorders>>
      /\ procs' \subseteq Drivers \cup SimProcs
      /\ moving' \in BOOLEAN /\ rival' \in BOOLEAN /\ meddled' \in BOOLEAN
  <2>1. procs \subseteq Drivers \cup SimProcs /\ moving \in BOOLEAN /\ rival \in BOOLEAN /\ meddled \in BOOLEAN
    BY <1>0 DEF FilesInv, SessionTypeOK
  <2>2. CASE Teleop
    BY <2>1, <2>2 DEF Teleop, Drivers, Listed
  <2>3. CASE TeleopEnds
    BY <2>1, <2>3 DEF TeleopEnds
  <2>4. CASE Estop
    BY <2>1, <2>4 DEF Estop
  <2>5. CASE Drives
    BY <2>1, <2>5 DEF Drives
  <2>6. CASE SomebodyDrives
    BY <2>1, <2>6 DEF SomebodyDrives, Launches, Drivers
  <2>7. CASE \E p \in {"sim", "patrol", "unlisted"} : Crashes(p)
    BY <2>1, <2>7 DEF Crashes, Loses
  <2> QED BY <2>2, <2>3, <2>4, <2>5, <2>6, <2>7
<1>2. FilesInv' /\ RecorderInv'
  BY <1>0, <1>1 DEF FilesInv, SessionTypeOK, RecorderInv, start_vars
<1>b. moving \in BOOLEAN /\ rival \in BOOLEAN /\ meddled \in BOOLEAN
  BY <1>0 DEF FilesInv, SessionTypeOK
<1>3. ~meddled' => ~meddled /\ procs' \subseteq procs
  <2>1. CASE Teleop
    BY <2>1 DEF Teleop
  <2>2. CASE TeleopEnds \/ Estop \/ Drives
    BY <2>2 DEF TeleopEnds, Estop, Drives
  <2>3. CASE SomebodyDrives
    BY <2>3 DEF SomebodyDrives, Launches
  <2>4. CASE \E p \in {"sim", "patrol", "unlisted"} : Crashes(p)
    BY <2>4 DEF Crashes, Loses
  <2> QED BY <2>1, <2>2, <2>3, <2>4
<1>5. ASSUME ~rival', stop_pc \in Stopping_
      PROVE  ~rival /\ procs' \subseteq procs /\ (procs \cap Drivers = {} => (moving' => moving))
  <2>1. CASE Teleop
    BY <1>5, <2>1 DEF Teleop
  <2>2. CASE TeleopEnds
    <3>1. rival' = rival /\ procs' = procs \ {"keyboard"} /\ moving' \in {moving, FALSE}
      BY <2>2 DEF TeleopEnds
    <3>2. moving' => moving
      BY <1>b, <3>1, Zenon
    <3> QED BY <1>5, <3>1, <3>2
  <2>3. CASE Estop
    <3>1. rival' = rival /\ procs' = procs /\ moving' \in {moving, FALSE}
      BY <2>3 DEF Estop
    <3>2. moving' => moving
      BY <1>b, <3>1, Zenon
    <3> QED BY <1>5, <3>1, <3>2
  <2>4. CASE Drives
    BY <1>5, <2>4 DEF Drives
  <2>5. CASE SomebodyDrives
    BY <1>5, <2>5 DEF SomebodyDrives, Launches, Drivers
  <2>6. CASE \E p \in {"sim", "patrol", "unlisted"} : Crashes(p)
    BY <1>5, <1>b, <2>6 DEF Crashes, Loses
  <2> QED BY <2>1, <2>2, <2>3, <2>4, <2>5, <2>6
<1>4. MeddledInv'
  BY <1>0, <1>1, <1>3 DEF MeddledInv, start_vars
<1>6. RivalInv'
  <2> SUFFICES ASSUME ~rival', stop_pc \in Stopping_
               PROVE  RivalInv'
    BY <1>1 DEF RivalInv, Stopping_, Quieted, Zeroed
  <2> QED BY <1>0, <1>1, <1>5 DEF RivalInv, Stopping_, Quieted, Zeroed
<1> QED BY <1>2, <1>4, <1>6

LEMMA SessionInductive == SessionInv /\ [SessionNext]_session_vars => SessionInv'
<1> SUFFICES ASSUME SessionInv, [SessionNext]_session_vars
             PROVE  SessionInv'
  OBVIOUS
<1>1. CASE UNCHANGED session_vars
  <2>1. FilesInv'
    BY <1>1 DEF SessionInv, FilesInv, SessionTypeOK, session_vars, start_vars
  <2>2. RecorderInv' /\ RivalInv'
    BY <1>1 DEF SessionInv, RecorderInv, RivalInv, session_vars
  <2>3. MeddledInv'
    BY <1>1 DEF SessionInv, MeddledInv, session_vars, start_vars
  <2> QED BY <2>1, <2>2, <2>3 DEF SessionInv
<1>2. CASE SessionNext
  <2>1. CASE Ask \/ StartStep \/ StartKilled
    BY <2>1, StartKeeps
  <2>2. CASE StopBegins \/ SilenceSources \/ ZeroRobots \/ CloseBag \/ Sweep \/ StopEnds
    BY <2>2, StopKeeps
  <2>3. CASE \/ Teleop \/ TeleopEnds \/ Estop \/ Drives \/ SomebodyDrives
             \/ \E p \in {"sim", "patrol", "unlisted"} : Crashes(p)
    BY <2>3, OthersKeep
  <2> QED BY <1>2, <2>1, <2>2, <2>3 DEF SessionNext
<1> QED BY <1>1, <1>2

(* A stop that has seen the robot at rest leaves it so, whatever was       *)
(* started, crashed or left behind before, unless somebody it was not told *)
(* of drives (simctl.cmd_stop).                                            *)
THEOREM StopsAtRest == SessionSpec => []StopLeavesAtRest
<1>1. SessionInv => StopLeavesAtRest
  BY DEF SessionInv, RivalInv, StopLeavesAtRest, Zeroed
<1> QED BY <1>1, SessionStarts, SessionInductive, PTL DEF SessionSpec

(* A stop nobody interfered with leaves no process of simctl's, and a      *)
(* recorder only if the session says that it is not closed                 *)
(* (simctl.cmd_stop).                                                      *)
THEOREM StopsAll == SessionSpec => []StopLeavesNothing
<1>1. SessionInv => StopLeavesNothing
  BY DEF SessionInv, FilesInv, SessionTypeOK, MeddledInv, StopLeavesNothing, Quieted, Zeroed, Drivers, Listed, SimProcs
<1> QED BY <1>1, SessionStarts, SessionInductive, PTL DEF SessionSpec
-----------------------------------------------------------------------------
(* The store of the braking bench.  Every copy of it is sound by itself,   *)
(* so that it does not matter which one is saved last: an identity names   *)
(* one push, the one in force has the scale in force, and a run that       *)
(* carries one was driven under a push nothing is wrong with.  A push is   *)
(* stamped later than all that the invocation loaded.                      *)

Pushed == [id : Nat, k : Nat, odom : Nat, gyro : Gyros]
Taken  == [cal : Nat, k : Nat]
Store  == [k : Nat, active : Nat, cals : Seq(Pushed), runs : Seq(Taken)]
Doing  == [pc : {"idle", "pushing", "driving", "save", "writing"}, copy : Store,
           new : Seq(Taken), stamp : Nat]

Numbered(store, n) == \A i \in DOMAIN store.cals : store.cals[i].id <= n

Driven(store, run) == \E i \in DOMAIN store.cals :
                        /\ store.cals[i].id = run.cal /\ store.cals[i].k = run.k
                        /\ calibration_problems(store.cals[i]) = {}

OneIdentity(store) == \A i, j \in DOMAIN store.cals :
                        store.cals[i].id = store.cals[j].id /\ store.cals[i].id # 0 => i = j

InForce(store) == store.active # 0 => \E i \in DOMAIN store.cals :
                    store.cals[i].id = store.active /\ store.cals[i].k = store.k

Sound(store) ==
  /\ store \in Store
  /\ OneIdentity(store) /\ InForce(store)
  /\ \A i \in DOMAIN store.runs : store.runs[i].cal # 0 => Driven(store, store.runs[i])

DoingInv(p) ==
  /\ Sound(inv[p].copy)
  /\ Numbered(inv[p].copy, invoked)
  /\ inv[p].pc = "pushing" => /\ 0 < inv[p].stamp /\ inv[p].stamp <= invoked
                              /\ Numbered(inv[p].copy, inv[p].stamp - 1)
  /\ inv[p].pc = "driving" =>
       /\ inv[p].copy.active # 0 => Driven(inv[p].copy, NewRun(inv[p].copy))
       /\ inv[p].new \in {<<>>, <<NewRun(inv[p].copy)>>}

StoresInv == /\ invoked \in Nat
             /\ inv \in [Invocations -> Doing]
             /\ Sound(file) /\ Numbered(file, invoked)
             /\ \A p \in Invocations : DoingInv(p)

LEMMA EmptySound == Sound(Empty) /\ \A n : Numbered(Empty, n)
  BY DEF Sound, Empty, Store, OneIdentity, InForce, Numbered

LEMMA LegacySound ==
  ASSUME NEW k \in Nat
  PROVE  Sound(Legacy(k)) /\ \A n \in Nat : Numbered(Legacy(k), n)
<1>1. /\ Legacy(k).k = k /\ Legacy(k).active = 0
      /\ Legacy(k).cals = <<[id |-> 0, k |-> k, odom |-> 10, gyro |-> "no span"]>>
      /\ Legacy(k).runs = <<[cal |-> 0, k |-> k]>>
  BY DEF Legacy
<1> DEFINE cal == [id |-> 0, k |-> k, odom |-> 10, gyro |-> "no span"]
           run == [cal |-> 0, k |-> k]
<1>a. cal \in Pushed /\ run \in Taken /\ cal.id = 0 /\ run.cal = 0
  BY DEF Pushed, Taken, Gyros
<1> HIDE DEF cal, run
<1>b. Legacy(k).cals = <<cal>> /\ Legacy(k).runs = <<run>>
  BY <1>1 DEF cal, run
<1>2. /\ Legacy(k).cals \in Seq(Pushed) /\ DOMAIN Legacy(k).cals = {1} /\ Legacy(k).cals[1].id = 0
      /\ Legacy(k).runs \in Seq(Taken) /\ DOMAIN Legacy(k).runs = {1} /\ Legacy(k).runs[1].cal = 0
  BY <1>a, <1>b
<1>3. Legacy(k) \in Store
  BY <1>2 DEF Legacy, Store
<1>4. /\ OneIdentity(Legacy(k)) /\ InForce(Legacy(k))
      /\ \A i \in DOMAIN Legacy(k).runs : Legacy(k).runs[i].cal = 0
      /\ \A n \in Nat : Numbered(Legacy(k), n)
  <2>1. OneIdentity(Legacy(k)) /\ InForce(Legacy(k))
    BY <1>1, <1>2 DEF OneIdentity, InForce
  <2>2. \A i \in DOMAIN Legacy(k).runs : Legacy(k).runs[i].cal = 0
    BY <1>2
  <2>3. \A n \in Nat : 0 <= n
    OBVIOUS
  <2>4. \A n \in Nat : Numbered(Legacy(k), n)
    BY <1>2, <2>3 DEF Numbered
  <2> QED BY <2>1, <2>2, <2>4
<1> QED BY <1>3, <1>4 DEF Sound

(* --use-calibration *)
LEMMA UsedSound ==
  ASSUME NEW store, Sound(store), NEW i \in DOMAIN store.cals, NEW n, Numbered(store, n)
  PROVE  Sound(UseCalibration(store, i)) /\ Numbered(UseCalibration(store, i), n)
<1> DEFINE used == UseCalibration(store, i)
<1>a. store \in Store /\ store.cals \in Seq(Pushed)
  BY DEF Sound, Store
<1>c. store.cals[i] \in Pushed
  BY <1>a
<1>b. store.cals[i].id \in Nat /\ store.cals[i].k \in Nat
  BY <1>c DEF Pushed
<1>1. /\ used \in Store /\ used.cals = store.cals /\ used.runs = store.runs
      /\ used.active = store.cals[i].id /\ used.k = store.cals[i].k
  BY <1>a, <1>b DEF Store, UseCalibration
<1>2. \A run : Driven(store, run) => Driven(used, run)
  BY <1>1 DEF Driven
<1> QED BY <1>1, <1>2 DEF Sound, OneIdentity, InForce, Numbered

(* A push is appended and put in force. *)
LEMMA CalibratedSound ==
  ASSUME NEW store, Sound(store), NEW cal \in Pushed, cal.id # 0, Numbered(store, cal.id - 1)
  PROVE  Sound(Calibrated(store, cal)) /\ Numbered(Calibrated(store, cal), cal.id)
<1> DEFINE more == Calibrated(store, cal)
<1>1. store \in Store /\ store.cals \in Seq(Pushed) /\ cal.id \in Nat /\ cal.k \in Nat
  BY DEF Sound, Store, Pushed
<1>a. Append(store.cals, cal) \in Seq(Pushed)
  BY <1>1
<1>2. /\ more \in Store /\ more.cals = Append(store.cals, cal) /\ more.runs = store.runs
      /\ more.active = cal.id /\ more.k = cal.k
  BY <1>1, <1>a DEF Store, Calibrated
<1> DEFINE m == Len(store.cals)
<1>3. /\ m \in Nat /\ DOMAIN store.cals = 1 .. m
      /\ DOMAIN more.cals = 1 .. m + 1 /\ more.cals[m + 1] = cal
      /\ \A i \in 1 .. m : more.cals[i] = store.cals[i] /\ store.cals[i].id \in Nat
  <2>1. /\ m \in Nat /\ DOMAIN store.cals = 1 .. m
        /\ \A i \in 1 .. m : store.cals[i] \in Pushed
    BY <1>1
  <2>2. /\ DOMAIN Append(store.cals, cal) = 1 .. m + 1 /\ Append(store.cals, cal)[m + 1] = cal
        /\ \A i \in 1 .. m : Append(store.cals, cal)[i] = store.cals[i]
    BY <1>1
  <2> QED BY <1>2, <2>1, <2>2 DEF Pushed
<1>4. \A i \in 1 .. m : more.cals[i].id \in Nat /\ more.cals[i].id < cal.id
  <2> TAKE i \in 1 .. m
  <2>1. more.cals[i] = store.cals[i] /\ store.cals[i].id \in Nat
    BY <1>3
  <2>2. store.cals[i].id <= cal.id - 1
    BY <1>3 DEF Numbered
  <2> HIDE DEF more, m
  <2> QED BY <1>1, <2>1, <2>2
<1> HIDE DEF more, m
<1>5. \A i \in DOMAIN more.cals : i \in 1 .. m \/ i = m + 1
  BY <1>3
<1>6. OneIdentity(more)
  <2> SUFFICES ASSUME NEW i \in DOMAIN more.cals, NEW j \in DOMAIN more.cals,
                      more.cals[i].id = more.cals[j].id, more.cals[i].id # 0
               PROVE  i = j
    BY DEF OneIdentity
  <2>1. CASE i \in 1 .. m /\ j \in 1 .. m
    BY <1>3, <2>1 DEF Sound, OneIdentity
  <2>2. CASE i = m + 1 /\ j = m + 1
    BY <2>2
  <2>3. CASE i = m + 1 /\ j \in 1 .. m
    BY <1>1, <1>3, <1>4, <2>3
  <2>4. CASE j = m + 1 /\ i \in 1 .. m
    BY <1>1, <1>3, <1>4, <2>4
  <2> QED BY <1>5, <2>1, <2>2, <2>3, <2>4
<1>7. InForce(more)
  <2>1. m + 1 \in DOMAIN more.cals
    BY <1>3
  <2> QED BY <1>2, <1>3, <2>1 DEF InForce
<1>8. \A run : Driven(store, run) => Driven(more, run)
  <2>1. \A i \in DOMAIN store.cals : i \in DOMAIN more.cals /\ more.cals[i] = store.cals[i]
    BY <1>3
  <2> QED BY <2>1 DEF Driven
<1>9. Numbered(more, cal.id)
  BY <1>1, <1>3, <1>4, <1>5 DEF Numbered
<1> QED BY <1>2, <1>6, <1>7, <1>8, <1>9 DEF Sound, more

(* The new runs are appended. *)
LEMMA RunsSound ==
  ASSUME NEW store, Sound(store), NEW new \in {<<>>, <<NewRun(store)>>}, NEW n,
         Numbered(store, n), store.active # 0 => Driven(store, NewRun(store))
  PROVE  /\ Sound([store EXCEPT !.runs = @ \o new])
         /\ Numbered([store EXCEPT !.runs = @ \o new], n)
<1> DEFINE more == [store EXCEPT !.runs = @ \o new]
<1>1. /\ store \in Store /\ store.runs \in Seq(Taken)
      /\ NewRun(store) \in Taken /\ NewRun(store).cal = store.active
  BY DEF Sound, Store, Taken, NewRun
<1>2. new \in Seq(Taken) /\ store.runs \o new \in Seq(Taken)
  <2>1. CASE new = <<>>
    BY <1>1, <2>1
  <2>2. CASE new = <<NewRun(store)>>
    BY <1>1, <2>2
  <2> QED BY <2>1, <2>2
<1>3. /\ more \in Store /\ more.cals = store.cals /\ more.k = store.k
      /\ more.active = store.active /\ more.runs = store.runs \o new
  BY <1>1, <1>2 DEF Store
<1>4. \A i \in DOMAIN more.runs :
        (\E j \in DOMAIN store.runs : more.runs[i] = store.runs[j]) \/ more.runs[i] = NewRun(store)
  <2>1. CASE new = <<>>
    BY <1>1, <1>3, <2>1
  <2>2. CASE new = <<NewRun(store)>>
    <3>1. more.runs = Append(store.runs, NewRun(store))
      BY <1>1, <1>3, <2>2
    <3>2. /\ DOMAIN more.runs = 1 .. Len(store.runs) + 1
          /\ DOMAIN store.runs = 1 .. Len(store.runs)
          /\ \A i \in 1 .. Len(store.runs) : more.runs[i] = store.runs[i]
          /\ more.runs[Len(store.runs) + 1] = NewRun(store)
          /\ Len(store.runs) \in Nat
      BY <1>1, <3>1
    <3>3. \A i \in 1 .. Len(store.runs) + 1 : i \in 1 .. Len(store.runs) \/ i = Len(store.runs) + 1
      BY <3>2
    <3> QED BY <3>2, <3>3
  <2> QED BY <2>1, <2>2
<1> HIDE DEF more
<1>5. \A run : Driven(store, run) => Driven(more, run)
  BY <1>3 DEF Driven
<1>6. \A i \in DOMAIN more.runs : more.runs[i].cal # 0 => Driven(more, more.runs[i])
  BY <1>1, <1>4, <1>5 DEF Sound
<1>7. OneIdentity(more) /\ InForce(more) /\ Numbered(more, n)
  BY <1>3 DEF Sound, OneIdentity, InForce, Numbered
<1> QED BY <1>3, <1>6, <1>7 DEF Sound, more

(* What is driven under an identity is driven under a push nothing is      *)
(* wrong with: the identity finds one push, the one whose scale is used.   *)
LEMMA DrivenUnderGood ==
  ASSUME NEW store, Sound(store), store.active # 0,
         \E cal \in active_calibration(store) : calibration_problems(cal) = {}
  PROVE  Driven(store, NewRun(store))
<1> DEFINE found == {i \in DOMAIN store.cals : store.cals[i].id = store.active}
<1>1. PICK j \in DOMAIN store.cals : store.cals[j].id = store.active /\ store.cals[j].k = store.k
  BY DEF Sound, InForce
<1>2. found = {j}
  BY <1>1 DEF Sound, OneIdentity
<1>3. j \in Nat /\ Min({j}) = j
  BY DEF Sound, Store, Min
<1>4. active_calibration(store) = {store.cals[j]}
  BY <1>2, <1>3 DEF active_calibration
<1> QED BY <1>1, <1>4 DEF Driven, NewRun

LEMMA StoresStart == BrakingInit => StoresInv
<1> SUFFICES ASSUME BrakingInit PROVE StoresInv
  OBVIOUS
<1>1. Sound(file) /\ Numbered(file, 0)
  <2>1. 10 \in Nat /\ 0 \in Nat
    OBVIOUS
  <2> QED BY <2>1, EmptySound, LegacySound DEF BrakingInit
<1>2. /\ invoked = 0 /\ \A p \in Invocations : inv[p] = Idle(Empty)
      /\ inv = [p \in Invocations |-> Idle(Empty)]
  BY DEF BrakingInit
<1>3. Idle(Empty) \in Doing /\ Idle(Empty).pc = "idle" /\ Idle(Empty).copy = Empty
  BY EmptySound DEF Idle, Doing, Sound
<1>4. inv \in [Invocations -> Doing]
  BY <1>2, <1>3
<1>5. \A p \in Invocations : DoingInv(p)
  BY <1>2, <1>3, EmptySound DEF DoingInv
<1> QED BY <1>1, <1>2, <1>4, <1>5 DEF StoresInv

(* What one invocation does leaves the copies of the others alone. *)
LEMMA OneDoes ==
  ASSUME StoresInv, NEW p \in Invocations, NEW doing \in Doing,
         inv' = [inv EXCEPT ![p] = doing],
         invoked' \in Nat, invoked <= invoked',
         Sound(file'), Numbered(file', invoked'),
         Sound(doing.copy), Numbered(doing.copy, invoked'),
         doing.pc = "pushing" => /\ 0 < doing.stamp /\ doing.stamp <= invoked'
                                 /\ Numbered(doing.copy, doing.stamp - 1),
         doing.pc = "driving" =>
           /\ doing.copy.active # 0 => Driven(doing.copy, NewRun(doing.copy))
           /\ doing.new \in {<<>>, <<NewRun(doing.copy)>>}
  PROVE  StoresInv'
<1>1. inv \in [Invocations -> Doing] /\ invoked \in Nat
  BY DEF StoresInv
<1>2. inv' \in [Invocations -> Doing] /\ inv'[p] = doing
  BY <1>1
<1>3. DoingInv(p)'
  BY <1>2 DEF DoingInv
<1>4. ASSUME NEW q \in Invocations, q # p
      PROVE  DoingInv(q)'
  <2>1. inv'[q] = inv[q] /\ DoingInv(q)
    BY <1>1, <1>4 DEF StoresInv
  <2>2. inv[q].stamp \in Nat /\ inv[q].copy \in Store
    BY <1>1 DEF Doing
  <2>3. \A i \in DOMAIN inv[q].copy.cals : inv[q].copy.cals[i].id \in Nat
    <3>1. inv[q].copy.cals \in Seq(Pushed)
      BY <2>2 DEF Store
    <3>2. \A i \in DOMAIN inv[q].copy.cals : inv[q].copy.cals[i] \in Pushed
      BY <3>1
    <3> QED BY <3>2 DEF Pushed
  <2>4. Numbered(inv[q].copy, invoked')
    BY <1>1, <2>1, <2>3 DEF DoingInv, Numbered
  <2>5. inv[q].stamp <= invoked => inv[q].stamp <= invoked'
    BY <1>1, <2>2
  <2> QED BY <2>1, <2>4, <2>5 DEF DoingInv
<1> QED BY <1>2, <1>3, <1>4 DEF StoresInv

LEMMA EndsKeeps ==
  ASSUME StoresInv, NEW p \in Invocations, InvocationEnds(p), invoked' = invoked,
         Sound(file'), Numbered(file', invoked)
  PROVE  StoresInv'
<1>1. Idle(Empty) \in Doing /\ Idle(Empty).pc = "idle" /\ Idle(Empty).copy = Empty
  BY EmptySound DEF Idle, Doing, Sound
<1>2. invoked \in Nat /\ invoked <= invoked'
  BY DEF StoresInv
<1> QED BY <1>1, <1>2, EmptySound, OneDoes DEF InvocationEnds

LEMMA StartsKeeps ==
  ASSUME StoresInv, NEW p \in Invocations, NEW pc \in {"pushing", "driving", "save"}, NEW copy,
         Starts(p, pc, copy), Sound(copy), Numbered(copy, invoked),
         pc = "driving" /\ copy.active # 0 => Driven(copy, NewRun(copy))
  PROVE  StoresInv'
<1> DEFINE doing == [pc |-> pc, copy |-> copy, new |-> <<>>, stamp |-> invoked + 1]
<1>1. /\ invoked \in Nat /\ invoked' = invoked + 1 /\ file' = file
      /\ inv' = [inv EXCEPT ![p] = doing] /\ Sound(file) /\ Numbered(file, invoked)
  BY DEF Starts, StoresInv
<1>2. /\ doing \in Doing /\ doing.copy = copy /\ doing.pc = pc /\ doing.new = <<>>
      /\ doing.stamp = invoked + 1
  BY <1>1 DEF Doing, Sound
<1>3. /\ 0 < invoked + 1 /\ invoked <= invoked + 1 /\ invoked + 1 <= invoked + 1
      /\ invoked + 1 \in Nat /\ (invoked + 1) - 1 = invoked
  BY <1>1
<1>4. \A store : Sound(store) /\ Numbered(store, invoked) => Numbered(store, invoked + 1)
  <2> SUFFICES ASSUME NEW store, Sound(store), Numbered(store, invoked)
               PROVE  Numbered(store, invoked + 1)
    OBVIOUS
  <2>1. store.cals \in Seq(Pushed)
    BY DEF Sound, Store
  <2>2. \A i \in DOMAIN store.cals : store.cals[i] \in Pushed
    BY <2>1
  <2>3. \A i \in DOMAIN store.cals : store.cals[i].id \in Nat
    BY <2>2 DEF Pushed
  <2> QED BY <1>1, <2>3 DEF Numbered
<1> HIDE DEF doing
<1>5. Sound(file') /\ Numbered(file', invoked')
  BY <1>1, <1>4
<1>6. Sound(doing.copy) /\ Numbered(doing.copy, invoked')
  BY <1>1, <1>2, <1>4
<1>7. doing.pc = "pushing" => /\ 0 < doing.stamp /\ doing.stamp <= invoked'
                              /\ Numbered(doing.copy, doing.stamp - 1)
  BY <1>1, <1>2, <1>3
<1>8. doing.pc = "driving" =>
        /\ doing.copy.active # 0 => Driven(doing.copy, NewRun(doing.copy))
        /\ doing.new \in {<<>>, <<NewRun(doing.copy)>>}
  BY <1>2
<1> QED BY <1>1, <1>2, <1>3, <1>5, <1>6, <1>7, <1>8, OneDoes

LEMMA CalibrateKeeps ==
  ASSUME StoresInv, NEW p \in Invocations, Calibrate(p)
  PROVE  StoresInv'
<1>1. /\ inv \in [Invocations -> Doing] /\ inv[p].pc = "pushing" /\ DoingInv(p)
      /\ invoked \in Nat /\ invoked' = invoked /\ file' = file
      /\ Sound(file) /\ Numbered(file, invoked)
  BY DEF Calibrate, StoresInv
<1>2. CASE InvocationEnds(p)
  BY <1>1, <1>2, EndsKeeps
<1>3. ASSUME NEW cal \in Pushes(inv[p].stamp),
             inv' = [inv EXCEPT ![p].pc = "save", ![p].copy = Calibrated(@, cal)]
      PROVE  StoresInv'
  <2>1. inv[p] \in Doing /\ inv[p].stamp \in Nat /\ inv[p].stamp # 0 /\ inv[p].stamp <= invoked
    BY <1>1 DEF DoingInv, Doing
  <2>2. cal \in Pushed /\ cal.id = inv[p].stamp
    <3> DEFINE good == [id |-> inv[p].stamp, k |-> 10, odom |-> 10, gyro |-> "straight"]
    <3>1. good \in Pushed /\ good.id = inv[p].stamp
      BY <2>1 DEF Pushed, Gyros
    <3> HIDE DEF good
    <3>2. CASE \E k \in Scales : cal = [good EXCEPT !.k = k]
      BY <3>1, <3>2, BrakingAssumption DEF Pushed
    <3>3. CASE \E odom \in Lengths : cal = [good EXCEPT !.odom = odom]
      BY <3>1, <3>3, BrakingAssumption DEF Pushed
    <3>4. CASE \E seen \in Gyros \ {"no span"} : cal = [good EXCEPT !.gyro = seen]
      BY <3>1, <3>4 DEF Pushed
    <3> QED BY <1>3, <3>2, <3>3, <3>4 DEF Pushes, good
  <2> DEFINE doing == [inv[p] EXCEPT !.pc = "save", !.copy = Calibrated(@, cal)]
  <2>3. Sound(Calibrated(inv[p].copy, cal)) /\ Numbered(Calibrated(inv[p].copy, cal), cal.id)
    BY <1>1, <2>1, <2>2, CalibratedSound DEF DoingInv
  <2>4. Calibrated(inv[p].copy, cal) \in Store
    BY <2>3 DEF Sound
  <2>5. doing \in Doing /\ doing.pc = "save" /\ doing.copy = Calibrated(inv[p].copy, cal)
    BY <2>1, <2>4 DEF Doing
  <2>6. inv' = [inv EXCEPT ![p] = doing]
    BY <1>1, <1>3
  <2>7. \A store : Sound(store) /\ Numbered(store, cal.id) => Numbered(store, invoked)
    <3> SUFFICES ASSUME NEW store, Sound(store), Numbered(store, cal.id)
                 PROVE  Numbered(store, invoked)
      OBVIOUS
    <3>1. store.cals \in Seq(Pushed)
      BY DEF Sound, Store
    <3>2. \A i \in DOMAIN store.cals : store.cals[i] \in Pushed
      BY <3>1
    <3>3. \A i \in DOMAIN store.cals : store.cals[i].id \in Nat
      BY <3>2 DEF Pushed
    <3>4. \A i \in DOMAIN store.cals : store.cals[i].id <= inv[p].stamp
      BY <2>2 DEF Numbered
    <3> QED BY <1>1, <2>1, <3>3, <3>4 DEF Numbered
  <2> HIDE DEF doing
  <2>8. Sound(doing.copy) /\ Numbered(doing.copy, invoked)
    BY <2>3, <2>5, <2>7
  <2>9. invoked <= invoked'
    BY <1>1
  <2> QED BY <1>1, <2>5, <2>6, <2>8, <2>9, OneDoes
<1> QED BY <1>2, <1>3 DEF Calibrate

LEMMA DrivesKeeps ==
  ASSUME StoresInv, NEW p \in Invocations, RunOnce(p) \/ RunsEnd(p) \/ Truncate(p)
  PROVE  StoresInv'
<1>1. /\ inv \in [Invocations -> Doing] /\ inv[p] \in Doing /\ DoingInv(p)
      /\ invoked \in Nat /\ invoked' = invoked /\ invoked <= invoked' /\ file' = file
      /\ Sound(file) /\ Numbered(file, invoked)
  <2>1. invoked' = invoked /\ file' = file
    BY DEF RunOnce, RunsEnd, Truncate
  <2>2. /\ inv \in [Invocations -> Doing] /\ DoingInv(p) /\ invoked \in Nat
        /\ Sound(file) /\ Numbered(file, invoked)
    BY DEF StoresInv
  <2> QED BY <2>1, <2>2
<1>2. inv[p].copy \in Store /\ NewRun(inv[p].copy) \in Taken
  BY <1>1 DEF Doing, Store, Taken, NewRun
<1>3. CASE RunOnce(p)
  <2> DEFINE doing == [inv[p] EXCEPT !.new = <<NewRun(inv[p].copy)>>]
  <2>1. inv[p].pc = "driving" /\ inv' = [inv EXCEPT ![p] = doing]
    BY <1>1, <1>3 DEF RunOnce
  <2>2. /\ doing \in Doing /\ doing.pc = "driving" /\ doing.copy = inv[p].copy
        /\ doing.new = <<NewRun(inv[p].copy)>>
    <3>1. <<NewRun(inv[p].copy)>> \in Seq(Taken)
      BY <1>2
    <3> QED BY <1>1, <2>1, <3>1 DEF Doing
  <2> HIDE DEF doing
  <2> QED BY <1>1, <2>1, <2>2, OneDoes DEF DoingInv
<1>4. CASE RunsEnd(p)
  <2> DEFINE copy == [inv[p].copy EXCEPT !.runs = @ \o inv[p].new]
             doing == [inv[p] EXCEPT !.pc = "save", !.copy = copy]
  <2>1. inv[p].pc = "driving" /\ inv' = [inv EXCEPT ![p] = doing]
    BY <1>1, <1>2, <1>4 DEF RunsEnd, Doing, Store
  <2>2. Sound(copy) /\ Numbered(copy, invoked)
    BY <1>1, <2>1, RunsSound DEF DoingInv
  <2> HIDE DEF copy
  <2>3. doing \in Doing /\ doing.pc = "save" /\ doing.copy = copy
    BY <1>1, <2>2 DEF Doing, Sound
  <2> HIDE DEF doing
  <2> QED BY <1>1, <2>1, <2>2, <2>3, OneDoes
<1>5. CASE Truncate(p)
  <2> DEFINE doing == [inv[p] EXCEPT !.pc = "writing"]
  <2>1. inv' = [inv EXCEPT ![p] = doing]
    BY <1>1, <1>5 DEF Truncate
  <2>2. doing \in Doing /\ doing.pc = "writing" /\ doing.copy = inv[p].copy
    BY <1>1 DEF Doing
  <2> HIDE DEF doing
  <2> QED BY <1>1, <2>1, <2>2, OneDoes DEF DoingInv
<1> QED BY <1>3, <1>4, <1>5

LEMMA StoresInductive == StoresInv /\ [BrakingNext]_braking_vars => StoresInv'
<1> SUFFICES ASSUME StoresInv, [BrakingNext]_braking_vars
             PROVE  StoresInv'
  OBVIOUS
<1>0. /\ Sound(file) /\ Numbered(file, invoked) /\ file.cals \in Seq(Pushed)
      /\ \A p \in Invocations : DoingInv(p)
  BY DEF StoresInv, Sound, Store
<1>1. ASSUME NEW p \in Invocations, SwitchCalibration(p)
      PROVE  StoresInv'
  <2>1. PICK i \in DOMAIN file.cals : Starts(p, "save", UseCalibration(file, i))
    BY <1>1 DEF SwitchCalibration
  <2>2. Sound(UseCalibration(file, i)) /\ Numbered(UseCalibration(file, i), invoked)
    BY <1>0, <2>1, UsedSound
  <2> QED BY <2>1, <2>2, StartsKeeps
<1>2. ASSUME NEW p \in Invocations, StartCalibration(p)
      PROVE  StoresInv'
  BY <1>0, <1>2, StartsKeeps DEF StartCalibration
<1>3. ASSUME NEW p \in Invocations, StartMeasuring(p)
      PROVE  StoresInv'
  <2>1. file.active # 0 => Driven(file, NewRun(file))
    BY <1>0, <1>3, DrivenUnderGood DEF StartMeasuring
  <2> QED BY <1>0, <1>3, <2>1, StartsKeeps DEF StartMeasuring
<1>4. ASSUME NEW p \in Invocations, Save(p)
      PROVE  StoresInv'
  <2>1. Sound(file') /\ Numbered(file', invoked) /\ invoked' = invoked
    BY <1>0, <1>4 DEF Save, DoingInv
  <2> QED BY <1>4, <2>1, EndsKeeps DEF Save
<1>5. ASSUME NEW p \in Invocations, Interrupted(p)
      PROVE  StoresInv'
  <2>1. Sound(file') /\ Numbered(file', invoked) /\ invoked' = invoked
    BY <1>0, <1>5 DEF Interrupted
  <2> QED BY <1>5, <2>1, EndsKeeps DEF Interrupted
<1>6. CASE MeasureStage \/ UNCHANGED braking_vars
  <2>1. UNCHANGED store_vars
    BY <1>6 DEF MeasureStage, braking_vars
  <2> QED BY <2>1 DEF StoresInv, DoingInv, store_vars
<1> QED BY <1>1, <1>2, <1>3, <1>4, <1>5, <1>6, CalibrateKeeps, DrivesKeeps DEF BrakingNext

(* The runs that are pooled were driven under the scale in force, and one  *)
(* that carries an identity under a push nothing is wrong with, for any    *)
(* number of invocations that save over each other                         *)
(* (measure_braking.runs_for_active_calibration).                          *)
THEOREM PoolIsPure == BrakingSpec => []KeptRunsAreOfOneScale
<1>1. StoresInv => KeptRunsAreOfOneScale
  <2> SUFFICES ASSUME StoresInv, NEW i \in runs_for_active_calibration(file)
               PROVE  /\ file.runs[i].k = file.k
                      /\ file.runs[i].cal # 0 => \E j \in DOMAIN file.cals :
                           /\ file.cals[j].id = file.runs[i].cal
                           /\ calibration_problems(file.cals[j]) = {}
    BY DEF KeptRunsAreOfOneScale
  <2>1. Sound(file)
    BY DEF StoresInv
  <2>2. /\ i \in DOMAIN file.runs
        /\ IF file.active # 0 THEN file.runs[i].cal = file.active ELSE file.runs[i].k = file.k
    BY DEF runs_for_active_calibration
  <2>3. file.runs[i].cal # 0 => Driven(file, file.runs[i])
    BY <2>1, <2>2 DEF Sound
  <2>4. CASE file.active = 0
    BY <2>2, <2>3, <2>4 DEF Driven
  <2>5. CASE file.active # 0
    <3>1. PICK j \in DOMAIN file.cals :
            /\ file.cals[j].id = file.runs[i].cal /\ file.cals[j].k = file.runs[i].k
            /\ calibration_problems(file.cals[j]) = {}
      BY <2>2, <2>3, <2>5 DEF Driven
    <3>2. PICK m \in DOMAIN file.cals : file.cals[m].id = file.active /\ file.cals[m].k = file.k
      BY <2>1, <2>5 DEF Sound, InForce
    <3>3. j = m
      BY <2>1, <2>2, <2>5, <3>1, <3>2 DEF Sound, OneIdentity
    <3> QED BY <3>1, <3>2, <3>3
  <2> QED BY <2>4, <2>5
<1> QED BY <1>1, StoresStart, StoresInductive, PTL DEF BrakingSpec
-----------------------------------------------------------------------------
(* The board.  What each tool does is what it was called for. *)

BoardInv ==
  /\ board_call \in Calls
  /\ board_pc \in {"write", "read"} => board_call = "provision"
  /\ board_pc \in {"pulse", "verify"} => board_call \in {"reset", "reset_unverified", "until_live"}
  /\ board_pc = "gone" /\ board_code = 0 =>
       /\ board_call = "provision" => \A f \in ReadBack : stored[f] = "asked"
       /\ board_call \in {"reset", "until_live"} => gyro = "live"

LEMMA BoardInductive == BoardInv /\ [BoardNext]_board_vars => BoardInv'
<1> SUFFICES ASSUME BoardInv, [BoardNext]_board_vars
             PROVE  BoardInv'
  OBVIOUS
<1> USE DEF BoardInv, Calls, Leaves
<1>1. CASE BoardBegins
  <2>1. /\ board_pc' \in {"gone", "declined", "write", "pulse"}
        /\ board_pc' = "gone" => board_code' # 0
        /\ board_pc' = "write" => board_call = "provision"
        /\ board_pc' = "pulse" => board_call \notin {"provision", "dry_run"}
    <3>1. CASE board_call \in {"provision", "dry_run"}
      BY <1>1, <3>1 DEF BoardBegins
    <3>2. CASE board_call \notin {"provision", "dry_run"}
      BY <1>1, <3>2 DEF BoardBegins
    <3> QED BY <3>1, <3>2
  <2>2. UNCHANGED <<board_call, stored, written, attempt, gyro, heard_gyro>>
    BY <1>1 DEF BoardBegins
  <2> QED BY <2>1, <2>2
<1>2. CASE Write
  <2>1. /\ board_pc = "write" /\ board_pc' \in {"read", "write"}
        /\ UNCHANGED <<board_call, board_code>>
    BY <1>2 DEF Write
  <2> QED BY <2>1
<1>3. CASE read_config
  <2>1. PICK answered \in SUBSET ReadBack :
          Leaves(IF Mismatches(answered) = {} THEN 0 ELSE 1)
    BY <1>3 DEF read_config
  <2>2. board_code' = 0 => Mismatches(answered) = {}
    BY <2>1
  <2>3. board_code' = 0 => \A f \in ReadBack : stored[f] = "asked"
    BY <2>2 DEF Mismatches
  <2> QED BY <1>3, <2>1, <2>3 DEF read_config
<1>4. CASE pulse_reset
  BY <1>4 DEF pulse_reset
<1>5. CASE Verified
  <2>1. PICK well \in BOOLEAN, state \in {gyro_state(TRUE), gyro_state(FALSE), "no_data"} :
          IF well /\ state = "live" THEN Leaves(0)
          ELSE IF state = "live" \/ (well /\ state = "undetermined")
                  \/ board_call # "until_live" \/ attempt = MaxAttempts
          THEN Leaves(1)
          ELSE board_pc' = "pulse" /\ UNCHANGED board_code
    BY <1>5 DEF Verified
  <2>2. state = "live" => gyro = "live"
    BY <2>1 DEF gyro_state
  <2>3. \/ Leaves(0) /\ gyro = "live"
        \/ Leaves(1)
        \/ board_pc' = "pulse"
    BY <2>1, <2>2
  <2>4. board_pc = "verify" /\ UNCHANGED <<board_call, stored, written, attempt, gyro>>
    BY <1>5 DEF Verified
  <2>5. CASE Leaves(0) /\ gyro = "live"
    BY <2>4, <2>5
  <2>6. CASE Leaves(1)
    BY <2>4, <2>6
  <2>7. CASE board_pc' = "pulse"
    BY <2>4, <2>7
  <2> QED BY <2>3, <2>5, <2>6, <2>7
<1>6. CASE BoardToolKilled
  BY <1>6 DEF BoardToolKilled
<1>7. CASE UNCHANGED board_vars
  BY <1>7 DEF board_vars
<1> QED BY <1>1, <1>2, <1>3, <1>4, <1>5, <1>6, <1>7 DEF BoardNext

(* A tool of the board that reports success has read back what it wrote,   *)
(* or seen live data after its reset (provision_board, reset_board).       *)
THEOREM SuccessEarned == BoardSpec => []SuccessIsTheBoards
<1>1. BoardInit => BoardInv
  BY DEF BoardInit, BoardInv
<1>2. BoardInv => SuccessIsTheBoards
  <2>1. BoardInv => board_call \in Calls
    BY DEF BoardInv
  <2> QED BY <2>1 DEF BoardInv, SuccessIsTheBoards, Calls
<1> QED BY <1>1, <1>2, BoardInductive, PTL DEF BoardSpec
-----------------------------------------------------------------------------
(* The twin's verifier. *)

TwinInv ==
  /\ clock \in Nat /\ latched.stamp \in Nat /\ latched.stamp <= clock
  /\ twin_pc \in {"setup", "sample", "judge", "gone"}
  /\ twin_pc \in {"setup", "sample", "judge"} => twin_code = 0
  /\ twin_mode \in {"fixture", "live", "no_tf", "drop_test"}
  /\ twin_mode = "no_tf" => latched = NoMessage /\ stamps = 0
  /\ twin_mode \in {"fixture", "live"} => latched.place \in Nat \ {0} /\ chassis \in Nat \ {0}
  /\ twin_mode = "drop_test" =>
       IF dropped THEN chassis = Fallen /\ (Fallen \in samples \/ ~(Waypoints \subseteq samples))
       ELSE clock <= DropAfter /\ {latched.place, chassis} \cup samples \subseteq 1 .. 3
  /\ twin_pc = "gone" /\ twin_code = 0 => Follows

LEMMA FixtureOnWay ==
  ASSUME NEW m \in Nat \ {0}
  PROVE  FixtureAt(m) \in Nat \ {0} /\ FixtureAt(m) <= m
<1>1. Hold \in Nat \ {0}
  BY TwinAssumption
<1> DEFINE q == (m - 1) \div Hold
<1>2. q \in Int /\ q * Hold <= m - 1 /\ m - 1 < (q + 1) * Hold
  BY <1>1
<1> HIDE DEF q
<1>3. q >= 0
  BY <1>1, <1>2
<1>4. q <= m - 1
  <2>1. q * Hold >= q
    BY <1>1, <1>2, <1>3
  <2> QED BY <1>1, <1>2, <1>3, <2>1
<1> QED BY <1>2, <1>3, <1>4 DEF FixtureAt, q

LEMMA TwinFrame == TwinInv /\ Frame => TwinInv'
<1> SUFFICES ASSUME TwinInv, Frame
             PROVE  TwinInv'
  OBVIOUS
<1>1. PICK took \in 1 .. FrameMax :
        LET takes == latched'.stamp > 0 /\ ~Suspended
            new   == takes /\ latched'.stamp # latched.stamp
            after == IF takes THEN latched'.place ELSE chassis
            drops == twin_mode = "drop_test" /\ ~dropped /\ clock' > DropAfter
        IN /\ clock' = clock + took
           /\ latched' \in Arrived(clock, clock')
           /\ stamps'  = IF new THEN stamps + 1 ELSE stamps
           /\ samples' = samples \cup {after}
           /\ chassis' = IF drops THEN Fallen ELSE after
           /\ dropped' = (dropped \/ drops)
  BY DEF Frame
<1>0. twin_pc = "sample" /\ UNCHANGED <<twin_mode, twin_pc, twin_code>>
  BY DEF Frame
<1> DEFINE takes == latched'.stamp > 0 /\ ~Suspended
           after == IF takes THEN latched'.place ELSE chassis
           drops == twin_mode = "drop_test" /\ ~dropped /\ clock' > DropAfter
<1>2. /\ samples' = samples \cup {after} /\ chassis' = (IF drops THEN Fallen ELSE after)
      /\ dropped' = (dropped \/ drops)
  BY <1>1
<1>3. FrameMax \in Nat /\ took \in Nat /\ clock \in Nat /\ clock' \in Nat /\ clock <= clock'
      /\ latched.stamp \in Nat /\ latched.stamp <= clock
  BY <1>1, TwinAssumption DEF TwinInv
<1>4. \/ latched' = latched
      \/ twin_mode = "live" /\ \E m \in clock + 1 .. clock', p \in {Origin, Other} :
            latched' = [stamp |-> m, place |-> p]
      \/ twin_mode \in {"fixture", "drop_test"} /\ \E m \in clock + 1 .. clock' :
            latched' = [stamp |-> m, place |-> FixtureAt(m)]
  <2>1. latched' \in Arrived(clock, clock')
    BY <1>1
  <2>2. CASE twin_mode = "no_tf"
    BY <2>1, <2>2 DEF Arrived
  <2>3. CASE twin_mode = "live"
    BY <2>1, <2>3 DEF Arrived
  <2>4. CASE twin_mode \in {"fixture", "drop_test"}
    <3>1. Arrived(clock, clock') = {latched} \cup
             {[stamp |-> m, place |-> FixtureAt(m)] : m \in {n \in clock + 1 .. clock' : n <= 5 * Hold}}
      BY <2>4 DEF Arrived
    <3> QED BY <2>1, <2>4, <3>1
  <2> QED BY <2>2, <2>3, <2>4 DEF TwinInv
<1>5. /\ latched'.stamp \in Nat /\ latched'.stamp <= clock'
      /\ twin_mode \in {"fixture", "live"} => latched'.place \in Nat \ {0}
      /\ twin_mode = "drop_test" /\ ~dropped /\ clock' <= DropAfter => latched'.place \in 1 .. 3
      /\ twin_mode = "drop_test" /\ ~dropped => latched'.place \in Nat \ {0}
      /\ twin_mode = "no_tf" => latched' = NoMessage
  <2>1. CASE latched' = latched
    BY <1>3, <2>1 DEF TwinInv
  <2>2. CASE twin_mode = "live" /\ \E m \in clock + 1 .. clock', p \in {Origin, Other} :
                latched' = [stamp |-> m, place |-> p]
    BY <1>3, <2>2 DEF Origin, Other
  <2>3. CASE twin_mode \in {"fixture", "drop_test"} /\ \E m \in clock + 1 .. clock' :
                latched' = [stamp |-> m, place |-> FixtureAt(m)]
    <3>1. PICK m \in clock + 1 .. clock' : latched' = [stamp |-> m, place |-> FixtureAt(m)]
      BY <2>3
    <3>2. m \in Nat \ {0} /\ m <= clock' /\ latched'.stamp = m /\ latched'.place = FixtureAt(m)
      BY <1>3, <3>1
    <3>3. FixtureAt(m) \in Nat \ {0} /\ FixtureAt(m) <= m
      BY <3>2, FixtureOnWay
    <3> QED BY <1>3, <2>3, <3>2, <3>3 DEF DropAfter
  <2> QED BY <1>4, <2>1, <2>2, <2>3
<1> HIDE DEF takes, drops
<1>6. twin_mode = "no_tf" => latched' = NoMessage /\ stamps' = 0
  <2> SUFFICES ASSUME twin_mode = "no_tf" PROVE latched' = NoMessage /\ stamps' = 0
    OBVIOUS
  <2>1. latched' = NoMessage /\ latched = NoMessage /\ stamps = 0
    BY <1>5 DEF TwinInv
  <2> QED BY <1>1, <2>1
<1>7. twin_mode \in {"fixture", "live"} => latched'.place \in Nat \ {0} /\ chassis' \in Nat \ {0}
  <2> SUFFICES ASSUME twin_mode \in {"fixture", "live"} PROVE chassis' \in Nat \ {0}
    BY <1>5
  <2>1. ~drops
    BY DEF drops
  <2>2. chassis' = latched'.place \/ chassis' = chassis
    BY <1>2, <2>1
  <2> QED BY <1>5, <2>2 DEF TwinInv
<1>8. ASSUME twin_mode = "drop_test"
      PROVE  IF dropped' THEN chassis' = Fallen /\ (Fallen \in samples' \/ ~(Waypoints \subseteq samples'))
             ELSE clock' <= DropAfter /\ {latched'.place, chassis'} \cup samples' \subseteq 1 .. 3
  <2>1. CASE dropped
    <3>1. ~drops /\ dropped' /\ ~takes
      BY <1>2, <1>8, <2>1 DEF drops, takes, Suspended
    <3>2. chassis = Fallen
      BY <1>8, <2>1 DEF TwinInv
    <3>3. chassis' = Fallen /\ Fallen \in samples'
      BY <1>2, <3>1, <3>2
    <3> QED BY <3>1, <3>3
  <2>2. CASE ~dropped /\ drops
    <3>1. dropped' /\ chassis' = Fallen /\ samples \subseteq 1 .. 3
      BY <1>2, <1>8, <2>2 DEF TwinInv
    <3>2. ~({4, 5} \subseteq samples')
      BY <1>2, <3>1
    <3>3. {4, 5} \subseteq Waypoints
      BY DEF Waypoints
    <3> QED BY <3>1, <3>2, <3>3
  <2>3. CASE ~dropped /\ ~drops
    <3>1. ~dropped' /\ clock' <= DropAfter /\ chassis' = after
      <4>1. ~dropped' /\ chassis' = after
        BY <1>2, <2>3
      <4>2. ~(clock' > DropAfter)
        BY <1>8, <2>3 DEF drops
      <4> QED BY <1>3, <4>1, <4>2 DEF DropAfter
    <3>2. {latched.place, chassis} \cup samples \subseteq 1 .. 3
      BY <1>8, <2>3 DEF TwinInv
    <3>3. latched'.place \in 1 .. 3
      BY <1>5, <1>8, <2>3, <3>1
    <3> QED BY <1>2, <3>1, <3>2, <3>3
  <2> QED BY <2>1, <2>2, <2>3
<1> QED BY <1>0, <1>3, <1>5, <1>6, <1>7, <1>8 DEF TwinInv

LEMMA TwinInductive == TwinInv /\ [TwinNext]_twin_vars => TwinInv'
<1> SUFFICES ASSUME TwinInv, [TwinNext]_twin_vars
             PROVE  TwinInv'
  OBVIOUS
<1> USE DEF TwinInv, Follows
<1>1. CASE Setup
  BY <1>1 DEF Setup
<1>2. CASE SamplingEnds
  BY <1>2 DEF SamplingEnds
<1>3. CASE JudgeTwin
  <2>1. twin_code' = 0 => Follows
    BY <1>3 DEF JudgeTwin
  <2> QED BY <1>3, <2>1 DEF JudgeTwin
<1>4. CASE UNCHANGED twin_vars
  BY <1>4 DEF twin_vars
<1> QED BY <1>1, <1>2, <1>3, <1>4, TwinFrame DEF TwinNext

(* A twin that passes adopted at least two messages and stands on the      *)
(* floor; neither negative control passes, however slow the frames         *)
(* (verify_twin.main).                                                     *)
THEOREM FollowerPasses == TwinSpec => []OnlyAFollowerPasses
<1>1. TwinInit => TwinInv
  BY DEF TwinInit, TwinInv, NoMessage, Origin, DropAfter, Follows
<1>2. TwinInv => OnlyAFollowerPasses
  <2> SUFFICES ASSUME TwinInv, twin_pc = "gone", twin_code = 0
               PROVE  twin_mode \notin {"no_tf", "drop_test"} /\ stamps >= 2 /\ chassis # Fallen
    BY DEF OnlyAFollowerPasses
  <2>1. Follows
    BY DEF TwinInv
  <2>2. twin_mode # "no_tf"
    BY <2>1 DEF TwinInv, Follows
  <2>3. ASSUME twin_mode = "drop_test" PROVE FALSE
    <3>1. Fallen \notin samples /\ Waypoints \subseteq samples
      BY <2>1, <2>3 DEF Follows
    <3>2. samples \subseteq 1 .. 3
      BY <2>3, <3>1 DEF TwinInv
    <3> QED BY <3>1, <3>2 DEF Waypoints
  <2>4. twin_mode \in {"fixture", "live"}
    BY <2>2, <2>3 DEF TwinInv
  <2> QED BY <2>1, <2>4 DEF TwinInv, Follows, Fallen
<1> QED BY <1>1, <1>2, TwinInductive, PTL DEF TwinSpec
-----------------------------------------------------------------------------
(* The check of odometry.  While ground truth is heard, its last message   *)
(* is where the body is, and odometry's is not ahead of what it measures.  *)

OdomInv ==
  /\ backend \in {"2D", "slipping", "collision"}
  /\ odom_source \in {"wheels", "unsigned", "truth"}
  /\ {drove, wheel_at, body_at, odom_last, truth_last, odom_from, truth_from} \subseteq Int
  /\ odom_pc \in {"reverse", "await"} =>
       /\ odom_last = Unheard /\ truth_last = Unheard
       /\ drove = 0 /\ wheel_at = 0 /\ body_at = 0
  /\ odom_pc \in {"slip", "compare"} =>
       /\ odom_from = 0 /\ truth_from = 0
       /\ odom_last <= IF odom_source = "truth" THEN body_at ELSE wheel_at
       /\ ~truth_fell_silent => "truth" \in talking /\ truth_last = body_at
  /\ backend = "slipping" => body_at = drove \div 2
  /\ odom_source = "unsigned" /\ odom_pc # "reverse" => odom_fails
  /\ odom_pc = "end" /\ ~odom_fails /\ ~unproven /\ ~truth_fell_silent
       => odom_source = "wheels" /\ body_at < wheel_at
  /\ odom_pc # "gone" => odom_code = 0
  /\ CheatIsCaught

\* All of it that does not depend on how far anything went.
LEMMA HearTells ==
  ASSUME Hear
  PROVE  /\ odom_last' \in {odom_last, body_at', wheel_at'}
         /\ odom_source = "truth" => odom_last' \in {odom_last, body_at'}
         /\ odom_source # "truth" => odom_last' \in {odom_last, wheel_at'}
         /\ truth_last' \in {truth_last, body_at'}
         /\ "truth" \in talking => truth_last' = body_at'
         /\ "truth" \notin talking => truth_last' = truth_last
BY DEF Hear

LEMMA OdomInductive == OdomInv /\ [ChecksNext]_check_vars => OdomInv'
<1> SUFFICES ASSUME OdomInv, [ChecksNext]_check_vars
             PROVE  OdomInv'
  OBVIOUS
<1> USE DEF OdomInv, CheatIsCaught, place_vars
<1>1. ASSUME NEW t \in Spoken, TopicChanges(t)
      PROVE  OdomInv'
  <2>1. UNCHANGED <<backend, odom_source, odom_pc, place_vars, odom_fails, unproven, odom_code>>
        /\ odom_pc # "gone" /\ (truth_fell_silent => truth_fell_silent')
    BY <1>1 DEF TopicChanges
  <2>2. odom_pc \in {"slip", "compare"} /\ ~truth_fell_silent' => t # "truth" /\ ~truth_fell_silent
    BY <1>1 DEF TopicChanges
  <2>3. "truth" \in talking /\ t # "truth" => "truth" \in talking'
    BY <1>1 DEF TopicChanges
  <2> QED BY <2>1, <2>2, <2>3
<1>2. CASE ReverseDrive
  <2>1. /\ odom_pc = "reverse" /\ odom_pc' = "await"
        /\ UNCHANGED <<backend, odom_source, place_vars, talking, truth_fell_silent, unproven, odom_code>>
    BY <1>2 DEF ReverseDrive
  <2>2. odom_source = "unsigned" => odom_fails'
    BY <1>2 DEF ReverseDrive, OdomFails
  <2> QED BY <2>1, <2>2
<1>3. CASE AwaitBoth
  <2>1. /\ odom_pc = "await" /\ UNCHANGED <<drove, wheel_at, body_at>> /\ Hear
        /\ odom_from' = odom_last' /\ truth_from' = truth_last'
        /\ UNCHANGED <<backend, odom_source, talking, truth_fell_silent, unproven, odom_code>>
    BY <1>3 DEF AwaitBoth
  <2>2. odom_last' \in {Unheard, 0} /\ truth_last' \in {Unheard, 0}
    BY <2>1, HearTells
  <2>3. "truth" \notin talking => truth_last' = Unheard
    BY <2>1, HearTells
  <2>4. \/ odom_pc' = "end" /\ odom_fails'
        \/ odom_pc' = "slip" /\ odom_last' = 0 /\ truth_last' = 0 /\ (odom_fails => odom_fails')
    BY <1>3, <2>2 DEF AwaitBoth, OdomFails
  <2> QED BY <2>1, <2>2, <2>3, <2>4 DEF Unheard
<1>4. CASE SlipDrive
  <2>1. /\ odom_pc = "slip" /\ drove' = drove + 1 /\ wheel_at' \in {wheel_at, wheel_at + 1} /\ Hear
        /\ (backend = "slipping" => wheel_at' = wheel_at + 1) /\ BodyMoves
        /\ UNCHANGED <<backend, odom_source, odom_pc, talking, odom_from, truth_from,
                       truth_fell_silent, odom_fails, unproven, odom_code>>
    BY <1>4 DEF SlipDrive
  <2>2. {drove, wheel_at, body_at, odom_last, truth_last} \subseteq Int
    OBVIOUS
  <2>3. wheel_at' \in Int /\ wheel_at <= wheel_at' /\ drove' \in Int
    BY <2>1, <2>2
  <2>4. /\ body_at' \in Int /\ body_at <= body_at'
        /\ backend = "slipping" => body_at' = drove' \div 2
    <3>1. CASE backend = "slipping"
      <4>1. wheel_at' # wheel_at
        BY <2>1, <2>2, <3>1
      <4>2. body_at' = drove' \div 2
        BY <2>1, <3>1, <4>1 DEF BodyMoves
      <4>3. drove \div 2 <= (drove + 1) \div 2 /\ (drove + 1) \div 2 \in Int
        BY <2>2
      <4> QED BY <2>1, <3>1, <4>2, <4>3
    <3>2. CASE backend # "slipping"
      <4>1. body_at' \in {body_at, body_at + 1}
        BY <2>1, <3>2 DEF BodyMoves
      <4> QED BY <2>2, <3>2, <4>1
    <3> QED BY <3>1, <3>2
  <2>5. odom_last' \in Int /\ truth_last' \in Int
        /\ odom_last' <= IF odom_source = "truth" THEN body_at' ELSE wheel_at'
    <3>1. CASE odom_source = "truth"
      <4>1. odom_last <= body_at
        BY <2>1, <3>1
      <4> QED BY <2>1, <2>2, <2>3, <2>4, <3>1, <4>1, HearTells
    <3>2. CASE odom_source # "truth"
      <4>1. odom_last <= wheel_at
        BY <2>1, <3>2
      <4> QED BY <2>1, <2>2, <2>3, <2>4, <3>2, <4>1, HearTells
    <3> QED BY <3>1, <3>2
  <2>6. ~truth_fell_silent => "truth" \in talking /\ truth_last' = body_at'
    BY <2>1, HearTells
  <2> QED BY <2>1, <2>2, <2>3, <2>4, <2>5, <2>6
<1>5. CASE Settle
  <2>1. /\ odom_pc = "slip" /\ odom_pc' = "compare" /\ UNCHANGED <<wheel_at, body_at>> /\ Hear
        /\ UNCHANGED <<backend, odom_source, drove, talking, odom_from, truth_from,
                       truth_fell_silent, odom_fails, unproven, odom_code>>
    BY <1>5 DEF Settle
  <2>2. {drove, wheel_at, body_at, odom_last, truth_last} \subseteq Int
    OBVIOUS
  <2>3. odom_last' \in Int /\ truth_last' \in Int
        /\ odom_last' <= IF odom_source = "truth" THEN body_at ELSE wheel_at
    <3>1. CASE odom_source = "truth"
      BY <2>1, <2>2, <3>1, HearTells
    <3>2. CASE odom_source # "truth"
      BY <2>1, <2>2, <3>2, HearTells
    <3> QED BY <3>1, <3>2
  <2>4. ~truth_fell_silent => "truth" \in talking /\ truth_last' = body_at
    BY <2>1, HearTells
  <2> QED BY <2>1, <2>2, <2>3, <2>4
<1>6. CASE Compare
  <2>1. /\ odom_pc = "compare" /\ odom_pc' = "end"
        /\ odom_fails' = (odom_fails \/ Stalled \/ (~Demonstrated /\ backend = "collision"))
        /\ unproven' = (~Stalled /\ ~Demonstrated /\ backend # "collision")
        /\ UNCHANGED <<backend, odom_source, place_vars, talking, truth_fell_silent, odom_code>>
    BY <1>6 DEF Compare, OdomFails
  <2>2. ASSUME ~odom_fails', ~unproven', ~truth_fell_silent
        PROVE  odom_source = "wheels" /\ body_at < wheel_at
    <3>1. ~odom_fails /\ ~Stalled /\ Demonstrated
      BY <2>1, <2>2
    <3>2. odom_from = 0 /\ truth_from = 0 /\ truth_last = body_at
          /\ {odom_last, wheel_at, body_at} \subseteq Int
      BY <2>1, <2>2
    <3>3. odom_last >= 1 /\ body_at < odom_last
      <4>1. odo_d = odom_last /\ true_d = body_at
        BY <3>2 DEF odo_d, true_d
      <4>2. ~(odom_last < 1) /\ (odom_last - body_at) * 100 >= 3 * odom_last
        BY <3>1, <4>1 DEF Stalled, Demonstrated
      <4> QED BY <3>2, <4>2
    <3>4. odom_source # "truth"
      BY <2>1, <3>2, <3>3
    <3>5. odom_last <= wheel_at
      BY <2>1, <3>4
    <3>6. odom_source = "wheels"
      BY <2>1, <3>1, <3>4
    <3> QED BY <3>2, <3>3, <3>5, <3>6
  <2> QED BY <2>1, <2>2
<1>7. CASE SaysOdometry
  <2>1. odom_code' = 0 => ~odom_fails /\ ~unproven
    BY <1>7 DEF SaysOdometry
  <2>2. /\ odom_pc = "end" /\ odom_pc' = "gone"
        /\ UNCHANGED <<backend, odom_source, place_vars, talking, truth_fell_silent,
                       odom_fails, unproven>>
    BY <1>7 DEF SaysOdometry
  <2> QED BY <2>1, <2>2
<1>8. CASE UNCHANGED check_vars
  BY <1>8 DEF check_vars
<1> QED BY <1>1, <1>2, <1>3, <1>4, <1>5, <1>6, <1>7, <1>8 DEF ChecksNext

(* Odometry passes only if it is that of wheels and the body fell behind   *)
(* them, as long as ground truth was heard throughout                      *)
(* (check_odom_properties.main).                                           *)
THEOREM CheatFails == ChecksSpec => []CheatIsCaught
<1>1. ChecksInit => OdomInv
  <2>1. 0 \div 2 = 0 /\ Unheard \in Int
    BY DEF Unheard
  <2> QED BY <2>1 DEF ChecksInit, OdomInv, CheatIsCaught
<1>2. OdomInv => CheatIsCaught
  BY DEF OdomInv
<1> QED BY <1>1, <1>2, OdomInductive, PTL DEF ChecksSpec

-----------------------------------------------------------------------------
(* The self-test.  Odometry, however old, tells of motions that were       *)
(* carried out, and of none if it is of wheels that stand still; each leg  *)
(* that is over has shown its own or failed the test.                      *)

CarInv == /\ wheels \in Motions => wheels \in obeyed
          /\ last_odom \in Motions => last_odom \in obeyed /\ (encoders => motors)
          /\ obeyed \subseteq Motions
          /\ peak \cap Motions \subseteq obeyed
          /\ peak \cap Motions # {} => (encoders => motors)

SelftestInv ==
  /\ leg \in 1 .. 4 /\ (step = "leg" => leg <= 3)
  /\ step \in {"agent", "sample", "handspin", "drive", "leg", "finally", "gone"}
  /\ ~failed /\ leg > 1 => "linear" \in obeyed /\ (encoders => motors)
  /\ ~failed /\ leg > 3 => "turn" \in obeyed
  /\ step = "handspin" => option = "handspin"
  /\ step \in {"drive", "leg"} => option # "handspin"
  /\ step = "finally" /\ option = "motion" /\ ~failed => leg = 4
  /\ step = "finally" /\ option = "handspin" /\ ~failed => encoders
  /\ step = "gone" /\ option = "motion" /\ trial_code = 0
       => obeyed = Motions /\ (encoders => motors)
  /\ step = "gone" /\ option = "handspin" /\ trial_code = 0 => encoders

TrialsInv == CarInv /\ (trial = "selftest" => SelftestInv)

LEMMA CommandsTurn ==
  ASSUME CarInv, NEW motion, Commands(motion) \/ Obeys(motion)
  PROVE  /\ wheels' \in Motions => wheels' \in obeyed'
         /\ obeyed \subseteq obeyed' /\ obeyed' \subseteq Motions
<1>1. CASE Obeys(motion)
  BY <1>1 DEF CarInv, Obeys
<1>2. CASE UNCHANGED <<wheels, obeyed>>
  BY <1>2 DEF CarInv
<1> QED BY <1>1, <1>2 DEF Commands

LEMMA CarInductive == CarInv /\ [TrialsNext]_trial_vars => CarInv' /\ obeyed \subseteq obeyed'
<1> SUFFICES ASSUME CarInv, [TrialsNext]_trial_vars
             PROVE  CarInv' /\ obeyed \subseteq obeyed'
  OBVIOUS
<1> USE TrialsAssumption DEF Motions
<1>1. CASE OdomArrives
  BY <1>1 DEF CarInv, OdomArrives, Reported, Shows, call_vars
<1>2. CASE HearingChanges \/ AgentLook \/ HandSpin \/ StartFilter \/ JudgeFilters \/ ScanGate \/ UNCHANGED trial_vars
  <2>1. UNCHANGED <<wheels, last_odom, obeyed, peak, encoders, motors>>
    BY <1>2 DEF call_vars, HearingChanges, AgentLook, HandSpin, StartFilter, JudgeFilters, ScanGate, trial_vars
  <2> QED BY <2>1 DEF CarInv
<1>3. CASE Sample
  <2>1. last_odom' \in {Reported, last_odom} /\ UNCHANGED <<wheels, obeyed, peak, encoders, motors>>
    BY <1>3 DEF Sample, call_vars
  <2> QED BY <2>1 DEF CarInv, Reported, Shows
<1>4. CASE \/ LegBegins \/ LegGoesOn \/ LegEnds \/ SequenceBegins \/ Collect \/ Trial
           \/ ReportLatency \/ Finally \/ TrialSignalled
  <2>1. \E motion : Commands(motion) \/ Obeys(motion)
    BY <1>4 DEF LegBegins, LegGoesOn, LegEnds, SequenceBegins, Collect, Trial, ReportLatency,
                Finally, TrialSignalled
  <2>2. /\ last_odom' = last_odom /\ UNCHANGED <<encoders, motors>>
        /\ peak' \in {{}, peak, {last_odom}, peak \cup {last_odom}}
    BY <1>4 DEF LegBegins, LegGoesOn, LegEnds, SequenceBegins, Collect, Trial, ReportLatency,
                Finally, TrialSignalled, result_vars, call_vars
  <2>3. (wheels' \in Motions => wheels' \in obeyed') /\ obeyed \subseteq obeyed' /\ obeyed' \subseteq Motions
    BY <2>1, CommandsTurn
  <2> QED BY <2>2, <2>3 DEF CarInv
<1> QED BY <1>1, <1>2, <1>3, <1>4 DEF TrialsNext

LEMMA SelftestInductive ==
  ASSUME CarInv, trial = "selftest", SelftestInv, [TrialsNext]_trial_vars
  PROVE  SelftestInv'
<1> USE DEF SelftestInv, call_vars, result_vars
<1>0. /\ CarInv' /\ obeyed \subseteq obeyed' /\ obeyed' \subseteq Motions
      /\ Legs[trial] = <<"linear", "linear", "turn">> /\ leg \in 1 .. 4
  BY CarInductive DEF CarInv, Legs
<1>1. CASE OdomArrives \/ HearingChanges \/ UNCHANGED trial_vars
  BY <1>1 DEF OdomArrives, HearingChanges, trial_vars
<1>2. CASE AgentLook
  <2>1. step = "agent" /\ UNCHANGED <<trial, option, encoders, motors, obeyed, leg>>
    BY <1>2 DEF AgentLook
  <2>2. \/ step' = "gone" /\ trial_code' = 1 /\ Row(FALSE)
        \/ step' = "sample" /\ failed' = failed
    BY <1>2 DEF AgentLook
  <2>3. CASE step' = "gone" /\ trial_code' = 1 /\ Row(FALSE)
    <3>1. failed'
      BY <2>3 DEF Row
    <3> QED BY <2>1, <2>3, <3>1
  <2>4. CASE step' = "sample" /\ failed' = failed
    BY <2>1, <2>4
  <2> QED BY <2>2, <2>3, <2>4
<1>3. CASE Sample
  <2>1. /\ step = "sample" /\ step' \in {"finally", "handspin", "drive"}
        /\ UNCHANGED <<trial, option, encoders, motors, obeyed, leg, trial_code>>
        /\ failed => failed'
        /\ step' = "handspin" => option = "handspin"
        /\ step' = "drive" => option # "handspin"
        /\ step' = "finally" /\ option \in {"motion", "handspin"} => failed'
    <3>1. PICK arrived \in SUBSET Contract, in_tolerance \in SUBSET Contract,
               enough_points \in BOOLEAN, low \in BOOLEAN :
            /\ in_tolerance \subseteq arrived
            /\ Row(in_tolerance = Contract /\ enough_points /\ ~low)
            /\ step' = CASE arrived = {} \/ option = "sensors" -> "finally"
                         [] option = "handspin"                -> "handspin"
                         [] low                                -> "finally"
                         [] OTHER                              -> "drive"
      BY <1>3 DEF Sample
    <3>2. failed => failed'
      BY <3>1 DEF Row
    <3>3. arrived = {} \/ low => failed'
      <4>1. arrived = {} => in_tolerance # Contract
        BY <3>1 DEF Contract
      <4> QED BY <3>1, <4>1 DEF Row
    <3>4. CASE arrived = {} \/ option = "sensors"
      BY <1>3, <3>1, <3>2, <3>3, <3>4 DEF Sample
    <3>5. CASE ~(arrived = {} \/ option = "sensors")
      <4>1. \/ option = "handspin" /\ step' = "handspin"
            \/ low /\ step' = "finally"
            \/ option # "handspin" /\ step' = "drive"
        <5>1. arrived # {} /\ option # "sensors"
          BY <3>5
        <5>2. CASE option = "handspin"
          BY <3>1, <5>1, <5>2
        <5>3. CASE option # "handspin" /\ low
          BY <3>1, <5>1, <5>3
        <5>4. CASE option # "handspin" /\ ~low
          BY <3>1, <5>1, <5>4
        <5> QED BY <5>2, <5>3, <5>4
      <4> QED BY <1>3, <3>2, <3>3, <4>1 DEF Sample
    <3> QED BY <3>4, <3>5
  <2> QED BY <2>1
<1>4. CASE HandSpin
  BY <1>4 DEF HandSpin, Row
<1>5. CASE LegBegins
  BY <1>0, <1>5 DEF LegBegins
<1>6. CASE LegGoesOn
  BY <1>0, <1>6 DEF LegGoesOn
<1>7. CASE LegEnds
  <2>1. /\ step = "leg" /\ leg' = leg + 1 /\ leg \in 1 .. 3
        /\ step' = (IF leg = 3 THEN "finally" ELSE "drive")
        /\ failed' = (failed \/ ~Shown)
        /\ UNCHANGED <<trial, option, encoders, motors, trial_code>>
    BY <1>0, <1>7 DEF LegEnds, Row
  <2>2. ~failed' => ~failed /\ Legs[trial][leg] \in peak
    BY <2>1 DEF Shown
  <2>3. peak \cap Motions \subseteq obeyed
    BY DEF CarInv
  <2>4. ~failed' => Legs[trial][leg] \in obeyed' /\ (encoders => motors)
    BY <1>0, <2>1, <2>2, <2>3 DEF Motions, CarInv
  <2>5. /\ ~failed' /\ leg > 1 => "linear" \in obeyed' /\ (encoders => motors)
        /\ ~failed' /\ leg > 3 => "turn" \in obeyed' /\ (encoders => motors)
    BY <1>0, <2>2
  <2>a. option # "handspin"
    BY <2>1
  <2> HIDE DEF SelftestInv
  <2>6. leg = 1 \/ leg = 2 \/ leg = 3
    BY <2>1
  <2>7. /\ leg' \in 1 .. 4 /\ leg' > 1 /\ step' \in {"finally", "drive"}
        /\ step' = "finally" => leg' = 4
        /\ leg' > 3 => leg = 3
    BY <2>1, <2>6
  <2>8. ~failed' => "linear" \in obeyed' /\ (encoders => motors)
    BY <1>0, <2>4, <2>5, <2>6
  <2>9. ~failed' /\ leg' > 3 => "turn" \in obeyed'
    BY <1>0, <2>4, <2>7
  <2> QED BY <2>1, <2>7, <2>8, <2>9, <2>a DEF SelftestInv
<1>8. CASE Finally
  <2>1. /\ step = "finally" /\ step' = "gone" /\ UNCHANGED <<trial, option, encoders, motors, leg, failed>>
        /\ trial_code' = IF failed THEN 1 ELSE 0
    BY <1>8 DEF Finally
  <2>2. trial_code' = 0 => ~failed
    BY <2>1
  <2>3. ~failed /\ option = "motion" => obeyed' = Motions /\ (encoders => motors)
    <3> SUFFICES ASSUME ~failed, option = "motion"
                 PROVE  obeyed' = Motions /\ (encoders => motors)
      OBVIOUS
    <3>1. leg = 4
      BY <2>1
    <3>2. "linear" \in obeyed /\ "turn" \in obeyed /\ (encoders => motors)
      BY <3>1
    <3> QED BY <1>0, <3>2 DEF Motions
  <2> QED BY <1>0, <2>1, <2>2, <2>3
<1>9. CASE TrialSignalled
  BY <1>0, <1>9 DEF TrialSignalled
<1>10. CASE \/ SequenceBegins \/ StartFilter \/ Collect \/ JudgeFilters \/ ScanGate \/ Trial
            \/ ReportLatency
  BY <1>10 DEF SequenceBegins, StartFilter, Collect, JudgeFilters, ScanGate, Trial, ReportLatency
<1> QED BY <1>1, <1>2, <1>3, <1>4, <1>5, <1>6, <1>7, <1>8, <1>9, <1>10 DEF TrialsNext

(* A self-test that passes is evidence of what its rows say and no more:   *)
(* of motions carried out, of wheels that made them if odometry is of      *)
(* encoders, of encoders by the hand-spin alone; however the link dropped  *)
(* between, and however old the odometry it read (car_selftest.main).      *)
THEOREM PassedShows == TrialsSpec => []PassShowsWhatItSays
<1>1. TrialsInit => TrialsInv
  BY TrialsAssumption DEF TrialsInit, TrialsInv, CarInv, SelftestInv, Motions
<1>2. TrialsInv /\ [TrialsNext]_trial_vars => TrialsInv'
  <2>1. [TrialsNext]_trial_vars => trial' = trial
    BY DEF TrialsNext, OdomArrives, HearingChanges, AgentLook, Sample, HandSpin, LegBegins, LegGoesOn,
           LegEnds, SequenceBegins, StartFilter, Collect, JudgeFilters, ScanGate, Trial, ReportLatency,
           Finally, TrialSignalled, trial_vars, call_vars
  <2> QED BY <2>1, CarInductive, SelftestInductive DEF TrialsInv
<1>3. TrialsInv => PassShowsWhatItSays
  BY DEF TrialsInv, SelftestInv, PassShowsWhatItSays
<1> QED BY <1>1, <1>2, <1>3, PTL DEF TrialsSpec
-----------------------------------------------------------------------------
(* Least and greatest numbers.  A set of naturals that has no least has no *)
(* member: what holds of the numbers below holds of the next.              *)

LEMMA LeastIsThere ==
  ASSUME NEW S \in SUBSET Nat, S # {}
  PROVE  \E m \in S : \A n \in S : m <= n
<1> DEFINE Below == {pair \in Nat \X Nat : pair[1] < pair[2]}
<1>1. IsWellFoundedOn(Below, Nat)
  BY NatLessThanWellFounded, Zenon DEF OpToRel
<1>2. \A n, m \in Nat : n < m => <<n, m>> \in Below
  OBVIOUS
<1> HIDE DEF Below
<1>3. PICK m \in S : \A n \in S : <<n, m>> \notin Below
  BY <1>1, WFMin
<1>4. \A n \in S : ~ (n < m)
  BY <1>2, <1>3
<1> QED BY <1>4

LEMMA MinOfNaturals ==
  ASSUME NEW S \in SUBSET Nat, S # {}
  PROVE  Min(S) \in S /\ \A n \in S : Min(S) <= n
  BY LeastIsThere DEF Min

\* A set that has a bound has a greatest element: the least of its bounds.
LEMMA MaxIsThere ==
  ASSUME NEW S \in SUBSET Int, 0 \in S, NEW b \in Nat, \A n \in S : n <= b
  PROVE  \E m \in S : m \in Nat /\ \A n \in S : n <= m
<1> DEFINE Bounds == {m \in Nat : \A n \in S : n <= m}
<1>1. Bounds \in SUBSET Nat /\ b \in Bounds
  OBVIOUS
<1>2. PICK m \in Bounds : \A n \in Bounds : m <= n
  BY <1>1, LeastIsThere
<1>3. m \in Nat /\ \A n \in S : n <= m
  OBVIOUS
<1>4. m \in S
  <2> SUFFICES ASSUME m \notin S
               PROVE  FALSE
    OBVIOUS
  <2>1. \A n \in S : n <= m - 1
    BY <1>3
  <2>2. m - 1 \in Bounds
    BY <1>3, <2>1
  <2> QED BY <1>2, <1>3, <2>2
<1> QED BY <1>3, <1>4
-----------------------------------------------------------------------------
(* Ranks.                                                                  *)

\* Were there prefixes in which no value is the greatest, there would be a shortest.
LEMMA GreatestIsThere ==
  ASSUME NEW n \in Nat \ {0}, NEW f \in [1 .. n -> Int]
  PROVE  \E top \in 1 .. n : \A i \in 1 .. n : f[i] <= f[top]
<1> DEFINE HasTop(m) == \E top \in 1 .. m : \A i \in 1 .. m : f[i] <= f[top]
           Without == {m \in 1 .. n : ~HasTop(m)}
<1> SUFFICES ASSUME Without # {}
             PROVE  FALSE
  <2>1. n \in Without \/ HasTop(n)
    OBVIOUS
  <2> QED BY <2>1
<1>1. Without \in SUBSET Nat
  OBVIOUS
<1>2. PICK m \in Without : \A l \in Without : m <= l
  <2> HIDE DEF Without
  <2> QED BY <1>1, LeastIsThere
<1>3. m \in 1 .. n /\ ~HasTop(m)
  OBVIOUS
<1>4. m # 1
  BY <1>3
<1>5. m - 1 \in 1 .. n /\ ~(m <= m - 1)
  BY <1>3, <1>4
<1>6. m - 1 \notin Without
  <2> HIDE DEF Without
  <2> QED BY <1>2, <1>5, Zenon
<1>10. PICK top \in 1 .. m - 1 : \A i \in 1 .. m - 1 : f[i] <= f[top]
  BY <1>5, <1>6, Zenon
<1>11. \A i \in 1 .. m : i \in 1 .. m - 1 \/ i = m
  BY <1>3
<1>12. m \in 1 .. m /\ 1 .. m - 1 \subseteq 1 .. m
  BY <1>3
<1>9. f[m] \in Int /\ f[top] \in Int /\ \A i \in 1 .. m - 1 : f[i] \in Int
  BY <1>3, <1>10
<1>7. CASE f[m] <= f[top]
  <2>1. \A i \in 1 .. m : f[i] <= f[top]
    BY <1>7, <1>10, <1>11
  <2> QED BY <1>3, <1>10, <1>12, <2>1, Zenon
<1>8. CASE f[top] < f[m]
  <2>1. \A i \in 1 .. m - 1 : f[i] <= f[m]
    BY <1>8, <1>9, <1>10
  <2>2. f[m] <= f[m]
    BY <1>9
  <2>3. \A i \in 1 .. m : f[i] <= f[m]
    BY <1>11, <2>1, <2>2, Zenon
  <2> QED BY <1>3, <1>12, <2>3, Zenon
<1> QED BY <1>7, <1>8, <1>9

LEMMA RankedIsThere ==
  ASSUME NEW n \in Nat \ {0}, NEW f \in [1 .. n -> Nat], NEW k \in 1 .. n
  PROVE  /\ \E i \in 1 .. n : ranked(f, k) = f[i]
         /\ Cardinality({i \in 1 .. n : f[i] <= ranked(f, k)}) >= k
         /\ \A j \in 1 .. n : Cardinality({i \in 1 .. n : f[i] <= f[j]}) >= k => ranked(f, k) <= f[j]
<1> DEFINE UpTo(v) == {i \in 1 .. n : f[i] <= v}
           Good == {f[i] : i \in {j \in 1 .. n : Cardinality(UpTo(f[j])) >= k}}
<1>1. ranked(f, k) = Min(Good)
  BY DEF ranked
<1>2. Good \in SUBSET Nat
  OBVIOUS
<1>3. PICK top \in 1 .. n : \A i \in 1 .. n : f[i] <= f[top]
  <2>1. f \in [1 .. n -> Int]
    OBVIOUS
  <2> QED BY <2>1, GreatestIsThere
<1>4. Good # {}
  <2>1. UpTo(f[top]) = 1 .. n
    BY <1>3
  <2>2. Cardinality(1 .. n) = n
    BY FS_Interval
  <2>4. n >= k
    OBVIOUS
  <2> HIDE DEF UpTo
  <2>3. Cardinality(UpTo(f[top])) >= k
    BY <2>1, <2>2, <2>4
  <2> QED BY <2>3
<1>5. Min(Good) \in Good /\ \A v \in Good : Min(Good) <= v
  <2> HIDE DEF Good
  <2> QED BY <1>2, <1>4, MinOfNaturals
<1>6. PICK i \in 1 .. n : Min(Good) = f[i] /\ Cardinality(UpTo(f[i])) >= k
  BY <1>5
<1>7. \A j \in 1 .. n : Cardinality(UpTo(f[j])) >= k => f[j] \in Good
  OBVIOUS
<1> QED BY <1>1, <1>5, <1>6, <1>7

\* Values that are not below others are not below them at any rank.
LEMMA RankedRises ==
  ASSUME NEW n \in Nat \ {0}, NEW f \in [1 .. n -> Nat], NEW g \in [1 .. n -> Nat],
         NEW k \in 1 .. n, \A i \in 1 .. n : f[i] <= g[i]
  PROVE  ranked(f, k) <= ranked(g, k)
<1> DEFINE lo == ranked(f, k)
           hi == ranked(g, k)
<1>1. /\ \E i \in 1 .. n : lo = f[i]
      /\ \A j \in 1 .. n : Cardinality({i \in 1 .. n : f[i] <= f[j]}) >= k => lo <= f[j]
  BY RankedIsThere
<1>2. /\ \E i \in 1 .. n : hi = g[i]
      /\ Cardinality({i \in 1 .. n : g[i] <= hi}) >= k
  BY RankedIsThere
<1> HIDE DEF lo, hi
<1>3. lo \in Nat /\ hi \in Nat
  BY <1>1, <1>2
<1> SUFFICES ASSUME hi < lo
             PROVE  FALSE
  BY <1>3 DEF lo, hi
\* The greatest of the values up to hi has as many values up to it as hi has.
<1> DEFINE Few == {i \in 1 .. n : f[i] <= hi}
           cut == [i \in 1 .. n |-> IF f[i] <= hi THEN f[i] + 1 ELSE 0]
<1>4. {i \in 1 .. n : g[i] <= hi} \subseteq Few
  BY <1>3
<1>5. IsFiniteSet(Few) /\ Cardinality({i \in 1 .. n : g[i] <= hi}) <= Cardinality(Few)
  <2>1. IsFiniteSet(1 .. n)
    BY FS_Interval
  <2>2. IsFiniteSet(Few)
    BY <2>1, FS_Subset
  <2> QED BY <1>4, <2>2, FS_Subset
<1>6. Cardinality(Few) \in Nat /\ Cardinality({i \in 1 .. n : g[i] <= hi}) \in Nat
  BY <1>4, <1>5, FS_Subset, FS_CardinalityType
<1>7. Cardinality(Few) >= k
  BY <1>2, <1>5, <1>6
<1>8. cut \in [1 .. n -> Int]
  BY <1>3
<1>9. PICK top \in 1 .. n : \A i \in 1 .. n : cut[i] <= cut[top]
  <2> HIDE DEF cut
  <2> QED BY <1>8, GreatestIsThere
<1>10. top \in Few /\ \A i \in Few : f[i] <= f[top]
  <2>1. Few # {}
    <3>1. Cardinality({}) = 0
      BY FS_EmptySet
    <3>2. ~(0 >= k)
      OBVIOUS
    <3> HIDE DEF Few
    <3> QED BY <1>7, <3>1, <3>2
  <2>2. PICK one \in Few : TRUE
    BY <2>1
  <2>3. cut[one] = f[one] + 1 /\ cut[one] <= cut[top]
    BY <1>9, <2>2
  <2>4. f[top] <= hi
    BY <1>3, <2>2, <2>3
  <2>5. \A i \in Few : f[i] + 1 <= f[top] + 1
    BY <1>9, <2>4
  <2> QED BY <2>4, <2>5
<1>11. {i \in 1 .. n : f[i] <= f[top]} = Few
  BY <1>3, <1>10
<1>12. lo <= f[top]
  BY <1>1, <1>7, <1>11
<1> QED BY <1>3, <1>10, <1>12
-----------------------------------------------------------------------------
(* The brackets of measure_latency.  A car that starts at rest is not seen *)
(* to move before it does, so that the upper end of its bracket is no less *)
(* than what it took; and so are they at every rank.                       *)

BracketOf == [took : Nat, rolled : BOOLEAN, says : [lo : Int, hi : Nat]]

BracketsInv == /\ brackets \in Seq(BracketOf)
               /\ \A i \in DOMAIN brackets :
                    ~brackets[i].rolled => brackets[i].took <= brackets[i].says.hi
               /\ bound # Nothing => /\ step = "gone" /\ brackets # <<>>
                                     /\ bound = Upper

\* The upper end of a bracket is the first time after the command that motion shows.
LEMMA BracketIs ==
  ASSUME NEW heard, heard \subseteq Int, NEW over, over \subseteq heard, \E t \in over : t > 0
  PROVE  /\ Bracket(heard, over) \in [lo : Int, hi : Nat]
         /\ Bracket(heard, over).hi \in over
<1> DEFINE Showing == {t \in over : t > 0}
           first == Min(Showing)
           Before == {t \in heard \ over : t < first} \cup {0}
           prev == Max(Before)
<1>0. (\A t \in heard : t \in Int) /\ \A t \in over : t \in Int
  OBVIOUS
<1>1. Showing \in SUBSET Nat /\ Showing # {}
  <2>1. \A t \in Showing : t \in Int /\ t > 0
    BY <1>0
  <2>2. Showing # {}
    OBVIOUS
  <2> HIDE DEF Showing
  <2>3. ASSUME NEW t \in Showing PROVE t \in Nat
    BY <2>1
  <2> QED BY <2>2, <2>3
<1>2. first \in Showing
  <2> HIDE DEF Showing
  <2> QED BY <1>1, MinOfNaturals
<1>3. first \in Nat /\ first > 0 /\ first \in over
  BY <1>1, <1>2
<1> HIDE DEF first
<1>4. Before \in SUBSET Int /\ 0 \in Before /\ \A t \in Before : t <= first
  <2>1. \A t \in Before : t = 0 \/ (t \in heard /\ t < first)
    OBVIOUS
  <2>2. 0 \in Before
    OBVIOUS
  <2> HIDE DEF Before
  <2>3. ASSUME NEW t \in Before PROVE t \in Int /\ t <= first
    <3>1. CASE t = 0
      BY <1>3, <3>1
    <3>2. CASE t \in heard /\ t < first
      BY <1>0, <1>3, <3>2
    <3> QED BY <2>1, <3>1, <3>2
  <2> QED BY <2>2, <2>3
<1>5. prev \in Int
  <2> HIDE DEF Before
  <2>1. \E m \in Before : \A t \in Before : m >= t
    <3>1. PICK m \in Before : m \in Nat /\ \A t \in Before : t <= m
      BY <1>3, <1>4, MaxIsThere
    <3>2. \A t \in Before : m >= t
      BY <1>4, <3>1
    <3> QED BY <3>2
  <2>2. prev \in Before
    BY <2>1 DEF Max
  <2> QED BY <1>4, <2>2
<1>6. Bracket(heard, over) = [lo |-> IF prev > 0 THEN prev ELSE 0, hi |-> first]
  BY DEF Bracket, first
<1> HIDE DEF prev
<1> QED BY <1>3, <1>5, <1>6

LEMMA BracketTells ==
  ASSUME NEW latency \in Nat, NEW heard \in SUBSET Int, NEW rolls \in BOOLEAN,
         NEW over, over \subseteq {t \in heard : rolls \/ t >= latency},
         ~ \A t \in over : t <= 0
  PROVE  /\ [took |-> latency, rolled |-> rolls, says |-> Bracket(heard, over)] \in BracketOf
         /\ ~rolls => latency <= Bracket(heard, over).hi
<1>1. over \subseteq heard /\ heard \subseteq Int /\ \A t \in over : rolls \/ t >= latency
  OBVIOUS
<1>2. \E t \in over : t > 0
  BY <1>1
<1>3. /\ Bracket(heard, over) \in [lo : Int, hi : Nat]
      /\ Bracket(heard, over).hi \in over
  BY <1>1, <1>2, BracketIs
<1>4. ASSUME ~rolls
      PROVE  latency <= Bracket(heard, over).hi
  BY <1>1, <1>3, <1>4
<1> QED BY <1>3, <1>4 DEF BracketOf

LEMMA BracketsInductive == BracketsInv /\ [TrialsNext]_trial_vars => BracketsInv'
<1> SUFFICES ASSUME BracketsInv, [TrialsNext]_trial_vars
             PROVE  BracketsInv'
  OBVIOUS
<1> USE DEF BracketsInv
<1>1. CASE Trial
  <2>1. PICK latency \in 0 .. MaxLatency, offset \in 0 .. OdomPeriod - 1 :
        \E heard \in IF hears THEN SUBSET Due(offset) ELSE {{}},
           rolls \in {FALSE, wheels # "rest"} :
          LET over == {t \in heard : Shows /\ (rolls \/ t >= latency)}
          IN brackets' = IF \A t \in over : t <= 0 THEN brackets
                         ELSE Append(brackets, [took |-> latency, rolled |-> rolls,
                                                says |-> Bracket(heard, over)])
    BY <1>1 DEF Trial
  <2>2. PICK heard \in IF hears THEN SUBSET Due(offset) ELSE {{}},
             rolls \in {FALSE, wheels # "rest"} :
          LET over == {t \in heard : Shows /\ (rolls \/ t >= latency)}
          IN brackets' = IF \A t \in over : t <= 0 THEN brackets
                         ELSE Append(brackets, [took |-> latency, rolled |-> rolls,
                                                says |-> Bracket(heard, over)])
    BY <2>1
  <2> DEFINE over == {t \in heard : Shows /\ (rolls \/ t >= latency)}
             new == [took |-> latency, rolled |-> rolls, says |-> Bracket(heard, over)]
  <2>3. brackets' = IF \A t \in over : t <= 0 THEN brackets ELSE Append(brackets, new)
    BY <2>2
  <2>a. latency \in Nat
    BY TrialsAssumption
  <2>b. rolls \in BOOLEAN
    OBVIOUS
  <2>4. latency \in Nat /\ rolls \in BOOLEAN
    BY <2>a, <2>b
  <2>5. heard \in SUBSET Int
    <3>1. Due(offset) \subseteq Int
      BY TrialsAssumption DEF Due
    <3> QED BY <3>1
  <2>6. bound' = bound /\ bound = Nothing
    BY <1>1 DEF Trial
  <2>7. CASE \A t \in over : t <= 0
    BY <2>3, <2>6, <2>7
  <2>8. CASE ~ \A t \in over : t <= 0
    <3>1. new \in BracketOf /\ (~rolls => latency <= new.says.hi)
      BY <2>4, <2>5, <2>8, BracketTells
    <3>2. ~new.rolled => new.took <= new.says.hi
      BY <3>1
    <3> HIDE DEF new, over
    <3>3. brackets' = Append(brackets, new)
      BY <2>3, <2>8
    <3>4. brackets' \in Seq(BracketOf)
      BY <3>1, <3>3
    <3>5. ASSUME NEW i \in DOMAIN brackets', ~brackets'[i].rolled
          PROVE  brackets'[i].took <= brackets'[i].says.hi
      <4>1. i \in DOMAIN brackets \/ i = Len(brackets) + 1
        BY <3>1, <3>3, <3>5
      <4>2. CASE i \in DOMAIN brackets
        <5>1. brackets'[i] = brackets[i]
          BY <3>1, <3>3, <4>2
        <5> QED BY <3>5, <4>2, <5>1
      <4>3. CASE i = Len(brackets) + 1
        <5>1. brackets'[i] = new
          BY <3>1, <3>3, <4>3
        <5> QED BY <3>2, <3>5, <5>1
      <4> QED BY <4>1, <4>2, <4>3
    <3> QED BY <2>6, <3>4, <3>5
  <2> QED BY <2>7, <2>8
<1>2. CASE ReportLatency
  <2>1. brackets' = brackets /\ step' = "gone"
    BY <1>2 DEF ReportLatency
  <2>2. bound' # Nothing => brackets # <<>> /\ bound' = Upper
    BY <1>2 DEF ReportLatency
  <2>3. Upper' = Upper
    BY <2>1 DEF Upper
  <2> QED BY <2>1, <2>2, <2>3
<1>3. CASE UNCHANGED <<brackets, bound>> /\ (step = "gone" => step' = "gone")
  <2>1. Upper' = Upper
    BY <1>3 DEF Upper
  <2> QED BY <1>3, <2>1
<1>4. ASSUME OdomArrives \/ HearingChanges \/ UNCHANGED trial_vars
      PROVE  UNCHANGED <<brackets, bound>> /\ (step = "gone" => step' = "gone")
  BY <1>4 DEF OdomArrives, HearingChanges, trial_vars, result_vars
<1>5. ASSUME AgentLook \/ Sample \/ HandSpin \/ LegBegins \/ LegGoesOn \/ LegEnds
             \/ SequenceBegins
      PROVE  UNCHANGED <<brackets, bound>> /\ (step = "gone" => step' = "gone")
  BY <1>5 DEF AgentLook, Sample, HandSpin, LegBegins, LegGoesOn, LegEnds, SequenceBegins,
              result_vars
<1>6. ASSUME StartFilter \/ Collect \/ JudgeFilters \/ ScanGate \/ Finally \/ TrialSignalled
      PROVE  UNCHANGED <<brackets, bound>> /\ (step = "gone" => step' = "gone")
  BY <1>6 DEF StartFilter, Collect, JudgeFilters, ScanGate, Finally, TrialSignalled, result_vars
<1> QED BY <1>1, <1>2, <1>3, <1>4, <1>5, <1>6 DEF TrialsNext

LEMMA UpperCovers ==
  ASSUME NEW entries \in Seq(BracketOf), entries # <<>>,
         \A i \in DOMAIN entries : entries[i].took <= entries[i].says.hi
  PROVE  pct([i \in DOMAIN entries |-> entries[i].took], 95)
           <= pct([i \in DOMAIN entries |-> entries[i].says.hi], 95)
<1> DEFINE n == Len(entries)
           k == 1 + (95 * (n - 1) + 50) \div 100
           f == [i \in 1 .. n |-> entries[i].took]
           g == [i \in 1 .. n |-> entries[i].says.hi]
<1>1. DOMAIN entries = 1 .. n /\ n \in Nat \ {0}
  OBVIOUS
<1>2. \A i \in 1 .. n : entries[i] \in BracketOf
  OBVIOUS
<1>3. \A i \in 1 .. n : entries[i].took \in Nat /\ entries[i].says.hi \in Nat
  BY <1>2 DEF BracketOf
<1>4. f \in [1 .. n -> Nat] /\ g \in [1 .. n -> Nat]
  BY <1>3
<1>5. \A i \in 1 .. n : f[i] <= g[i]
  BY <1>1
<1>6. Len(f) = n /\ Len(g) = n
  BY <1>1
<1>7. pct([i \in DOMAIN entries |-> entries[i].took], 95) = ranked(f, k)
  BY <1>1, <1>6 DEF pct
<1>8. pct([i \in DOMAIN entries |-> entries[i].says.hi], 95) = ranked(g, k)
  BY <1>1, <1>6 DEF pct
<1> HIDE DEF f, g, n
<1>9. k \in 1 .. n
  BY <1>1
<1> HIDE DEF k
<1> QED BY <1>1, <1>4, <1>5, <1>7, <1>8, <1>9, RankedRises


(* The bound on latency that the report gives is not below the same        *)
(* percentile of the latencies that were met (measure_latency, pct).       *)
THEOREM UpperSafe == TrialsSpec => []UpperBoundHolds
<1>1. TrialsInit => BracketsInv
  BY DEF TrialsInit, BracketsInv
<1>2. BracketsInv => UpperBoundHolds
  BY UpperCovers DEF BracketsInv, UpperBoundHolds, Upper
<1> QED BY <1>1, <1>2, BracketsInductive, PTL DEF TrialsSpec
-----------------------------------------------------------------------------
(* Sums.                                                                   *)

\* A recursion over a sequence has a solution: were there lengths without, there would be a
\* least, and the solution before it goes one further.
LEMMA TotalsAreThere ==
  ASSUME NEW N \in Nat, NEW terms \in [1 .. N -> Int]
  PROVE  \E f : f = [n \in 0 .. N |-> IF n = 0 THEN 0 ELSE f[n - 1] + terms[n]]
<1> DEFINE Adds(f, m) == f = [n \in 0 .. m |-> IF n = 0 THEN 0 ELSE f[n - 1] + terms[n]]
           Without == {m \in 0 .. N : ~ \E f : Adds(f, m)}
<1> SUFFICES ASSUME Without # {}
             PROVE  FALSE
  <2>1. N \in Without \/ \E f : Adds(f, N)
    OBVIOUS
  <2> QED BY <2>1
<1>1. Without \in SUBSET Nat
  OBVIOUS
<1>2. PICK m \in Without : \A l \in Without : m <= l
  <2> HIDE DEF Without
  <2> QED BY <1>1, LeastIsThere
<1>3. m \in 0 .. N /\ ~ \E f : Adds(f, m)
  BY <1>2
<1>4. m # 0
  <2>1. Adds([n \in 0 .. 0 |-> 0], 0)
    OBVIOUS
  <2> HIDE DEF Adds
  <2> QED BY <1>3, <2>1
<1>5. m - 1 \in 0 .. N /\ ~(m <= m - 1)
  BY <1>3, <1>4
<1>6. m - 1 \notin Without
  <2> HIDE DEF Without
  <2> QED BY <1>2, <1>5, Zenon
<1>7. PICK f : Adds(f, m - 1)
  <2> HIDE DEF Adds
  <2> QED BY <1>5, <1>6
<1> DEFINE g == [n \in 0 .. m |-> IF n = m THEN f[m - 1] + terms[m] ELSE f[n]]
<1>8. ASSUME NEW n \in 0 .. m
      PROVE  g[n] = IF n = 0 THEN 0 ELSE g[n - 1] + terms[n]
  <2>1. CASE n = m
    <3>1. n # 0 /\ n - 1 \in 0 .. m /\ n - 1 # m
      BY <1>3, <1>4, <2>1
    <3> QED BY <2>1, <3>1
  <2>2. CASE n # m
    <3>1. n \in 0 .. m - 1
      BY <1>3, <2>2
    <3>2. f[n] = IF n = 0 THEN 0 ELSE f[n - 1] + terms[n]
      BY <1>7, <3>1
    <3>3. n # 0 => n - 1 \in 0 .. m /\ n - 1 # m
      BY <3>1
    <3> QED BY <2>2, <3>2, <3>3
  <2> QED BY <2>1, <2>2
<1>9. Adds(g, m)
  <2> HIDE DEF g
  <2>1. g = [n \in 0 .. m |-> g[n]]
    BY DEF g
  <2>2. [n \in 0 .. m |-> g[n]] = [n \in 0 .. m |-> IF n = 0 THEN 0 ELSE g[n - 1] + terms[n]]
    BY <1>8
  <2> QED BY <2>1, <2>2
<1> HIDE DEF Adds
<1> QED BY <1>3, <1>9

\* By least counterexample again, every partial sum is a number.
LEMMA TotalIsNumber ==
  ASSUME NEW N \in Nat, NEW terms \in [1 .. N -> Int]
  PROVE  Total(terms) \in Int
<1> DEFINE Adds(f) == f = [n \in 0 .. N |-> IF n = 0 THEN 0 ELSE f[n - 1] + terms[n]]
           upto == CHOOSE f : Adds(f)
           Wrong == {n \in 0 .. N : upto[n] \notin Int}
<1>1. Len(terms) = N
  OBVIOUS
<1>2. Total(terms) = upto[N]
  BY <1>1 DEF Total
<1>3. Adds(upto)
  BY TotalsAreThere
<1> HIDE DEF upto
<1>4. \A n \in 0 .. N : upto[n] = IF n = 0 THEN 0 ELSE upto[n - 1] + terms[n]
  BY <1>3
<1>5. Wrong = {}
  <2> SUFFICES ASSUME Wrong # {} PROVE FALSE
    OBVIOUS
  <2>1. Wrong \in SUBSET Nat
    OBVIOUS
  <2>2. PICK m \in Wrong : \A l \in Wrong : m <= l
    <3> HIDE DEF Wrong
    <3> QED BY <2>1, LeastIsThere
  <2>3. m \in 0 .. N /\ upto[m] \notin Int
    BY <2>2
  <2>4. m # 0
    BY <1>4, <2>3
  <2>5. m - 1 \in 0 .. N /\ ~(m <= m - 1) /\ m \in 1 .. N
    BY <2>3, <2>4
  <2>6. m - 1 \notin Wrong
    <3> HIDE DEF Wrong
    <3> QED BY <2>2, <2>5, Zenon
  <2>7. upto[m - 1] \in Int
    BY <2>5, <2>6
  <2>8. upto[m] = upto[m - 1] + terms[m] /\ terms[m] \in Int
    BY <1>4, <2>3, <2>4, <2>5
  <2> QED BY <2>3, <2>7, <2>8
<1> QED BY <1>2, <1>5
-----------------------------------------------------------------------------
(* The fit of measured points is made of numbers.                          *)

Point == [v : Stages, d : Stops]
Points == Seq(Point)

LEMMA SumIsNumber ==
  ASSUME NEW N \in Nat, NEW term, \A i \in 1 .. N : term[i] \in Int
  PROVE  Total([i \in 1 .. N |-> term[i]]) \in Int
<1>1. [i \in 1 .. N |-> term[i]] \in [1 .. N -> Int]
  OBVIOUS
<1> QED BY <1>1, TotalIsNumber

LEMMA PointsAre ==
  ASSUME NEW points \in Points, NEW i \in 1 .. Len(points)
  PROVE  points[i].v \in Nat \ {0} /\ points[i].d \in Nat
<1>1. points[i] \in Point
  BY DEF Points
<1> QED BY <1>1, BrakingAssumption DEF Point

LEMMA Powers ==
  ASSUME NEW points \in Points
  PROVE  Squares(points) \in Int /\ Cubes(points) \in Int /\ Fourths(points) \in Int
<1>0. DOMAIN points = 1 .. Len(points) /\ Len(points) \in Nat
  BY DEF Points
<1>1. Squares(points) \in Int
  <2> DEFINE terms == [i \in 1 .. Len(points) |-> points[i].v * points[i].v]
  <2>1. terms \in [1 .. Len(points) -> Int]
    BY PointsAre
  <2>2. Squares(points) = Total(terms)
    BY <1>0 DEF Squares
  <2> HIDE DEF terms
  <2> QED BY <1>0, <2>1, <2>2, TotalIsNumber
<1>2. Cubes(points) \in Int
  <2> DEFINE terms == [i \in 1 .. Len(points) |-> points[i].v * points[i].v * points[i].v]
  <2>1. terms \in [1 .. Len(points) -> Int]
    BY PointsAre
  <2>2. Cubes(points) = Total(terms)
    BY <1>0 DEF Cubes
  <2> HIDE DEF terms
  <2> QED BY <1>0, <2>1, <2>2, TotalIsNumber
<1>3. Fourths(points) \in Int
  <2> DEFINE terms == [i \in 1 .. Len(points) |->
                         points[i].v * points[i].v * points[i].v * points[i].v]
  <2>1. terms \in [1 .. Len(points) -> Int]
    BY PointsAre
  <2>2. Fourths(points) = Total(terms)
    BY <1>0 DEF Fourths
  <2> HIDE DEF terms
  <2> QED BY <1>0, <2>1, <2>2, TotalIsNumber
<1> QED BY <1>1, <1>2, <1>3

LEMMA CurveOfNumbers ==
  ASSUME NEW points \in Points, NEW bias \in Int
  PROVE  _lstsq(points, bias).t \in Int /\ _lstsq(points, bias).b \in Int
<1>0. DOMAIN points = 1 .. Len(points) /\ Len(points) \in Nat
  BY DEF Points
<1> DEFINE first  == [i \in 1 .. Len(points) |-> points[i].v * (points[i].d + bias)]
           second == [i \in 1 .. Len(points) |-> points[i].v * points[i].v * (points[i].d + bias)]
<1>1. first \in [1 .. Len(points) -> Int] /\ second \in [1 .. Len(points) -> Int]
  BY PointsAre
<1>2. _lstsq(points, bias) = [t |-> Total(first) * Fourths(points) - Total(second) * Cubes(points),
                              b |-> Total(second) * Squares(points) - Total(first) * Cubes(points)]
  BY <1>0 DEF _lstsq
<1> HIDE DEF first, second
<1>3. Total(first) \in Int /\ Total(second) \in Int
  BY <1>0, <1>1, TotalIsNumber
<1> QED BY <1>2, <1>3, Powers


-----------------------------------------------------------------------------
(* The envelope: the greatest of what the curves give and of the stops     *)
(* that were seen, both of which only grow with the speed.                 *)

Topped(S) == S \subseteq Int /\ \E m \in S : \A n \in S : n <= m

LEMMA MaxOfTopped ==
  ASSUME NEW S, Topped(S)
  PROVE  Max(S) \in S /\ Max(S) \in Int /\ \A n \in S : n <= Max(S)
<1>1. \E m \in S : \A n \in S : m >= n
  BY DEF Topped
<1>2. Max(S) \in S /\ \A n \in S : Max(S) >= n
  BY <1>1 DEF Max
<1> QED BY <1>2 DEF Topped

LEMMA ToppedTogether ==
  ASSUME NEW S, NEW T, Topped(S), T = {} \/ Topped(T)
  PROVE  Topped(S \cup T)
<1>1. CASE T = {}
  BY <1>1
<1>2. CASE Topped(T)
  <2>1. PICK m \in S : \A n \in S : n <= m
    BY DEF Topped
  <2>2. PICK l \in T : \A n \in T : n <= l
    BY <1>2 DEF Topped
  <2>3. m \in Int /\ l \in Int /\ S \cup T \subseteq Int
    BY <1>2 DEF Topped
  <2>4. CASE l <= m
    <3>1. \A n \in S \cup T : n <= m
      BY <2>1, <2>2, <2>3, <2>4
    <3> QED BY <2>3, <3>1 DEF Topped
  <2>5. CASE m < l
    <3>1. \A n \in S \cup T : n <= l
      BY <2>1, <2>2, <2>3, <2>5
    <3> QED BY <2>3, <3>1 DEF Topped
  <2> QED BY <2>3, <2>4, <2>5
<1> QED BY <1>1, <1>2

\* The values of a sequence at some of its positions.
LEMMA ToppedImage ==
  ASSUME NEW n \in Nat, NEW f \in [1 .. n -> Int], NEW P \in SUBSET (1 .. n), P # {}
  PROVE  Topped({f[i] : i \in P})
<1>1. PICK some \in P : TRUE
  OBVIOUS
<1> DEFINE g == [i \in 1 .. n |-> IF i \in P THEN f[i] ELSE f[some]]
<1>2. n \in Nat \ {0} /\ some \in 1 .. n
  BY <1>1
<1>3. g \in [1 .. n -> Int]
  BY <1>2
<1>4. PICK top \in 1 .. n : \A i \in 1 .. n : g[i] <= g[top]
  <2> HIDE DEF g
  <2> QED BY <1>2, <1>3, GreatestIsThere
<1>5. g[top] \in {f[i] : i \in P}
  BY <1>1
<1>6. \A i \in P : f[i] <= g[top]
  <2> SUFFICES ASSUME NEW i \in P PROVE f[i] <= g[top]
    OBVIOUS
  <2>1. i \in 1 .. n /\ g[i] = f[i]
    OBVIOUS
  <2> HIDE DEF g
  <2> QED BY <1>4, <2>1
<1>7. {f[i] : i \in P} \subseteq Int
  OBVIOUS
<1> HIDE DEF g
<1> QED BY <1>5, <1>6, <1>7 DEF Topped

Height(points, bias, speed) ==
  LET c == _lstsq(points, bias) IN c.t * speed + c.b * (speed * speed)
Curves(points, speed) == {Height(points, bias, speed) : bias \in Biases \cup {0}}
Reached(points, speed) == {j \in DOMAIN points : points[j].v <= speed}
Seen(points, speed)   == {points[i].d * Det(points) : i \in Reached(points, speed)}

LEMMA EnvelopeIs ==
  ASSUME NEW points, NEW speed
  PROVE  \A e \in envelope(points, speed) :
           /\ e = Max(Curves(points, speed) \cup Seen(points, speed))
           /\ \A bias \in Biases \cup {0} : physical(_lstsq(points, bias))
<1> SUFFICES ASSUME NEW e \in envelope(points, speed)
             PROVE  /\ e = Max(Curves(points, speed) \cup Seen(points, speed))
                    /\ \A bias \in Biases \cup {0} : physical(_lstsq(points, bias))
  OBVIOUS
<1>1. identifiable(points) /\ Swept(points)
  BY DEF envelope
<1>2. e = Max(Curves(points, speed) \cup Seen(points, speed))
  BY <1>1 DEF envelope, Curves, Seen, Height, Reached
<1>3. physical(_lstsq(points, 0)) /\ \A bias \in Biases : physical(_lstsq(points, bias))
  BY <1>1 DEF identifiable, Swept
<1> QED BY <1>2, <1>3

LEMMA EnvelopeTopped ==
  ASSUME NEW points \in Points, NEW speed \in Nat
  PROVE  Topped(Curves(points, speed) \cup Seen(points, speed))
<1>1. \A bias \in Int : Height(points, bias, speed) \in Int
  <2> TAKE bias \in Int
  <2> DEFINE c == _lstsq(points, bias)
  <2>1. c.t \in Int /\ c.b \in Int
    BY CurveOfNumbers
  <2>2. Height(points, bias, speed) = c.t * speed + c.b * (speed * speed)
    BY DEF Height
  <2> HIDE DEF c
  <2> QED BY <2>1, <2>2
<1> DEFINE heights == [i \in 1 .. 5 |-> Height(points, i - 3, speed)]
<1>2. heights \in [1 .. 5 -> Int]
  BY <1>1
<1>3. Curves(points, speed) = {heights[i] : i \in 1 .. 5}
  <2>1. Biases \cup {0} = {i - 3 : i \in 1 .. 5}
    BY DEF Biases
  <2>2. Curves(points, speed) = {Height(points, bias, speed) : bias \in {i - 3 : i \in 1 .. 5}}
    BY <2>1 DEF Curves
  <2> QED BY <2>2
<1>4. Topped(Curves(points, speed))
  <2>1. 5 \in Nat /\ 1 .. 5 \in SUBSET (1 .. 5) /\ 1 .. 5 # {}
    OBVIOUS
  <2> HIDE DEF heights
  <2> QED BY <1>2, <1>3, <2>1, ToppedImage
<1> DEFINE stops == [i \in 1 .. Len(points) |-> points[i].d * Det(points)]
<1>5. DOMAIN points = 1 .. Len(points) /\ Len(points) \in Nat
  BY DEF Points
<1>6. Det(points) \in Int
  BY Powers DEF Det
<1>7. stops \in [1 .. Len(points) -> Int]
  BY <1>6, PointsAre
<1>8. Reached(points, speed) \subseteq 1 .. Len(points)
  BY <1>5 DEF Reached
<1>9. Seen(points, speed) = {stops[i] : i \in Reached(points, speed)}
  BY <1>8 DEF Seen
<1>10. Seen(points, speed) = {} \/ Topped(Seen(points, speed))
  <2> HIDE DEF stops
  <2>1. CASE Reached(points, speed) = {}
    BY <1>9, <2>1
  <2>2. CASE Reached(points, speed) # {}
    BY <1>5, <1>7, <1>8, <1>9, <2>2, ToppedImage
  <2> QED BY <2>1, <2>2
<1> QED BY <1>4, <1>10, ToppedTogether

LEMMA CurvesRise ==
  ASSUME NEW t \in Int, NEW b \in Int, NEW speed \in Nat \ {0}, t > 0, b > 0
  PROVE  /\ 0 < t * speed + b * (speed * speed)
         /\ t * speed + b * (speed * speed) <= t * (speed + 1) + b * ((speed + 1) * (speed + 1))
<1>1. speed * speed \in Nat /\ speed * speed > 0
  OBVIOUS
<1>2. t * speed \in Nat /\ t * speed > 0
  OBVIOUS
<1>3. b * (speed * speed) \in Nat /\ b * (speed * speed) > 0
  BY <1>1
<1>4. t * (speed + 1) = t * speed + t
  OBVIOUS
<1>5. (speed + 1) * (speed + 1) = speed * speed + 2 * speed + 1
  OBVIOUS
<1> DEFINE more == 2 * speed + 1
<1>6. more \in Nat /\ more > 0 /\ (speed + 1) * (speed + 1) = speed * speed + more
  BY <1>1, <1>5
<1> HIDE DEF more
<1>7. b * (speed * speed + more) = b * (speed * speed) + b * more /\ b * more \in Nat
  BY <1>1, <1>6
<1> QED BY <1>2, <1>3, <1>4, <1>6, <1>7

LEMMA EnvelopeRises ==
  ASSUME NEW points \in Points, NEW speed \in 1 .. 6,
         NEW e \in envelope(points, speed), NEW f \in envelope(points, speed + 1)
  PROVE  0 < e /\ e <= f
<1> DEFINE Near == Curves(points, speed) \cup Seen(points, speed)
           Far == Curves(points, speed + 1) \cup Seen(points, speed + 1)
<1>1. Topped(Near) /\ Topped(Far)
  BY EnvelopeTopped
<1>2. /\ e = Max(Near) /\ f = Max(Far)
      /\ \A bias \in Biases \cup {0} : physical(_lstsq(points, bias))
  BY EnvelopeIs
<1>3. \A bias \in Biases \cup {0} :
        /\ 0 < Height(points, bias, speed)
        /\ Height(points, bias, speed) <= Height(points, bias, speed + 1)
  <2> TAKE bias \in Biases \cup {0}
  <2> DEFINE c == _lstsq(points, bias)
  <2>1. bias \in Int
    BY DEF Biases
  <2>2. c.t \in Int /\ c.b \in Int
    BY <2>1, CurveOfNumbers
  <2>3. c.t > 0 /\ c.b > 0
    BY <1>2 DEF physical
  <2>4. /\ Height(points, bias, speed) = c.t * speed + c.b * (speed * speed)
        /\ Height(points, bias, speed + 1) = c.t * (speed + 1) + c.b * ((speed + 1) * (speed + 1))
    BY DEF Height
  <2> HIDE DEF c
  <2> QED BY <2>2, <2>3, <2>4, CurvesRise
<1>4. \A x \in Curves(points, speed) : 0 < x /\ \E y \in Far : x <= y
  <2> SUFFICES ASSUME NEW bias \in Biases \cup {0}
               PROVE  /\ 0 < Height(points, bias, speed)
                      /\ \E y \in Far : Height(points, bias, speed) <= y
    BY DEF Curves
  <2>1. Height(points, bias, speed + 1) \in Far
    BY DEF Curves
  <2> QED BY <1>3, <2>1
<1>5. Seen(points, speed) \subseteq Far
  <2>1. Reached(points, speed) \subseteq Reached(points, speed + 1)
    <3>1. \A j \in DOMAIN points : points[j].v \in Nat
      BY PointsAre DEF Points
    <3> QED BY <3>1 DEF Reached
  <2> QED BY <2>1 DEF Seen
<1>6. Height(points, 0, speed) \in Near /\ 0 < Height(points, 0, speed)
  BY <1>3 DEF Curves
<1> HIDE DEF Near, Far
<1>7. e \in Near /\ e \in Int /\ \A n \in Near : n <= e
  BY <1>1, <1>2, MaxOfTopped
<1>8. f \in Int /\ \A n \in Far : n <= f
  BY <1>1, <1>2, MaxOfTopped
<1>9. Near \subseteq Int /\ Far \subseteq Int
  BY <1>1 DEF Topped
<1>10. 0 < e
  <2>1. PICK low \in Near : low \in Int /\ 0 < low
    BY <1>6, <1>9
  <2>2. low <= e
    BY <1>7, <2>1
  <2> QED BY <1>7, <2>1, <2>2
<1>11. \E y \in Far : e <= y
  <2>1. e \in Curves(points, speed) \/ e \in Seen(points, speed)
    BY <1>7 DEF Near
  <2> QED BY <1>4, <1>5, <1>7, <2>1
<1> QED BY <1>7, <1>8, <1>9, <1>10, <1>11

PointsInv == measured \in Points

LEMMA PointsMeasured ==
  PointsInv /\ [BrakingNext]_braking_vars => PointsInv'
<1> SUFFICES ASSUME measured \in Points, [BrakingNext]_braking_vars
             PROVE  measured' \in Points
  BY DEF PointsInv
<1>1. CASE MeasureStage
  <2>1. PICK v \in Stages, d1, d2, d3 \in Stops :
          measured' \in {measured \o <<[v |-> v, d |-> d1], [v |-> v, d |-> d2]>>,
                         measured \o Append(<<[v |-> v, d |-> d1], [v |-> v, d |-> d2]>>,
                                            [v |-> v, d |-> d3])}
    BY <1>1 DEF MeasureStage
  <2>2. <<[v |-> v, d |-> d1], [v |-> v, d |-> d2]>> \in Points
    BY DEF Points, Point
  <2>3. Append(<<[v |-> v, d |-> d1], [v |-> v, d |-> d2]>>, [v |-> v, d |-> d3]) \in Points
    BY <2>2 DEF Points, Point
  <2>4. \A more \in Points : measured \o more \in Points
    BY DEF Points
  <2> QED BY <2>1, <2>2, <2>3, <2>4
<1>2. CASE UNCHANGED measured
  BY <1>2
<1>3. CASE \E p \in Invocations :
             \/ SwitchCalibration(p) \/ StartCalibration(p) \/ StartMeasuring(p)
             \/ Calibrate(p) \/ RunOnce(p) \/ RunsEnd(p)
             \/ Truncate(p) \/ Save(p) \/ Interrupted(p)
  BY <1>2, <1>3 DEF SwitchCalibration, StartCalibration, StartMeasuring, Starts, Calibrate,
                    RunOnce, RunsEnd, Truncate, Save, Interrupted
<1> QED BY <1>1, <1>2, <1>3 DEF BrakingNext, braking_vars


(* A stopping envelope that is given is positive and does not fall with    *)
(* the speed, for every run of stages, distances and biases that the fit   *)
(* accepts (measure_braking.envelope).                                     *)
THEOREM EnvelopeSafe == BrakingSpec => []EnvelopeRisesWithSpeed
<1>1. BrakingInit => PointsInv
  BY DEF PointsInv, BrakingInit, Points
<1>2. PointsInv => EnvelopeRisesWithSpeed
  BY EnvelopeRises DEF PointsInv, EnvelopeRisesWithSpeed
<1> QED BY <1>1, <1>2, PointsMeasured, PTL DEF BrakingSpec
-----------------------------------------------------------------------------
(* The gate.  What is told of the scans so far holds of one scan more.     *)

Scan == [stamp : Nat, ok : BOOLEAN]

Scored(scans, n) == {i \in 1 .. n : scans[i].stamp > Warmup}
Good(scans, n)   == {i \in Scored(scans, n) : scans[i].ok}
Fails(scans, i)  == scans[i].stamp > Warmup /\ ~scans[i].ok
FailsFrom(scans, i, j) == \A l \in i .. j : Fails(scans, l)

Rising(scans) == \A i, j \in DOMAIN scans : i < j => scans[i].stamp < scans[j].stamp

TallyOf == [attempted : Nat, succeeded : Nat, streak : Nat, longest : Nat]

Counted(scans, n, r) == /\ r.attempted = Cardinality(Scored(scans, n))
                        /\ r.succeeded = Cardinality(Good(scans, n))

\* The run of failures that the scans end with, and the longest of all.
Ending(scans, n, s) == /\ s <= n
                       /\ FailsFrom(scans, n - s + 1, n)
                       /\ s < n => ~Fails(scans, n - s)
Longest(scans, n, k) ==
  /\ k # 0 => \E i \in 1 .. n : i + k - 1 <= n /\ FailsFrom(scans, i, i + k - 1)
  /\ \A i, j \in 1 .. n : i <= j /\ FailsFrom(scans, i, j) => j - i + 1 <= k

Tells(scans, n, r) == /\ r \in TallyOf
                      /\ Counted(scans, n, r)
                      /\ Ending(scans, n, r.streak)
                      /\ r.streak <= r.longest
                      /\ Longest(scans, n, r.longest)

LEMMA OneMore ==
  ASSUME NEW S, NEW e, IsFiniteSet(S), e \notin S
  PROVE  Cardinality(S \cup {e}) = Cardinality(S) + 1
BY FS_AddElement

LEMMA ScoredFinite ==
  ASSUME NEW scans, NEW n \in Nat
  PROVE  /\ IsFiniteSet(Scored(scans, n)) /\ IsFiniteSet(Good(scans, n))
         /\ Cardinality(Scored(scans, n)) \in Nat /\ Cardinality(Good(scans, n)) \in Nat
<1>1. IsFiniteSet(1 .. n)
  BY FS_Interval
<1>2. Scored(scans, n) \subseteq 1 .. n /\ Good(scans, n) \subseteq Scored(scans, n)
  BY DEF Scored, Good
<1> QED BY <1>1, <1>2, FS_Subset, FS_CardinalityType

LEMMA ScoredGrows ==
  ASSUME NEW scans, NEW n \in Nat \ {0}
  PROVE  /\ scans[n].stamp > Warmup => Scored(scans, n) = Scored(scans, n - 1) \cup {n}
         /\ ~(scans[n].stamp > Warmup) => Scored(scans, n) = Scored(scans, n - 1)
         /\ n \notin Scored(scans, n - 1)
<1>1. 1 .. n = (1 .. n - 1) \cup {n} /\ n \notin 1 .. n - 1
  OBVIOUS
<1> QED BY <1>1, Zenon DEF Scored

LEMMA CountsOn ==
  ASSUME NEW scans, NEW n \in Nat \ {0}, NEW r \in TallyOf, Counted(scans, n - 1, r)
  PROVE  /\ scans[n].stamp > Warmup => Cardinality(Scored(scans, n)) = r.attempted + 1
         /\ ~(scans[n].stamp > Warmup) => Counted(scans, n, r)
         /\ scans[n].stamp > Warmup /\ scans[n].ok
              => Cardinality(Good(scans, n)) = r.succeeded + 1
         /\ Fails(scans, n) => Cardinality(Good(scans, n)) = r.succeeded
<1> DEFINE old == Scored(scans, n - 1)
           was == Good(scans, n - 1)
<1>1. IsFiniteSet(old) /\ IsFiniteSet(was)
  BY ScoredFinite
<1>2. n \notin old /\ n \notin was
  BY ScoredGrows DEF Good
<1>3. r.attempted = Cardinality(old) /\ r.succeeded = Cardinality(was)
  BY DEF Counted
<1>4. ASSUME scans[n].stamp > Warmup
      PROVE  /\ Scored(scans, n) = old \cup {n}
             /\ scans[n].ok => Good(scans, n) = was \cup {n}
             /\ ~scans[n].ok => Good(scans, n) = was
  <2>1. Scored(scans, n) = old \cup {n}
    BY <1>4, ScoredGrows
  <2> HIDE DEF old
  <2> QED BY <2>1, Zenon DEF Good, old
<1>5. ASSUME ~(scans[n].stamp > Warmup)
      PROVE  Scored(scans, n) = old /\ Good(scans, n) = was
  BY <1>5, ScoredGrows, Zenon DEF Good
<1> HIDE DEF old, was
<1>6. Cardinality(old \cup {n}) = Cardinality(old) + 1
  BY <1>1, <1>2, OneMore
<1>7. Cardinality(was \cup {n}) = Cardinality(was) + 1
  BY <1>1, <1>2, OneMore
<1>8. ASSUME scans[n].stamp > Warmup
      PROVE  Cardinality(Scored(scans, n)) = r.attempted + 1
  BY <1>3, <1>4, <1>6, <1>8
<1>9. ASSUME ~(scans[n].stamp > Warmup)
      PROVE  Counted(scans, n, r)
  BY <1>3, <1>5, <1>9 DEF Counted
<1>10. ASSUME scans[n].stamp > Warmup, scans[n].ok
       PROVE  Cardinality(Good(scans, n)) = r.succeeded + 1
  BY <1>3, <1>4, <1>7, <1>10
<1>11. ASSUME Fails(scans, n)
       PROVE  Cardinality(Good(scans, n)) = r.succeeded
  BY <1>3, <1>4, <1>11 DEF Fails
<1> QED BY <1>8, <1>9, <1>10, <1>11

\* A scan that does not fail ends the run and makes none longer.
LEMMA RunEnds ==
  ASSUME NEW scans, NEW n \in Nat \ {0}, NEW k \in Nat, Longest(scans, n - 1, k),
         ~Fails(scans, n)
  PROVE  Ending(scans, n, 0) /\ Longest(scans, n, k)
<1>1. Ending(scans, n, 0)
  BY DEF Ending, FailsFrom
<1>2. ASSUME k # 0
      PROVE  \E i \in 1 .. n : i + k - 1 <= n /\ FailsFrom(scans, i, i + k - 1)
  <2>1. PICK i \in 1 .. n - 1 : i + k - 1 <= n - 1 /\ FailsFrom(scans, i, i + k - 1)
    BY <1>2 DEF Longest
  <2>2. i \in 1 .. n /\ i + k - 1 <= n
    BY <2>1
  <2> QED BY <2>1, <2>2
<1>3. ASSUME NEW i \in 1 .. n, NEW j \in 1 .. n, i <= j, FailsFrom(scans, i, j)
      PROVE  j - i + 1 <= k
  <2>1. j \in i .. j
    BY <1>3
  <2>2. Fails(scans, j)
    BY <1>3, <2>1 DEF FailsFrom
  <2>3. j # n
    BY <2>2
  <2>4. i \in 1 .. n - 1 /\ j \in 1 .. n - 1
    BY <1>3, <2>3
  <2> QED BY <1>3, <2>4 DEF Longest
<1> QED BY <1>1, <1>2, <1>3 DEF Longest

\* One that fails makes the run one longer, and the longest if it was one of them.
LEMMA RunGrows ==
  ASSUME NEW scans, NEW n \in Nat \ {0}, NEW s \in Nat, NEW k \in Nat, s <= k,
         Ending(scans, n - 1, s), Longest(scans, n - 1, k), Fails(scans, n),
         NEW top, top = IF s + 1 > k THEN s + 1 ELSE k
  PROVE  Ending(scans, n, s + 1) /\ Longest(scans, n, top)
<1>0. s <= n - 1 /\ FailsFrom(scans, n - 1 - s + 1, n - 1) /\ (s < n - 1 => ~Fails(scans, n - 1 - s))
  BY DEF Ending
<1>1. FailsFrom(scans, n - s, n)
  <2> SUFFICES ASSUME NEW l \in n - s .. n PROVE Fails(scans, l)
    BY DEF FailsFrom
  <2>1. l = n \/ l \in n - 1 - s + 1 .. n - 1
    BY <1>0
  <2> QED BY <1>0, <2>1 DEF FailsFrom
<1>2. Ending(scans, n, s + 1)
  <2>1. n - (s + 1) + 1 = n - s /\ n - (s + 1) = n - 1 - s /\ s + 1 <= n
    BY <1>0
  <2>2. s + 1 < n => s < n - 1
    OBVIOUS
  <2> QED BY <1>0, <1>1, <2>1, <2>2 DEF Ending
<1>3. top \in Nat /\ k <= top /\ s + 1 <= top /\ (top = k \/ top = s + 1)
  OBVIOUS
<1>4. \E i \in 1 .. n : i + top - 1 <= n /\ FailsFrom(scans, i, i + top - 1)
  <2>1. CASE top = s + 1
    <3>1. n - s \in 1 .. n /\ n - s + top - 1 = n
      BY <1>0, <2>1
    <3> QED BY <1>1, <3>1
  <2>2. CASE top = k /\ k # 0
    <3>1. PICK i \in 1 .. n - 1 : i + k - 1 <= n - 1 /\ FailsFrom(scans, i, i + k - 1)
      BY <2>2 DEF Longest
    <3>2. i \in 1 .. n /\ i + k - 1 <= n
      BY <3>1
    <3> QED BY <2>2, <3>1, <3>2
  <2> QED BY <1>3, <2>1, <2>2
<1>5. ASSUME NEW i \in 1 .. n, NEW j \in 1 .. n, i <= j, FailsFrom(scans, i, j)
      PROVE  j - i + 1 <= top
  <2>1. CASE j = n
    <3>1. ~(i <= n - 1 - s)
      <4> SUFFICES ASSUME i <= n - 1 - s PROVE FALSE
        OBVIOUS
      <4>1. n - 1 - s \in i .. j /\ s < n - 1
        BY <2>1
      <4> QED BY <1>0, <1>5, <4>1 DEF FailsFrom
    <3>2. j - i + 1 <= s + 1
      BY <2>1, <3>1
    <3> QED BY <1>3, <3>2
  <2>2. CASE j # n
    <3>1. i \in 1 .. n - 1 /\ j \in 1 .. n - 1
      BY <1>5, <2>2
    <3>2. j - i + 1 <= k
      BY <1>5, <3>1 DEF Longest
    <3> QED BY <1>3, <3>2
  <2> QED BY <2>1, <2>2
<1> QED BY <1>2, <1>4, <1>5 DEF Longest

LEMMA TalliedTells ==
  ASSUME NEW scans \in Seq(Scan), Rising(scans), NEW n \in 1 .. Len(scans), NEW r,
         Tells(scans, n - 1, r)
  PROVE  Tells(scans, n, Tallied(r, scans[n]))
<1>0. /\ n \in Nat \ {0} /\ DOMAIN scans = 1 .. Len(scans)
      /\ \A i \in 1 .. Len(scans) : scans[i].stamp \in Nat
      /\ scans[n].ok \in BOOLEAN
  <2>1. \A i \in 1 .. Len(scans) : scans[i] \in Scan
    OBVIOUS
  <2> QED BY <2>1 DEF Scan
<1>1. /\ r \in TallyOf /\ Counted(scans, n - 1, r)
      /\ Ending(scans, n - 1, r.streak) /\ r.streak <= r.longest
      /\ Longest(scans, n - 1, r.longest)
  BY DEF Tells
<1>2. r.attempted \in Nat /\ r.succeeded \in Nat /\ r.streak \in Nat /\ r.longest \in Nat
  BY <1>1 DEF TallyOf
<1>3. CASE scans[n].stamp <= Warmup
  <2>1. ~(scans[n].stamp > Warmup)
    BY <1>0, <1>3, GateAssumption
  <2>2. Tallied(r, scans[n]) = r
    BY <1>3 DEF Tallied
  <2>3. ~Fails(scans, n)
    BY <2>1 DEF Fails
  <2>4. r.streak = 0
    <3> SUFFICES ASSUME r.streak # 0 PROVE FALSE
      OBVIOUS
    <3>1. n - 1 \in n - 1 - r.streak + 1 .. n - 1 /\ n - 1 \in 1 .. Len(scans) /\ n - 1 < n
      BY <1>0, <1>1, <1>2 DEF Ending
    <3>2. Fails(scans, n - 1)
      BY <1>1, <3>1 DEF Ending, FailsFrom
    <3>3. scans[n - 1].stamp < scans[n].stamp
      BY <1>0, <3>1 DEF Rising
    <3> QED BY <1>0, <2>1, <3>1, <3>2, <3>3, GateAssumption DEF Fails
  <2>5. Ending(scans, n, 0) /\ Longest(scans, n, r.longest)
    BY <1>0, <1>1, <1>2, <2>3, RunEnds
  <2>6. Counted(scans, n, r)
    BY <1>0, <1>1, <2>1, CountsOn
  <2> QED BY <1>1, <2>2, <2>4, <2>5, <2>6 DEF Tells
<1>4. CASE scans[n].stamp > Warmup
  <2>0. ~(scans[n].stamp <= Warmup)
    BY <1>0, <1>4, GateAssumption
  <2>1. Cardinality(Scored(scans, n)) = r.attempted + 1
    BY <1>0, <1>1, <1>4, CountsOn
  <2>2. CASE scans[n].ok
    <3> DEFINE new == [attempted |-> r.attempted + 1, succeeded |-> r.succeeded + 1,
                       streak |-> 0, longest |-> r.longest]
    <3>1. Tallied(r, scans[n]) = new
      BY <2>0, <2>2 DEF Tallied
    <3>2. /\ new \in TallyOf /\ new.attempted = r.attempted + 1
          /\ new.succeeded = r.succeeded + 1 /\ new.streak = 0 /\ new.longest = r.longest
      BY <1>2 DEF TallyOf
    <3> HIDE DEF new
    <3>3. Cardinality(Good(scans, n)) = r.succeeded + 1
      BY <1>0, <1>1, <1>4, <2>2, CountsOn
    <3>4. ~Fails(scans, n)
      BY <2>2 DEF Fails
    <3>5. Ending(scans, n, 0) /\ Longest(scans, n, r.longest)
      BY <1>0, <1>1, <1>2, <3>4, RunEnds
    <3>6. Counted(scans, n, new)
      BY <2>1, <3>2, <3>3 DEF Counted
    <3> QED BY <1>2, <3>1, <3>2, <3>5, <3>6 DEF Tells
  <2>3. CASE ~scans[n].ok
    <3> DEFINE top == IF r.streak + 1 > r.longest THEN r.streak + 1 ELSE r.longest
               new == [attempted |-> r.attempted + 1, succeeded |-> r.succeeded,
                       streak |-> r.streak + 1, longest |-> top]
    <3>0. top \in Nat /\ r.streak + 1 <= top
      BY <1>2
    <3>1. Tallied(r, scans[n]) = new
      BY <2>0, <2>3 DEF Tallied
    <3>2. /\ new \in TallyOf /\ new.attempted = r.attempted + 1
          /\ new.succeeded = r.succeeded /\ new.streak = r.streak + 1 /\ new.longest = top
      BY <1>2, <3>0 DEF TallyOf
    <3>3. Fails(scans, n)
      BY <1>4, <2>3 DEF Fails
    <3>4. Cardinality(Good(scans, n)) = r.succeeded
      BY <1>0, <1>1, <3>3, CountsOn
    <3>5. Ending(scans, n, r.streak + 1) /\ Longest(scans, n, top)
      BY <1>0, <1>1, <1>2, <3>3, RunGrows
    <3> HIDE DEF new, top
    <3>6. Counted(scans, n, new)
      BY <2>1, <3>2, <3>4 DEF Counted
    <3> QED BY <3>0, <3>1, <3>2, <3>5, <3>6 DEF Tells
  <2> QED BY <1>0, <2>2, <2>3
<1> QED BY <1>0, <1>3, <1>4, GateAssumption


\* There is a tally of every number of scans.
LEMMA TalliesAreThere ==
  ASSUME NEW N \in Nat, NEW scans
  PROVE  \E f : f = [n \in 0 .. N |-> IF n = 0 THEN NoTally ELSE Tallied(f[n - 1], scans[n])]
<1> DEFINE Counts(f, m) == f = [n \in 0 .. m |-> IF n = 0 THEN NoTally
                                                 ELSE Tallied(f[n - 1], scans[n])]
           Without == {m \in 0 .. N : ~ \E f : Counts(f, m)}
<1> SUFFICES ASSUME Without # {}
             PROVE  FALSE
  <2>1. N \in Without \/ \E f : Counts(f, N)
    OBVIOUS
  <2> QED BY <2>1
<1>1. Without \in SUBSET Nat
  OBVIOUS
<1>2. PICK m \in Without : \A l \in Without : m <= l
  <2> HIDE DEF Without
  <2> QED BY <1>1, LeastIsThere
<1>3. m \in 0 .. N /\ ~ \E f : Counts(f, m)
  BY <1>2
<1>4. m # 0
  <2>1. Counts([n \in 0 .. 0 |-> NoTally], 0)
    OBVIOUS
  <2> HIDE DEF Counts
  <2> QED BY <1>3, <2>1
<1>5. m - 1 \in 0 .. N /\ ~(m <= m - 1)
  BY <1>3, <1>4
<1>6. m - 1 \notin Without
  <2> HIDE DEF Without
  <2> QED BY <1>2, <1>5, Zenon
<1>7. PICK f : Counts(f, m - 1)
  <2> HIDE DEF Counts
  <2> QED BY <1>5, <1>6
<1> DEFINE g == [n \in 0 .. m |-> IF n = m THEN Tallied(f[m - 1], scans[m]) ELSE f[n]]
<1>8. ASSUME NEW n \in 0 .. m
      PROVE  g[n] = IF n = 0 THEN NoTally ELSE Tallied(g[n - 1], scans[n])
  <2>1. CASE n = m
    <3>1. n # 0 /\ n - 1 \in 0 .. m /\ n - 1 # m
      BY <1>3, <1>4, <2>1
    <3> QED BY <2>1, <3>1
  <2>2. CASE n # m
    <3>1. n \in 0 .. m - 1
      BY <1>3, <2>2
    <3>2. f[n] = IF n = 0 THEN NoTally ELSE Tallied(f[n - 1], scans[n])
      BY <1>7, <3>1
    <3>3. n # 0 => n - 1 \in 0 .. m /\ n - 1 # m
      BY <3>1
    <3> QED BY <2>2, <3>2, <3>3
  <2> QED BY <2>1, <2>2
<1>9. Counts(g, m)
  <2> HIDE DEF g
  <2>1. g = [n \in 0 .. m |-> g[n]]
    BY DEF g
  <2>2. [n \in 0 .. m |-> g[n]]
          = [n \in 0 .. m |-> IF n = 0 THEN NoTally ELSE Tallied(g[n - 1], scans[n])]
    BY <1>8
  <2> QED BY <2>1, <2>2
<1> HIDE DEF Counts
<1> QED BY <1>3, <1>9

LEMMA TallyTells ==
  ASSUME NEW scans \in Seq(Scan), Rising(scans)
  PROVE  Tells(scans, Len(scans), tally(scans))
<1> DEFINE N == Len(scans)
           Counts(f) == f = [n \in 0 .. N |-> IF n = 0 THEN NoTally
                                              ELSE Tallied(f[n - 1], scans[n])]
           after == CHOOSE f : Counts(f)
           Wrong == {n \in 0 .. N : ~Tells(scans, n, after[n])}
<1>1. N \in Nat
  OBVIOUS
<1>2. tally(scans) = after[N]
  BY DEF tally
<1>3. Counts(after)
  <2>1. \E f : Counts(f)
    BY <1>1, TalliesAreThere
  <2> QED BY <2>1
<1> HIDE DEF after
<1>4. \A n \in 0 .. N : after[n] = IF n = 0 THEN NoTally ELSE Tallied(after[n - 1], scans[n])
  BY <1>3
<1>5. Tells(scans, 0, NoTally)
  <2>1. Scored(scans, 0) = {} /\ Good(scans, 0) = {}
    BY DEF Scored, Good
  <2>2. Counted(scans, 0, NoTally)
    BY <2>1, FS_EmptySet DEF Counted, NoTally
  <2>3. Ending(scans, 0, 0) /\ Longest(scans, 0, 0)
    BY DEF Ending, Longest, FailsFrom
  <2> QED BY <2>2, <2>3 DEF Tells, NoTally, TallyOf
<1>6. Wrong = {}
  <2> SUFFICES ASSUME Wrong # {} PROVE FALSE
    OBVIOUS
  <2>1. Wrong \in SUBSET Nat
    OBVIOUS
  <2>2. PICK m \in Wrong : \A l \in Wrong : m <= l
    <3> HIDE DEF Wrong
    <3> QED BY <2>1, LeastIsThere
  <2>3. m \in 0 .. N /\ ~Tells(scans, m, after[m])
    BY <2>2
  <2>4. m # 0
    BY <1>4, <1>5, <2>3
  <2>5. m - 1 \in 0 .. N /\ ~(m <= m - 1) /\ m \in 1 .. N
    BY <2>3, <2>4
  <2>6. m - 1 \notin Wrong
    <3> HIDE DEF Wrong
    <3> QED BY <2>2, <2>5, Zenon
  <2>7. Tells(scans, m - 1, after[m - 1])
    BY <2>5, <2>6
  <2>8. after[m] = Tallied(after[m - 1], scans[m])
    BY <1>4, <2>3, <2>4
  <2>9. Tells(scans, m, after[m])
    BY <2>5, <2>7, <2>8, TalliedTells
  <2> QED BY <2>3, <2>9
<1>7. N \in 0 .. N
  BY <1>1
<1> QED BY <1>2, <1>6, <1>7


GateInv == /\ scanned \in Nat
           /\ looked_up \in Seq(Scan)
           /\ \A i \in DOMAIN looked_up : looked_up[i].stamp <= scanned
           /\ Rising(looked_up)
           /\ gate_pc = "gone" => gate_code = IF gate_passed THEN 0 ELSE 1

LEMMA GateInductive == GateInv /\ [GateNext]_gate_vars => GateInv'
<1> SUFFICES ASSUME GateInv, [GateNext]_gate_vars
             PROVE  GateInv'
  OBVIOUS
<1> USE DEF GateInv
<1>1. CASE UNCHANGED <<scanned, looked_up>> /\ (gate_pc' = "gone" => gate_pc = "gone" /\ gate_code' = gate_code)
  <2>1. gate_passed' = gate_passed
    BY <1>1 DEF gate_passed
  <2> QED BY <1>1, <2>1 DEF Rising
<1>2. CASE on_scan
  <2>1. scanned' = scanned + 1 /\ gate_pc' = gate_pc /\ gate_pc # "gone"
    BY <1>2 DEF on_scan
  <2> DEFINE new == [stamp |-> scanned', ok |-> can_transform(scanned')]
  <2>2. new \in Scan /\ new.stamp = scanned + 1
    <3>1. can_transform(scanned') \in BOOLEAN
      BY DEF can_transform
    <3>2. scanned' \in Nat
      BY <2>1
    <3> HIDE DEF can_transform
    <3> QED BY <2>1, <3>1, <3>2 DEF Scan
  <2>3. looked_up' = looked_up \/ looked_up' = Append(looked_up, new)
    BY <1>2 DEF on_scan
  <2>a. \A i \in DOMAIN looked_up : looked_up[i].stamp \in Nat
    <3>1. \A i \in DOMAIN looked_up : looked_up[i] \in Scan
      OBVIOUS
    <3> QED BY <3>1 DEF Scan
  <2> HIDE DEF new
  <2>4. CASE looked_up' = looked_up
    <3>1. \A i \in DOMAIN looked_up : looked_up[i].stamp \in Nat
      BY <2>a
    <3>2. \A i \in DOMAIN looked_up' : looked_up'[i].stamp <= scanned'
      BY <2>1, <2>4, <3>1
    <3> QED BY <2>1, <2>4, <3>2 DEF Rising
  <2>5. CASE looked_up' = Append(looked_up, new)
    <3>1. looked_up' \in Seq(Scan) /\ Len(looked_up') = Len(looked_up) + 1
      BY <2>2, <2>5
    <3>2. /\ looked_up'[Len(looked_up) + 1] = new
          /\ \A i \in 1 .. Len(looked_up) : looked_up'[i] = looked_up[i]
      BY <2>2, <2>5
    <3>3. \A i \in 1 .. Len(looked_up) : looked_up[i].stamp \in Nat /\ looked_up[i].stamp <= scanned
      <4>1. DOMAIN looked_up = 1 .. Len(looked_up)
        OBVIOUS
      <4> QED BY <2>a, <4>1
    <3>4. Len(looked_up) \in Nat /\ DOMAIN looked_up' = 1 .. Len(looked_up) + 1
      BY <3>1
    <3>5. ASSUME NEW i \in DOMAIN looked_up'
          PROVE  looked_up'[i].stamp <= scanned'
      <4>1. i \in 1 .. Len(looked_up) \/ i = Len(looked_up) + 1
        BY <3>4
      <4>2. CASE i \in 1 .. Len(looked_up)
        BY <2>1, <3>2, <3>3, <4>2
      <4>3. CASE i = Len(looked_up) + 1
        BY <2>1, <2>2, <3>2, <4>3
      <4> QED BY <4>1, <4>2, <4>3
    <3>6. ASSUME NEW i \in DOMAIN looked_up', NEW j \in DOMAIN looked_up', i < j
          PROVE  looked_up'[i].stamp < looked_up'[j].stamp
      <4>1. i \in 1 .. Len(looked_up)
        BY <3>4, <3>6
      <4>2. CASE j \in 1 .. Len(looked_up)
        <5>1. looked_up[i].stamp < looked_up[j].stamp
          BY <3>6, <4>1, <4>2 DEF Rising
        <5> QED BY <3>2, <4>1, <4>2, <5>1
      <4>3. CASE j = Len(looked_up) + 1
        <5>1. looked_up'[i].stamp <= scanned /\ looked_up'[i].stamp \in Nat
          BY <3>2, <3>3, <4>1
        <5>2. looked_up'[j].stamp = scanned + 1
          BY <2>2, <3>2, <4>3
        <5> QED BY <5>1, <5>2
      <4> QED BY <3>4, <4>2, <4>3
    <3> QED BY <2>1, <3>1, <3>5, <3>6 DEF Rising
  <2> QED BY <2>3, <2>4, <2>5
<1>3. CASE Evaluate
  <2>1. gate_passed' = gate_passed
    BY <1>3 DEF Evaluate, gate_passed
  <2> QED BY <1>3, <2>1 DEF Evaluate, Rising
<1>4. ASSUME StaticArrives \/ TransformArrives \/ UNCHANGED gate_vars
      PROVE  /\ UNCHANGED <<scanned, looked_up>>
             /\ gate_pc' = "gone" => gate_pc = "gone" /\ gate_code' = gate_code
  BY <1>4 DEF StaticArrives, TransformArrives, gate_vars
<1> QED BY <1>1, <1>2, <1>3, <1>4 DEF GateNext

\* A longest run within the limit, and no more failures in a row than the limit.
LEMMA BurstIsRun ==
  ASSUME NEW scans \in Seq(Scan), Rising(scans), NEW k \in Nat, Longest(scans, Len(scans), k)
  PROVE  k <= MaxStreak <=> ~ \E i \in Scored(scans, Len(scans)) :
                                /\ i + MaxStreak \in Scored(scans, Len(scans))
                                /\ \A j \in i .. i + MaxStreak : j \notin Good(scans, Len(scans))
<1> DEFINE N == Len(scans)
           Burst(i) == /\ i + MaxStreak \in Scored(scans, N)
                       /\ \A j \in i .. i + MaxStreak : j \notin Good(scans, N)
<1>0. /\ N \in Nat /\ DOMAIN scans = 1 .. N /\ MaxStreak \in Nat /\ Warmup \in Nat
      /\ \A i \in 1 .. N : scans[i].stamp \in Nat
  <2>1. \A i \in 1 .. N : scans[i] \in Scan
    OBVIOUS
  <2> QED BY <2>1, GateAssumption DEF Scan
<1> HIDE DEF N
<1>1. ASSUME NEW i \in Scored(scans, N), Burst(i)
      PROVE  ~(k <= MaxStreak)
  <2>1. i \in 1 .. N /\ i + MaxStreak \in 1 .. N /\ scans[i].stamp > Warmup
    BY <1>1 DEF Scored
  <2>2. FailsFrom(scans, i, i + MaxStreak)
    <3> SUFFICES ASSUME NEW l \in i .. i + MaxStreak PROVE Fails(scans, l)
      BY DEF FailsFrom
    <3>1. l \in 1 .. N /\ (l = i \/ i < l)
      BY <1>0, <2>1
    <3>2. scans[l].stamp > Warmup
      <4>1. CASE l = i
        BY <2>1, <4>1
      <4>2. CASE i < l
        <5>1. scans[i].stamp < scans[l].stamp
          BY <1>0, <2>1, <3>1, <4>2 DEF Rising
        <5> QED BY <1>0, <2>1, <3>1, <5>1
      <4> QED BY <3>1, <4>1, <4>2
    <3>3. l \notin Good(scans, N)
      BY <1>1
    <3> QED BY <3>1, <3>2, <3>3, Zenon DEF Good, Scored, Fails
  <2>3. i + MaxStreak - i + 1 <= k
    BY <1>0, <2>1, <2>2 DEF Longest, N
  <2> QED BY <1>0, <2>1, <2>3
<1>2. ASSUME ~(k <= MaxStreak)
      PROVE  \E i \in Scored(scans, N) : Burst(i)
  <2>1. k # 0
    BY <1>0, <1>2
  <2>2. PICK i \in 1 .. N : i + k - 1 <= N /\ FailsFrom(scans, i, i + k - 1)
    BY <2>1 DEF Longest, N
  <2>3. \A l \in i .. i + MaxStreak : l \in i .. i + k - 1
    BY <1>0, <1>2, <2>2
  <2>4. i \in i .. i + MaxStreak /\ i + MaxStreak \in i .. i + MaxStreak /\ i + MaxStreak \in 1 .. N
    BY <1>0, <1>2, <2>2
  <2>5. \A l \in i .. i + MaxStreak : Fails(scans, l)
    BY <2>2, <2>3 DEF FailsFrom
  <2>6. i \in Scored(scans, N) /\ i + MaxStreak \in Scored(scans, N)
    BY <2>2, <2>4, <2>5, Zenon DEF Fails, Scored
  <2>7. \A l \in i .. i + MaxStreak : l \notin Good(scans, N)
    BY <2>5, Zenon DEF Fails, Good
  <2> QED BY <2>6, <2>7
<1> QED BY <1>1, <1>2, Zenon DEF N

LEMMA GateStarts == GateInit => GateInv
  BY GateAssumption DEF GateInit, GateInv, Rising

(* The gate passes exactly when scans were scored, enough of them could be *)
(* transformed, and no more than the limit failed in a row, however the    *)
(* static transform, the filter's and the scans fall together              *)
(* (slam_preflight.evaluate_tf_gate).                                      *)
THEOREM BurstsFail == GateSpec => []NoBurstPasses
<1>1. GateInit => GateInv
  BY GateStarts
<1>2. GateInv => NoBurstPasses
  <2> SUFFICES ASSUME GateInv, gate_pc = "gone"
               PROVE  LET scans  == {i \in DOMAIN looked_up : looked_up[i].stamp > Warmup}
                          good   == {i \in scans : looked_up[i].ok}
                          bursts == {i \in scans : /\ i + MaxStreak \in scans
                                                   /\ \A j \in i .. i + MaxStreak : j \notin good}
                      IN gate_code = 0 <=> /\ scans # {} /\ bursts = {}
                                           /\ Cardinality(good) * 100 >= Threshold * Cardinality(scans)
    BY DEF NoBurstPasses
  <2> DEFINE N == Len(looked_up)
             res == tally(looked_up)
             scans == Scored(looked_up, N)
             good == Good(looked_up, N)
             bursts == {i \in scans : /\ i + MaxStreak \in scans
                                      /\ \A j \in i .. i + MaxStreak : j \notin good}
  <2>1. looked_up \in Seq(Scan) /\ Rising(looked_up) /\ N \in Nat /\ DOMAIN looked_up = 1 .. N
    BY DEF GateInv
  <2>2. Tells(looked_up, N, res)
    BY <2>1, TallyTells
  <2>3. /\ res.attempted = Cardinality(scans) /\ res.succeeded = Cardinality(good)
        /\ Longest(looked_up, N, res.longest) /\ res.longest \in Nat
    BY <2>2 DEF Tells, Counted, TallyOf
  <2>4. res.longest <= MaxStreak <=> bursts = {}
    BY <2>1, <2>3, BurstIsRun, Zenon
  <2>5. res.attempted > 0 <=> scans # {}
    <3>1. IsFiniteSet(scans) /\ Cardinality(scans) \in Nat
      BY <2>1, ScoredFinite
    <3>2. Cardinality(scans) = 0 <=> scans = {}
      BY <3>1, FS_EmptySet
    <3> HIDE DEF scans, res
    <3> QED BY <2>3, <3>1, <3>2
  <2>6. gate_code = 0 <=> gate_passed
    BY DEF GateInv
  <2>7. gate_passed <=> /\ res.attempted > 0
                        /\ res.succeeded * 100 >= Threshold * res.attempted
                        /\ res.longest <= MaxStreak
    BY DEF gate_passed
  <2>8. gate_code = 0 <=> /\ scans # {} /\ bursts = {}
                          /\ Cardinality(good) * 100 >= Threshold * Cardinality(scans)
    <3> HIDE DEF scans, good, bursts, res
    <3> QED BY <2>3, <2>4, <2>5, <2>6, <2>7
  <2>9. /\ scans = {i \in DOMAIN looked_up : looked_up[i].stamp > Warmup}
        /\ good = {i \in scans : looked_up[i].ok}
    BY <2>1 DEF Scored, Good
  <2> HIDE DEF scans, good
  <2> QED BY <2>8, <2>9
<1> QED BY <1>1, <1>2, GateInductive, PTL DEF GateSpec
-----------------------------------------------------------------------------
(* The types of the tools: what each of their variables can ever hold.     *)
(* Where the type alone is not kept, it is proved with what keeps it: a    *)
(* counter with the place at which it is counted, a sequence with what it  *)
(* is of.  First the store: scales and lengths are those a push gives.     *)

\* What a store may hold: scales and lengths that a push gives.
Given(store) ==
  /\ store.k \in Scales \cup {0, 10}
  /\ \A i \in DOMAIN store.cals : /\ store.cals[i].k \in Scales \cup {10}
                                  /\ store.cals[i].odom \in Lengths \cup {10}
  /\ \A i \in DOMAIN store.runs : store.runs[i].k \in Scales \cup {10}

GivenDoing(doing) == Given(doing.copy) /\ (doing.pc = "driving" => doing.copy.k # 0)

GivenInv == /\ invoked <= MaxInvocations /\ torn \in BOOLEAN
            /\ Given(file)
            /\ \A p \in Invocations : GivenDoing(inv[p])

LEMMA GivenToAll ==
  ASSUME StoresInv, GivenInv, NEW p \in Invocations, NEW doing, GivenDoing(doing),
         inv' = [inv EXCEPT ![p] = doing]
  PROVE  \A q \in Invocations : GivenDoing(inv'[q])
<1>1. \A q \in Invocations : inv'[q] = IF q = p THEN doing ELSE inv[q]
  BY DEF StoresInv
<1> QED BY <1>1 DEF GivenInv

LEMMA EmptyGiven == Given(Empty) /\ GivenDoing(Idle(Empty))
  BY DEF Given, Empty, GivenDoing, Idle

LEMMA LegacyGiven == Given(Legacy(10))
<1> DEFINE cal == [id |-> 0, k |-> 10, odom |-> 10, gyro |-> "no span"]
           run == [cal |-> 0, k |-> 10]
<1>1. Legacy(10).k = 10 /\ Legacy(10).cals = <<cal>> /\ Legacy(10).runs = <<run>>
  BY DEF Legacy
<1>2. cal.k = 10 /\ cal.odom = 10 /\ run.k = 10
  OBVIOUS
<1> HIDE DEF cal, run
<1> QED BY <1>1, <1>2 DEF Given

LEMMA UsedGiven ==
  ASSUME NEW store, Sound(store), Given(store), NEW i \in DOMAIN store.cals
  PROVE  Given(UseCalibration(store, i))
<1> DEFINE used == UseCalibration(store, i)
<1>1. used.cals = store.cals /\ used.runs = store.runs /\ used.k = store.cals[i].k
  BY DEF Sound, Store, UseCalibration
<1> QED BY <1>1 DEF Given

LEMMA CalibratedGiven ==
  ASSUME NEW store, Sound(store), Given(store), NEW cal,
         cal.k \in Scales \cup {10}, cal.odom \in Lengths \cup {10}
  PROVE  Given(Calibrated(store, cal))
<1> DEFINE more == Calibrated(store, cal)
<1>1. store \in Store /\ store.cals \in Seq(Pushed)
  BY DEF Sound, Store
<1>2. more.cals = Append(store.cals, cal) /\ more.runs = store.runs /\ more.k = cal.k
  BY <1>1 DEF Store, Calibrated
<1>3. \A i \in DOMAIN Append(store.cals, cal) :
        \/ i \in DOMAIN store.cals /\ Append(store.cals, cal)[i] = store.cals[i]
        \/ Append(store.cals, cal)[i] = cal
  BY <1>1
<1> HIDE DEF more
<1> QED BY <1>2, <1>3 DEF Given, more

LEMMA RunsGiven ==
  ASSUME NEW store, Sound(store), Given(store), store.k # 0,
         NEW new \in {<<>>, <<NewRun(store)>>}
  PROVE  Given([store EXCEPT !.runs = @ \o new])
<1> DEFINE more == [store EXCEPT !.runs = @ \o new]
           run == NewRun(store)
<1>1. store \in Store /\ store.runs \in Seq(Taken) /\ run \in Taken
  BY DEF Sound, Store, Taken, NewRun
<1>a. run.k \in Scales \cup {10}
  BY DEF Given, NewRun
<1> HIDE DEF run
<1>2. more.runs = store.runs \o new /\ more.cals = store.cals /\ more.k = store.k
  BY <1>1 DEF Store
<1>3. \A i \in DOMAIN (store.runs \o new) :
        (\E j \in DOMAIN store.runs : (store.runs \o new)[i] = store.runs[j]) \/ (store.runs \o new)[i] = run
  <2>1. CASE new = <<>>
    BY <1>1, <2>1
  <2>2. CASE new = <<run>>
    <3>1. store.runs \o new = Append(store.runs, run)
      BY <1>1, <2>2
    <3>2. \A i \in DOMAIN Append(store.runs, run) :
            \/ i \in DOMAIN store.runs /\ Append(store.runs, run)[i] = store.runs[i]
            \/ Append(store.runs, run)[i] = run
      BY <1>1
    <3> QED BY <3>1, <3>2
  <2> QED BY <2>1, <2>2 DEF run
<1> HIDE DEF more
<1> QED BY <1>2, <1>3, <1>a DEF Given, more

LEMMA GivenInductive == StoresInv /\ GivenInv /\ [BrakingNext]_braking_vars => GivenInv'
<1> SUFFICES ASSUME StoresInv, GivenInv, [BrakingNext]_braking_vars
             PROVE  GivenInv'
  OBVIOUS
<1> DEFINE Others == \A q \in Invocations : GivenDoing(inv'[q])
<1>0. /\ Sound(file) /\ Given(file) /\ invoked <= MaxInvocations /\ torn \in BOOLEAN
      /\ invoked \in Nat /\ MaxInvocations \in Nat
  BY BrakingAssumption DEF StoresInv, GivenInv
<1>a. ASSUME NEW p \in Invocations
      PROVE  /\ inv[p] \in Doing /\ Sound(inv[p].copy) /\ Given(inv[p].copy) /\ inv[p].copy \in Store
             /\ inv[p].pc = "driving" => /\ inv[p].copy.k # 0
                                         /\ inv[p].new \in {<<>>, <<NewRun(inv[p].copy)>>}
  BY DEF StoresInv, GivenInv, DoingInv, GivenDoing, Sound
<1>b. ASSUME NEW p \in Invocations, InvocationEnds(p)
      PROVE  Others
  BY <1>b, EmptyGiven, GivenToAll DEF InvocationEnds
<1>c. ASSUME NEW p \in Invocations, NEW pc \in {"pushing", "driving", "save"}, NEW copy,
             Starts(p, pc, copy), Given(copy), pc = "driving" => copy.k # 0
      PROVE  GivenInv'
  <2> DEFINE doing == [pc |-> pc, copy |-> copy, new |-> <<>>, stamp |-> invoked + 1]
  <2>1. inv' = [inv EXCEPT ![p] = doing] /\ file' = file /\ torn' = torn /\ invoked' <= MaxInvocations
    BY <1>0, <1>c DEF Starts
  <2>2. GivenDoing(doing)
    BY <1>c DEF GivenDoing
  <2> HIDE DEF doing
  <2>3. Others
    BY <2>1, <2>2, GivenToAll
  <2> QED BY <1>0, <2>1, <2>3 DEF GivenInv
<1>d. ASSUME Others, UNCHANGED <<file, invoked>>, torn' \in BOOLEAN
      PROVE  GivenInv'
  BY <1>0, <1>d DEF GivenInv
<1>1. ASSUME NEW p \in Invocations, SwitchCalibration(p)
      PROVE  GivenInv'
  <2>1. PICK i \in DOMAIN file.cals : Starts(p, "save", UseCalibration(file, i))
    BY <1>1 DEF SwitchCalibration
  <2>2. Given(UseCalibration(file, i))
    BY <1>0, UsedGiven
  <2> QED BY <1>c, <2>1, <2>2
<1>2. ASSUME NEW p \in Invocations, StartCalibration(p) \/ StartMeasuring(p)
      PROVE  GivenInv'
  BY <1>0, <1>2, <1>c DEF StartCalibration, StartMeasuring
<1>3. ASSUME NEW p \in Invocations, Calibrate(p)
      PROVE  GivenInv'
  <2>1. UNCHANGED <<file, invoked>> /\ torn' \in BOOLEAN
    BY <1>0, <1>3 DEF Calibrate
  <2>2. CASE InvocationEnds(p)
    BY <1>b, <1>d, <2>1, <2>2
  <2>3. ASSUME NEW cal \in Pushes(inv[p].stamp),
               inv' = [inv EXCEPT ![p].pc = "save", ![p].copy = Calibrated(@, cal)]
        PROVE  GivenInv'
    <3>1. cal.k \in Scales \cup {10} /\ cal.odom \in Lengths \cup {10}
      <4> DEFINE good == [id |-> inv[p].stamp, k |-> 10, odom |-> 10, gyro |-> "straight"]
      <4>1. CASE \E k \in Scales : cal = [good EXCEPT !.k = k]
        BY <4>1
      <4>2. CASE \E odom \in Lengths : cal = [good EXCEPT !.odom = odom]
        BY <4>2
      <4>3. CASE \E seen \in Gyros \ {"no span"} : cal = [good EXCEPT !.gyro = seen]
        BY <4>3
      <4> QED BY <2>3, <4>1, <4>2, <4>3 DEF Pushes
    <3> DEFINE doing == [inv[p] EXCEPT !.pc = "save", !.copy = Calibrated(@, cal)]
    <3>2. Given(Calibrated(inv[p].copy, cal))
      BY <1>a, <3>1, CalibratedGiven
    <3>3. doing.pc = "save" /\ doing.copy = Calibrated(inv[p].copy, cal)
      BY <1>a DEF Doing
    <3>4. inv' = [inv EXCEPT ![p] = doing]
      BY <2>3
    <3> HIDE DEF doing
    <3>5. GivenDoing(doing)
      BY <3>2, <3>3 DEF GivenDoing
    <3>6. Others
      BY <3>4, <3>5, GivenToAll
    <3> QED BY <1>d, <2>1, <3>6
  <2> QED BY <1>3, <2>2, <2>3 DEF Calibrate
<1>4. ASSUME NEW p \in Invocations, RunOnce(p) \/ Truncate(p)
      PROVE  GivenInv'
  <2>1. PICK doing : /\ inv' = [inv EXCEPT ![p] = doing] /\ doing.copy = inv[p].copy
                     /\ doing.pc \in {inv[p].pc, "writing"}
    <3>1. CASE RunOnce(p)
      <4> DEFINE doing == [inv[p] EXCEPT !.new = <<NewRun(inv[p].copy)>>]
      <4>1. inv' = [inv EXCEPT ![p] = doing]
        BY <3>1 DEF RunOnce
      <4>2. doing.copy = inv[p].copy /\ doing.pc = inv[p].pc
        BY <1>a DEF Doing
      <4> QED BY <4>1, <4>2
    <3>2. CASE Truncate(p)
      <4> DEFINE doing == [inv[p] EXCEPT !.pc = "writing"]
      <4>1. inv' = [inv EXCEPT ![p] = doing]
        BY <3>2 DEF Truncate
      <4>2. doing.copy = inv[p].copy /\ doing.pc = "writing"
        BY <1>a DEF Doing
      <4> QED BY <4>1, <4>2
    <3> QED BY <1>4, <3>1, <3>2
  <2>2. GivenDoing(doing)
    BY <1>a, <2>1 DEF GivenDoing
  <2>3. Others
    BY <2>1, <2>2, GivenToAll
  <2>4. UNCHANGED <<file, invoked>> /\ torn' \in BOOLEAN
    BY <1>0, <1>4 DEF RunOnce, Truncate
  <2> QED BY <1>d, <2>3, <2>4
<1>5. ASSUME NEW p \in Invocations, RunsEnd(p)
      PROVE  GivenInv'
  <2> DEFINE copy == [inv[p].copy EXCEPT !.runs = @ \o inv[p].new]
             doing == [inv[p] EXCEPT !.pc = "save", !.copy = copy]
  <2>1. inv[p].pc = "driving" /\ inv' = [inv EXCEPT ![p] = doing]
    BY <1>a, <1>5 DEF RunsEnd, Doing, Store
  <2>2. Given(copy)
    BY <1>a, <2>1, RunsGiven
  <2> HIDE DEF copy
  <2>3. doing.pc = "save" /\ doing.copy = copy
    BY <1>a DEF Doing
  <2> HIDE DEF doing
  <2>4. Others
    BY <2>1, <2>2, <2>3, GivenToAll DEF GivenDoing
  <2>5. UNCHANGED <<file, invoked, torn>>
    BY <1>5 DEF RunsEnd
  <2> QED BY <1>0, <1>d, <2>4, <2>5
<1>6. ASSUME NEW p \in Invocations, Save(p)
      PROVE  GivenInv'
  <2>1. Others
    BY <1>b, <1>6 DEF Save
  <2>2. Given(file') /\ torn' \in BOOLEAN /\ invoked' = invoked
    BY <1>a, <1>6 DEF Save
  <2> QED BY <1>0, <2>1, <2>2 DEF GivenInv
<1>7. ASSUME NEW p \in Invocations, Interrupted(p)
      PROVE  GivenInv'
  BY <1>0, <1>b, <1>d, <1>7 DEF Interrupted
<1>8. CASE MeasureStage \/ UNCHANGED braking_vars
  <2>1. UNCHANGED store_vars
    BY <1>8 DEF MeasureStage, braking_vars
  <2> QED BY <2>1 DEF GivenInv, GivenDoing, store_vars
<1> QED BY <1>1, <1>2, <1>3, <1>4, <1>5, <1>6, <1>7, <1>8 DEF BrakingNext

LEMMA BrakingTypeStarts == BrakingInit => StoresInv /\ GivenInv /\ PointsInv
<1> SUFFICES ASSUME BrakingInit PROVE GivenInv /\ PointsInv
  BY StoresStart
<1>1. PointsInv
  BY DEF BrakingInit, PointsInv, Points
<1>2. Given(file)
  BY EmptyGiven, LegacyGiven DEF BrakingInit
<1>3. \A p \in Invocations : inv[p] = Idle(Empty)
  BY DEF BrakingInit
<1>4. \A p \in Invocations : GivenDoing(inv[p])
  BY <1>3, EmptyGiven
<1>5. invoked <= MaxInvocations
  BY BrakingAssumption DEF BrakingInit
<1>6. torn \in BOOLEAN
  BY DEF BrakingInit
<1> QED BY <1>1, <1>2, <1>4, <1>5, <1>6 DEF GivenInv

LEMMA StoreTyped ==
  ASSUME NEW store, Sound(store), Given(store), invoked \in Nat, invoked <= MaxInvocations,
         Numbered(store, invoked)
  PROVE  StoreTypeOK(store)
<1>1. /\ store \in Store /\ store.cals \in Seq(Pushed) /\ store.runs \in Seq(Taken)
      /\ store.active \in Nat /\ MaxInvocations \in Nat
  BY BrakingAssumption DEF Sound, Store
<1>2. \A i \in DOMAIN store.cals : store.cals[i] \in Pushed
  BY <1>1
<1>3. \A i \in DOMAIN store.runs : store.runs[i] \in Taken
  BY <1>1
<1>4. \A i \in DOMAIN store.cals : store.cals[i].id \in 0 .. MaxInvocations
  BY <1>1, <1>2 DEF Pushed, Numbered
<1>5. \A i \in DOMAIN store.cals : store.cals[i] \in Calibration
  BY <1>2, <1>4 DEF Pushed, Calibration, Given
<1>6. ASSUME NEW i \in DOMAIN store.runs
      PROVE  store.runs[i] \in Run
  <2>1. store.runs[i].cal \in 0 .. MaxInvocations
    <3>1. CASE store.runs[i].cal = 0
      BY <1>1, <3>1
    <3>2. CASE store.runs[i].cal # 0
      <4>1. PICK j \in DOMAIN store.cals : store.cals[j].id = store.runs[i].cal
        BY <3>2 DEF Sound, Driven
      <4> QED BY <1>4, <4>1
    <3> QED BY <3>1, <3>2
  <2> QED BY <1>3, <2>1 DEF Taken, Run, Given
<1>7. store.active \in 0 .. MaxInvocations
  <2>1. CASE store.active = 0
    BY <1>1, <2>1
  <2>2. CASE store.active # 0
    BY <1>4, <2>2 DEF Sound, InForce
  <2> QED BY <2>1, <2>2
<1> QED BY <1>5, <1>6, <1>7 DEF StoreTypeOK, Given

LEMMA BrakingTypeFollows == StoresInv /\ GivenInv /\ PointsInv => BrakingTypeOK
<1> SUFFICES ASSUME StoresInv, GivenInv, PointsInv PROVE BrakingTypeOK
  OBVIOUS
<1>1. invoked \in Nat /\ invoked <= MaxInvocations /\ torn \in BOOLEAN /\ MaxInvocations \in Nat
  BY BrakingAssumption DEF StoresInv, GivenInv
<1>2. StoreTypeOK(file)
  BY <1>1, StoreTyped DEF StoresInv, GivenInv
<1>3. ASSUME NEW p \in Invocations
      PROVE  StoreTypeOK(inv[p].copy) /\ inv[p].pc \in {"idle", "pushing", "driving", "save", "writing"}
  <2>1. inv[p] \in Doing /\ Sound(inv[p].copy) /\ Numbered(inv[p].copy, invoked) /\ Given(inv[p].copy)
    BY DEF StoresInv, DoingInv, GivenInv, GivenDoing
  <2> QED BY <1>1, <2>1, StoreTyped DEF Doing
<1>4. \A i \in DOMAIN measured : measured[i] \in [v : Stages, d : Stops]
  <2>1. measured \in Seq(Point)
    BY DEF PointsInv, Points
  <2>2. \A i \in DOMAIN measured : measured[i] \in Point
    BY <2>1
  <2> QED BY <2>2 DEF Point
<1> QED BY <1>1, <1>2, <1>3, <1>4 DEF BrakingTypeOK
-----------------------------------------------------------------------------
(* The bench: what is left of the trials, while one is under way.          *)

BenchAt == /\ bench_phase \in Phases
           /\ bench_pc \in Safe \cup {"hardware", "battery", "rivals", "final", "look", "gone"}
           /\ bench_code \in {0, 1, 2, 130}
BenchGiven == graph \subseteq {"car", "sim", "rival"} /\ battery \in {"silent", "low", "good"}
BenchFlags == {link, spinning, driver, chain, valid, phase_ok} \subseteq BOOLEAN

\* A trial is under way, or about to be: it is among those that are left.
OnTrial     == {"hardware", "battery", "rivals", "drive", "wait", "watch", "stop", "verify"}
BenchTrials == /\ bench_phase \in Phases
               /\ trials_left \in Nat /\ good_trials \in Nat
               /\ trials_left <= Trials[bench_phase] /\ good_trials <= Trials[bench_phase]
               /\ bench_pc \in OnTrial => /\ trials_left > 0
                                         /\ trials_left + good_trials <= Trials[bench_phase]

BenchTyped == BenchAt /\ BenchGiven /\ BenchFlags /\ BenchTrials

LEMMA SomeTrials == \A phase \in Phases : Trials[phase] \in Nat \ {0}
  BY BenchAssumption DEF Phases, SelfDriven, Trials

LEMMA BenchAtStays == BenchAt /\ [BenchNext]_bench_vars => BenchAt'
<1> SUFFICES ASSUME BenchAt, [BenchNext]_bench_vars
             PROVE  BenchAt'
  OBVIOUS
<1>1. bench_phase' = bench_phase
  BY DEF BenchNext, require_bench_hardware, battery_volts, no_rival_publishers, DriveSelf, spawn_driver,
         DriverDrives, AwaitMotion, NoMotion, Watch, Stop, Verify, Teardown, Tally, Leave, LastLook,
         Signalled, LinkChanges, given_vars, bench_vars
<1>2. bench_pc' \in Safe \cup {bench_pc, "battery", "rivals", "final", "look", "gone"}
  BY DEF BenchNext, require_bench_hardware, battery_volts, no_rival_publishers, DriveSelf, spawn_driver,
         DriverDrives, AwaitMotion, NoMotion, Watch, Stop, Verify, Teardown, Tally, Leave, LastLook,
         Signalled, LinkChanges, bench_vars, Refuse, Safe
<1>3. bench_code' \in {bench_code, 0, 1, 2, 130}
  BY DEF BenchNext, require_bench_hardware, battery_volts, no_rival_publishers, DriveSelf, spawn_driver,
         DriverDrives, AwaitMotion, NoMotion, Watch, Stop, Verify, Teardown, Tally, Leave, LastLook,
         Signalled, LinkChanges, bench_vars, Refuse
<1>4. bench_pc' \in Safe \cup {"hardware", "battery", "rivals", "final", "look", "gone"}
  BY <1>2 DEF BenchAt
<1>5. bench_code' \in {0, 1, 2, 130}
  BY <1>3 DEF BenchAt
<1> QED BY <1>1, <1>4, <1>5 DEF BenchAt

LEMMA BenchGivenStays == BenchGiven /\ [BenchNext]_bench_vars => BenchGiven'
  BY DEF BenchGiven, BenchNext, require_bench_hardware, battery_volts, no_rival_publishers, DriveSelf,
         spawn_driver, DriverDrives, AwaitMotion, NoMotion, Watch, Stop, Verify, Teardown, Tally, Leave,
         LastLook, Signalled, LinkChanges, given_vars, bench_vars

LEMMA BenchFlagsStay == BenchFlags /\ [BenchNext]_bench_vars => BenchFlags'
<1> SUFFICES ASSUME BenchFlags, [BenchNext]_bench_vars
             PROVE  BenchFlags'
  OBVIOUS
<1>0. /\ link \in BOOLEAN /\ spinning \in BOOLEAN /\ driver \in BOOLEAN
      /\ chain \in BOOLEAN /\ valid \in BOOLEAN /\ phase_ok \in BOOLEAN
  BY DEF BenchFlags
<1>1. link' \in BOOLEAN
  BY <1>0 DEF BenchNext, require_bench_hardware, battery_volts, no_rival_publishers, DriveSelf,
         spawn_driver, DriverDrives, AwaitMotion, NoMotion, Watch, Stop, Verify, Teardown, Tally, Leave,
         LastLook, Signalled, LinkChanges, bench_vars
<1>2. driver' \in BOOLEAN
  BY <1>0 DEF BenchNext, require_bench_hardware, battery_volts, no_rival_publishers, DriveSelf,
         spawn_driver, DriverDrives, AwaitMotion, NoMotion, Watch, Stop, Verify, Teardown, Tally, Leave,
         LastLook, Signalled, LinkChanges, bench_vars
<1>3. chain' \in BOOLEAN
  BY <1>0 DEF BenchNext, require_bench_hardware, battery_volts, no_rival_publishers, DriveSelf,
         spawn_driver, DriverDrives, AwaitMotion, NoMotion, Watch, Stop, Verify, Teardown, Tally, Leave,
         LastLook, Signalled, LinkChanges, bench_vars
<1>4. phase_ok' \in BOOLEAN
  BY <1>0 DEF BenchNext, require_bench_hardware, battery_volts, no_rival_publishers, DriveSelf,
         spawn_driver, DriverDrives, AwaitMotion, NoMotion, Watch, Stop, Verify, Teardown, Tally, Leave,
         LastLook, Signalled, LinkChanges, bench_vars, tally_vars
<1>5. spinning' \in BOOLEAN
  <2>1. CASE Watch
    <3>1. spinning' \in {spinning /\ ~link, spinning}
      BY <2>1 DEF Watch
    <3>2. (spinning /\ ~link) \in BOOLEAN
      OBVIOUS
    <3> QED BY <1>0, <3>1, <3>2, Zenon
  <2>2. CASE ~Watch
    BY <1>0, <2>2 DEF BenchNext, require_bench_hardware, battery_volts, no_rival_publishers, DriveSelf,
           spawn_driver, DriverDrives, AwaitMotion, NoMotion, Stop, Verify, Teardown, Tally, Leave,
           LastLook, Signalled, LinkChanges, bench_vars, stop
  <2> QED BY <2>1, <2>2
<1>6. valid' \in BOOLEAN
  <2>1. CASE DriveSelf
    <3>1. valid' \in {FALSE, link}
      BY <2>1 DEF DriveSelf
    <3> QED BY <1>0, <3>1, Zenon
  <2>2. CASE ~DriveSelf
    BY <1>0, <2>2 DEF BenchNext, require_bench_hardware, battery_volts, no_rival_publishers,
           spawn_driver, DriverDrives, AwaitMotion, NoMotion, Watch, Stop, Verify, Teardown, Tally, Leave,
           LastLook, Signalled, LinkChanges, bench_vars
  <2> QED BY <2>1, <2>2
<1> QED BY <1>1, <1>2, <1>3, <1>4, <1>5, <1>6 DEF BenchFlags

LEMMA BenchTrialsStay == BenchTrials /\ [BenchNext]_bench_vars => BenchTrials'
<1> SUFFICES ASSUME BenchTrials, [BenchNext]_bench_vars
             PROVE  BenchTrials'
  OBVIOUS
<1>0. bench_phase' = bench_phase
  BY DEF BenchNext, require_bench_hardware, battery_volts, no_rival_publishers, DriveSelf, spawn_driver,
         DriverDrives, AwaitMotion, NoMotion, Watch, Stop, Verify, Teardown, Tally, Leave, LastLook,
         Signalled, LinkChanges, given_vars, bench_vars
<1> DEFINE all == Trials[bench_phase]
<1>1. all \in Nat /\ all' = all
  BY <1>0, SomeTrials DEF BenchTrials
<1> HIDE DEF all
<1>2. CASE NoMotion \/ Verify
  <2>1. bench_pc \in OnTrial /\ trials_left > 0 /\ trials_left \in Nat /\ good_trials \in Nat
    BY <1>2 DEF BenchTrials, NoMotion, Verify, OnTrial
  <2>2. \/ trials_left' = trials_left /\ good_trials' = good_trials
        \/ /\ trials_left' = trials_left /\ good_trials' \in {good_trials, good_trials + 1}
           /\ bench_pc' \notin OnTrial
        \/ /\ trials_left' = trials_left - 1 /\ good_trials' \in {good_trials, good_trials + 1}
           /\ bench_pc' \in OnTrial => trials_left > 1
    BY <1>2 DEF NoMotion, Verify, OnTrial, tally_vars
  <2>3. trials_left + good_trials <= all
    BY <2>1 DEF BenchTrials, all
  <2>4. /\ trials_left' \in Nat /\ good_trials' \in Nat
        /\ trials_left' <= all /\ good_trials' <= all
        /\ bench_pc' \in OnTrial => trials_left' > 0 /\ trials_left' + good_trials' <= all
    BY <1>1, <2>1, <2>2, <2>3
  <2> QED BY <1>0, <1>1, <2>4 DEF BenchTrials, all
<1>3. CASE ~(NoMotion \/ Verify)
  <2>1. UNCHANGED <<trials_left, good_trials>>
    BY <1>3 DEF BenchNext, require_bench_hardware, battery_volts, no_rival_publishers, DriveSelf,
           spawn_driver, DriverDrives, AwaitMotion, Watch, Stop, Teardown, Tally, Leave,
           LastLook, Signalled, LinkChanges, bench_vars, tally_vars
  <2>2. bench_pc' \in OnTrial => bench_pc \in OnTrial
    BY <1>3 DEF BenchNext, require_bench_hardware, battery_volts, no_rival_publishers, DriveSelf,
           spawn_driver, DriverDrives, AwaitMotion, Watch, Stop, Teardown, Tally, Leave,
           LastLook, Signalled, LinkChanges, bench_vars, Refuse, OnTrial
  <2> QED BY <1>0, <2>1, <2>2 DEF BenchTrials
<1> QED BY <1>2, <1>3

LEMMA BenchTypes == BenchTyped /\ [BenchNext]_bench_vars => BenchTyped'
  BY BenchAtStays, BenchGivenStays, BenchFlagsStay, BenchTrialsStay DEF BenchTyped

LEMMA BenchTypeStarts == BenchInit => BenchTyped
<1> SUFFICES ASSUME BenchInit PROVE BenchTyped
  OBVIOUS
<1>1. BenchAt /\ BenchGiven
  BY DEF BenchInit, BenchAt, BenchGiven
<1>2. BenchFlags
  BY DEF BenchInit, BenchFlags
<1>3. BenchTrials
  <2>1. trials_left = Trials[bench_phase] /\ good_trials = 0 /\ bench_phase \in Phases
    BY DEF BenchInit
  <2>2. trials_left \in Nat \ {0}
    BY <2>1, SomeTrials
  <2>3. trials_left \in Nat /\ good_trials \in Nat /\ trials_left + good_trials <= trials_left
        /\ trials_left > 0 /\ good_trials <= trials_left
    BY <2>1, <2>2
  <2> QED BY <2>1, <2>3 DEF BenchTrials
<1> QED BY <1>1, <1>2, <1>3 DEF BenchTyped

LEMMA BenchTypeFollows == BenchTyped => BenchTypeOK
<1> SUFFICES ASSUME BenchTyped PROVE BenchTypeOK
  OBVIOUS
<1>1. trials_left \in 0 .. Trials[bench_phase] /\ good_trials \in 0 .. Trials[bench_phase]
  <2>1. Trials[bench_phase] \in Nat
    BY SomeTrials DEF BenchTyped, BenchTrials
  <2> QED BY <2>1 DEF BenchTyped, BenchTrials
<1> QED BY <1>1 DEF BenchTyped, BenchAt, BenchGiven, BenchFlags, BenchTypeOK
-----------------------------------------------------------------------------
(* The smoke test of Nav2.                                                 *)

NavAt == nav_pc \in Pending \cup {"start", "cancel", "cancel all", "quiet", "zeros", "observe",
                                  "judge", "gone"}
\* A goal is one the server knows, or none of its.
NavGoals == goal \in {"none", "sent"} \cup Alive \cup Over
NavFlags == {known, announced, acked, quiet, rolling} \subseteq BOOLEAN
NavSays == /\ witness \in {"none yet", "alive", "no goal"}
           /\ verdict \in {"none", "stopped", "not stopped"}
           /\ nav_code \in {0, 1, 2, 130}
\* Rounds are counted while all goals are cancelled, until none was seen alive for long enough.
NavRounds == /\ rounds \in 0 .. MaxRounds /\ held \in 0 .. HoldRounds
             /\ nav_pc \in Pending \cup {"start", "cancel all"} => held < HoldRounds

NavTyped == NavAt /\ NavGoals /\ NavFlags /\ NavSays /\ NavRounds

LEMMA NavAtStays == NavAt /\ [NavNext]_nav_vars => NavAt'
  BY DEF NavAt, Pending, NavNext, nav_vars, Nav2, SendGoal, AwaitAcceptance, AwaitResult, Judge, OnSignal,
         CancelGoal, CancelAll, WaitQuiet, PublishZeros, Observe, Exits

LEMMA NavGoalsStay == NavGoals /\ [NavNext]_nav_vars => NavGoals'
  BY DEF NavGoals, Alive, Over, NavNext, nav_vars, Nav2, Accepted, Rejected, Finishes, Canceled, OtherEnds,
         Becomes, Cancels, SendGoal, AwaitAcceptance, AwaitResult, Judge, OnSignal,
         CancelGoal, CancelAll, WaitQuiet, PublishZeros, Observe

LEMMA NavFlagsStay == NavFlags /\ [NavNext]_nav_vars => NavFlags'
<1> SUFFICES ASSUME NavFlags, [NavNext]_nav_vars
             PROVE  NavFlags'
  OBVIOUS
<1> USE DEF NavFlags
<1>1. CASE Nav2
  BY <1>1 DEF Nav2, Accepted, Rejected, Finishes, Canceled, OtherEnds, Becomes
<1>2. CASE SendGoal \/ AwaitAcceptance \/ AwaitResult \/ Judge \/ OnSignal \/ UNCHANGED nav_vars
  BY <1>2 DEF SendGoal, AwaitAcceptance, AwaitResult, Judge, OnSignal, nav_vars
<1>3. CASE CancelGoal
  BY <1>3 DEF CancelGoal, Cancels, Becomes
<1>4. CASE CancelAll
  BY <1>4 DEF CancelAll, Cancels, Becomes
<1>5. CASE WaitQuiet
  <2>1. quiet' \in BOOLEAN
    BY <1>5, Zenon DEF WaitQuiet
  <2> QED BY <1>5, <2>1 DEF WaitQuiet
<1>6. CASE PublishZeros
  <2>0. rolling \in BOOLEAN /\ (goal \in Alive) \in BOOLEAN
    OBVIOUS
  <2>2. rolling' \in {(goal \in Alive), rolling}
    BY <1>6 DEF PublishZeros
  <2> HIDE DEF NavFlags
  <2>1. rolling' \in BOOLEAN
    BY <2>0, <2>2, Zenon
  <2> QED BY <1>6, <2>1 DEF PublishZeros, NavFlags
<1>7. CASE Observe
  BY <1>7 DEF Observe
<1> QED BY <1>1, <1>2, <1>3, <1>4, <1>5, <1>6, <1>7 DEF NavNext

LEMMA NavSaysOn == NavSays /\ [NavNext]_nav_vars => NavSays'
<1> SUFFICES ASSUME NavSays, [NavNext]_nav_vars
             PROVE  NavSays'
  OBVIOUS
<1>1. witness' \in {witness, "alive", "no goal"}
  BY DEF NavNext, nav_vars, Nav2, SendGoal, AwaitAcceptance, AwaitResult, Judge, OnSignal,
         CancelGoal, CancelAll, WaitQuiet, PublishZeros, Observe
<1>2. verdict' \in {verdict, "stopped", "not stopped"}
  BY DEF NavNext, nav_vars, Nav2, SendGoal, AwaitAcceptance, AwaitResult, Judge, OnSignal,
         CancelGoal, CancelAll, WaitQuiet, PublishZeros, Observe
<1>3. nav_code' \in {nav_code, 0, 1, 2, 130}
  BY DEF NavNext, nav_vars, Nav2, SendGoal, AwaitAcceptance, AwaitResult, Judge, OnSignal, Exits,
         CancelGoal, CancelAll, WaitQuiet, PublishZeros, Observe
<1>4. witness' \in {"none yet", "alive", "no goal"}
  BY <1>1 DEF NavSays
<1>5. verdict' \in {"none", "stopped", "not stopped"}
  BY <1>2 DEF NavSays
<1>6. nav_code' \in {0, 1, 2, 130}
  BY <1>3 DEF NavSays
<1> QED BY <1>4, <1>5, <1>6 DEF NavSays

LEMMA NavRoundsOn == NavRounds /\ [NavNext]_nav_vars => NavRounds'
<1> SUFFICES ASSUME NavRounds, [NavNext]_nav_vars
             PROVE  NavRounds'
  OBVIOUS
<1>1. CASE CancelAll
  <2>1. /\ nav_pc = "cancel all" /\ rounds < MaxRounds /\ rounds' = rounds + 1
        /\ held' \in {0, held + 1}
        /\ nav_pc' = IF held' = HoldRounds \/ rounds' = MaxRounds THEN "quiet" ELSE "cancel all"
    BY <1>1 DEF CancelAll, Held
  <2>2. rounds \in 0 .. MaxRounds /\ held \in 0 .. HoldRounds /\ held < HoldRounds
    BY <2>1 DEF NavRounds
  <2>3. /\ rounds + 1 \in 0 .. MaxRounds /\ held + 1 \in 0 .. HoldRounds
        /\ 0 \in 0 .. HoldRounds /\ 0 < HoldRounds
        /\ held + 1 # HoldRounds => held + 1 < HoldRounds
    <3>1. MaxRounds \in Nat /\ HoldRounds \in Nat \ {0} /\ rounds < MaxRounds
      BY <2>1, NavAssumption
    <3> QED BY <2>2, <3>1
  <2>5. rounds' \in 0 .. MaxRounds /\ held' \in 0 .. HoldRounds
    BY <2>1, <2>3
  <2>4. nav_pc' = "quiet" \/ (nav_pc' = "cancel all" /\ held' < HoldRounds)
    BY <2>1, <2>3
  <2> QED BY <2>4, <2>5 DEF NavRounds, Pending
<1>2. CASE ~CancelAll
  <2>1. UNCHANGED <<rounds, held>>
    BY <1>2 DEF NavNext, nav_vars, Nav2, SendGoal, AwaitAcceptance, AwaitResult, Judge, OnSignal,
                CancelGoal, WaitQuiet, PublishZeros, Observe
  <2>2. nav_pc' \in Pending \cup {"start", "cancel all"} => nav_pc \in Pending \cup {"start", "cancel all"}
    BY <1>2 DEF NavNext, nav_vars, Nav2, SendGoal, AwaitAcceptance, AwaitResult, Judge, OnSignal,
                CancelGoal, WaitQuiet, PublishZeros, Observe, Exits, Pending
  <2> QED BY <2>1, <2>2 DEF NavRounds
<1> QED BY <1>1, <1>2

LEMMA NavTypes == NavTyped /\ [NavNext]_nav_vars => NavTyped'
  BY NavAtStays, NavGoalsStay, NavFlagsStay, NavSaysOn, NavRoundsOn DEF NavTyped

LEMMA NavTypeStarts == NavInit => NavTyped
<1> SUFFICES ASSUME NavInit PROVE NavTyped
  OBVIOUS
<1>1. NavAt /\ NavGoals
  BY DEF NavInit, NavAt, NavGoals
<1>2. NavFlags
  BY DEF NavInit, NavFlags
<1>3. NavSays
  BY DEF NavInit, NavSays
<1>4. NavRounds
  <2>1. 0 \in 0 .. MaxRounds /\ 0 \in 0 .. HoldRounds /\ 0 < HoldRounds
    BY NavAssumption
  <2> QED BY <2>1 DEF NavInit, NavRounds
<1> QED BY <1>1, <1>2, <1>3, <1>4 DEF NavTyped

LEMMA NavTypeFollows == NavTyped => NavTypeOK
  BY DEF NavTyped, NavTypeOK, NavAt, NavGoals, NavFlags, NavSays, NavRounds
-----------------------------------------------------------------------------
(* The trials: the legs are those of the tool, the brackets no more than   *)
(* the repeats, and what they say is within the time that is listened.     *)

LEMMA LegsAre ==
  /\ DOMAIN Legs = {"selftest", "latency", "ekf", "sequence"}
  /\ \A t \in DOMAIN Legs : Len(Legs[t]) \in Nat /\ \A i \in 1 .. Len(Legs[t]) : Legs[t][i] \in Motions
  /\ Len(Legs["ekf"]) = 2 /\ Len(Legs["latency"]) = LatencyRepeats
<1>1. DOMAIN Legs = {"selftest", "latency", "ekf", "sequence"}
  BY DEF Legs
<1>2. /\ Len(Legs["selftest"]) = 3 /\ \A i \in 1 .. 3 : Legs["selftest"][i] \in Motions
      /\ Len(Legs["ekf"]) = 2 /\ \A i \in 1 .. 2 : Legs["ekf"][i] \in Motions
      /\ Len(Legs["sequence"]) = 5 /\ \A i \in 1 .. 5 : Legs["sequence"][i] \in Motions
  BY DEF Legs, Motions
<1>3. /\ Len(Legs["latency"]) = LatencyRepeats /\ LatencyRepeats \in Nat
      /\ \A i \in 1 .. LatencyRepeats : Legs["latency"][i] \in Motions
  <2>1. Legs["latency"] = [i \in 1 .. LatencyRepeats |-> "linear"] /\ LatencyRepeats \in Nat
    BY TrialsAssumption DEF Legs
  <2>2. Len([i \in 1 .. LatencyRepeats |-> "linear"]) = LatencyRepeats
    BY <2>1
  <2> QED BY <2>1, <2>2 DEF Motions
<1>4. 3 \in Nat /\ 2 \in Nat /\ 5 \in Nat
  OBVIOUS
<1>5. ASSUME NEW t \in DOMAIN Legs
      PROVE  Len(Legs[t]) \in Nat /\ \A i \in 1 .. Len(Legs[t]) : Legs[t][i] \in Motions
  <2>1. CASE t = "selftest"
    BY <1>2, <1>4, <2>1
  <2>2. CASE t = "latency"
    BY <1>3, <2>2
  <2>3. CASE t = "ekf"
    BY <1>2, <1>4, <2>3
  <2>4. CASE t = "sequence"
    BY <1>2, <1>4, <2>4
  <2> QED BY <1>1, <2>1, <2>2, <2>3, <2>4
<1> QED BY <1>1, <1>2, <1>3, <1>5

\* A leg that is driven is one of the tool's, and a filter is looked at on one of two.
TrialsAt == /\ trial \in DOMAIN Legs /\ option \in Options[trial]
            /\ step \in {"agent", "sample", "handspin", "drive", "leg", "finally", "report", "gone"}
            /\ leg \in 1 .. Len(Legs[trial]) + 1
            /\ step = "leg" => leg <= Len(Legs[trial])
            /\ step = "handspin" => trial = "selftest"
            /\ step = "finally" /\ trial = "ekf" => leg <= 2

TrialsCar == /\ hears \in BOOLEAN /\ encoders \in BOOLEAN /\ motors \in BOOLEAN
             /\ wheels \in Motions \cup {"rest"}
             /\ last_odom \in Motions \cup {"rest", Nothing}
             /\ obeyed \subseteq Motions
             /\ peak \subseteq Motions \cup {"rest", Nothing}

TrialsSay == /\ failed \in BOOLEAN
             /\ fused \in [1 .. 2 -> 0 .. 2 \cup {Nothing}]
             /\ ekf_verdict \in {"held", "worse", "inconclusive", "incomplete", Nothing}
             /\ helpers \subseteq {"bag", "imu", "filter", "laser"}
             /\ trial_code \in {0, 1, 130}

TrialsBrackets == /\ leg \in Nat /\ Len(brackets) <= LatencyRepeats
                  /\ trial = "latency" => Len(brackets) < leg
                  /\ \A i \in DOMAIN brackets : brackets[i].says.hi <= PushTime
                  /\ bound \in 0 .. PushTime \cup {Nothing}

TrialsTyped == TrialsAt /\ TrialsCar /\ TrialsSay /\ TrialsBrackets

LEMMA CallStays == [TrialsNext]_trial_vars => UNCHANGED call_vars
  BY DEF TrialsNext, OdomArrives, HearingChanges, AgentLook, Sample, HandSpin, LegBegins, LegGoesOn,
         LegEnds, SequenceBegins, StartFilter, Collect, JudgeFilters, ScanGate, Trial, ReportLatency,
         Finally, TrialSignalled, trial_vars

LEMMA TrialsAtStays == TrialsAt /\ [TrialsNext]_trial_vars => TrialsAt'
<1> SUFFICES ASSUME TrialsAt, [TrialsNext]_trial_vars
             PROVE  TrialsAt'
  OBVIOUS
<1> DEFINE all == Len(Legs[trial])
<1>0. /\ trial' = trial /\ option' = option /\ trial \in DOMAIN Legs /\ option \in Options[trial]
      /\ all \in Nat /\ (trial = "ekf" => all = 2) /\ (trial = "latency" => all = LatencyRepeats)
      /\ leg \in 1 .. all + 1 /\ (step = "leg" => leg <= all) /\ all' = all
  BY CallStays, LegsAre DEF TrialsAt, call_vars
<1> DEFINE Goes(to, next) == /\ to \in {"agent", "sample", "handspin", "drive", "leg", "finally",
                                        "report", "gone"}
                             /\ next \in 1 .. all + 1
                             /\ to = "leg" => next <= all
                             /\ to = "handspin" => trial = "selftest"
                             /\ to = "finally" /\ trial = "ekf" => next <= 2
<1> SUFFICES Goes(step', leg')
  BY <1>0 DEF TrialsAt
<1>a. Goes(step, leg)
  BY DEF TrialsAt
<1> HIDE DEF all
<1>1. CASE OdomArrives \/ HearingChanges \/ UNCHANGED trial_vars
  <2>1. UNCHANGED <<step, leg>>
    BY <1>1 DEF OdomArrives, HearingChanges, trial_vars
  <2> QED BY <1>0, <1>a, <2>1
<1>2. CASE AgentLook \/ Sample
  <2>1. trial = "selftest" /\ leg' = leg /\ step' \in {"gone", "sample", "finally", "handspin", "drive"}
    BY <1>2 DEF AgentLook, Sample
  <2> QED BY <1>0, <2>1
<1>3. CASE HandSpin
  <2>1. trial = "selftest" /\ leg' = leg /\ step' = "finally"
    BY <1>a, <1>3 DEF HandSpin
  <2> QED BY <1>0, <2>1
<1>4. CASE LegBegins
  <2>1. leg' = leg /\ step' = "leg" /\ leg <= all
    BY <1>4 DEF LegBegins, all
  <2> QED BY <1>0, <2>1
<1>5. CASE LegGoesOn
  <2>1. leg' = leg /\ step' = step
    BY <1>5 DEF LegGoesOn
  <2> QED BY <1>a, <2>1
<1>6. CASE LegEnds
  <2>1. step = "leg" /\ trial # "ekf" /\ leg' = leg + 1 /\ step' \in {"finally", "drive"}
    BY <1>6 DEF LegEnds
  <2>2. leg + 1 \in 1 .. all + 1
    BY <1>0, <2>1
  <2> QED BY <2>1, <2>2
<1>7. CASE SequenceBegins \/ ScanGate \/ JudgeFilters \/ ReportLatency \/ TrialSignalled
  <2>1. leg' = leg /\ step' \in {"drive", "gone", "report"}
    BY <1>7 DEF SequenceBegins, ScanGate, JudgeFilters, ReportLatency, TrialSignalled
  <2> QED BY <1>0, <2>1
<1>8. CASE StartFilter
  <2>1. trial = "ekf" /\ leg <= 2 /\ leg' \in {leg, leg + 1} /\ step' \in {"agent", "drive"}
    BY <1>8 DEF StartFilter
  <2>2. leg' \in 1 .. all + 1
    BY <1>0, <2>1
  <2> QED BY <2>1, <2>2
<1>9. CASE Collect
  <2>1. trial = "ekf" /\ step = "leg" /\ leg' = leg /\ step' = "finally"
    BY <1>9 DEF Collect
  <2> QED BY <1>0, <2>1
<1>10. CASE Trial
  <2>1. trial = "latency" /\ leg <= LatencyRepeats /\ leg' = leg + 1 /\ step' \in {"report", "drive"}
    BY <1>10 DEF Trial
  <2>2. leg' \in 1 .. all + 1
    BY <1>0, <2>1
  <2> QED BY <2>1, <2>2
<1>11. CASE Finally
  <2>1. \/ trial = "ekf" /\ step = "finally" /\ step' = "agent" /\ leg' = leg + 1
        \/ step' = "gone" /\ leg' = leg
    BY <1>11 DEF Finally
  <2>2. leg' \in 1 .. all + 1
    BY <1>0, <1>a, <2>1
  <2> QED BY <2>1, <2>2
<1> QED BY <1>1, <1>2, <1>3, <1>4, <1>5, <1>6, <1>7, <1>8, <1>9, <1>10, <1>11 DEF TrialsNext

LEMMA TrialsCarStays == TrialsAt /\ TrialsCar /\ [TrialsNext]_trial_vars => TrialsCar'
<1> SUFFICES ASSUME TrialsAt, TrialsCar, [TrialsNext]_trial_vars
             PROVE  TrialsCar'
  OBVIOUS
<1> DEFINE Was == Motions \cup {"rest", Nothing}
<1>1. hears' \in BOOLEAN /\ encoders' \in BOOLEAN /\ motors' \in BOOLEAN
  BY CallStays DEF call_vars, TrialsCar, TrialsNext, OdomArrives, HearingChanges, AgentLook, Sample, HandSpin, LegBegins,
         LegGoesOn, LegEnds, SequenceBegins, StartFilter, Collect, JudgeFilters, ScanGate, Trial,
         ReportLatency, Finally, TrialSignalled, trial_vars
<1>2. \/ UNCHANGED <<wheels, obeyed>>
      \/ \E motion \in {"rest", "linear"} : Obeys(motion)
      \/ step \in {"drive", "leg"} /\ (step = "drive" => leg <= Len(Legs[trial])) /\ Obeys(Legs[trial][leg])
  BY DEF TrialsNext, OdomArrives, HearingChanges, AgentLook, Sample, HandSpin, LegBegins,
         LegGoesOn, LegEnds, SequenceBegins, StartFilter, Collect, JudgeFilters, ScanGate, Trial,
         ReportLatency, Finally, TrialSignalled, trial_vars, Commands
<1>3. wheels' \in Motions \cup {"rest"} /\ obeyed' \subseteq Motions
  <2>1. CASE UNCHANGED <<wheels, obeyed>>
    BY <2>1 DEF TrialsCar
  <2>2. CASE \E motion \in {"rest", "linear"} : Obeys(motion)
    BY <2>2 DEF TrialsCar, Obeys, Motions
  <2>3. CASE /\ step \in {"drive", "leg"} /\ (step = "drive" => leg <= Len(Legs[trial]))
             /\ Obeys(Legs[trial][leg])
    <3>1. leg \in 1 .. Len(Legs[trial])
      <4>1. Len(Legs[trial]) \in Nat /\ leg \in 1 .. Len(Legs[trial]) + 1 /\ leg <= Len(Legs[trial])
        BY <2>3, LegsAre DEF TrialsAt
      <4> QED BY <4>1
    <3>2. Legs[trial][leg] \in Motions
      BY <3>1, LegsAre DEF TrialsAt
    <3> QED BY <2>3, <3>2 DEF TrialsCar, Obeys
  <2> QED BY <1>2, <2>1, <2>2, <2>3
<1>4. last_odom' \in {last_odom, wheels, "rest"}
  BY DEF Reported, TrialsNext, OdomArrives, HearingChanges, AgentLook, Sample, HandSpin, LegBegins,
         LegGoesOn, LegEnds, SequenceBegins, StartFilter, Collect, JudgeFilters, ScanGate, Trial,
         ReportLatency, Finally, TrialSignalled, trial_vars
<1>5. peak' \subseteq peak \cup {last_odom}
  BY DEF TrialsNext, OdomArrives, HearingChanges, AgentLook, Sample, HandSpin, LegBegins,
         LegGoesOn, LegEnds, SequenceBegins, StartFilter, Collect, JudgeFilters, ScanGate, Trial,
         ReportLatency, Finally, TrialSignalled, trial_vars
<1>6. last_odom' \in Was /\ peak' \subseteq Was
  BY <1>4, <1>5 DEF TrialsCar
<1> QED BY <1>1, <1>3, <1>6 DEF TrialsCar

LEMMA TrialsSayStays == TrialsAt /\ TrialsSay /\ [TrialsNext]_trial_vars => TrialsSay'
<1> SUFFICES ASSUME TrialsAt, TrialsSay, [TrialsNext]_trial_vars
             PROVE  TrialsSay'
  OBVIOUS
<1> DEFINE Helper == {"bag", "imu", "filter", "laser"}
           Says == {"held", "worse", "inconclusive", "incomplete", Nothing}
<1>1. failed' \in BOOLEAN
  <2>1. failed' = failed \/ \E passes : Row(passes)
    BY DEF TrialsNext, OdomArrives, HearingChanges, AgentLook, Sample, HandSpin, LegBegins,
           LegGoesOn, LegEnds, SequenceBegins, StartFilter, Collect, JudgeFilters, ScanGate, Trial,
           ReportLatency, Finally, TrialSignalled, trial_vars, result_vars
  <2>2. ASSUME NEW passes, Row(passes)
        PROVE  failed' \in BOOLEAN
    BY <2>2 DEF Row
  <2> QED BY <2>1, <2>2 DEF TrialsSay
<1>2. fused' \in [1 .. 2 -> 0 .. 2 \cup {Nothing}]
  <2>1. fused' = fused \/ Collect
    BY DEF TrialsNext, OdomArrives, HearingChanges, AgentLook, Sample, HandSpin, LegBegins,
           LegGoesOn, LegEnds, SequenceBegins, StartFilter, JudgeFilters, ScanGate, Trial,
           ReportLatency, Finally, TrialSignalled, trial_vars, result_vars
  <2>2. CASE Collect
    <3>1. PICK moved \in (IF peak \cap Motions # {} THEN 0 .. 2 ELSE {0}) \cup {Nothing} :
            fused' = [fused EXCEPT ![leg] = moved]
      BY <2>2 DEF Collect
    <3>2. moved \in 0 .. 2 \cup {Nothing}
      BY <3>1
    <3> QED BY <3>1, <3>2 DEF TrialsSay
  <2> QED BY <2>1, <2>2 DEF TrialsSay
<1>3. ekf_verdict' \in Says
  <2>1. ekf_verdict' = ekf_verdict \/ ekf_verdict' = Judged(fused[1], fused[2])
    BY DEF TrialsNext, OdomArrives, HearingChanges, AgentLook, Sample, HandSpin, LegBegins,
           LegGoesOn, LegEnds, SequenceBegins, StartFilter, Collect, JudgeFilters, ScanGate, Trial,
           ReportLatency, Finally, TrialSignalled, trial_vars, result_vars
  <2>2. Judged(fused[1], fused[2]) \in Says
    BY DEF Judged
  <2> QED BY <2>1, <2>2 DEF TrialsSay
<1>4. helpers' \subseteq Helper
  <2>1. helpers' = helpers \/ helpers' \subseteq Helper
    BY DEF TrialsNext, OdomArrives, HearingChanges, AgentLook, Sample, HandSpin, LegBegins,
           LegGoesOn, LegEnds, SequenceBegins, StartFilter, Collect, JudgeFilters, ScanGate, Trial,
           ReportLatency, Finally, TrialSignalled, trial_vars
  <2> QED BY <2>1 DEF TrialsSay
<1>5. trial_code' \in {0, 1, 130}
  <2>1. trial_code' = trial_code \/ trial_code' \in {0, 1, 130}
    BY DEF TrialsNext, OdomArrives, HearingChanges, AgentLook, Sample, HandSpin, LegBegins,
           LegGoesOn, LegEnds, SequenceBegins, StartFilter, Collect, JudgeFilters, ScanGate, Trial,
           ReportLatency, Finally, TrialSignalled, trial_vars
  <2> QED BY <2>1 DEF TrialsSay
<1> QED BY <1>1, <1>2, <1>3, <1>4, <1>5 DEF TrialsSay

\* The bound reported is one of the brackets' upper ends.
LEMMA UpperIsThere ==
  ASSUME BracketsInv, brackets # <<>>, \A i \in DOMAIN brackets : brackets[i].says.hi <= PushTime
  PROVE  Upper \in 0 .. PushTime
<1> DEFINE n == Len(brackets)
           k == 1 + (95 * (n - 1) + 50) \div 100
           g == [i \in 1 .. n |-> brackets[i].says.hi]
<1>1. DOMAIN brackets = 1 .. n /\ n \in Nat \ {0}
  BY DEF BracketsInv
<1>2. \A i \in 1 .. n : brackets[i] \in BracketOf
  BY DEF BracketsInv
<1>3. \A i \in 1 .. n : brackets[i].says.hi \in 0 .. PushTime
  BY <1>1, <1>2, TrialsAssumption DEF BracketOf
<1>4. g \in [1 .. n -> Nat] /\ \A i \in 1 .. n : g[i] \in 0 .. PushTime
  BY <1>3, TrialsAssumption
<1>6. Len(g) = n
  BY <1>1
<1>8. Upper = ranked(g, k)
  BY <1>1, <1>6 DEF pct, Upper
<1> HIDE DEF g, n
<1>9. k \in 1 .. n
  BY <1>1
<1> HIDE DEF k
<1>10. \E i \in 1 .. n : ranked(g, k) = g[i]
  BY <1>1, <1>4, <1>9, RankedIsThere
<1> QED BY <1>4, <1>8, <1>10

LEMMA TrialsBracketsStay ==
  BracketsInv /\ TrialsBrackets /\ [TrialsNext]_trial_vars => TrialsBrackets'
<1> SUFFICES ASSUME BracketsInv, TrialsBrackets, [TrialsNext]_trial_vars
             PROVE  TrialsBrackets'
  OBVIOUS
<1> DEFINE Low(entries) == \A i \in DOMAIN entries : entries[i].says.hi <= PushTime
<1>0. /\ leg \in Nat /\ Len(brackets) <= LatencyRepeats
      /\ trial = "latency" => Len(brackets) < leg
      /\ Low(brackets) /\ bound \in 0 .. PushTime \cup {Nothing}
      /\ brackets \in Seq(BracketOf) /\ trial' = trial
  BY CallStays DEF TrialsBrackets, BracketsInv, call_vars
<1> HIDE DEF Low
<1> SUFFICES /\ leg' \in Nat /\ Len(brackets') <= LatencyRepeats
             /\ trial = "latency" => Len(brackets') < leg'
             /\ Low(brackets') /\ bound' \in 0 .. PushTime \cup {Nothing}
  BY <1>0 DEF TrialsBrackets, Low
<1>1. CASE Trial
  <2>1. PICK latency \in 0 .. MaxLatency, offset \in 0 .. OdomPeriod - 1 :
        \E heard \in IF hears THEN SUBSET Due(offset) ELSE {{}},
           rolls \in {FALSE, wheels # "rest"} :
          LET over == {t \in heard : Shows /\ (rolls \/ t >= latency)}
          IN brackets' = IF \A t \in over : t <= 0 THEN brackets
                         ELSE Append(brackets, [took |-> latency, rolled |-> rolls,
                                                says |-> Bracket(heard, over)])
    BY <1>1 DEF Trial
  <2>2. PICK heard \in IF hears THEN SUBSET Due(offset) ELSE {{}},
             rolls \in {FALSE, wheels # "rest"} :
          LET over == {t \in heard : Shows /\ (rolls \/ t >= latency)}
          IN brackets' = IF \A t \in over : t <= 0 THEN brackets
                         ELSE Append(brackets, [took |-> latency, rolled |-> rolls,
                                                says |-> Bracket(heard, over)])
    BY <2>1
  <2> DEFINE over == {t \in heard : Shows /\ (rolls \/ t >= latency)}
             new == [took |-> latency, rolled |-> rolls, says |-> Bracket(heard, over)]
  <2>3. brackets' = IF \A t \in over : t <= 0 THEN brackets ELSE Append(brackets, new)
    BY <2>2
  <2>4. /\ bound' = bound /\ leg' = leg + 1 /\ leg <= LatencyRepeats /\ trial = "latency"
        /\ LatencyRepeats \in Nat /\ Len(brackets) \in Nat
    BY <1>0, <1>1, TrialsAssumption DEF Trial
  <2>5. \A t \in heard : t \in Int /\ t <= PushTime
    BY TrialsAssumption DEF Due
  <2>6. CASE \A t \in over : t <= 0
    <3>1. brackets' = brackets
      BY <2>3, <2>6
    <3> QED BY <1>0, <2>4, <3>1
  <2>7. CASE ~ \A t \in over : t <= 0
    <3>1. over \subseteq heard /\ heard \subseteq Int /\ \E t \in over : t > 0
      BY <2>5, <2>7
    <3>2. new.says.hi \in over
      BY <3>1, BracketIs
    <3>3. new.says.hi <= PushTime
      BY <2>5, <3>1, <3>2
    <3> HIDE DEF new, over
    <3>4. brackets' = Append(brackets, new)
      BY <2>3, <2>7
    <3>5. Len(brackets') = Len(brackets) + 1
      BY <1>0, <3>4
    <3>6. Low(brackets')
      <4>1. ASSUME NEW i \in DOMAIN brackets'
            PROVE  brackets'[i].says.hi <= PushTime
        <5>1. \/ i \in DOMAIN brackets /\ brackets'[i] = brackets[i]
              \/ brackets'[i] = new
          BY <1>0, <3>4
        <5> QED BY <1>0, <3>3, <5>1 DEF Low
      <4> QED BY <4>1 DEF Low
    <3>7. leg + 1 \in Nat /\ Len(brackets) + 1 <= LatencyRepeats /\ Len(brackets) + 1 < leg + 1
      BY <1>0, <2>4
    <3> QED BY <1>0, <2>4, <3>5, <3>6, <3>7
  <2> QED BY <2>6, <2>7
<1>2. CASE ReportLatency
  <2>1. /\ UNCHANGED <<brackets, leg>> /\ bound' = IF brackets = <<>> THEN Nothing ELSE Upper
    BY <1>2 DEF ReportLatency
  <2>2. brackets # <<>> => Upper \in 0 .. PushTime
    BY <1>0, UpperIsThere DEF Low
  <2> QED BY <1>0, <2>1, <2>2
<1>3. CASE UNCHANGED <<brackets, bound>> /\ leg' \in {leg, leg + 1}
  <2>1. Len(brackets) \in Nat
    BY <1>0
  <2>2. leg' \in Nat /\ (trial = "latency" => Len(brackets) < leg')
    BY <1>0, <1>3, <2>1
  <2> QED BY <1>0, <1>3, <2>2
<1>4. ASSUME OdomArrives \/ HearingChanges \/ UNCHANGED trial_vars
      PROVE  UNCHANGED <<brackets, bound>> /\ leg' \in {leg, leg + 1}
  BY <1>4 DEF OdomArrives, HearingChanges, trial_vars, result_vars
<1>5. ASSUME AgentLook \/ Sample \/ HandSpin \/ LegBegins \/ LegGoesOn \/ LegEnds
             \/ SequenceBegins
      PROVE  UNCHANGED <<brackets, bound>> /\ leg' \in {leg, leg + 1}
  BY <1>5 DEF AgentLook, Sample, HandSpin, LegBegins, LegGoesOn, LegEnds, SequenceBegins,
              result_vars
<1>6. ASSUME StartFilter \/ Collect \/ JudgeFilters \/ ScanGate \/ Finally \/ TrialSignalled
      PROVE  UNCHANGED <<brackets, bound>> /\ leg' \in {leg, leg + 1}
  BY <1>6 DEF StartFilter, Collect, JudgeFilters, ScanGate, Finally, TrialSignalled, result_vars
<1> QED BY <1>1, <1>2, <1>3, <1>4, <1>5, <1>6 DEF TrialsNext

LEMMA TrialsTypes == BracketsInv /\ TrialsTyped /\ [TrialsNext]_trial_vars => TrialsTyped'
  BY TrialsAtStays, TrialsCarStays, TrialsSayStays, TrialsBracketsStay DEF TrialsTyped

LEMMA TrialsTypeStarts == TrialsInit => BracketsInv /\ TrialsTyped
<1> SUFFICES ASSUME TrialsInit PROVE BracketsInv /\ TrialsTyped
  OBVIOUS
<1>1. BracketsInv
  BY DEF TrialsInit, BracketsInv
<1>2. TrialsAt
  <2>1. trial \in DOMAIN Legs /\ option \in Options[trial] /\ step = "agent" /\ leg = 1
    BY DEF TrialsInit
  <2>2. 1 \in 1 .. Len(Legs[trial]) + 1
    BY <2>1, LegsAre
  <2> QED BY <2>1, <2>2 DEF TrialsAt
<1>3. TrialsCar
  BY DEF TrialsInit, TrialsCar
<1>4. TrialsSay
  BY DEF TrialsInit, TrialsSay
<1>5. TrialsBrackets
  BY TrialsAssumption DEF TrialsInit, TrialsBrackets
<1> QED BY <1>1, <1>2, <1>3, <1>4, <1>5 DEF TrialsTyped

LEMMA TrialsTypeFollows == TrialsTyped => TrialsTypeOK
  BY DEF TrialsTyped, TrialsAt, TrialsCar, TrialsSay, TrialsBrackets, TrialsTypeOK
-----------------------------------------------------------------------------
(* The checks of odometry.                                                 *)

ChecksAt == /\ backend \in {"2D", "slipping", "collision"}
            /\ odom_source \in {"wheels", "unsigned", "truth"}
            /\ odom_pc \in {"reverse", "await", "slip", "compare", "end", "gone"}
            /\ talking \subseteq Spoken
            /\ odom_code \in {0, 1}
ChecksFlags == {truth_fell_silent, odom_fails, unproven} \subseteq BOOLEAN

\* Neither wheels nor body get further than they were driven.
ChecksPlaces == /\ drove \in 0 .. SlipSteps
                /\ wheel_at \in 0 .. drove /\ body_at \in 0 .. drove
                /\ {odom_last, truth_last, odom_from, truth_from} \subseteq Places

ChecksTyped == ChecksAt /\ ChecksFlags /\ ChecksPlaces

LEMMA ChecksAtStays == ChecksAt /\ [ChecksNext]_check_vars => ChecksAt'
<1> SUFFICES ASSUME ChecksAt, [ChecksNext]_check_vars
             PROVE  ChecksAt'
  OBVIOUS
<1>1. UNCHANGED <<backend, odom_source>>
  BY DEF ChecksNext, TopicChanges, ReverseDrive, AwaitBoth, SlipDrive, Settle, Compare, SaysOdometry,
         check_vars
<1>2. odom_pc' \in {odom_pc, "await", "slip", "compare", "end", "gone"}
  BY DEF ChecksNext, TopicChanges, ReverseDrive, AwaitBoth, SlipDrive, Settle, Compare, SaysOdometry,
         check_vars
<1>3. odom_code' \in {odom_code, 0, 1}
  BY DEF ChecksNext, TopicChanges, ReverseDrive, AwaitBoth, SlipDrive, Settle, Compare, SaysOdometry,
         check_vars
<1>4. talking' \subseteq talking \cup Spoken
  BY DEF ChecksNext, TopicChanges, ReverseDrive, AwaitBoth, SlipDrive, Settle, Compare, SaysOdometry,
         check_vars
<1> QED BY <1>1, <1>2, <1>3, <1>4 DEF ChecksAt

LEMMA ChecksFlagsStay == ChecksFlags /\ [ChecksNext]_check_vars => ChecksFlags'
  BY DEF ChecksFlags, ChecksNext, TopicChanges, ReverseDrive, AwaitBoth, SlipDrive, Settle, Compare,
         SaysOdometry, check_vars, OdomFails

LEMMA ChecksPlacesStay == ChecksAt /\ ChecksPlaces /\ [ChecksNext]_check_vars => ChecksPlaces'
<1> SUFFICES ASSUME ChecksAt, ChecksPlaces, [ChecksNext]_check_vars
             PROVE  ChecksPlaces'
  OBVIOUS
<1>0. /\ SlipSteps \in Nat /\ drove \in 0 .. SlipSteps
      /\ wheel_at \in 0 .. drove /\ body_at \in 0 .. drove
      /\ odom_last \in Places /\ truth_last \in Places
      /\ odom_from \in Places /\ truth_from \in Places
  BY ChecksAssumption DEF ChecksPlaces
<1>1. \A far \in 0 .. SlipSteps : \A at \in 0 .. far : at \in Places
  BY <1>0 DEF Places, Unheard
<1>2. CASE AwaitBoth \/ Settle
  <2>1. UNCHANGED <<drove, wheel_at, body_at>>
    BY <1>2 DEF AwaitBoth, Settle
  <2>2. odom_last' \in {odom_last, body_at, wheel_at} /\ truth_last' \in {truth_last, body_at}
    BY <1>2, <2>1, HearTells DEF AwaitBoth, Settle
  <2>3. odom_from' \in {odom_from, odom_last'} /\ truth_from' \in {truth_from, truth_last'}
    BY <1>2 DEF AwaitBoth, Settle
  <2>4. odom_last' \in Places /\ truth_last' \in Places
    BY <1>0, <1>1, <2>2
  <2>5. odom_from' \in Places /\ truth_from' \in Places
    BY <1>0, <2>3, <2>4
  <2> QED BY <1>0, <2>1, <2>4, <2>5 DEF ChecksPlaces
<1>3. CASE SlipDrive
  <2>1. drove' = drove + 1 /\ drove < SlipSteps /\ UNCHANGED <<odom_from, truth_from>>
    BY <1>3 DEF SlipDrive
  <2>2. drove' \in 0 .. SlipSteps
    BY <1>0, <2>1
  <2>3. wheel_at' \in {wheel_at, wheel_at + 1}
    BY <1>3 DEF SlipDrive
  <2>4. wheel_at' \in 0 .. drove'
    BY <1>0, <2>1, <2>3
  <2>5. body_at' \in {body_at, body_at + 1, drove' \div 2}
    BY <1>3 DEF SlipDrive, BodyMoves, ChecksAt
  <2>6. drove' \div 2 \in 0 .. drove'
    BY <1>0, <2>1
  <2>7. body_at' \in 0 .. drove'
    BY <1>0, <2>1, <2>5, <2>6
  <2>8. odom_last' \in {odom_last, body_at', wheel_at'} /\ truth_last' \in {truth_last, body_at'}
    BY <1>3, HearTells DEF SlipDrive
  <2>9. odom_last' \in Places /\ truth_last' \in Places
    BY <1>0, <1>1, <2>2, <2>4, <2>7, <2>8
  <2> QED BY <1>0, <2>1, <2>2, <2>4, <2>7, <2>9 DEF ChecksPlaces
<1>4. CASE UNCHANGED place_vars
  BY <1>4 DEF ChecksPlaces, place_vars
<1>5. ASSUME ~(AwaitBoth \/ Settle \/ SlipDrive)
      PROVE  UNCHANGED place_vars
  BY <1>5 DEF ChecksNext, TopicChanges, ReverseDrive, Compare, SaysOdometry, check_vars
<1> QED BY <1>2, <1>3, <1>4, <1>5

LEMMA ChecksTypes == ChecksTyped /\ [ChecksNext]_check_vars => ChecksTyped'
  BY ChecksAtStays, ChecksFlagsStay, ChecksPlacesStay DEF ChecksTyped

LEMMA ChecksTypeStarts == ChecksInit => ChecksTyped
<1> SUFFICES ASSUME ChecksInit PROVE ChecksTyped
  OBVIOUS
<1>1. ChecksAt /\ ChecksFlags
  BY DEF ChecksInit, ChecksAt, ChecksFlags
<1>2. ChecksPlaces
  <2>1. 0 \in 0 .. SlipSteps /\ 0 \in 0 .. 0 /\ Unheard \in Places
    BY ChecksAssumption DEF Places, Unheard
  <2> QED BY <2>1 DEF ChecksInit, ChecksPlaces
<1> QED BY <1>1, <1>2 DEF ChecksTyped

LEMMA ChecksTypeFollows == ChecksTyped => ChecksTypeOK
<1> SUFFICES ASSUME ChecksTyped PROVE ChecksTypeOK
  OBVIOUS
<1>1. {drove, wheel_at, body_at} \subseteq 0 .. SlipSteps
  BY ChecksAssumption DEF ChecksTyped, ChecksPlaces
<1> QED BY <1>1 DEF ChecksTyped, ChecksAt, ChecksFlags, ChecksPlaces, ChecksTypeOK
-----------------------------------------------------------------------------
(* The verdict on the twin.                                                *)

\* No more messages than moments, and no frame begins after the end.
TwinTyped == /\ twin_mode \in {"fixture", "live", "no_tf", "drop_test"}
             /\ twin_pc \in {"setup", "sample", "judge", "gone"} /\ twin_code \in {0, 1, 2}
             /\ clock \in 0 .. Duration + FrameMax
             /\ latched.stamp \in 0 .. clock
             /\ latched.place \in 0 .. 6 /\ chassis \in 0 .. 6 /\ samples \subseteq 0 .. 6
             /\ stamps \in 0 .. clock /\ stamps <= Duration
             /\ last_at \in 0 .. clock /\ worst_gap \in 0 .. clock
             /\ dropped \in BOOLEAN

LEMMA FixtureIsSomewhere ==
  ASSUME NEW m \in Nat \ {0}, m <= 5 * Hold
  PROVE  FixtureAt(m) \in 0 .. 6
<1>1. Hold \in Nat \ {0}
  BY TwinAssumption
<1> DEFINE q == (m - 1) \div Hold
<1>2. q \in Int /\ q * Hold <= m - 1
  BY <1>1
<1>3. FixtureAt(m) \in Nat \ {0} /\ FixtureAt(m) = 1 + q
  BY FixtureOnWay DEF FixtureAt
<1> HIDE DEF q
<1>4. q < 5
  <2> SUFFICES ASSUME q >= 5 PROVE FALSE
    BY <1>2
  <2>1. q * Hold >= 5 * Hold
    BY <1>1, <1>2
  <2>2. q * Hold \in Int /\ 5 * Hold \in Int
    BY <1>1, <1>2
  <2> QED BY <1>2, <2>1, <2>2
<1> QED BY <1>2, <1>3, <1>4

LEMMA TwinFrameTyped == TwinTyped /\ Frame => TwinTyped'
<1> SUFFICES ASSUME TwinTyped, Frame
             PROVE  TwinTyped'
  OBVIOUS
<1>1. PICK took \in 1 .. FrameMax :
        LET takes == latched'.stamp > 0 /\ ~Suspended
            new   == takes /\ latched'.stamp # latched.stamp
            after == IF takes THEN latched'.place ELSE chassis
            drops == twin_mode = "drop_test" /\ ~dropped /\ clock' > DropAfter
        IN /\ clock' = clock + took
           /\ latched' \in Arrived(clock, clock')
           /\ stamps'    = IF new THEN stamps + 1 ELSE stamps
           /\ worst_gap' = IF new /\ stamps > 0 /\ clock' - last_at > worst_gap
                           THEN clock' - last_at ELSE worst_gap
           /\ last_at'   = IF new THEN clock' ELSE last_at
           /\ samples'   = samples \cup {after}
           /\ chassis'   = IF drops THEN Fallen ELSE after
           /\ dropped'   = (dropped \/ drops)
  BY DEF Frame
<1>2. /\ stamps' \in {stamps, stamps + 1}
      /\ worst_gap' \in {worst_gap, clock' - last_at}
      /\ last_at' \in {last_at, clock'}
      /\ samples' \subseteq samples \cup {latched'.place, chassis}
      /\ chassis' \in {Fallen, latched'.place, chassis}
  BY <1>1
<1>3. dropped' \in BOOLEAN
  BY <1>1
<1>4. /\ clock \in Nat /\ clock < Duration /\ clock' = clock + took /\ took \in 1 .. FrameMax
      /\ Duration \in Nat /\ FrameMax \in Nat
      /\ stamps \in 0 .. clock /\ last_at \in 0 .. clock /\ worst_gap \in 0 .. clock
      /\ latched.stamp \in 0 .. clock
  <2>1. Duration \in Nat /\ FrameMax \in Nat
    BY TwinAssumption DEF Duration, Aftermath
  <2>2. clock < Duration /\ clock' = clock + took
    BY <1>1 DEF Frame
  <2> QED BY <2>1, <2>2 DEF TwinTyped
<1>5. clock' \in 0 .. Duration + FrameMax /\ clock' \in Nat /\ clock + 1 <= clock'
  BY <1>4
<1>6. stamps' \in 0 .. clock' /\ stamps' <= Duration
  BY <1>2, <1>4, <1>5
<1>7. last_at' \in 0 .. clock' /\ worst_gap' \in 0 .. clock'
  BY <1>2, <1>4, <1>5
<1>8. latched'.stamp \in 0 .. clock' /\ latched'.place \in 0 .. 6
  <2>0. latched' \in Arrived(clock, clock')
    BY <1>1
  <2>1. CASE latched' = latched
    BY <1>4, <1>5, <2>1 DEF TwinTyped
  <2>2. CASE twin_mode = "live" /\ latched' # latched
    <3>1. PICK m \in clock + 1 .. clock', p \in {Origin, Other} : latched' = [stamp |-> m, place |-> p]
      BY <2>0, <2>2 DEF Arrived
    <3> QED BY <1>4, <1>5, <3>1 DEF Origin, Other
  <2>3. CASE twin_mode \in {"fixture", "drop_test"} /\ latched' # latched
    <3>1. Arrived(clock, clock') = {latched} \cup
             {[stamp |-> m, place |-> FixtureAt(m)] : m \in {n \in clock + 1 .. clock' : n <= 5 * Hold}}
      BY <2>3 DEF Arrived
    <3>2. PICK m \in clock + 1 .. clock' : m <= 5 * Hold /\ latched' = [stamp |-> m, place |-> FixtureAt(m)]
      BY <2>0, <2>3, <3>1
    <3>3. m \in Nat \ {0} /\ m \in 0 .. clock' /\ latched'.stamp = m /\ latched'.place = FixtureAt(m)
      BY <1>4, <1>5, <3>2
    <3>4. FixtureAt(m) \in 0 .. 6
      BY <3>2, <3>3, FixtureIsSomewhere
    <3> QED BY <3>3, <3>4
  <2>4. CASE twin_mode = "no_tf"
    <3>1. latched' = latched
      BY <2>0, <2>4 DEF Arrived
    <3> QED BY <2>1, <3>1
  <2> QED BY <2>1, <2>2, <2>3, <2>4 DEF TwinTyped
<1>9. chassis' \in 0 .. 6 /\ samples' \subseteq 0 .. 6
  BY <1>2, <1>8 DEF TwinTyped, Fallen
<1>10. UNCHANGED <<twin_mode, twin_pc, twin_code>>
  BY DEF Frame
<1> QED BY <1>3, <1>5, <1>6, <1>7, <1>8, <1>9, <1>10 DEF TwinTyped

LEMMA TwinTypes == TwinTyped /\ [TwinNext]_twin_vars => TwinTyped'
<1> SUFFICES ASSUME TwinTyped, [TwinNext]_twin_vars
             PROVE  TwinTyped'
  OBVIOUS
<1>1. ASSUME Setup \/ SamplingEnds \/ JudgeTwin \/ UNCHANGED twin_vars
      PROVE  /\ UNCHANGED <<twin_mode, clock, latched, chassis, samples, stamps, last_at, worst_gap,
                            dropped>>
             /\ twin_pc' \in {twin_pc, "sample", "judge", "gone"} /\ twin_code' \in {twin_code, 0, 1, 2}
  BY <1>1 DEF Setup, SamplingEnds, JudgeTwin, twin_vars
<1>2. CASE Setup \/ SamplingEnds \/ JudgeTwin \/ UNCHANGED twin_vars
  BY <1>1, <1>2 DEF TwinTyped
<1>3. CASE Frame
  BY <1>3, TwinFrameTyped
<1> QED BY <1>2, <1>3 DEF TwinNext

LEMMA TwinTypeStarts == TwinInit => TwinTyped
<1> SUFFICES ASSUME TwinInit PROVE TwinTyped
  OBVIOUS
<1>1. 0 \in 0 .. Duration + FrameMax /\ 0 \in 0 .. 0 /\ 0 <= Duration /\ Origin \in 0 .. 6
  BY TwinAssumption DEF Duration, Aftermath, Origin
<1>2. latched.stamp = 0 /\ latched.place = Origin
  BY DEF TwinInit, NoMessage
<1> QED BY <1>1, <1>2 DEF TwinInit, TwinTyped

LEMMA TwinTypeFollows == TwinTyped => TwinTypeOK
<1> SUFFICES ASSUME TwinTyped PROVE TwinTypeOK
  OBVIOUS
<1>1. /\ Duration \in Nat /\ FrameMax \in Nat /\ clock \in 0 .. Duration + FrameMax
      /\ latched.stamp \in 0 .. clock /\ last_at \in 0 .. clock /\ worst_gap \in 0 .. clock
      /\ stamps \in 0 .. clock /\ stamps <= Duration
  BY TwinAssumption DEF TwinTyped, Duration, Aftermath
<1>2. \A n : n \in 0 .. clock => n \in 0 .. Duration + FrameMax
  BY <1>1
<1>3. stamps \in 0 .. Duration + 1
  BY <1>1
<1> QED BY <1>1, <1>2, <1>3 DEF TwinTyped, TwinTypeOK
-----------------------------------------------------------------------------
(* The gate and the suite.                                                 *)

GateTyped == /\ gate_pc \in {"listen", "gone"} /\ gate_code \in {0, 1}
             /\ static_known \in BOOLEAN
             /\ oldest \in Stamps /\ newest \in Stamps /\ scanned \in Stamps
             /\ Len(looked_up) <= scanned

LEMMA GateTypes == GateInv /\ GateTyped /\ [GateNext]_gate_vars => GateTyped'
<1> SUFFICES ASSUME GateInv, GateTyped, [GateNext]_gate_vars
             PROVE  GateTyped'
  OBVIOUS
<1>1. CASE StaticArrives
  BY <1>1 DEF GateTyped, StaticArrives
<1>2. CASE TransformArrives
  BY <1>2 DEF GateTyped, TransformArrives
<1>3. CASE on_scan
  <2>1. scanned' \in Stamps
    BY <1>3, GateAssumption DEF GateTyped, on_scan, Stamps
  <2>2. looked_up \in Seq(Scan) /\ scanned \in Nat /\ Len(looked_up) <= scanned
    BY DEF GateInv, GateTyped
  <2>3. looked_up' = looked_up \/ \E new : looked_up' = Append(looked_up, new)
    BY <1>3 DEF on_scan
  <2>4. Len(looked_up') \in {Len(looked_up), Len(looked_up) + 1}
    BY <2>2, <2>3
  <2>5. Len(looked_up') <= scanned'
    BY <1>3, <2>2, <2>4 DEF on_scan
  <2> QED BY <1>3, <2>1, <2>5 DEF GateTyped, on_scan
<1>4. CASE Evaluate
  BY <1>4 DEF GateTyped, Evaluate
<1>5. CASE UNCHANGED gate_vars
  BY <1>5 DEF GateTyped, gate_vars
<1> QED BY <1>1, <1>2, <1>3, <1>4, <1>5 DEF GateNext

LEMMA GateTypeStarts == GateInit => GateTyped
<1>1. 0 \in Stamps /\ Len(<<>>) <= 0
  BY GateAssumption DEF Stamps
<1> QED BY <1>1 DEF GateInit, GateTyped

LEMMA GateTypeFollows == GateInv /\ GateTyped => GateTypeOK
<1> SUFFICES ASSUME GateInv, GateTyped PROVE GateTypeOK
  OBVIOUS
<1>1. Len(looked_up) <= WindowLength
  <2>1. Len(looked_up) \in Nat /\ scanned \in 0 .. WindowLength /\ Len(looked_up) <= scanned
    BY DEF GateInv, GateTyped, Stamps
  <2> QED BY <2>1, GateAssumption
<1> QED BY <1>1 DEF GateTyped, GateTypeOK

Names == {"drive-straight", "rotate", "obstacle-stop", "umbmark"}

SuiteTyped == /\ suite_pc \in {"start", "tests", "loop", "gone"}
              /\ todo \in Seq(Names) /\ Len(todo) <= 4
              /\ suite_pc = "loop" => todo # <<>>
              /\ loop_step \in 0 .. LoopSteps
              /\ contact \subseteq Names
              /\ able \in BOOLEAN /\ rolled_far \in BOOLEAN /\ all_ok \in BOOLEAN
              /\ suite_code \in {0, 1}

LEMMA SuiteTypes == SuiteTyped /\ [SuiteNext]_suite_vars => SuiteTyped'
<1> SUFFICES ASSUME SuiteTyped, [SuiteNext]_suite_vars
             PROVE  SuiteTyped'
  OBVIOUS
<1>0. ASSUME NEW ok \in BOOLEAN, TestEnds(ok), todo # <<>>
      PROVE  /\ suite_pc' = "tests" /\ all_ok' \in BOOLEAN
             /\ todo' \in Seq(Names) /\ Len(todo') <= 4
  <2>1. Tail(todo) \in Seq(Names) /\ Len(Tail(todo)) <= 4
    BY <1>0 DEF SuiteTyped
  <2> QED BY <1>0, <2>1 DEF TestEnds, SuiteTyped
<1>a. ASSUME NEW cells, Moves(cells), todo # <<>>
      PROVE  contact' \subseteq Names
  <2>1. Head(todo) \in Names
    BY <1>a DEF SuiteTyped
  <2>2. contact' \subseteq contact \cup {Head(todo)}
    BY <1>a DEF Moves
  <2> QED BY <2>1, <2>2 DEF SuiteTyped
<1>1. CASE SceneUp
  BY <1>1 DEF SuiteTyped, SceneUp
<1>2. CASE t_drive_straight
  <2>1. PICK cells \in Travels, straight \in BOOLEAN :
          Moves(cells) /\ TestEnds(2 * facing * (place' - place) > Leg /\ straight)
    BY <1>2 DEF t_drive_straight
  <2>2. \E ok \in BOOLEAN : TestEnds(ok)
    <3>1. (2 * facing * (place' - place) > Leg /\ straight) \in BOOLEAN
      OBVIOUS
    <3> QED BY <2>1, <3>1
  <2>3. todo # <<>> /\ UNCHANGED <<able, loop_step, rolled_far, suite_code>>
    BY <1>2 DEF t_drive_straight, Begins
  <2>4. contact' \subseteq Names
    BY <1>a, <2>1, <2>3
  <2> QED BY <1>0, <2>2, <2>3, <2>4 DEF SuiteTyped
<1>3. CASE t_rotate
  BY <1>0, <1>3 DEF SuiteTyped, t_rotate, Begins
<1>4. CASE ObstacleStop
  BY <1>4, SuiteAssumption DEF SuiteTyped, ObstacleStop, Begins
<1>5. CASE ApproachStep
  <2>1. loop_step' \in 0 .. LoopSteps
    BY <1>5, SuiteAssumption DEF SuiteTyped, ApproachStep
  <2>2. Moves(1) /\ todo # <<>>
    BY <1>5 DEF SuiteTyped, ApproachStep
  <2>3. contact' \subseteq Names
    BY <1>a, <2>2
  <2> QED BY <1>5, <2>1, <2>3 DEF SuiteTyped, ApproachStep
<1>6. CASE ApproachEnds
  <2>1. PICK cells \in Coasts : Moves(cells) /\ rolled_far' = (rolled_far \/ cells >= StopCells)
    BY <1>6 DEF ApproachEnds
  <2>2. \E ok \in BOOLEAN : TestEnds(ok)
    <3>1. (Throttled /\ loop_step < LoopSteps /\ ArenaHalf - place' > 0) \in BOOLEAN
      OBVIOUS
    <3> QED BY <1>6, <3>1 DEF ApproachEnds
  <2>3. todo # <<>> /\ UNCHANGED <<able, loop_step, suite_code>>
    BY <1>6 DEF SuiteTyped, ApproachEnds
  <2>4. contact' \subseteq Names
    BY <1>a, <2>1, <2>3
  <2>5. rolled_far' \in BOOLEAN
    BY <2>1
  <2> QED BY <1>0, <2>2, <2>3, <2>4, <2>5 DEF SuiteTyped
<1>7. CASE t_umbmark
  <2>1. \E ok \in BOOLEAN : TestEnds(ok)
    BY <1>7 DEF t_umbmark
  <2>2. todo # <<>> /\ UNCHANGED <<able, loop_step, rolled_far, suite_code>>
    BY <1>7 DEF t_umbmark, Begins
  <2>3. contact' \subseteq contact \cup {"umbmark"}
    BY <1>7 DEF t_umbmark
  <2>4. contact' \subseteq Names
    BY <2>3 DEF SuiteTyped, Names
  <2> QED BY <1>0, <2>1, <2>2, <2>4 DEF SuiteTyped
<1>8. CASE Throws
  BY <1>0, <1>8 DEF SuiteTyped, Throws
<1>9. CASE SuiteEnds
  BY <1>9 DEF SuiteTyped, SuiteEnds
<1>10. CASE UNCHANGED suite_vars
  BY <1>10 DEF SuiteTyped, suite_vars
<1> QED BY <1>1, <1>2, <1>3, <1>4, <1>5, <1>6, <1>7, <1>8, <1>9, <1>10 DEF SuiteNext

LEMMA SuiteTypeStarts == SuiteInit => SuiteTyped
<1> SUFFICES ASSUME SuiteInit PROVE SuiteTyped
  OBVIOUS
<1>1. todo \in Seq(Names) /\ Len(todo) <= 4
  <2>1. TESTS \in Seq(Names) /\ Len(TESTS) = 4 /\ DOMAIN TESTS = 1 .. 4
    BY DEF TESTS, Names
  <2>2. SubSeq(TESTS, 1, 3) \in Seq(Names) /\ Len(SubSeq(TESTS, 1, 3)) = 3
    <3> DEFINE demo == [i \in 1 .. 3 |-> TESTS[i]]
    <3>1. SubSeq(TESTS, 1, 3) = demo
      OBVIOUS
    <3>2. \A i \in 1 .. 3 : TESTS[i] \in Names
      BY <2>1
    <3> HIDE DEF TESTS, Names
    <3>3. demo \in Seq(Names) /\ Len(demo) = 3
      BY <3>2
    <3> QED BY <3>1, <3>3
  <2>3. \A i \in 1 .. 4 : <<TESTS[i]>> \in Seq(Names) /\ Len(<<TESTS[i]>>) = 1
    <3>1. \A i \in 1 .. 4 : TESTS[i] \in Names
      BY <2>1
    <3> HIDE DEF TESTS, Names
    <3> QED BY <3>1
  <2>4. todo \in {TESTS, SubSeq(TESTS, 1, 3)} \/ \E i \in 1 .. 4 : todo = <<TESTS[i]>>
    BY <2>1 DEF SuiteInit, Suites, Demo
  <2> QED
    <3>1. CASE todo = TESTS
      <4>1. todo \in Seq(Names) /\ Len(todo) = 4
        BY <2>1, <3>1, Zenon
      <4> QED BY <4>1
    <3>2. CASE todo = SubSeq(TESTS, 1, 3)
      <4>1. todo \in Seq(Names) /\ Len(todo) = 3
        BY <2>2, <3>2, Zenon
      <4> QED BY <4>1
    <3>3. CASE \E i \in 1 .. 4 : todo = <<TESTS[i]>>
      BY <2>3, <3>3
    <3> QED BY <2>4, <3>1, <3>2, <3>3
<1>2. loop_step \in 0 .. LoopSteps
  BY SuiteAssumption DEF SuiteInit
<1> QED BY <1>1, <1>2 DEF SuiteInit, SuiteTyped

LEMMA SuiteTypeFollows == SuiteInv /\ SuiteTyped => SuiteTypeOK
<1> SUFFICES ASSUME SuiteInv, SuiteTyped PROVE SuiteTypeOK
  OBVIOUS
<1>1. place \in Free /\ facing \in {-1, 0, 1}
  BY SuiteAssumption DEF SuiteInv, Free
<1>2. Len(TESTS) = 4
  BY DEF TESTS
<1>3. Range(TESTS) = Names
  BY DEF TESTS, Names, Range
<1> QED BY <1>1, <1>2, <1>3 DEF SuiteTyped, SuiteTypeOK
-----------------------------------------------------------------------------
(* The board and the alarm.                                                *)

BoardTyped == /\ BoardTypeOK
              /\ board_pc = "begin" => written = 0 /\ attempt = 0
              /\ board_pc = "write" => written < 4
              /\ board_pc = "pulse" => attempt < MaxAttempts

LEMMA BoardTypes == BoardTyped /\ [BoardNext]_board_vars => BoardTyped'
<1> SUFFICES ASSUME BoardTyped, [BoardNext]_board_vars
             PROVE  BoardTyped'
  OBVIOUS
<1> USE BoardAssumption DEF BoardTyped, BoardTypeOK, Leaves
<1>1. CASE BoardBegins
  BY <1>1 DEF BoardBegins
<1>2. CASE Write
  <2>1. stored' \in [Fields -> {"before", "asked"}]
    BY <1>2 DEF Write
  <2>2. /\ board_pc = "write" /\ written' = written + 1
        /\ board_pc' = IF written' = 4 THEN "read" ELSE "write"
        /\ UNCHANGED <<board_call, attempt, gyro, heard_gyro, board_code>>
    BY <1>2 DEF Write
  <2> QED BY <2>1, <2>2
<1>3. CASE read_config
  BY <1>3 DEF read_config
<1>4. CASE pulse_reset
  BY <1>4 DEF pulse_reset
<1>5. CASE Verified
  BY <1>5 DEF Verified, gyro_state
<1>6. CASE BoardToolKilled
  BY <1>6 DEF BoardToolKilled
<1>7. CASE UNCHANGED board_vars
  BY <1>7 DEF board_vars
<1> QED BY <1>1, <1>2, <1>3, <1>4, <1>5, <1>6, <1>7 DEF BoardNext

LEMMA BoardTypeStarts == BoardInit => BoardTyped
  BY BoardAssumption DEF BoardInit, BoardTyped, BoardTypeOK

LEMMA AlarmTypes == AlarmTypeOK /\ [AlarmNext]_alarm_vars => AlarmTypeOK'
<1> SUFFICES ASSUME AlarmTypeOK, [AlarmNext]_alarm_vars
             PROVE  AlarmTypeOK'
  OBVIOUS
<1> USE DEF AlarmTypeOK
<1>1. CASE PublisherChanges \/ UNCHANGED alarm_vars
  BY <1>1 DEF PublisherChanges, alarm_vars
<1>2. CASE _check_bypass
  BY <1>2 DEF _check_bypass, _cmd_vel_publishers, bypassing_nodes, NewlyWarned
<1> QED BY <1>1, <1>2 DEF AlarmNext

LEMMA AlarmTypeStarts == AlarmInit => AlarmTypeOK
  BY DEF AlarmInit, AlarmTypeOK
-----------------------------------------------------------------------------
(* All of them.  A behaviour of the operator's tools is one of each tool,  *)
(* which the others leave alone.                                           *)

LEMMA PartsBehave ==
  Spec => /\ SessionSpec /\ BrakingSpec /\ BenchSpec /\ NavSpec /\ TrialsSpec
          /\ ChecksSpec /\ TwinSpec /\ GateSpec /\ SuiteSpec /\ BoardSpec /\ AlarmSpec
<1>0. Init => /\ SessionInit /\ BrakingInit /\ BenchInit /\ NavInit /\ TrialsInit
              /\ ChecksInit /\ TwinInit /\ GateInit /\ SuiteInit /\ BoardInit /\ AlarmInit
  BY DEF Init
<1>1. [Next]_vars => [SessionNext]_session_vars
  BY DEF Next, vars
<1>2. [Next]_vars => [BrakingNext]_braking_vars
  BY DEF Next, vars
<1>3. [Next]_vars => [BenchNext]_bench_vars
  BY DEF Next, vars
<1>4. [Next]_vars => [NavNext]_nav_vars
  BY DEF Next, vars
<1>5. [Next]_vars => [TrialsNext]_trial_vars
  BY DEF Next, vars
<1>6. [Next]_vars => [ChecksNext]_check_vars
  BY DEF Next, vars
<1>7. [Next]_vars => [TwinNext]_twin_vars
  BY DEF Next, vars
<1>8. [Next]_vars => [SuiteNext]_suite_vars
  BY DEF Next, vars
<1>9. [Next]_vars => [BoardNext]_board_vars
  BY DEF Next, vars
<1>10. [Next]_vars => [AlarmNext]_alarm_vars
  BY DEF Next, vars
<1>11. [Next]_vars => [GateNext]_gate_vars
  BY DEF Next, vars
<1> QED BY <1>0, <1>1, <1>2, <1>3, <1>4, <1>5, <1>6, <1>7, <1>8, <1>9, <1>10, <1>11, PTL
        DEF Spec, SessionSpec, BrakingSpec, BenchSpec, NavSpec, TrialsSpec,
            ChecksSpec, TwinSpec, GateSpec, SuiteSpec, BoardSpec, AlarmSpec

(* What an operator starts beside the robot never holds anything but what  *)
(* it should: stores of whole calibrations, one of the verdicts there are, *)
(* counters within their bounds, whatever is started and killed meanwhile. *)
THEOREM OperatorTypeCorrect == Spec => []OperatorTypeOK
<1>1. SessionInv => SessionTypeOK
  BY DEF SessionInv, FilesInv
<1>2. SessionSpec => []SessionTypeOK
  BY <1>1, SessionStarts, SessionInductive, PTL DEF SessionSpec
<1>3. BrakingSpec => []BrakingTypeOK
  BY BrakingTypeStarts, StoresInductive, GivenInductive, PointsMeasured, BrakingTypeFollows, PTL
     DEF BrakingSpec
<1>4. BenchSpec => []BenchTypeOK
  BY BenchTypeStarts, BenchTypes, BenchTypeFollows, PTL DEF BenchSpec
<1>5. NavSpec => []NavTypeOK
  BY NavTypeStarts, NavTypes, NavTypeFollows, PTL DEF NavSpec
<1>6. TrialsSpec => []TrialsTypeOK
  BY TrialsTypeStarts, BracketsInductive, TrialsTypes, TrialsTypeFollows, PTL DEF TrialsSpec
<1>7. ChecksSpec => []ChecksTypeOK
  BY ChecksTypeStarts, ChecksTypes, ChecksTypeFollows, PTL DEF ChecksSpec
<1>8. TwinSpec => []TwinTypeOK
  BY TwinTypeStarts, TwinTypes, TwinTypeFollows, PTL DEF TwinSpec
<1>9. GateSpec => []GateTypeOK
  BY GateStarts, GateTypeStarts, GateInductive, GateTypes, GateTypeFollows, PTL DEF GateSpec
<1>10. SuiteSpec => []SuiteTypeOK
  BY SuiteStarts, SuiteTypeStarts, SuiteInductive, SuiteTypes, SuiteTypeFollows, PTL DEF SuiteSpec
<1>11. BoardSpec => []BoardTypeOK
  <2>1. BoardTyped => BoardTypeOK
    BY DEF BoardTyped
  <2> QED BY <2>1, BoardTypeStarts, BoardTypes, PTL DEF BoardSpec
<1>12. AlarmSpec => []AlarmTypeOK
  BY AlarmTypeStarts, AlarmTypes, PTL DEF AlarmSpec
<1>13. Spec => [](part \in Parts)
  <2>1. Init => part \in Parts
    BY DEF Init
  <2>2. part \in Parts /\ [Next]_vars => (part \in Parts)'
    <3>1. [Next]_vars => part' = part
      BY DEF Next, vars
    <3> QED BY <3>1
  <2> QED BY <2>1, <2>2, PTL DEF Spec
<1>14. /\ part \in Parts
       /\ SessionTypeOK /\ BrakingTypeOK /\ BenchTypeOK /\ NavTypeOK /\ TrialsTypeOK /\ ChecksTypeOK
       /\ TwinTypeOK /\ GateTypeOK /\ SuiteTypeOK /\ BoardTypeOK /\ AlarmTypeOK
       => OperatorTypeOK
  BY DEF OperatorTypeOK
<1> QED BY <1>2, <1>3, <1>4, <1>5, <1>6, <1>7, <1>8, <1>9, <1>10, <1>11, <1>12, <1>13, <1>14,
           PartsBehave, PTL

(* An exit code of 0 is earned, whichever tool gives it and however long   *)
(* the operator works with it (car_selftest, check_odom_properties,        *)
(* verify_twin, provision_board, sim_runner, bench_motion).                *)
THEOREM ExitsEarned == Spec => []ExitZeroIsEarned
<1>1. ASSUME PassShowsWhatItSays, CheatIsCaught, OnlyAFollowerPasses,
             SuccessIsTheBoards, PassedWithoutContact, PassMeansAtRest
      PROVE  ExitZeroIsEarned
  BY <1>1 DEF ExitZeroIsEarned
<1> QED BY <1>1, PartsBehave, PassedShows, CheatFails, FollowerPasses, SuccessEarned,
           NoContact, PassAtRest, PTL

(* The numbers that braking distances are computed from err on the safe    *)
(* side, whatever else was done with the tools (measure_latency,           *)
(* measure_braking).                                                       *)
THEOREM BoundsSafe == Spec => []MeasuredBoundsAreSafe
<1>1. UpperBoundHolds /\ EnvelopeRisesWithSpeed => MeasuredBoundsAreSafe
  BY DEF MeasuredBoundsAreSafe
<1> QED BY <1>1, PartsBehave, UpperSafe, EnvelopeSafe, PTL

(* The operator can work with the tools in any order for as long as there  *)
(* is work: what each of them promises, all of them keep.                  *)
THEOREM ToolsKeepTheirWord ==
  Spec => [](/\ StopLeavesAtRest /\ StopLeavesNothing
             /\ KeptRunsAreOfOneScale
             /\ SaidStoppedStaysStopped
             /\ NoBurstPasses
             /\ EveryReturnIsReported
             /\ MeasuredBoundsAreSafe
             /\ ExitZeroIsEarned)
BY PartsBehave, StopsAtRest, StopsAll, PoolIsPure, StaysStopped, BurstsFail, ReturnsReported,
   BoundsSafe, ExitsEarned, PTL
=============================================================================
