------------------------------ MODULE SimSuite ------------------------------
(***************************************************************************)
(* sim_runner without --ros: the self-tests of the Isaac scene, one after  *)
(* the other in one arena.  Each begins where, and heading whither, the    *)
(* one before it left the robot; one that throws fails and the next runs.  *)
(* The robot is on the line to the wall, in cells of the arena; it may     *)
(* slip, turn too far, roll on when it is stopped, and be held by a wall.  *)
(***************************************************************************)
EXTENDS Integers, SequencesExt

CONSTANTS ArenaHalf,    \* from the middle to either wall
          Leg,          \* what drive-straight covers
          StopCells,    \* from the wall, where the governor throttles to a creep
          MaxCoast,     \* what it rolls on, at most, once it is throttled
          LoopSteps     \* the patience of obstacle-stop, 40 s

ASSUME SuiteAssumption == /\ {ArenaHalf, Leg, StopCells, MaxCoast, LoopSteps} \subseteq Nat
                          /\ 1 < StopCells /\ StopCells < ArenaHalf

VARIABLES able,         \* the robot moves as it is told, and nothing throws
          suite_pc,
          todo,         \* the tests to come
          place,            \* where the robot is
          facing,       \* 1 toward the wall at ArenaHalf, -1 away from it, 0 aside
          loop_step,    \* steps of obstacle-stop
          rolled_far,   \* it rolled on, at the end of that, for StopCells or more
          contact,      \* the tests during which a wall held it
          all_ok, suite_code

suite_vars == <<able, suite_pc, todo, place, facing, loop_step, rolled_far, contact, all_ok,
                suite_code>>

TESTS == <<"drive-straight", "rotate", "obstacle-stop", "umbmark">>

\* --test: all, demo, or one of them.
Demo == SubSeq(TESTS, 1, 3)
Suites == {TESTS, Demo} \cup {<<TESTS[i]>> : i \in DOMAIN TESTS}

\* The hull keeps the middle of the robot a cell off either wall.
Free == 1 - ArenaHalf .. ArenaHalf - 1
Clip(at) == IF at > ArenaHalf - 1 THEN ArenaHalf - 1
            ELSE IF at < 1 - ArenaHalf THEN 1 - ArenaHalf ELSE at

SuiteTypeOK == /\ suite_pc \in {"start", "tests", "loop", "gone"}
               /\ Len(todo) <= Len(TESTS)
               /\ place \in Free /\ facing \in {-1, 0, 1}
               /\ loop_step \in 0 .. LoopSteps
               /\ contact \subseteq Range(TESTS)
               /\ {able, rolled_far, all_ok} \subseteq BOOLEAN
               /\ suite_code \in {0, 1}

SuiteInit == /\ able \in BOOLEAN
             /\ suite_pc = "start" /\ todo \in Suites
             /\ place = 0 /\ facing = 1 /\ loop_step = 0
             /\ contact = {} /\ rolled_far = FALSE /\ all_ok = TRUE /\ suite_code = 1
-----------------------------------------------------------------------------
\* No arena, no application, no base link: the code is what it was.
SceneUp == /\ suite_pc = "start"
           /\ suite_pc' \in {"tests"} \cup IF able THEN {} ELSE {"gone"}
           /\ UNCHANGED <<able, todo, place, facing, loop_step, rolled_far, contact, all_ok,
                          suite_code>>

\* A test ends, well or not, and the robot is stopped.
TestEnds(ok) == /\ all_ok' = (all_ok /\ ok)
                /\ todo' = Tail(todo)
                /\ suite_pc' = "tests"

\* So far along its heading, or until a wall holds it.
Moves(cells) == /\ place' = Clip(place + facing * cells)
                /\ contact' = IF place' = place + facing * cells THEN contact
                              ELSE contact \cup {Head(todo)}

Begins(test) == suite_pc = "tests" /\ todo # <<>> /\ Head(todo) = test

\* More than half the distance along the heading it had, as the pose says, and straight.
Travels == IF able THEN {Leg} ELSE 0 .. 2 * Leg
t_drive_straight ==
  /\ Begins("drive-straight")
  /\ \E cells \in Travels, straight \in BOOLEAN :
       /\ able => straight
       /\ Moves(cells)
       /\ TestEnds(2 * facing * (place' - place) > Leg /\ straight)
  /\ UNCHANGED <<able, facing, loop_step, rolled_far, suite_code>>

\* Half a turn, open loop.  Less than 85 % of it fails; no turn is too much.
t_rotate ==
  /\ Begins("rotate")
  /\ \E holds \in BOOLEAN :
       /\ facing' \in IF able THEN {-facing} ELSE {-1, 0, 1}
       /\ able => holds
       /\ TestEnds(holds)
  /\ UNCHANGED <<able, place, loop_step, rolled_far, contact, suite_code>>

\* The governor in a loop: the range is that to the wall at ArenaHalf, whatever the heading.
ObstacleStop ==
  /\ Begins("obstacle-stop")
  /\ suite_pc' = "loop" /\ loop_step' = 0
  /\ UNCHANGED <<able, todo, place, facing, rolled_far, contact, all_ok, suite_code>>

Throttled == ArenaHalf - place <= StopCells

ApproachStep ==
  /\ suite_pc = "loop" /\ ~Throttled /\ loop_step < LoopSteps
  /\ loop_step' = loop_step + 1
  /\ Moves(1)
  /\ UNCHANGED <<able, suite_pc, todo, facing, rolled_far, all_ok, suite_code>>

\* Stopped, and two seconds to roll on, unless it stood when the loop began.  Whether it
\* was throttled and rest > 0 is all that is asked: rest is the range from its middle.
Coasts == IF able \/ loop_step = 0 THEN {0} ELSE 0 .. MaxCoast
ApproachEnds ==
  /\ suite_pc = "loop"
  /\ Throttled \/ loop_step = LoopSteps
  /\ \E cells \in Coasts : Moves(cells) /\ rolled_far' = (rolled_far \/ cells >= StopCells)
  /\ TestEnds(Throttled /\ loop_step < LoopSteps /\ ArenaHalf - place' > 0)
  /\ UNCHANGED <<able, facing, loop_step, suite_code>>

\* Squares both ways, that close or do not; finite factors, and those injected if any were.
t_umbmark ==
  /\ Begins("umbmark")
  /\ place' \in IF able THEN {place} ELSE Free
  /\ contact' \in {contact} \cup IF able THEN {} ELSE {contact \cup {"umbmark"}}
  /\ \E finite, injected, recovered \in BOOLEAN :
       /\ able => finite /\ ~injected
       /\ TestEnds(finite /\ (injected => recovered))
  /\ UNCHANGED <<able, facing, loop_step, rolled_far, suite_code>>

\* A test that throws has failed, wherever the robot is.
Throws == /\ ~able
          /\ suite_pc = "loop" \/ (suite_pc = "tests" /\ todo # <<>>)
          /\ TestEnds(FALSE)
          /\ UNCHANGED <<able, place, facing, loop_step, rolled_far, contact, suite_code>>

SuiteEnds == /\ suite_pc = "tests" /\ todo = <<>>
             /\ suite_pc' = "gone"
             /\ suite_code' = IF all_ok THEN 0 ELSE 1
             /\ UNCHANGED <<able, todo, place, facing, loop_step, rolled_far, contact, all_ok>>

SuiteNext == \/ SceneUp \/ t_drive_straight \/ t_rotate
             \/ ObstacleStop \/ ApproachStep \/ ApproachEnds
             \/ t_umbmark \/ Throws \/ SuiteEnds
-----------------------------------------------------------------------------
(* obstacle-stop says "stopped before contact" of a positive range, which  *)
(* its robot always has, a wall holding it off.  In a suite that passes it *)
(* is true all the same, however it was left turned and placed by the      *)
(* tests before, unless the throttled robot rolls on for as far as the     *)
(* governor stops it from the wall.  Of the other tests nothing is said:   *)
(* a leg that ends at a wall is long enough.                               *)
PassedWithoutContact ==
  suite_pc = "gone" /\ suite_code = 0 /\ ~rolled_far => "obstacle-stop" \notin contact
=============================================================================
