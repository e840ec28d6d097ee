------------------------------ MODULE Driving ------------------------------
(***************************************************************************)
(* The tools that drive once the guard lets them: sim_patrol with its      *)
(* stuck detector and its own cleanup, and any tool that publishes through *)
(* SafeCmdVel.  One step of a leg stands for many publications of the same *)
(* command; the listeners keep the last one that reached them.             *)
(***************************************************************************)
EXTENDS TargetOf, FiniteSets

CONSTANTS Topics,       \* the topics a tool may drive
          Reps,         \* zeros sent on the way out
          MaxLoss,      \* how many of them the radio may drop
          LegTicks,     \* steps of a straight leg
          TurnTicks,    \* steps of a quarter turn
          StuckTicks,   \* --stuck-seconds, in steps
          MaxLag,       \* steps by which ground truth, while it comes, is late
          MaxLaps       \* --laps, at most, when it is not for ever

ASSUME DrivingAssumption == /\ Topics # {}
                            /\ MaxLoss \in Nat
                            /\ Reps \in Nat /\ Reps > MaxLoss
                            /\ LegTicks \in Nat /\ TurnTicks \in Nat
                            /\ StuckTicks \in Nat \ {0}
                            /\ MaxLag \in Nat /\ MaxLaps \in Nat

VARIABLES tool,         \* "patrol" or "safe", a tool inside SafeCmdVel
          pc,           \* what it is doing
          topics,       \* the topics it publishes on
          latched,      \* per topic, whether its listener executes a move
          zeros_left,   \* zeros still to be sent
          lost,         \* zeros dropped so far
          signalled,    \* SIGINT or SIGTERM has arrived
          left,         \* steps left in this leg
          laps_left,    \* laps to go, or None for ever
          leg,          \* the leg of the lap
          seen,         \* ground truth has arrived
          mark,         \* steps since the reference position was taken, or None
          news,         \* steps for which motion may come in that no truth has told yet
          moved,        \* a position that differs from it has arrived since
          pushed        \* steps in a row, under watch, that moved nothing

patrol_vars  == <<laps_left, leg, left, seen, mark, news, moved, pushed>>
driving_vars == <<tool, pc, topics, latched, zeros_left, lost, signalled, patrol_vars>>
vars         == <<target_vars, driving_vars>>

Legs == {"forward", "turn", "back", "seek"}

TypeOK == /\ TargetTypeOK
          /\ tool \in {"patrol", "safe"}
          /\ pc \in {"waiting", "body", "zeroing", "handler", "gone", "killed"} \cup Legs
          /\ topics \subseteq Topics
          /\ latched \in [Topics -> BOOLEAN]
          /\ zeros_left \in 0 .. Reps
          /\ lost \in 0 .. MaxLoss
          /\ signalled \in BOOLEAN
          /\ left \in 0 .. LegTicks + 2 * TurnTicks + StuckTicks
          /\ laps_left \in (0 .. MaxLaps) \cup {None}
          /\ leg \in 1 .. 4
          /\ seen \in BOOLEAN
          /\ mark \in (0 .. StuckTicks) \cup {None}
          /\ news \in 0 .. MaxLag
          /\ moved \in BOOLEAN
          /\ pushed \in Nat

Init == /\ TargetInit
        /\ tool \in {"patrol", "safe"}
        /\ pc = "waiting"
        /\ topics \in (SUBSET Topics) \ {{}}
        /\ tool = "patrol" => Cardinality(topics) = 1
        /\ latched = [t \in Topics |-> FALSE]
        /\ zeros_left = 0
        /\ lost = 0
        /\ signalled = FALSE
        /\ left = 0
        /\ laps_left \in IF tool = "patrol" THEN (1 .. MaxLaps) \cup {None} ELSE {None}
        /\ leg = 1
        /\ seen = FALSE
        /\ mark = None
        /\ news = 0
        /\ moved = FALSE
        /\ pushed = 0
-----------------------------------------------------------------------------
\* Publications on the topics in use; those in gone do not arrive.
Sends(moving, gone) == latched' = [t \in Topics |-> IF t \in topics \ gone THEN moving
                                                                           ELSE latched[t]]

\* The legs of the patrol are loops of their own: drive() starts with a fresh mark.
Starts(phase, ticks) == /\ pc' = phase
                        /\ left' = ticks
                        /\ mark' = IF seen THEN 0 ELSE None
                        /\ moved' = FALSE
                        /\ pushed' = 0

\* The guard has returned; its locals are gone with it.
BeginDriving == /\ guard = "open"
                /\ pc = "waiting"
                /\ ~signalled
                /\ elapsed' = 0 /\ sim_seen_at' = None /\ car_seen_at' = None
                /\ visible' = {}
                /\ IF tool = "patrol" THEN Starts("forward", LegTicks)
                   ELSE pc' = "body" /\ UNCHANGED <<left, mark, moved, pushed>>
                /\ UNCHANGED <<car_domain, guard, tool, topics, latched, zeros_left, lost,
                               signalled, laps_left, leg, seen, news>>

\* SafeCmdVel.publish, at most one call of which a signal cuts off between two topics.
SafePublish == /\ pc = "body"
               /\ \E moving \in BOOLEAN, gone \in SUBSET topics : Sends(moving, gone)
               /\ UNCHANGED <<target_vars, tool, pc, topics, zeros_left, lost, signalled,
                              patrol_vars>>

\* __exit__, after the body has returned or raised.
SafeExit == /\ pc = "body"
            /\ pc' = "zeroing"
            /\ zeros_left' = Reps
            /\ UNCHANGED <<target_vars, tool, topics, latched, lost, signalled, patrol_vars>>

\* One repetition of the zeros: SafeCmdVel.stop, and the finally of the patrol.
Zeroing == /\ pc \in {"zeroing", "handler"}
           /\ zeros_left > 0
           /\ zeros_left' = zeros_left - 1
           /\ \E gone \in SUBSET topics :
                /\ Sends(FALSE, gone)
                /\ lost' = IF gone = {} THEN lost ELSE lost + 1
                /\ lost' <= MaxLoss
           /\ pc' = IF zeros_left' = 0 THEN "gone" ELSE pc
           /\ UNCHANGED <<target_vars, tool, topics, signalled, patrol_vars>>

\* The default action of SIGTERM, before __enter__ has installed the handlers or never.
BadSignal == /\ pc \in {"waiting", "body", "zeroing", "handler"} \cup Legs
             /\ signalled' = TRUE
             /\ pc' = "gone"
             /\ UNCHANGED <<target_vars, tool, topics, latched, zeros_left, lost, patrol_vars>>

\* SIGINT or SIGTERM.  SafeCmdVel zeroes in the handler; the patrol sets a flag that its
\* loops look at; before either has handlers the process just ends.
Signal == /\ pc \in {"waiting", "body", "zeroing", "handler"} \cup Legs
          /\ ~signalled
          /\ signalled' = TRUE
          /\ CASE pc = "waiting"                   -> pc' = "gone" /\ UNCHANGED zeros_left
               [] pc # "waiting" /\ tool = "safe"  -> pc' = "handler" /\ zeros_left' = Reps
               [] pc # "waiting" /\ tool = "patrol" -> UNCHANGED <<pc, zeros_left>>
          /\ UNCHANGED <<target_vars, tool, topics, latched, lost, patrol_vars>>

\* SIGKILL cannot be caught.
Kill == /\ pc \notin {"waiting", "gone", "killed"}
        /\ pc' = "killed"
        /\ UNCHANGED <<target_vars, tool, topics, latched, zeros_left, lost, signalled,
                       patrol_vars>>
-----------------------------------------------------------------------------
\* _on_truth: the first position arrives.
TruthArrives == /\ pc \in Legs
                /\ ~seen
                /\ seen' = TRUE
                /\ UNCHANGED <<target_vars, tool, pc, topics, latched, zeros_left, lost,
                               signalled, laps_left, leg, left, mark, news, moved, pushed>>

watched == pc \in {"forward", "back"} /\ seen

\* The stuck detector of drive(), at the end of a window: the last position that arrived is
\* far from the mark or not.  Motion on the way need not make it far; none at all never does.
Blocked(far) == /\ watched
                /\ mark # None
                /\ mark + 1 >= StuckTicks
                /\ ~far

\* The reference position follows the robot.
BadWatchPosition(free, shows) ==
  IF ~watched THEN UNCHANGED <<mark, moved, pushed>>
  ELSE /\ mark' = 0
       /\ moved' = FALSE
       /\ pushed' = IF free THEN 0 ELSE pushed + 1

\* A step of a leg that is not blocked: free says whether the robot moves, shows whether a
\* position arrives that differs from the mark.
WatchPosition(free, shows) ==
  IF ~watched THEN UNCHANGED <<mark, moved, pushed>>
  ELSE LET expired == mark # None /\ mark + 1 >= StuckTicks
       IN /\ mark' = IF mark = None \/ expired THEN 0 ELSE mark + 1
          /\ moved' = (mark # None /\ ~expired /\ (moved \/ shows))
          /\ pushed' = IF free THEN 0 ELSE pushed + 1

\* How long the turn towards open space takes: up to 135 degrees, a quarter turn without a scan.
clearest_heading == 0 .. (3 * TurnTicks) \div 2

\* One step of a leg.  Ground truth may be late by MaxLag steps, and it may stop for good:
\* what it shows is of now or of the motion it has not told yet.
Drive == /\ pc \in Legs
         /\ left > 0
         /\ ~signalled
         /\ Sends(TRUE, {})
         /\ \E free, shows, far \in BOOLEAN :
              /\ shows => free \/ news > 0
              /\ far => moved \/ shows
              /\ news' = IF free /\ pc \in {"forward", "back"} THEN MaxLag
                       ELSE IF news > 0 THEN news - 1 ELSE 0
              /\ IF Blocked(far)
                 THEN \/ pc = "forward" /\ Starts("back", StuckTicks)
                      \/ pc = "back" /\ \E n \in clearest_heading : Starts("seek", n)
                 ELSE /\ left' = left - 1
                      /\ WatchPosition(free, shows)
                      /\ UNCHANGED pc
         /\ UNCHANGED <<target_vars, tool, topics, zeros_left, lost, signalled,
                        laps_left, leg, seen>>

\* The lap does not begin again.
BadNextLeg == /\ leg' = leg + 1
              /\ Starts("forward", LegTicks)
              /\ UNCHANGED <<zeros_left, laps_left>>

\* The next leg of the lap, the next lap, or the end.
NextLeg == LET over == leg = 4 /\ laps_left = 1
           IN /\ leg' = IF leg = 4 THEN 1 ELSE leg + 1
              /\ laps_left' = IF leg = 4 /\ laps_left # None THEN laps_left - 1 ELSE laps_left
              /\ IF over THEN /\ pc' = "zeroing"
                              /\ zeros_left' = Reps
                              /\ UNCHANGED <<left, mark, moved, pushed>>
                 ELSE Starts("forward", LegTicks) /\ UNCHANGED zeros_left

LegEnds == /\ pc \in Legs
           /\ left = 0
           /\ ~signalled
           /\ CASE pc = "forward" -> /\ Starts("turn", TurnTicks)
                                     /\ UNCHANGED <<zeros_left, laps_left, leg>>
                [] pc = "back"    -> /\ \E n \in clearest_heading : Starts("seek", n)
                                     /\ UNCHANGED <<zeros_left, laps_left, leg>>
                [] pc \in {"turn", "seek"} -> NextLeg
           /\ UNCHANGED <<target_vars, tool, topics, latched, lost, signalled, seen, news>>

\* The loops see the flag; what is left of them is not run.
Stopping == /\ pc \in Legs
            /\ signalled
            /\ pc' = "zeroing"
            /\ zeros_left' = Reps
            /\ UNCHANGED <<target_vars, tool, topics, latched, lost, signalled, patrol_vars>>
-----------------------------------------------------------------------------
Next == \/ pc = "waiting" /\ TargetNext /\ UNCHANGED driving_vars
        \/ BeginDriving
        \/ SafePublish \/ SafeExit \/ Zeroing
        \/ Signal \/ Kill
        \/ TruthArrives \/ Drive \/ LegEnds \/ Stopping

Spec == Init /\ [][Next]_vars
-----------------------------------------------------------------------------
(* A tool that ends by itself, on an exception or on a signal leaves every *)
(* topic it drove with a zero as the last word, also if the radio drops    *)
(* all of the repetitions but one (SafeCmdVel, the finally of sim_patrol). *)
LeftStopped == pc = "gone" => \A t \in Topics : ~latched[t]

(* A patrol that pushes against something notices within two windows after *)
(* the last motion was told: the mark is renewed when the robot has moved, *)
(* and the rest of that window is lost to the next one; truth that is late *)
(* tells of motion that is over, and truth that has stopped of none (drive *)
(* in sim_patrol).                                                         *)
BlockedIsNoticed == pushed < 2 * StuckTicks + MaxLag
=============================================================================
