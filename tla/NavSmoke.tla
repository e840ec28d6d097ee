------------------------------ MODULE NavSmoke ------------------------------
(***************************************************************************)
(* nav2_smoke: one goal for Nav2, and what it takes to be sure that the    *)
(* robot stands once the goal is given up.  The firmware keeps the last    *)
(* command, Nav2 overrides zeros as long as a goal lives, and a request    *)
(* may be accepted after the tool has stopped waiting for the answer.      *)
(***************************************************************************)
EXTENDS Integers

CONSTANTS HoldRounds,   \* cancel-alls over which no goal must be seen alive (10 s)
          MaxRounds,    \* cancel-alls before it gives up (60 s)
          MaxLate       \* cancel-alls that a request may outlive

ASSUME NavAssumption == /\ HoldRounds \in Nat \ {0}
                        /\ MaxRounds \in Nat /\ MaxRounds >= HoldRounds
                        /\ MaxLate \in Nat /\ MaxLate < HoldRounds

VARIABLES nav_pc,
          goal,        \* the server's view of the goal
          known,       \* the tool has the handle
          witness,     \* live goals in the last status array: "none yet", "alive" or "no goal"
          announced,   \* the server has published a status since the tool subscribed
          rounds, held,
          acked, quiet,
          rolling,     \* the robot executes a nonzero command
          verdict,     \* what cancel_and_verify returned
          nav_code

nav_vars == <<nav_pc, goal, known, witness, announced, rounds, held, acked, quiet, rolling,
              verdict, nav_code>>

Alive   == {"live", "canceling"}
Over    == {"rejected", "succeeded", "aborted", "canceled"}
Pending == {"accepting", "running"}          \* a goal is out and nobody has given it up

NavTypeOK == /\ nav_pc \in Pending \cup {"start", "cancel", "cancel all", "quiet", "zeros",
                                         "observe", "judge", "gone"}
             /\ goal \in {"none", "sent"} \cup Alive \cup Over
             /\ {known, announced, acked, quiet, rolling} \subseteq BOOLEAN
             /\ witness \in {"none yet", "alive", "no goal"}
             /\ rounds \in 0 .. MaxRounds /\ held \in 0 .. HoldRounds
             /\ verdict \in {"none", "stopped", "not stopped"}
             /\ nav_code \in {0, 1, 2, 130}

NavInit == /\ nav_pc = "start" /\ goal = "none"
           /\ known = FALSE /\ witness = "none yet" /\ announced = FALSE
           /\ rounds = 0 /\ held = 0 /\ acked = FALSE /\ quiet = FALSE
           /\ rolling = FALSE /\ verdict = "none" /\ nav_code = 0
-----------------------------------------------------------------------------
(* Nav2 and the robot. *)

Becomes(next) == goal' = next /\ announced' = TRUE

\* A controller with a live goal commands without a pause; the robot keeps what it got.
Accepted   == /\ goal = "sent" /\ Becomes("live")
              /\ rolling' = TRUE
Rejected   == goal = "sent" /\ Becomes("rejected") /\ UNCHANGED rolling
Finishes   == \E end \in {"succeeded", "aborted"} :
                /\ goal \in Alive /\ Becomes(end)
                /\ rolling' \in BOOLEAN
Canceled   == goal = "canceling" /\ Becomes("canceled") /\ rolling' \in BOOLEAN

\* Somebody else's goal ends: a status array in which ours is missing or alive.
OtherEnds  == ~announced /\ announced' = TRUE /\ UNCHANGED <<goal, rolling>>

Nav2 == /\ Accepted \/ Rejected \/ Finishes \/ Canceled \/ OtherEnds
        /\ UNCHANGED <<nav_pc, known, witness, rounds, held, acked, quiet, verdict, nav_code>>

\* The server takes a cancellation of a live goal, or declines it.
Cancels == \/ goal = "live" /\ Becomes("canceling")
           \/ UNCHANGED <<goal, announced>>
-----------------------------------------------------------------------------
(* The goal. *)

Exits(code) == nav_pc' = "gone" /\ nav_code' = code

\* Odometry, the transform to the goal's frame, a target that may be driven unprotected or
\* an operator who accepts it, an action server; then the handlers, then the goal.
SendGoal ==
  /\ nav_pc = "start"
  /\ \E ready, check_only, accepts_risk \in BOOLEAN :
     \E target \in {"hardware", "both", "nothing", "simulator"} :
       IF ~ready \/ (target # "simulator" /\ ~accepts_risk) THEN Exits(2) /\ UNCHANGED goal
       ELSE IF check_only THEN Exits(0) /\ UNCHANGED goal
       ELSE nav_pc' = "accepting" /\ goal' = "sent" /\ UNCHANGED nav_code
  /\ UNCHANGED <<known, witness, announced, rounds, held, acked, quiet, rolling, verdict>>

\* The answer arrives within ten seconds, or nobody has a handle.
AwaitAcceptance ==
  /\ nav_pc = "accepting"
  /\ \/ goal = "rejected" /\ Exits(1) /\ UNCHANGED known
     \/ goal \notin {"sent", "rejected"} /\ nav_pc' = "running" /\ known' = TRUE
        /\ UNCHANGED nav_code
     \/ nav_pc' = "cancel all" /\ nav_code' = 1 /\ UNCHANGED known
  /\ UNCHANGED <<goal, witness, announced, rounds, held, acked, quiet, rolling, verdict>>

\* The result, or the end of the tool's patience.
AwaitResult ==
  /\ nav_pc = "running"
  /\ \/ goal \in Over /\ nav_pc' = "judge" /\ UNCHANGED nav_code
     \/ nav_pc' = "cancel" /\ nav_code' = 1
  /\ UNCHANGED <<goal, known, witness, announced, rounds, held, acked, quiet, rolling, verdict>>

\* SUCCEEDED is not enough: within tolerance, in the goal's frame, and not without motion.
Judge == /\ nav_pc = "judge"
         /\ \E near, travelled \in BOOLEAN :
              Exits(IF goal = "succeeded" /\ near /\ travelled THEN 0 ELSE 1)
         /\ UNCHANGED <<goal, known, witness, announced, rounds, held, acked, quiet, rolling,
                        verdict>>

\* SIGINT or SIGTERM from before the goal is sent until it is over.
OnSignal == /\ nav_pc \in Pending
            /\ nav_pc' = IF known THEN "cancel" ELSE "cancel all"
            /\ nav_code' = 130
            /\ UNCHANGED <<goal, known, witness, announced, rounds, held, acked, quiet, rolling,
                           verdict>>
-----------------------------------------------------------------------------
(* cancel_and_verify. *)

\* With a handle: a response that names no goal is a refusal, and may not come at all.
CancelGoal ==
  /\ nav_pc = "cancel"
  /\ nav_pc' = "quiet"
  /\ Cancels
  /\ acked' \in {FALSE, goal' = "canceling"}
  /\ UNCHANGED <<known, witness, rounds, held, quiet, rolling, verdict, nav_code>>

\* The first status without a live goal ends the rounds.
BadHeld(seen) == IF seen = "no goal" THEN HoldRounds ELSE 0

Held(seen) == IF seen = "no goal" THEN held + 1 ELSE 0

\* Without one: cancel-all, again and again, until the status array has shown no live goal
\* for a while.  A goal that is not accepted yet has no entry there.
CancelAll ==
  /\ nav_pc = "cancel all"
  /\ rounds < MaxRounds
  /\ goal = "sent" => rounds < MaxLate
  /\ Cancels
  /\ rounds' = rounds + 1
  /\ witness' = IF ~announced' THEN witness ELSE IF goal' \in Alive THEN "alive" ELSE "no goal"
  /\ held' = Held(witness')
  /\ acked' = (held' = HoldRounds)
  /\ nav_pc' = IF acked' \/ rounds' = MaxRounds THEN "quiet" ELSE "cancel all"
  /\ UNCHANGED <<known, quiet, rolling, verdict, nav_code>>

\* Two seconds without a command, or eight without such a pause.  A live goal leaves none.
WaitQuiet == /\ nav_pc = "quiet"
             /\ nav_pc' = "zeros"
             /\ quiet' \in {FALSE, (goal \notin Alive)}
             /\ UNCHANGED <<goal, known, witness, announced, rounds, held, acked, rolling,
                            verdict, nav_code>>

\* Zeros under a live controller are overridden.
PublishZeros == /\ nav_pc = "zeros"
                /\ nav_pc' = "observe"
                /\ rolling' \in {(goal \in Alive), rolling}
                /\ UNCHANGED <<goal, known, witness, announced, rounds, held, acked, quiet,
                               verdict, nav_code>>

\* The body, or the wheels, for seconds; no data is not a stop.
Observe == /\ nav_pc = "observe"
           /\ nav_pc' = "gone"
           /\ \E seen \in {"rest", "motion", "nothing"} :
                /\ seen = "rest" => ~rolling
                /\ verdict' = IF seen = "rest" /\ acked /\ quiet THEN "stopped"
                              ELSE "not stopped"
           /\ UNCHANGED <<goal, known, witness, announced, rounds, held, acked, quiet, rolling,
                          nav_code>>

NavNext == \/ Nav2 \/ SendGoal \/ AwaitAcceptance \/ AwaitResult \/ Judge \/ OnSignal
           \/ CancelGoal \/ CancelAll \/ WaitQuiet \/ PublishZeros \/ Observe
-----------------------------------------------------------------------------
(* Once cancel_and_verify has said that the robot is stopped it stays so:  *)
(* no goal is alive, nor still on its way to being accepted and driven by  *)
(* nobody ("a LATE acceptance left a driving goal owned by nobody").       *)
SaidStoppedStaysStopped == verdict = "stopped" => ~rolling /\ goal \notin Alive \cup {"sent"}
=============================================================================
