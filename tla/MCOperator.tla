---------------------------- MODULE MCOperator ----------------------------
(* What an operator starts beside the robot: the session, the benches, the  *)
(* checks and the gate.  No two of them share state, so that they are run  *)
(* one at a time.                                                          *)
EXTENDS Session, BrakingBench, BenchMotion, NavSmoke, CarTrials,
        RobotChecks, TwinVerdict, SlamGate, SimSuite, BoardSetup, BypassAlarm

VARIABLE part

Parts == {"session", "braking", "bench", "nav2", "trials", "odometry",
          "twin", "gate", "suite", "board", "alarm"}

vars == <<part, session_vars, braking_vars, bench_vars, nav_vars, trial_vars, check_vars,
          twin_vars, gate_vars, suite_vars, board_vars, alarm_vars>>

OperatorTypeOK == /\ part \in Parts
                  /\ SessionTypeOK /\ BrakingTypeOK /\ BenchTypeOK
                  /\ NavTypeOK /\ TrialsTypeOK /\ ChecksTypeOK
                  /\ TwinTypeOK /\ GateTypeOK /\ SuiteTypeOK
                  /\ BoardTypeOK /\ AlarmTypeOK

\* A part starts in any of its initial states; the parts that do not run, in one.
Init == /\ part \in Parts
        /\ SessionInit /\ NavInit
        /\ BrakingInit   /\ (part # "braking" => file = Empty)
        /\ BenchInit     /\ (part # "bench" => bench_phase = "matrix" /\ graph = {} /\ battery = "silent")
        /\ TrialsInit    /\ (part # "trials" => trial = "selftest" /\ option = "motion"
                                                   /\ hears /\ encoders /\ motors)
        /\ ChecksInit    /\ (part # "odometry" => backend = "2D" /\ odom_source = "wheels" /\ talking = {})
        /\ TwinInit      /\ (part # "twin" => twin_mode = "no_tf")
        /\ GateInit      /\ (part # "gate" => static_known)
        /\ SuiteInit     /\ (part # "suite" => todo = TESTS /\ able)
        /\ BoardInit     /\ (part # "board" => board_call = "reset" /\ gyro = "dead")
        /\ AlarmInit     /\ (part # "alarm" => publishers = {})

Next == \/ /\ part = "session" /\ SessionNext
           /\ UNCHANGED <<part, braking_vars, bench_vars, nav_vars, trial_vars, check_vars, twin_vars,
                          gate_vars, suite_vars, board_vars, alarm_vars>>
        \/ /\ part = "braking" /\ BrakingNext
           /\ UNCHANGED <<part, session_vars, bench_vars, nav_vars, trial_vars, check_vars, twin_vars,
                          gate_vars, suite_vars, board_vars, alarm_vars>>
        \/ /\ part = "bench" /\ BenchNext
           /\ UNCHANGED <<part, session_vars, braking_vars, nav_vars, trial_vars, check_vars, twin_vars,
                          gate_vars, suite_vars, board_vars, alarm_vars>>
        \/ /\ part = "nav2" /\ NavNext
           /\ UNCHANGED <<part, session_vars, braking_vars, bench_vars, trial_vars, check_vars, twin_vars,
                          gate_vars, suite_vars, board_vars, alarm_vars>>
        \/ /\ part = "trials" /\ TrialsNext
           /\ UNCHANGED <<part, session_vars, braking_vars, bench_vars, nav_vars, check_vars, twin_vars,
                          gate_vars, suite_vars, board_vars, alarm_vars>>
        \/ /\ part = "odometry" /\ ChecksNext
           /\ UNCHANGED <<part, session_vars, braking_vars, bench_vars, nav_vars, trial_vars, twin_vars,
                          gate_vars, suite_vars, board_vars, alarm_vars>>
        \/ /\ part = "twin" /\ TwinNext
           /\ UNCHANGED <<part, session_vars, braking_vars, bench_vars, nav_vars, trial_vars, check_vars,
                          gate_vars, suite_vars, board_vars, alarm_vars>>
        \/ /\ part = "gate" /\ GateNext
           /\ UNCHANGED <<part, session_vars, braking_vars, bench_vars, nav_vars, trial_vars, check_vars,
                          twin_vars, suite_vars, board_vars, alarm_vars>>
        \/ /\ part = "suite" /\ SuiteNext
           /\ UNCHANGED <<part, session_vars, braking_vars, bench_vars, nav_vars, trial_vars, check_vars,
                          twin_vars, gate_vars, board_vars, alarm_vars>>
        \/ /\ part = "board" /\ BoardNext
           /\ UNCHANGED <<part, session_vars, braking_vars, bench_vars, nav_vars, trial_vars, check_vars,
                          twin_vars, gate_vars, suite_vars, alarm_vars>>
        \/ /\ part = "alarm" /\ AlarmNext
           /\ UNCHANGED <<part, session_vars, braking_vars, bench_vars, nav_vars, trial_vars, check_vars,
                          twin_vars, gate_vars, suite_vars, board_vars>>

Spec == Init /\ [][Next]_vars
-----------------------------------------------------------------------------
(* No tool says that all is well unless it is: the car of a self-test has  *)
(* done what its rows are evidence of, odometry that passes is that of     *)
(* slipping wheels, a twin that passes follows, the board holds what was   *)
(* written, no robot was driven into the wall that it was to stop before,  *)
(* and the bench leaves the car at rest (the exit codes of car_selftest,   *)
(* check_odom_properties, verify_twin, the board tools, sim_runner and     *)
(* bench_motion).                                                          *)
ExitZeroIsEarned == /\ PassShowsWhatItSays
                    /\ CheatIsCaught
                    /\ OnlyAFollowerPasses
                    /\ SuccessIsTheBoards
                    /\ PassedWithoutContact
                    /\ PassMeansAtRest

(* The numbers that braking distances are computed from err on the safe    *)
(* side: a bound on latency is not below what was met, and an envelope     *)
(* does not fall with speed (measure_latency, measure_braking).            *)
MeasuredBoundsAreSafe == UpperBoundHolds /\ EnvelopeRisesWithSpeed
=============================================================================
