---------------------------- MODULE MCSimulator ----------------------------
(* The simulated robot: the 2D simulator or Isaac with its relay, and the   *)
(* nodes that read its topics.  Each part accepts whatever the others may   *)
(* send it, so they are run one at a time.                                 *)
EXTENDS RenderPacing, ScanRelay, FakeRobot, TwinBridge, LaserOdometry, IsaacLoop

VARIABLE part

Parts == {"pacing", "relay", "robot", "bridge", "laser", "loop"}

sim_vars == <<part, pacing_vars, relay_vars, robot_vars, bridge_vars, laser_vars, loop_vars>>

SimTypeOK == /\ part \in Parts
             /\ PacingTypeOK /\ RelayTypeOK /\ RobotTypeOK
             /\ BridgeTypeOK /\ LaserTypeOK /\ LoopTypeOK

\* A part starts in any of its initial states; the parts that do not run, in one.
SimInit == /\ part \in Parts
           /\ PacingInit /\ RelayInit /\ RobotInit /\ BridgeInit /\ LaserInit /\ LoopInit
           /\ (part # "pacing" => plant = [follows |-> TRUE, by |-> 12])
           /\ (part # "relay" => room_fits)
           /\ (part # "robot" => decel = 0 /\ slip = 0)
           /\ (part # "bridge" => ~override)
           /\ (part # "laser" => ~publish_degenerate)

SimNext ==
  \/ /\ part = "pacing" /\ PacingNext
     /\ UNCHANGED <<part, relay_vars, robot_vars, bridge_vars, laser_vars, loop_vars>>
  \/ /\ part = "relay" /\ RelayNext
     /\ UNCHANGED <<part, pacing_vars, robot_vars, bridge_vars, laser_vars, loop_vars>>
  \/ /\ part = "robot" /\ RobotNext
     /\ UNCHANGED <<part, pacing_vars, relay_vars, bridge_vars, laser_vars, loop_vars>>
  \/ /\ part = "bridge" /\ BridgeNext
     /\ UNCHANGED <<part, pacing_vars, relay_vars, robot_vars, laser_vars, loop_vars>>
  \/ /\ part = "laser" /\ LaserNext
     /\ UNCHANGED <<part, pacing_vars, relay_vars, robot_vars, bridge_vars, loop_vars>>
  \/ /\ part = "loop" /\ LoopNext
     /\ UNCHANGED <<part, pacing_vars, relay_vars, robot_vars, bridge_vars, laser_vars>>

\* The loop of sim_runner never stops trimming, nor passing.
Fairness == /\ WF_sim_vars(part = "pacing" /\ Trim /\ UNCHANGED <<part, relay_vars, robot_vars,
                                                        bridge_vars, laser_vars, loop_vars>>)
            /\ WF_sim_vars(/\ part = "loop" /\ \E lasts \in 0 .. 1 : Pass(lasts)
                           /\ UNCHANGED <<part, pacing_vars, relay_vars, robot_vars,
                                          bridge_vars, laser_vars>>)

SimSpec == SimInit /\ [][SimNext]_sim_vars /\ Fairness
=============================================================================
