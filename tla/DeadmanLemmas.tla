--------------------------- MODULE DeadmanLemmas ---------------------------
(***************************************************************************)
(* What the proofs about every car with a deadman have in common: Zero     *)
(* does not move it, and the node's handlers, its tick and its clock keep  *)
(* its state to its types.                                                 *)
(***************************************************************************)
EXTENDS Deadman, TLAPS

LEMMA ZeroIsStill == ~is_moving_command(Zero) /\ Zero \in Motion /\ Zero.vx = 0
  BY DEF is_moving_command, Zero, Axes, Motion

LEMMA MovingIsBoolean == \A c : is_moving_command(c) \in BOOLEAN
  BY DEF is_moving_command

LEMMA OnCmdType ==
  ASSUME DeadmanTypeOK, NEW c, OnCmd(c)
  PROVE  DeadmanTypeOK'
<1>1. 0 \in Ages
  BY DeadmanAssumption DEF Ages, AgeCap
<1> QED BY <1>1, MovingIsBoolean DEF DeadmanTypeOK, OnCmd

LEMMA DeadmanTickType ==
  ASSUME DeadmanTypeOK, DeadmanTick
  PROVE  DeadmanTypeOK'
<1>1. Latched \in BOOLEAN /\ should_intervene \in BOOLEAN
  BY DEF Latched, should_intervene
<1>2. holding' = holding \/ holding' = Hold \/ holding' = None
  BY <1>1 DEF DeadmanTick
<1>3. holding' \in (0 .. Hold) \cup {None}
  BY <1>2, DeadmanAssumption DEF DeadmanTypeOK
<1> QED BY <1>3 DEF DeadmanTypeOK, DeadmanTick

LEMMA DeadmanElapseType ==
  ASSUME DeadmanTypeOK, DeadmanElapse
  PROVE  DeadmanTypeOK'
<1>1. age' \in Ages
  BY VelocityAssumption, DeadmanAssumption
  DEF DeadmanTypeOK, DeadmanElapse, Ages, AgeCap, Older
<1>2. holding' \in (0 .. Hold) \cup {None}
  BY VelocityAssumption, DeadmanAssumption DEF DeadmanTypeOK, DeadmanElapse, Latched
<1> QED BY <1>1, <1>2 DEF DeadmanTypeOK, DeadmanElapse
=============================================================================
