--------------------------- MODULE DeadmanProofs ---------------------------
(***************************************************************************)
(* Proofs about the deadman on its own, for every Timeout, Hold and set of *)
(* commands.  The inductive invariant ties what the node remembers to the  *)
(* history: its age is the age of the last move while the last word was a  *)
(* move, it only holds after a silence, and its zeros and what is left of  *)
(* the hold add up to the quota.                                           *)
(***************************************************************************)
EXTENDS DeadmanAlone, TLAPS

MoveIsRemembered == last_moving => age # None /\ quiet = age

HoldFollowsSilence == holding # None => quiet # None /\ quiet > Timeout

QuotaSoFar ==
  holding # None => zeros + holding >= Hold + (IF deadman_due THEN 0 ELSE 1)

Inv == /\ TypeOK
       /\ MoveIsRemembered
       /\ HoldFollowsSilence
       /\ QuotaSoFar
       /\ SilenceIsAnswered
-----------------------------------------------------------------------------
\* A saturating age stays an age, and grows by one or is at its cap.
LEMMA OlderIsAnAge ==
  ASSUME NEW a \in Ages
  PROVE  /\ Older(a, AgeCap) \in Ages
         /\ a = None <=> Older(a, AgeCap) = None
         /\ a # None => Older(a, AgeCap) >= a
  BY VelocityAssumption, DeadmanAssumption DEF Ages, AgeCap, Older

LEMMA InitInv == Init => Inv
<1> SUFFICES ASSUME Init
             PROVE  Inv
  OBVIOUS
<1>1. TypeOK
  BY VelocityAssumption, DeadmanAssumption
  DEF Init, DeadmanInit, TypeOK, DeadmanTypeOK, Ages, AgeCap
<1>2. MoveIsRemembered /\ HoldFollowsSilence /\ QuotaSoFar /\ SilenceIsAnswered
  BY DEF Init, DeadmanInit, MoveIsRemembered, HoldFollowsSilence, QuotaSoFar,
         SilenceIsAnswered
<1> QED BY <1>1, <1>2 DEF Inv

\* A command, whoever it is from.
LEMMA HearInv ==
  ASSUME Inv, NEW c \in Commands, Hear(c)
  PROVE  Inv'
<1> USE VelocityAssumption, DeadmanAssumption
<1>1. /\ last_moving \in BOOLEAN
      /\ holding \in (0 .. Hold) \cup {None}
      /\ deadman_due \in BOOLEAN
      /\ quiet \in Ages
      /\ answered \in BOOLEAN
      /\ zeros \in Nat
  BY DEF Inv, TypeOK, DeadmanTypeOK
<1>2. is_moving_command(c) \in BOOLEAN
  BY DEF is_moving_command
<1>3. TypeOK'
  BY <1>1, <1>2 DEF TypeOK, DeadmanTypeOK, Hear, OnCmd, Ages, AgeCap
<1>4. MoveIsRemembered'
  BY DEF MoveIsRemembered, Hear, OnCmd
<1>5. HoldFollowsSilence'
  BY DEF Inv, HoldFollowsSilence, Hear, OnCmd
<1>6. QuotaSoFar'
  BY DEF Inv, QuotaSoFar, Hear, OnCmd
<1>7. SilenceIsAnswered'
  BY DEF SilenceIsAnswered, Hear, OnCmd
<1> QED BY <1>3, <1>4, <1>5, <1>6, <1>7 DEF Inv

\* The timer: the hold, the trigger, and the end of the hold.
LEMMA TickInv ==
  ASSUME Inv, Tick
  PROVE  Inv'
<1> USE VelocityAssumption, DeadmanAssumption
<1>1. /\ last_moving \in BOOLEAN
      /\ age \in Ages
      /\ holding \in (0 .. Hold) \cup {None}
      /\ quiet \in Ages
      /\ zeros \in Nat
      /\ UNCHANGED <<last_moving, age, quiet>>
      /\ deadman_due' = FALSE
  BY DEF Inv, TypeOK, DeadmanTypeOK, Tick, DeadmanTick
<1>2. /\ Latched \in BOOLEAN /\ should_intervene \in BOOLEAN
      /\ answered' \in BOOLEAN
  BY DEF Latched, should_intervene, Tick, DeadmanPublishes
<1>3. CASE Latched
  <2>1. holding' = holding /\ zeros' = zeros + 1 /\ answered'
    BY <1>2, <1>3 DEF Tick, DeadmanTick, DeadmanPublishes
  <2>2. TypeOK'
    <3>1. holding' \in (0 .. Hold) \cup {None} /\ zeros' \in Nat
      BY <1>1, <2>1
    <3> QED BY <1>1, <1>2, <3>1 DEF TypeOK, DeadmanTypeOK
  <2>3. MoveIsRemembered' /\ HoldFollowsSilence' /\ SilenceIsAnswered'
    BY <1>1, <2>1 DEF Inv, MoveIsRemembered, HoldFollowsSilence, SilenceIsAnswered
  <2>4. QuotaSoFar'
    BY <1>1, <2>1 DEF Inv, QuotaSoFar
  <2> QED BY <2>2, <2>3, <2>4 DEF Inv
<1>4. CASE ~Latched /\ should_intervene
  <2>1. holding' = Hold /\ zeros' = 1 /\ answered'
    <3>1. DeadmanPublishes
      BY <1>4 DEF DeadmanPublishes
    <3> QED BY <1>2, <1>4, <3>1 DEF Tick, DeadmanTick
  <2>2. quiet # None /\ quiet > Timeout
    BY <1>4 DEF Inv, MoveIsRemembered, should_intervene
  <2>3. TypeOK'
    <3>1. holding' \in (0 .. Hold) \cup {None} /\ zeros' \in Nat
      BY <1>1, <2>1
    <3> QED BY <1>1, <1>2, <3>1 DEF TypeOK, DeadmanTypeOK
  <2>4. MoveIsRemembered' /\ HoldFollowsSilence' /\ SilenceIsAnswered'
    BY <1>1, <2>1, <2>2 DEF Inv, MoveIsRemembered, HoldFollowsSilence, SilenceIsAnswered
  <2>5. QuotaSoFar'
    BY <1>1, <2>1 DEF QuotaSoFar
  <2> QED BY <2>3, <2>4, <2>5 DEF Inv
<1>5. CASE ~Latched /\ ~should_intervene
  <2>1. holding' = None /\ zeros' = 0 /\ answered' = FALSE
    BY <1>2, <1>5 DEF Tick, DeadmanTick, DeadmanPublishes
  <2>2. ~(last_moving /\ age > Timeout)
    BY <1>5 DEF Inv, MoveIsRemembered, should_intervene
  <2>3. TypeOK'
    BY <1>1, <2>1 DEF Inv, TypeOK, DeadmanTypeOK
  <2>4. MoveIsRemembered' /\ HoldFollowsSilence' /\ QuotaSoFar'
    BY <1>1, <2>1 DEF Inv, MoveIsRemembered, HoldFollowsSilence, QuotaSoFar
  <2>5. SilenceIsAnswered'
    BY <1>1, <2>2 DEF SilenceIsAnswered
  <2> QED BY <2>3, <2>4, <2>5 DEF Inv
<1> QED BY <1>2, <1>3, <1>4, <1>5

\* A period of the clock.
LEMMA ElapseInv ==
  ASSUME Inv, Elapse
  PROVE  Inv'
<1> USE VelocityAssumption, DeadmanAssumption
<1>1. /\ last_moving \in BOOLEAN
      /\ age \in Ages
      /\ holding \in (0 .. Hold) \cup {None}
      /\ quiet \in Ages
      /\ zeros \in Nat
  BY DEF Inv, TypeOK, DeadmanTypeOK
<1>2. /\ ~deadman_due /\ deadman_due' = TRUE
      /\ UNCHANGED <<last_moving, zeros>>
      /\ answered' = FALSE
      /\ age' = Older(age, AgeCap)
      /\ quiet' = Older(quiet, AgeCap)
      /\ holding' = IF Latched THEN holding - 1 ELSE holding
  BY DEF Elapse, DeadmanElapse
<1>3. holding' \in (0 .. Hold) \cup {None}
  BY <1>1, <1>2 DEF Latched
<1>4. TypeOK'
  BY <1>1, <1>2, <1>3, OlderIsAnAge DEF TypeOK, DeadmanTypeOK
<1>5. MoveIsRemembered'
  BY <1>1, <1>2, OlderIsAnAge DEF Inv, MoveIsRemembered
<1>6. HoldFollowsSilence'
  <2> SUFFICES ASSUME holding' # None
               PROVE  quiet' # None /\ quiet' > Timeout
    BY DEF HoldFollowsSilence
  <2>1. quiet # None /\ quiet > Timeout
    BY <1>2 DEF Inv, HoldFollowsSilence, Latched
  <2> QED BY <1>1, <1>2, <2>1 DEF Ages, AgeCap, Older
<1>7. QuotaSoFar'
  BY <1>1, <1>2 DEF Inv, QuotaSoFar, Latched
<1>8. SilenceIsAnswered'
  BY <1>2 DEF SilenceIsAnswered
<1> QED BY <1>4, <1>5, <1>6, <1>7, <1>8 DEF Inv

LEMMA NextInv == Inv /\ [Next]_vars => Inv'
<1> SUFFICES ASSUME Inv, [Next]_vars
             PROVE  Inv'
  OBVIOUS
<1>1. ASSUME NEW c \in Commands, Hear(c)
      PROVE  Inv'
  BY <1>1, HearInv
<1>2. CASE Tick
  BY <1>2, TickInv
<1>3. CASE Elapse
  BY <1>3, ElapseInv
<1>4. CASE UNCHANGED vars
  BY <1>4
  DEF Inv, TypeOK, DeadmanTypeOK, MoveIsRemembered, HoldFollowsSilence, QuotaSoFar,
      SilenceIsAnswered, vars, deadman_vars, history
<1> QED BY <1>1, <1>2, <1>3, <1>4 DEF Next

\* The invariant holds throughout every behaviour of the deadman.
LEMMA Invariance == Spec => []Inv
  BY InitInv, NextInv, PTL DEF Spec
-----------------------------------------------------------------------------
(* Every variable of the node and of its history keeps to its type.        *)
THEOREM TypeCorrect == Spec => []TypeOK
<1>1. Inv => TypeOK
  BY DEF Inv
<1> QED BY <1>1, Invariance, PTL

(* No silence longer than Timeout after a move goes without a zero for a   *)
(* whole period (_tick, cmd_vel_deadman.py).                               *)
THEOREM SilenceAnswered == Spec => []SilenceIsAnswered
<1>1. Inv => SilenceIsAnswered
  BY DEF Inv
<1> QED BY <1>1, Invariance, PTL

(* Whatever Timeout and Hold are, a hold that is not resumed sends a zero  *)
(* for every period of Hold before it is dropped.                          *)
THEOREM QuotaSent == Spec => []HoldSendsItsQuota
<1>1. Inv => HoldSendsItsQuota
  BY VelocityAssumption, DeadmanAssumption
  DEF Inv, TypeOK, QuotaSoFar, HoldSendsItsQuota
<1> QED BY <1>1, Invariance, PTL

(* A driver who is never silent for longer than Timeout is never stopped.  *)
THEOREM NoInterruption == Spec => NeverInterrupts
<1> DEFINE Interruption ==
             answered' /\ ~answered => quiet # None /\ quiet > Timeout
<1>1. Inv /\ [Next]_vars => [Interruption]_vars
  <2> SUFFICES ASSUME Inv, Next, answered', ~answered
               PROVE  quiet # None /\ quiet > Timeout
    OBVIOUS
  <2>1. ASSUME NEW c \in Commands, Hear(c)
        PROVE  quiet # None /\ quiet > Timeout
    BY <2>1 DEF Hear
  <2>2. CASE Tick
    <3>1. Latched \/ should_intervene
      BY <2>2 DEF Tick, DeadmanPublishes
    <3> QED
      BY <3>1
      DEF Inv, MoveIsRemembered, HoldFollowsSilence, Latched, should_intervene
  <2>3. CASE Elapse
    BY <2>3 DEF Elapse
  <2> QED BY <2>1, <2>2, <2>3 DEF Next
<1> QED BY <1>1, Invariance, PTL DEF Spec, NeverInterrupts
=============================================================================
