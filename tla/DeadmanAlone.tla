---------------------------- MODULE DeadmanAlone ----------------------------
(***************************************************************************)
(* The deadman under an environment that publishes any command at any      *)
(* time, its own zeros coming back among them, with the history needed to  *)
(* say what it owes to a driver and to the car.                            *)
(***************************************************************************)
EXTENDS Deadman

VARIABLES quiet,      \* periods since a moving command was heard, or None
          answered,   \* a zero was published in this period
          zeros       \* zeros published since the last trigger

history == <<quiet, answered, zeros>>
vars    == <<deadman_vars, history>>

TypeOK == /\ DeadmanTypeOK
          /\ quiet \in Ages
          /\ answered \in BOOLEAN
          /\ zeros \in Nat

Init == /\ DeadmanInit
        /\ quiet = None
        /\ answered = FALSE
        /\ zeros = 0

Hear(c) == /\ OnCmd(c)
           /\ quiet' = IF is_moving_command(c) THEN 0 ELSE quiet
           /\ UNCHANGED <<answered, zeros>>

Tick == /\ DeadmanTick
        /\ answered' = DeadmanPublishes
        /\ zeros' = (IF Latched THEN zeros ELSE 0) + (IF DeadmanPublishes THEN 1 ELSE 0)
        /\ UNCHANGED quiet

Elapse == /\ ~deadman_due
          /\ DeadmanElapse
          /\ quiet' = Older(quiet, AgeCap)
          /\ answered' = FALSE
          /\ UNCHANGED zeros

Next == \/ \E c \in Commands : Hear(c)
        \/ Tick
        \/ Elapse

Spec == Init /\ [][Next]_vars
-----------------------------------------------------------------------------
(* A driver that repeats its command at least once per timeout is never    *)
(* interrupted: neither a new trigger nor a hold publishes a zero unless   *)
(* the last moving command heard is more than Timeout old (should_intervene *)
(* and the release of the hold in _on_cmd).                                *)
NeverInterrupts ==
  [][answered' /\ ~answered => quiet # None /\ quiet > Timeout]_vars

(* Every period that ends with the last word being a move and the topic    *)
(* silent for longer than Timeout carried a zero of the deadman, also the  *)
(* period in which a hold runs out (the fall-through in _tick).            *)
SilenceIsAnswered == last_moving /\ age > Timeout /\ ~deadman_due => answered

(* A hold that runs to its end unresumed has sent at least one zero per    *)
(* period of it: what lets it survive the loss of all but one of them.     *)
HoldSendsItsQuota == holding = 0 => zeros >= Hold
=============================================================================
