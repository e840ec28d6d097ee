----------------------------- MODULE TwinBridge -----------------------------
(***************************************************************************)
(* joint_state_bridge: turns the wheels of the twin from the odometry, for *)
(* as long as the odometry is fresh, and refuses to start beside another   *)
(* publisher of its topic (single_instance).                               *)
(***************************************************************************)
EXTENDS Integers, FiniteSets

CONSTANTS Bridges,    \* processes somebody starts
          Watched,    \* the one whose wheels are looked at
          Turn,       \* steps of a full turn of a wheel
          MaxRate,    \* the most a body moves in one unit of time, either way
          OdomTimeout,\* odom_timeout, in units of time
          LookTime,   \* the second and a half of looking for publishers
          MaxTickGap  \* the most that two ticks, or the start and the first, are apart

ASSUME BridgeAssumption == /\ IsFiniteSet(Bridges) /\ Watched \in Bridges
                           /\ Turn \in Nat \ {0} /\ MaxRate \in Nat
                           /\ OdomTimeout \in Nat
                           /\ LookTime \in Nat /\ MaxTickGap \in Nat

VARIABLES override,   \* ALLOW_DUPLICATE_PUBLISHERS
          phase,      \* of each process
          missed,     \* of each process, publishers that came up after it started to look
          twist,      \* the motion it turns the wheels by
          since,      \* time since last_tick
          age,        \* time since odometry, up to one more than OdomTimeout, or -1
          warned,
          wheels,     \* the angles of the left and the right wheels
          overrun,    \* how far the left ones turned since odometry last arrived
          before      \* since, when it arrived: what the next tick adds to its age

bridge_vars == <<override, phase, missed, twist, since, age, warned, wheels, overrun, before>>

Rates == (-MaxRate) .. MaxRate

BridgeTypeOK == /\ override \in BOOLEAN
                /\ phase \in [Bridges -> {"absent", "looking", "cleared", "refused", "up"}]
                /\ missed \in [Bridges -> SUBSET Bridges]
                /\ twist \in [vx : Rates, wz : Rates]
                /\ since \in 0 .. MaxTickGap /\ before \in 0 .. MaxTickGap
                /\ age \in (-1) .. OdomTimeout + 1
                /\ warned \in BOOLEAN
                /\ wheels \in [{"left", "right"} -> 0 .. Turn - 1]
                /\ overrun \in Nat

Resting == [vx |-> 0, wz |-> 0]
Unturned == [s \in {"left", "right"} |-> 0]

BridgeInit == /\ override \in BOOLEAN
              /\ phase = [b \in Bridges |-> "absent"]
              /\ missed = [b \in Bridges |-> {}]
              /\ twist = Resting
              /\ since = 0
              /\ age = -1
              /\ warned = FALSE
              /\ wheels = Unturned
              /\ overrun = 0
              /\ before = 0
-----------------------------------------------------------------------------
wheel_vars == <<twist, since, age, warned, wheels, overrun, before>>

\* __init__ takes last_tick before it looks for publishers.
Start(b) == /\ phase[b] \in {"absent", "refused"}
            /\ phase' = [phase EXCEPT ![b] = "looking"]
            /\ missed' = [missed EXCEPT ![b] = {}]
            /\ IF b = Watched
                 THEN /\ twist' = Resting
                      /\ since' = 0
                      /\ age' = -1
                      /\ warned' = FALSE
                      /\ wheels' = Unturned
                      /\ overrun' = 0
                      /\ before' = 0
                 ELSE UNCHANGED wheel_vars
            /\ UNCHANGED override

\* Node names: a duplicate has the same, and is taken for oneself.
BadCounts(b) == {0}

\* Publishers of the topic.  Those that came up during the second and a half of
\* looking may or may not have been discovered.
count_other_publishers(b) ==
  LET others == {o \in Bridges \ {b} : phase[o] = "up"}
  IN {Cardinality(others \ unseen) : unseen \in SUBSET missed[b]}

assert_sole_publisher(b) ==
  /\ phase[b] = "looking"
  /\ b = Watched => since >= LookTime
  /\ \E n \in count_other_publishers(b) :
       phase' = [phase EXCEPT ![b] = IF override \/ n = 0 THEN "cleared" ELSE "refused"]
  /\ UNCHANGED <<override, missed, wheel_vars>>

CreatePublisher(b) ==
  /\ phase[b] = "cleared"
  /\ phase' = [phase EXCEPT ![b] = "up"]
  /\ missed' = [o \in Bridges |-> IF phase[o] \in {"looking", "cleared"} /\ o # b
                                  THEN missed[o] \cup {b} ELSE missed[o]]
  /\ UNCHANGED <<override, wheel_vars>>

\* SIGINT, SIGTERM: install_signal_handlers, then the default.
Stop(b) == /\ phase[b] \in {"looking", "cleared", "up"}
           /\ phase' = [phase EXCEPT ![b] = "absent"]
           /\ UNCHANGED <<override, missed, wheel_vars>>
-----------------------------------------------------------------------------
Elapse == /\ phase[Watched] \notin {"absent", "refused"}
          /\ since < MaxTickGap
          /\ since' = since + 1
          /\ age' = IF age \in {-1, OdomTimeout + 1} THEN age ELSE age + 1
          /\ UNCHANGED <<override, phase, missed, twist, warned, wheels, overrun, before>>

\* Odometry is taken while looking, too: spin_once runs the subscriptions.
OnOdom(vx, wz) == /\ phase[Watched] \in {"looking", "up"}
                  /\ twist' = [vx |-> vx, wz |-> wz]
                  /\ age' = 0
                  /\ overrun' = 0
                  /\ before' = since
                  /\ UNCHANGED <<override, phase, missed, since, warned, wheels>>

\* The differential wheel_rates, the right side mirrored.
wheel_rates == [left |-> twist'.vx - twist'.wz, right |-> -(twist'.vx + twist'.wz)]

Magnitude(n) == IF n < 0 THEN -n ELSE n

\* The last motion is kept.
BadHold(stale) == UNCHANGED twist

Hold(stale) == twist' = IF stale THEN Resting ELSE twist

\* The whole time since last_tick is integrated at the last twist heard, how
\* little of it that twist was known for.
TickBridge ==
  LET stale == age \in {-1, OdomTimeout + 1}
  IN /\ phase[Watched] = "up"
     /\ since > 0
     /\ warned' = (stale /\ (warned \/ age # -1))
     /\ Hold(stale)
     /\ wheels' = [s \in DOMAIN wheels |-> (wheels[s] + wheel_rates[s] * since) % Turn]
     /\ overrun' = overrun + Magnitude(wheel_rates["left"]) * since
     /\ since' = 0
     /\ UNCHANGED <<override, phase, missed, age, before>>

BridgeNext == \/ \E b \in Bridges : \/ Start(b) \/ assert_sole_publisher(b)
                                    \/ CreatePublisher(b) \/ Stop(b)
              \/ Elapse
              \/ \E vx, wz \in Rates : OnOdom(vx, wz)
              \/ TickBridge
-----------------------------------------------------------------------------
(* Odometry that stops arriving turns the wheels on for no longer than it   *)
(* stays fresh, but for what had run since the last tick when it arrived:  *)
(* a tick integrates all of that at the new twist, after a start the       *)
(* second and a half of looking (JointStateBridge.__init__, _tick).  In    *)
(* all, no turning for longer than odom_timeout and one gap of the ticks.  *)
WheelsFollowOdometry == overrun <= 2 * MaxRate * (OdomTimeout + before)

(* Two bridges publish side by side only if they were told to, or one came *)
(* up while the other was already looking: the check counts publishers,    *)
(* not names, and leaves that window open (single_instance).               *)
SoleUnlessTogether ==
  \A b, o \in {p \in Bridges : phase[p] = "up"} :
    b # o => override \/ b \in missed[o] \/ o \in missed[b]
=============================================================================
