---------------------------- MODULE StackProofs ----------------------------
(***************************************************************************)
(* For every timeout, hold and number of messages the radio may drop: the  *)
(* bounds within which either node stops the car.  Three invariants carry  *)
(* them.  A car that still moves after the last request for motion has     *)
(* missed one zero of the governor in every period since.  The same is     *)
(* true of the zeros of a hold.  And if the last publications came from    *)
(* one publisher and none was lost, firmware and deadman will have heard   *)
(* the same last word when everything under way has arrived.               *)
(***************************************************************************)
EXTENDS SafetyStack, DecideProofs, DeadmanLemmas, FiniteSetTheorems, SequenceTheorems

\* Some command in a channel asks for motion.
Moves(s) == \E i \in DOMAIN s : is_moving_command(s[i])

\* What a receiver will have heard last once the channel has drained.
LastWord(s, heard) == IF s = <<>> THEN heard ELSE is_moving_command(s[Len(s)])

\* The governor's request is no younger than the last request for motion.
RequestIsRemembered ==
  /\ ~governor_alive => req = Zero
  /\ governor_alive => still # None
  /\ governor_alive /\ is_moving_command(req) =>
       cmd_age # None /\ (cmd_age >= still \/ cmd_age = CmdTimeout + 1)

NoLateMoves ==
  governor_alive /\ still > CmdTimeout =>
    \A p \in Publishers : ~Moves(to_firmware[p])

\* A car that is still moving has missed a zero of every period since.
GovernorZerosCounted ==
  governor_alive /\ still > CmdTimeout /\ ~Stopped =>
    losses >= still - (CmdTimeout + 1)
              + (IF ~governor_due /\ to_firmware["governor"] = <<>> THEN 1 ELSE 0)

DeadIsBlank ==
  ~deadman_alive => /\ ~last_moving /\ age = None /\ holding = None
                    /\ to_deadman = Quiet

\* Only the publishers of the last burst have anything under way.
OnlyBurst ==
  /\ \A p \in Publishers \ burst : to_firmware[p] = <<>> /\ to_deadman[p] = <<>>
  /\ burst = {} => Stopped

MovesAreFresh == \A p \in Publishers : Moves(to_deadman[p]) => silence = 0

MoveIsHeard ==
  last_moving => /\ age # None /\ age <= Timeout + 1
                 /\ ~deadman_due /\ to_deadman["deadman"] = <<>> => age <= Timeout
                 /\ silence # None /\ silence <= age

SameLastWord ==
  deadman_alive /\ losses = 0 =>
    \A p \in Publishers :
      burst = {p} /\ (age # None \/ to_deadman[p] # <<>>) =>
        LastWord(to_firmware[p], is_moving_command(latched))
          = LastWord(to_deadman[p], last_moving)

MovesReachBoth ==
  deadman_alive /\ age # 0 =>
    \A p \in Publishers : Moves(to_firmware[p]) => Moves(to_deadman[p])

MovePending == \E p \in Publishers : Moves(to_deadman[p])

HoldZerosCounted ==
  holding # None /\ ~MovePending =>
    /\ \A p \in Publishers : ~Moves(to_firmware[p])
    /\ ~Stopped =>
         losses >= Hold - holding
                   + (IF ~deadman_due /\ to_firmware["deadman"] = <<>> THEN 1 ELSE 0)

\* What the deadman knows.
DeadmanInv == /\ DeadIsBlank
              /\ OnlyBurst
              /\ MovesAreFresh
              /\ MoveIsHeard
              /\ SameLastWord
              /\ MovesReachBoth
              /\ HoldZerosCounted

\* What the governor guarantees.
GovernorInv == /\ RequestIsRemembered
               /\ NoLateMoves
               /\ GovernorZerosCounted

Inv == StackTypeOK /\ GovernorInv /\ DeadmanInv
-----------------------------------------------------------------------------
(* Channels. *)

LEMMA QuietChannels ==
  Quiet \in Channels /\ \A p \in Publishers : Quiet[p] = <<>> /\ ~Moves(Quiet[p])
<1>1. <<>> \in Seq(Twist)
  OBVIOUS
<1>2. Quiet \in Channels
  BY <1>1 DEF Quiet, Channels
<1>3. \A p \in Publishers : Quiet[p] = <<>>
  BY DEF Quiet
<1> QED BY <1>2, <1>3 DEF Moves

LEMMA EmptyWords == ~Moves(<<>>) /\ \A h : LastWord(<<>>, h) = h
  BY DEF Moves, LastWord

LEMMA AppendWords ==
  ASSUME NEW s \in Seq(Twist), NEW c \in Twist
  PROVE  /\ Append(s, c) \in Seq(Twist)
         /\ Append(s, c) # <<>>
         /\ Moves(Append(s, c)) <=> Moves(s) \/ is_moving_command(c)
         /\ \A h : LastWord(Append(s, c), h) = is_moving_command(c)
<1> DEFINE t == Append(s, c)
<1>1. /\ t \in Seq(Twist) /\ t # <<>> /\ Len(t) = Len(s) + 1
      /\ DOMAIN t = 1 .. Len(s) + 1 /\ DOMAIN s = 1 .. Len(s)
      /\ t[Len(s) + 1] = c /\ Len(s) \in Nat
      /\ \A i \in 1 .. Len(s) : t[i] = s[i]
  OBVIOUS
<1> HIDE DEF t
<1>2. Moves(t) <=> Moves(s) \/ is_moving_command(c)
  <2>1. ASSUME Moves(s)  PROVE Moves(t)
    <3>1. PICK i \in 1 .. Len(s) : is_moving_command(s[i])
      BY <1>1, <2>1 DEF Moves
    <3> QED BY <1>1, <3>1 DEF Moves
  <2>2. ASSUME is_moving_command(c)  PROVE Moves(t)
    BY <1>1, <2>2 DEF Moves
  <2>3. ASSUME Moves(t), ~is_moving_command(c)  PROVE Moves(s)
    <3>1. PICK i \in 1 .. Len(s) + 1 : is_moving_command(t[i])
      BY <1>1, <2>3 DEF Moves
    <3>2. i # Len(s) + 1
      BY <1>1, <2>3, <3>1
    <3>3. i \in 1 .. Len(s) /\ t[i] = s[i]
      BY <1>1, <3>1, <3>2
    <3> QED BY <1>1, <3>1, <3>3 DEF Moves
  <2> QED BY <2>1, <2>2, <2>3
<1>3. \A h : LastWord(t, h) = is_moving_command(c)
  BY <1>1 DEF LastWord
<1> QED BY <1>1, <1>2, <1>3 DEF t

LEMMA TailWords ==
  ASSUME NEW s \in Seq(Twist), s # <<>>
  PROVE  /\ Head(s) \in Twist
         /\ Tail(s) \in Seq(Twist)
         /\ Moves(s) <=> is_moving_command(Head(s)) \/ Moves(Tail(s))
         /\ \A h : LastWord(s, h) = LastWord(Tail(s), is_moving_command(Head(s)))
<1> DEFINE t == Tail(s)
           c == Head(s)
<1>1. /\ t \in Seq(Twist) /\ c \in Twist /\ c = s[1]
      /\ Len(s) \in Nat /\ Len(s) > 0 /\ Len(t) = Len(s) - 1
      /\ DOMAIN s = 1 .. Len(s) /\ DOMAIN t = 1 .. Len(s) - 1
      /\ \A i \in 1 .. Len(s) - 1 : t[i] = s[i + 1]
      /\ t = <<>> <=> Len(s) = 1
  <2>1. Len(s) \in Nat /\ Len(s) > 0 /\ DOMAIN s = 1 .. Len(s) /\ c = s[1] /\ c \in Twist
    OBVIOUS
  <2>2. t \in Seq(Twist) /\ Len(t) = Len(s) - 1 /\ \A i \in 1 .. Len(t) : t[i] = s[i + 1]
    BY HeadTailProperties
  <2> HIDE DEF t
  <2>3. DOMAIN t = 1 .. Len(t) /\ (t = <<>> <=> Len(t) = 0)
    BY <2>2
  <2> QED BY <2>1, <2>2, <2>3
<1> HIDE DEF t, c
<1>2. Moves(s) <=> is_moving_command(c) \/ Moves(t)
  <2>1. ASSUME is_moving_command(c)  PROVE Moves(s)
    BY <1>1, <2>1 DEF Moves
  <2>2. ASSUME Moves(t)  PROVE Moves(s)
    <3>1. PICK i \in 1 .. Len(s) - 1 : is_moving_command(t[i])
      BY <1>1, <2>2 DEF Moves
    <3>2. i + 1 \in 1 .. Len(s) /\ t[i] = s[i + 1]
      BY <1>1, <3>1
    <3> QED BY <1>1, <3>1, <3>2 DEF Moves
  <2>3. ASSUME Moves(s), ~is_moving_command(c)  PROVE Moves(t)
    <3>1. PICK i \in 1 .. Len(s) : is_moving_command(s[i])
      BY <1>1, <2>3 DEF Moves
    <3>2. i # 1
      BY <1>1, <2>3, <3>1
    <3>3. i - 1 \in 1 .. Len(s) - 1 /\ t[i - 1] = s[i]
      BY <1>1, <3>1, <3>2
    <3> QED BY <1>1, <3>1, <3>3 DEF Moves
  <2> QED BY <2>1, <2>2, <2>3
<1>3. \A h : LastWord(s, h) = LastWord(t, is_moving_command(c))
  <2>1. s # <<>>
    OBVIOUS
  <2>2. CASE Len(s) = 1
    BY <1>1, <2>1, <2>2 DEF LastWord
  <2>3. CASE Len(s) # 1
    <3>1. t # <<>> /\ t[Len(t)] = s[Len(s)]
      BY <1>1, <2>3
    <3> QED BY <2>1, <3>1 DEF LastWord
  <2> QED BY <2>2, <2>3
<1> QED BY <1>1, <1>2, <1>3 DEF t, c

\* What a publication does to the channels.
LEMMA PublishChannels ==
  ASSUME StackTypeOK, deadman_alive' \in BOOLEAN,
         NEW p \in Publishers, NEW c \in Twist, Publish(p, c)
  PROVE  /\ to_firmware' \in Channels
         /\ to_deadman' \in Channels
         /\ to_firmware'[p] # <<>>
         /\ \A h : LastWord(to_firmware'[p], h) = is_moving_command(c)
         /\ \A q \in Publishers :
              /\ q # p => to_firmware'[q] = to_firmware[q]
              /\ Moves(to_firmware'[q]) <=>
                   Moves(to_firmware[q]) \/ (q = p /\ is_moving_command(c))
         /\ deadman_alive' =>
              /\ to_deadman'[p] # <<>>
              /\ \A h : LastWord(to_deadman'[p], h) = is_moving_command(c)
              /\ \A q \in Publishers :
                   /\ q # p => to_deadman'[q] = to_deadman[q]
                   /\ Moves(to_deadman'[q]) <=>
                        Moves(to_deadman[q]) \/ (q = p /\ is_moving_command(c))
         /\ ~deadman_alive' => to_deadman' = Quiet
<1>1. /\ to_firmware \in Channels /\ to_deadman \in Channels
      /\ to_firmware' = [to_firmware EXCEPT ![p] = Append(@, c)]
      /\ deadman_alive' => to_deadman' = [to_deadman EXCEPT ![p] = Append(@, c)]
      /\ ~deadman_alive' => to_deadman' = Quiet
  BY DEF StackTypeOK, Publish
<1>2. /\ \A q \in Publishers : to_firmware[q] \in Seq(Twist) /\ to_deadman[q] \in Seq(Twist)
      /\ to_firmware'[p] = Append(to_firmware[p], c)
      /\ \A q \in Publishers : q # p => to_firmware'[q] = to_firmware[q]
  BY <1>1 DEF Channels
<1>3. /\ to_firmware' \in Channels
      /\ to_firmware'[p] # <<>>
      /\ \A h : LastWord(to_firmware'[p], h) = is_moving_command(c)
      /\ Moves(to_firmware'[p]) <=> Moves(to_firmware[p]) \/ is_moving_command(c)
  <2>1. Append(to_firmware[p], c) \in Seq(Twist)
    BY <1>2, AppendWords
  <2>2. to_firmware' \in Channels
    BY <1>1, <2>1 DEF Channels
  <2> QED BY <1>2, <2>2, AppendWords
<1>4. ASSUME deadman_alive'
      PROVE  /\ to_deadman' \in Channels
             /\ to_deadman'[p] # <<>>
             /\ \A h : LastWord(to_deadman'[p], h) = is_moving_command(c)
             /\ \A q \in Publishers : q # p => to_deadman'[q] = to_deadman[q]
             /\ Moves(to_deadman'[p]) <=> Moves(to_deadman[p]) \/ is_moving_command(c)
  <2>1. Append(to_deadman[p], c) \in Seq(Twist)
    BY <1>2, AppendWords
  <2>2. to_deadman' \in Channels
    BY <1>1, <1>4, <2>1 DEF Channels
  <2>3. /\ to_deadman'[p] = Append(to_deadman[p], c)
        /\ \A q \in Publishers : q # p => to_deadman'[q] = to_deadman[q]
    BY <1>1, <1>4 DEF Channels
  <2> QED BY <1>2, <2>2, <2>3, AppendWords
<1>5. ~deadman_alive' => to_deadman' \in Channels
  BY <1>1, QuietChannels
<1>6. CASE deadman_alive'
  BY <1>2, <1>3, <1>4, <1>6
<1>7. CASE ~deadman_alive'
  BY <1>1, <1>2, <1>3, <1>5, <1>7
<1> QED BY <1>6, <1>7
-----------------------------------------------------------------------------
(* Types. *)

LEMMA BoundsAreNat ==
  /\ SilenceCap \in Nat /\ SilenceCap = Timeout + 2 /\ SilenceCap = AgeCap
  /\ StillCap \in Nat /\ StillCap = CmdTimeout + 2 + MaxLoss
  /\ Timeout \in Nat /\ Hold \in Nat /\ CmdTimeout \in Nat /\ MaxLoss \in Nat
  BY DeadmanAssumption, GovernorAssumption, StackAssumption
  DEF SilenceCap, StillCap, DeadmanBound, GovernorBound, AgeCap

LEMMA PublishType ==
  ASSUME StackTypeOK, deadman_alive' \in BOOLEAN,
         NEW p \in Publishers, NEW c \in Twist, Publish(p, c)
  PROVE  /\ to_firmware' \in Channels /\ to_deadman' \in Channels
         /\ silence' \in (0 .. SilenceCap) \cup {None}
         /\ burst' \subseteq Publishers
<1>1. to_firmware' \in Channels /\ to_deadman' \in Channels
  BY PublishChannels
<1>2. silence' \in (0 .. SilenceCap) \cup {None}
  BY BoundsAreNat DEF StackTypeOK, Publish
<1>3. burst' \subseteq Publishers
  BY DEF StackTypeOK, Publish
<1> QED BY <1>1, <1>2, <1>3

LEMMA TakeType ==
  ASSUME NEW channel \in Channels, NEW p \in Publishers, channel[p] # <<>>
  PROVE  /\ [channel EXCEPT ![p] = Tail(@)] \in Channels
         /\ Head(channel[p]) \in Twist
<1>1. channel[p] \in Seq(Twist)
  BY DEF Channels
<1>2. Tail(channel[p]) \in Seq(Twist) /\ Head(channel[p]) \in Twist
  BY <1>1, TailWords
<1> QED BY <1>2 DEF Channels

LEMMA OutputIsTwist == StackTypeOK => GovernorOutput \in Twist /\ Zero \in Twist
<1>1. Motion \subseteq Twist
  BY DEF Motion, Twist, Scalar
<1> QED BY <1>1, OutputIsMotion, ZeroIsStill DEF StackTypeOK

LEMMA InitType == StackInit => StackTypeOK
<1> SUFFICES ASSUME StackInit
             PROVE  StackTypeOK
  OBVIOUS
<1>1. DeadmanTypeOK
  BY DeadmanAssumption DEF StackInit, DeadmanInit, DeadmanTypeOK, Ages
<1>2. GovernorTypeOK
  BY GovernorInitType DEF StackInit
<1>3. to_firmware \in Channels /\ to_deadman \in Channels /\ latched \in Twist
  BY QuietChannels DEF StackInit, Zero, Twist, Scalar
<1>4. losses \in 0 .. MaxLoss
  BY BoundsAreNat DEF StackInit
<1> QED BY <1>1, <1>2, <1>3, <1>4 DEF StackInit, StackTypeOK

LEMMA DeadmanForgetsType == DeadmanForgets => DeadmanTypeOK'
  BY DEF DeadmanForgets, DeadmanTypeOK, Ages

LEMMA DeadmanStutterType == DeadmanTypeOK /\ UNCHANGED deadman_vars => DeadmanTypeOK'
  BY DEF DeadmanTypeOK, deadman_vars

LEMMA DeliveryType ==
  ASSUME StackTypeOK, NEW p \in Publishers,
         FirmwareReceives(p) \/ RadioDrops(p) \/ DeadmanReceives(p)
  PROVE  StackTypeOK'
<1> USE DEF StackTypeOK, alive_vars
<1>1. CASE FirmwareReceives(p)
  <2>1. to_firmware' \in Channels /\ latched' \in Twist
    BY <1>1, TakeType DEF FirmwareReceives
  <2> QED BY <1>1, <2>1, DeadmanStutterType, GovernorStutterType DEF FirmwareReceives
<1>2. CASE RadioDrops(p)
  <2>1. to_firmware' \in Channels
    BY <1>2, TakeType DEF RadioDrops
  <2>2. losses' \in 0 .. MaxLoss
    BY <1>2, BoundsAreNat DEF RadioDrops
  <2> QED BY <1>2, <2>1, <2>2, DeadmanStutterType, GovernorStutterType DEF RadioDrops
<1>3. CASE DeadmanReceives(p)
  <2>1. to_deadman' \in Channels
    BY <1>3, TakeType DEF DeadmanReceives
  <2>2. DeadmanTypeOK'
    BY <1>3, OnCmdType DEF DeadmanReceives
  <2> QED BY <1>3, <2>1, <2>2, GovernorStutterType DEF DeadmanReceives
<1> QED BY <1>1, <1>2, <1>3

LEMMA DriverType ==
  ASSUME StackTypeOK,
         \/ \E r \in Requests : Request(r)
         \/ \E c \in Commands : Command(c)
         \/ \E scan \in Scans : Scan(scan)
         \/ DriversGone
  PROVE  StackTypeOK'
<1> USE DEF StackTypeOK, alive_vars, bus_vars
<1>1. ASSUME NEW r \in Requests, Request(r)
      PROVE  StackTypeOK'
  <2>1. still' \in (0 .. StillCap) \cup {None}
    BY <1>1, BoundsAreNat DEF Request
  <2>2. GovernorTypeOK'
    BY <1>1, OnRequestType DEF Request
  <2> QED BY <1>1, <2>1, <2>2, DeadmanStutterType DEF Request
<1>2. ASSUME NEW c \in Commands, Command(c)
      PROVE  StackTypeOK'
  <2>1. still' \in (0 .. StillCap) \cup {None}
    BY <1>2, BoundsAreNat DEF Command
  <2>2. c \in Twist /\ deadman_alive' \in BOOLEAN /\ "driver" \in Publishers
    BY <1>2, DeadmanAssumption DEF Command, Publishers
  <2>3. /\ to_firmware' \in Channels /\ to_deadman' \in Channels
        /\ silence' \in (0 .. SilenceCap) \cup {None} /\ burst' \subseteq Publishers
    BY <1>2, <2>2, PublishType DEF Command
  <2> QED BY <1>2, <2>1, <2>3, DeadmanStutterType, GovernorStutterType DEF Command
<1>3. ASSUME NEW scan \in Scans, Scan(scan)
      PROVE  StackTypeOK'
  BY <1>3, OnScanType, DeadmanStutterType DEF Scan
<1>4. CASE DriversGone
  BY <1>4, DeadmanStutterType, GovernorStutterType DEF DriversGone
<1> QED BY <1>1, <1>2, <1>3, <1>4

LEMMA NodeType ==
  ASSUME StackTypeOK,
         \/ GovernorTimer \/ DeadmanTimer
         \/ \E says_zero \in BOOLEAN : GovernorDies(says_zero) \/ DeadmanDies(says_zero)
         \/ GovernorStarts \/ DeadmanStarts
  PROVE  StackTypeOK'
<1> USE DEF StackTypeOK, alive_vars, bus_vars
<1> DEFINE Bus == /\ to_firmware' \in Channels /\ to_deadman' \in Channels
                  /\ silence' \in (0 .. SilenceCap) \cup {None} /\ burst' \subseteq Publishers
<1>1. ASSUME NEW p \in Publishers, NEW c \in Twist, Publish(p, c), deadman_alive' \in BOOLEAN
      PROVE  Bus
  BY <1>1, PublishType
<1>2. UNCHANGED bus_vars => Bus
  OBVIOUS
<1>3. "governor" \in Publishers /\ "deadman" \in Publishers /\ Zero \in Twist
      /\ GovernorOutput \in Twist
  BY OutputIsTwist DEF Publishers
<1> HIDE DEF Bus
<1>4. CASE GovernorTimer
  <2>1. Bus
    BY <1>1, <1>3, <1>4 DEF GovernorTimer
  <2> QED BY <1>4, <2>1, GovernorTickType, DeadmanStutterType DEF GovernorTimer, Bus
<1>5. CASE DeadmanTimer
  <2>1. Bus
    BY <1>1, <1>2, <1>3, <1>5 DEF DeadmanTimer
  <2> QED BY <1>5, <2>1, DeadmanTickType, GovernorStutterType DEF DeadmanTimer, Bus
<1>6. ASSUME NEW says_zero \in BOOLEAN, GovernorDies(says_zero)
      PROVE  StackTypeOK'
  <2>1. Bus
    BY <1>1, <1>2, <1>3, <1>6 DEF GovernorDies
  <2> QED BY <1>6, <2>1, GovernorForgetsType, DeadmanStutterType DEF GovernorDies, Bus
<1>7. ASSUME NEW says_zero \in BOOLEAN, DeadmanDies(says_zero)
      PROVE  StackTypeOK'
  <2>1. Bus
    <3>1. CASE says_zero
      BY <1>1, <1>3, <1>7, <3>1 DEF DeadmanDies
    <3>2. CASE ~says_zero
      BY <1>7, <3>2, QuietChannels DEF DeadmanDies, Bus
    <3> QED BY <3>1, <3>2
  <2> QED BY <1>7, <2>1, DeadmanForgetsType, GovernorStutterType DEF DeadmanDies, Bus
<1>8. CASE GovernorStarts
  <2>1. still' \in (0 .. StillCap) \cup {None}
    BY <1>8, BoundsAreNat DEF GovernorStarts
  <2> QED BY <1>8, <2>1, DeadmanStutterType, GovernorStutterType DEF GovernorStarts
<1>9. CASE DeadmanStarts
  BY <1>9, DeadmanStutterType, GovernorStutterType DEF DeadmanStarts
<1> QED BY <1>4, <1>5, <1>6, <1>7, <1>8, <1>9

LEMMA OlderCounts ==
  ASSUME NEW cap \in Nat, NEW a \in (0 .. cap) \cup {None}
  PROVE  /\ Older(a, cap) \in (0 .. cap) \cup {None}
         /\ Older(a, cap) = None <=> a = None
         /\ a # None => Older(a, cap) = IF a = cap THEN cap ELSE a + 1
  BY VelocityAssumption DEF Older

LEMMA PeriodType ==
  ASSUME StackTypeOK, Period
  PROVE  StackTypeOK'
<1> USE DEF StackTypeOK, alive_vars
<1>1. /\ silence' \in (0 .. SilenceCap) \cup {None}
      /\ still' \in (0 .. StillCap) \cup {None}
  BY BoundsAreNat, OlderCounts DEF Period
<1>2. DeadmanTypeOK' /\ GovernorTypeOK'
  BY DeadmanElapseType, DeadmanStutterType, GovernorElapseType, GovernorStutterType DEF Period
<1> QED BY <1>1, <1>2 DEF Period
-----------------------------------------------------------------------------
(* The governor's part of the invariant. *)

\* Once the last request for motion is stale, or was taken back, the tick says stop.
LEMMA OutputIsStill ==
  ASSUME StackTypeOK, RequestIsRemembered, governor_alive, still > CmdTimeout
  PROVE  ~is_moving_command(GovernorOutput)
<1>1. CASE Refused(req, scan_age, cmd_age)
  BY <1>1, ZeroIsStill DEF GovernorOutput, decide
<1>2. CASE ~Refused(req, scan_age, cmd_age)
  <2>1. /\ req \in Motion
        /\ GovernorOutput \in Motion
        /\ Within(GovernorOutput, req)
    BY <1>2, DecideIsWithin DEF StackTypeOK, GovernorTypeOK, GovernorOutput
  <2>2. ~is_moving_command(req)
    <3>1. SUFFICES ASSUME is_moving_command(req)
                   PROVE  Stale(cmd_age, CmdTimeout)
      BY <1>2 DEF Refused
    <3>2. /\ cmd_age # None /\ (cmd_age >= still \/ cmd_age = CmdTimeout + 1)
          /\ cmd_age \in AgesUpTo(CmdTimeout) /\ still # None
          /\ still \in (0 .. StillCap) \cup {None}
      BY <3>1 DEF RequestIsRemembered, StackTypeOK, GovernorTypeOK
    <3>3. cmd_age \in Nat /\ still \in Nat
      BY <3>2, BoundsAreNat DEF AgesUpTo
    <3> QED BY <3>2, <3>3, BoundsAreNat DEF Stale
  <2>3. \A axis \in Axes : GovernorOutput[axis] \in Int /\ req[axis] \in Int
    BY <2>1 DEF Motion, Axes
  <2> QED BY <2>1, <2>2, <2>3 DEF Within, is_moving_command
<1> QED BY <1>1, <1>2

\* Steps that concern neither the governor nor the firmware.
LEMMA GovernorAside ==
  ASSUME GovernorInv,
         UNCHANGED <<req, cmd_age, governor_due, governor_alive, still, to_firmware,
                     latched, losses>>
  PROVE  GovernorInv'
  BY DEF GovernorInv, RequestIsRemembered, NoLateMoves, GovernorZerosCounted, Stopped,
         Moves, is_moving_command

\* Somebody else publishes, and no motion if none has been asked for lately.
LEMMA OthersPublish ==
  ASSUME StackTypeOK, GovernorInv, deadman_alive' \in BOOLEAN,
         NEW p \in Publishers, p # "governor", NEW c \in Twist, Publish(p, c),
         still' = still \/ still' = 0,
         governor_alive /\ is_moving_command(c) => still' = 0,
         UNCHANGED <<req, cmd_age, governor_due, governor_alive, latched, losses>>
  PROVE  GovernorInv'
<1>1. ~(0 > CmdTimeout)
  BY BoundsAreNat
<1>2. RequestIsRemembered'
  <2>1. governor_alive /\ is_moving_command(req) /\ still' = 0 =>
          cmd_age >= still' \/ cmd_age = CmdTimeout + 1
    BY BoundsAreNat DEF GovernorInv, RequestIsRemembered, StackTypeOK, GovernorTypeOK, AgesUpTo
  <2>2. 0 # None
    BY VelocityAssumption
  <2>3. is_moving_command(req)' = is_moving_command(req)
    BY DEF is_moving_command
  <2> QED BY <2>1, <2>2, <2>3 DEF GovernorInv, RequestIsRemembered
<1>3. CASE still' = 0
  BY <1>1, <1>2, <1>3 DEF GovernorInv, NoLateMoves, GovernorZerosCounted
<1>4. CASE still' # 0
  <2>1. still' = still /\ (governor_alive => ~is_moving_command(c))
    BY <1>4
  <2>2. /\ to_firmware'["governor"] = to_firmware["governor"]
        /\ governor_alive =>
             \A q \in Publishers : Moves(to_firmware'[q]) <=> Moves(to_firmware[q])
    BY <2>1, PublishChannels DEF Publishers
  <2>3. NoLateMoves'
    BY <2>1, <2>2 DEF GovernorInv, NoLateMoves
  <2>4. GovernorZerosCounted'
    BY <2>1, <2>2 DEF GovernorInv, GovernorZerosCounted, Stopped, is_moving_command
  <2> QED BY <1>2, <2>3, <2>4 DEF GovernorInv
<1> QED BY <1>3, <1>4

LEMMA DeliveryGovernor ==
  ASSUME StackTypeOK, GovernorInv, NEW p \in Publishers,
         FirmwareReceives(p) \/ RadioDrops(p) \/ DeadmanReceives(p)
  PROVE  GovernorInv'
<1>1. CASE DeadmanReceives(p)
  BY <1>1, GovernorAside DEF DeadmanReceives, alive_vars, governor_vars
<1>2. CASE FirmwareReceives(p) \/ RadioDrops(p)
  <2>1. /\ to_firmware' = [to_firmware EXCEPT ![p] = Tail(@)]
        /\ to_firmware \in Channels /\ to_firmware[p] # <<>>
        /\ UNCHANGED <<req, cmd_age, governor_due, governor_alive, still>>
    BY <1>2 DEF StackTypeOK, FirmwareReceives, RadioDrops, alive_vars, governor_vars
  <2>2. /\ to_firmware[p] \in Seq(Twist)
        /\ \A q \in Publishers : to_firmware'[q] = IF q = p THEN Tail(to_firmware[p])
                                                   ELSE to_firmware[q]
    BY <2>1 DEF Channels
  <2>3. /\ \A q \in Publishers : Moves(to_firmware'[q]) => Moves(to_firmware[q])
        /\ is_moving_command(Head(to_firmware[p])) => Moves(to_firmware[p])
    BY <2>1, <2>2, TailWords
  <2>4. RequestIsRemembered'
    BY <2>1 DEF GovernorInv, RequestIsRemembered, is_moving_command
  <2>5. NoLateMoves'
    BY <2>1, <2>3 DEF GovernorInv, NoLateMoves
  <2>6. GovernorZerosCounted'
    <3>1. SUFFICES ASSUME governor_alive, still > CmdTimeout, ~Stopped'
                   PROVE  losses' >= still - (CmdTimeout + 1)
                            + (IF ~governor_due /\ to_firmware'["governor"] = <<>>
                               THEN 1 ELSE 0)
      BY <2>1 DEF GovernorZerosCounted
    <3>2. RadioDrops(p)
      <4>1. CASE FirmwareReceives(p)
        BY <2>3, <3>1, <4>1 DEF GovernorInv, NoLateMoves, FirmwareReceives, Stopped
      <4> QED BY <1>2, <4>1
    <3>3. losses' = losses + 1 /\ ~Stopped
      BY <3>1, <3>2 DEF RadioDrops, Stopped, is_moving_command
    <3>4. losses >= still - (CmdTimeout + 1)
                    + (IF ~governor_due /\ to_firmware["governor"] = <<>> THEN 1 ELSE 0)
      BY <3>1, <3>3 DEF GovernorInv, GovernorZerosCounted
    <3>5. losses \in Nat /\ still \in Nat /\ CmdTimeout \in Nat
      <4>1. still # None
        BY <3>1 DEF GovernorInv, RequestIsRemembered
      <4> QED BY <4>1, BoundsAreNat DEF StackTypeOK
    <3> QED BY <3>3, <3>4, <3>5
  <2> QED BY <2>4, <2>5, <2>6 DEF GovernorInv
<1> QED BY <1>1, <1>2

LEMMA DriverGovernor ==
  ASSUME StackTypeOK, GovernorInv,
         \/ \E r \in Requests : Request(r)
         \/ \E c \in Commands : Command(c)
         \/ \E scan \in Scans : Scan(scan)
         \/ DriversGone
  PROVE  GovernorInv'
<1>1. ~(0 > CmdTimeout) /\ 0 # None
  BY BoundsAreNat, VelocityAssumption
<1>2. ASSUME NEW r \in Requests, Request(r)
      PROVE  GovernorInv'
  <2>1. /\ req' = r /\ cmd_age' = 0 /\ governor_alive
        /\ still' = IF is_moving_command(r) THEN 0 ELSE still
        /\ UNCHANGED <<governor_due, governor_alive, to_firmware, latched, losses>>
    BY <1>2 DEF Request, OnRequest, alive_vars, bus_vars
  <2>2. RequestIsRemembered'
    BY <1>1, <2>1 DEF GovernorInv, RequestIsRemembered
  <2>3. CASE still' = 0
    BY <1>1, <2>1, <2>2, <2>3 DEF GovernorInv, NoLateMoves, GovernorZerosCounted
  <2>4. CASE still' # 0
    <3>1. still' = still
      BY <2>1, <2>4
    <3> QED BY <2>1, <2>2, <3>1
            DEF GovernorInv, NoLateMoves, GovernorZerosCounted, Stopped, Moves,
                is_moving_command
  <2> QED BY <2>3, <2>4
<1>3. ASSUME NEW c \in Commands, Command(c)
      PROVE  GovernorInv'
  <2>1. /\ Publish("driver", c) /\ c \in Twist /\ deadman_alive' \in BOOLEAN
        /\ "driver" \in Publishers
        /\ still' = IF is_moving_command(c) THEN 0 ELSE still
        /\ UNCHANGED <<req, cmd_age, governor_due, governor_alive, latched, losses>>
    BY <1>3, DeadmanAssumption
    DEF Command, StackTypeOK, alive_vars, governor_vars, Publishers
  <2> QED BY <2>1, OthersPublish
<1>4. ASSUME NEW scan \in Scans, Scan(scan)
      PROVE  GovernorInv'
  BY <1>4, GovernorAside DEF Scan, OnScan, alive_vars, bus_vars
<1>5. CASE DriversGone
  BY <1>5, GovernorAside DEF DriversGone, governor_vars, bus_vars
<1> QED BY <1>2, <1>3, <1>4, <1>5

LEMMA NodeGovernor ==
  ASSUME StackTypeOK, GovernorInv,
         \/ GovernorTimer \/ DeadmanTimer
         \/ \E says_zero \in BOOLEAN : GovernorDies(says_zero) \/ DeadmanDies(says_zero)
         \/ GovernorStarts \/ DeadmanStarts
  PROVE  GovernorInv'
<1>1. /\ "governor" \in Publishers /\ "deadman" \in Publishers
      /\ Zero \in Twist /\ GovernorOutput \in Twist
  BY OutputIsTwist DEF Publishers
<1>2. CASE GovernorTimer
  <2>1. /\ governor_due /\ ~governor_due' /\ governor_alive /\ deadman_alive' \in BOOLEAN
        /\ Publish("governor", GovernorOutput)
        /\ UNCHANGED <<req, cmd_age, governor_alive, still, latched, losses>>
    BY <1>2 DEF StackTypeOK, GovernorTimer, GovernorTick, alive_vars
  <2>2. /\ to_firmware'["governor"] # <<>>
        /\ \A q \in Publishers :
             Moves(to_firmware'[q]) <=>
               Moves(to_firmware[q]) \/ (q = "governor" /\ is_moving_command(GovernorOutput))
    BY <1>1, <2>1, PublishChannels
  <2>3. RequestIsRemembered'
    BY <2>1 DEF GovernorInv, RequestIsRemembered, is_moving_command
  <2>4. NoLateMoves'
    BY <2>1, <2>2, OutputIsStill DEF GovernorInv, NoLateMoves
  <2>5. GovernorZerosCounted'
    BY <2>1, <2>2 DEF GovernorInv, GovernorZerosCounted, Stopped, is_moving_command
  <2> QED BY <2>3, <2>4, <2>5 DEF GovernorInv
<1>3. CASE DeadmanTimer
  <2>1. deadman_alive' \in BOOLEAN
        /\ UNCHANGED <<req, cmd_age, governor_due, governor_alive, still, latched, losses>>
    BY <1>3 DEF StackTypeOK, DeadmanTimer, alive_vars, governor_vars
  <2>2. CASE DeadmanPublishes
    BY <1>1, <1>3, <2>1, <2>2, ZeroIsStill, OthersPublish DEF DeadmanTimer
  <2>3. CASE ~DeadmanPublishes
    BY <1>3, <2>1, <2>3, GovernorAside DEF DeadmanTimer, bus_vars
  <2> QED BY <2>2, <2>3
<1>4. ASSUME NEW says_zero \in BOOLEAN, GovernorDies(says_zero)
      PROVE  GovernorInv'
  <2>1. ~governor_alive' /\ req' = Zero
    BY <1>4 DEF GovernorDies, GovernorForgets
  <2> QED BY <2>1 DEF GovernorInv, RequestIsRemembered, NoLateMoves, GovernorZerosCounted
<1>5. ASSUME NEW says_zero \in BOOLEAN, DeadmanDies(says_zero)
      PROVE  GovernorInv'
  <2>1. deadman_alive' \in BOOLEAN
        /\ UNCHANGED <<req, cmd_age, governor_due, governor_alive, still, latched, losses>>
    BY <1>5 DEF StackTypeOK, DeadmanDies, governor_vars
  <2>2. CASE says_zero
    BY <1>1, <1>5, <2>1, <2>2, ZeroIsStill, OthersPublish DEF DeadmanDies
  <2>3. CASE ~says_zero
    BY <1>5, <2>1, <2>3, GovernorAside DEF DeadmanDies
  <2> QED BY <2>2, <2>3
<1>6. CASE GovernorStarts
  <2>1. ~governor_alive /\ still' = 0 /\ req' = req
    BY <1>6 DEF GovernorStarts, governor_vars
  <2>2. ~is_moving_command(req') /\ ~(0 > CmdTimeout) /\ 0 # None
    BY <2>1, ZeroIsStill, BoundsAreNat, VelocityAssumption DEF GovernorInv, RequestIsRemembered
  <2> QED BY <1>6, <2>1, <2>2
          DEF GovernorStarts, GovernorInv, RequestIsRemembered, NoLateMoves,
              GovernorZerosCounted
<1>7. CASE DeadmanStarts
  BY <1>7, GovernorAside DEF DeadmanStarts, governor_vars, bus_vars
<1> QED BY <1>2, <1>3, <1>4, <1>5, <1>6, <1>7

LEMMA PeriodGovernor ==
  ASSUME StackTypeOK, GovernorInv, Period
  PROVE  GovernorInv'
<1>1. /\ to_firmware = Quiet /\ to_firmware' = Quiet
      /\ still' = Older(still, StillCap)
      /\ UNCHANGED <<governor_alive, latched, losses>>
      /\ governor_alive => /\ ~governor_due /\ governor_due'
                           /\ cmd_age' = Older(cmd_age, CmdTimeout + 1)
                           /\ req' = req
      /\ ~governor_alive => req' = req
  BY DEF Period, Idle, GovernorElapse, alive_vars, governor_vars
<1>2. /\ still \in (0 .. StillCap) \cup {None}
      /\ cmd_age \in (0 .. CmdTimeout + 1) \cup {None}
      /\ losses \in 0 .. MaxLoss
      /\ CmdTimeout + 1 \in Nat
  BY BoundsAreNat DEF StackTypeOK, GovernorTypeOK, AgesUpTo
<1>3. ASSUME governor_alive
      PROVE  /\ still \in 0 .. StillCap
             /\ still' = IF still = StillCap THEN StillCap ELSE still + 1
             /\ still' # None
  BY <1>1, <1>2, <1>3, OlderCounts, BoundsAreNat, VelocityAssumption
  DEF GovernorInv, RequestIsRemembered
<1>4. RequestIsRemembered'
  <2>1. ASSUME governor_alive, is_moving_command(req)
        PROVE  cmd_age' # None /\ (cmd_age' >= still' \/ cmd_age' = CmdTimeout + 1)
    <3>1. /\ cmd_age \in 0 .. CmdTimeout + 1
          /\ cmd_age >= still \/ cmd_age = CmdTimeout + 1
      BY <1>2, <2>1 DEF GovernorInv, RequestIsRemembered
    <3>2. cmd_age' = IF cmd_age = CmdTimeout + 1 THEN CmdTimeout + 1 ELSE cmd_age + 1
      BY <1>1, <1>2, <2>1, <3>1, OlderCounts, VelocityAssumption
    <3> QED BY <1>2, <1>3, <2>1, <3>1, <3>2, BoundsAreNat, VelocityAssumption
  <2>2. is_moving_command(req)' = is_moving_command(req)
    BY <1>1 DEF is_moving_command
  <2> QED BY <1>1, <1>3, <2>1, <2>2 DEF GovernorInv, RequestIsRemembered
<1>5. NoLateMoves'
  BY <1>1, QuietChannels DEF NoLateMoves
<1>6. GovernorZerosCounted'
  <2>1. SUFFICES ASSUME governor_alive, still' > CmdTimeout, ~Stopped
                 PROVE  losses >= still' - (CmdTimeout + 1)
    BY <1>1, <1>2, <1>3, BoundsAreNat DEF GovernorZerosCounted, Stopped, is_moving_command
  <2>2. CASE still > CmdTimeout
    <3>1. losses >= still - (CmdTimeout + 1) + 1
      BY <1>1, <2>1, <2>2, QuietChannels DEF GovernorInv, GovernorZerosCounted, Publishers
    <3> QED BY <1>2, <1>3, <2>1, <3>1, BoundsAreNat
  <2>3. CASE ~(still > CmdTimeout)
    BY <1>2, <1>3, <2>1, <2>3, BoundsAreNat
  <2> QED BY <2>2, <2>3
<1> QED BY <1>4, <1>5, <1>6 DEF GovernorInv
-----------------------------------------------------------------------------
(* The deadman's part of the invariant. *)

LEMMA DeadmanAside ==
  ASSUME DeadmanInv,
         UNCHANGED <<deadman_vars, deadman_alive, to_firmware, to_deadman, latched, losses,
                     silence, burst>>
  PROVE  DeadmanInv'
<1>1. Stopped' = Stopped
  BY DEF Stopped, is_moving_command
<1>2. MovePending' = MovePending
  BY DEF MovePending, Moves, is_moving_command
<1>3. DeadIsBlank' /\ OnlyBurst' /\ MoveIsHeard'
  BY <1>1 DEF DeadmanInv, DeadIsBlank, OnlyBurst, MoveIsHeard, deadman_vars, Quiet
<1>4. MovesAreFresh' /\ MovesReachBoth'
  BY DEF DeadmanInv, MovesAreFresh, MovesReachBoth, Moves, is_moving_command, deadman_vars
<1>5. SameLastWord'
  BY <1>1 DEF DeadmanInv, SameLastWord, LastWord, is_moving_command, deadman_vars
<1>6. HoldZerosCounted'
  BY <1>1, <1>2 DEF DeadmanInv, HoldZerosCounted, Moves, is_moving_command, deadman_vars
<1> QED BY <1>3, <1>4, <1>5, <1>6 DEF DeadmanInv

\* What any publication does to the invariant, whatever else its author does.
LEMMA PublishBurst ==
  ASSUME StackTypeOK, DeadmanInv, deadman_alive' \in BOOLEAN,
         NEW p \in Publishers, NEW c \in Twist, Publish(p, c),
         UNCHANGED <<latched, losses>>
  PROVE  OnlyBurst' /\ MovesAreFresh' /\ SameLastWord'
<1>1. /\ burst' = (IF Idle THEN {} ELSE burst) \cup {p}
      /\ silence' = IF is_moving_command(c) THEN 0 ELSE silence
      /\ ~deadman_alive' => to_deadman' = Quiet
  BY DEF Publish
<1>2. OnlyBurst'
  <2>1. ASSUME NEW q \in Publishers, q \notin burst'
        PROVE  to_firmware'[q] = <<>> /\ to_deadman'[q] = <<>>
    <3>1. q # p /\ to_firmware[q] = <<>> /\ to_deadman[q] = <<>>
      BY <1>1, <2>1, QuietChannels DEF DeadmanInv, OnlyBurst, Idle
    <3>2. to_firmware'[q] = to_firmware[q]
      BY <3>1, PublishChannels
    <3>3. to_deadman'[q] = <<>>
      <4>1. CASE deadman_alive'
        BY <3>1, <4>1, PublishChannels
      <4>2. CASE ~deadman_alive'
        BY <1>1, <4>2, QuietChannels
      <4> QED BY <4>1, <4>2
    <3> QED BY <3>1, <3>2, <3>3
  <2>2. burst' # {}
    BY <1>1
  <2> QED BY <2>1, <2>2 DEF OnlyBurst
<1>3. MovesAreFresh'
  <2>1. ASSUME NEW q \in Publishers, Moves(to_deadman'[q])
        PROVE  silence' = 0
    <3>1. CASE deadman_alive'
      BY <1>1, <2>1, <3>1, PublishChannels DEF DeadmanInv, MovesAreFresh
    <3>2. CASE ~deadman_alive'
      BY <1>1, <2>1, <3>2, QuietChannels
    <3> QED BY <3>1, <3>2
  <2> QED BY <2>1 DEF MovesAreFresh
<1>4. SameLastWord'
  <2>1. SUFFICES ASSUME deadman_alive', NEW q \in Publishers, burst' = {q}
                 PROVE  LastWord(to_firmware'[q], is_moving_command(latched')) =
                          LastWord(to_deadman'[q], last_moving')
    BY DEF SameLastWord
  <2>2. q = p
    BY <1>1, <2>1
  <2> QED BY <2>1, <2>2, PublishChannels
<1> QED BY <1>2, <1>3, <1>4

\* A publication of somebody else, which the deadman has still to hear.
LEMMA OthersAreHeard ==
  ASSUME StackTypeOK, DeadmanInv, deadman_alive' = deadman_alive,
         NEW p \in Publishers, p # "deadman", NEW c \in Twist, Publish(p, c),
         UNCHANGED <<deadman_vars, latched, losses>>
  PROVE  DeadmanInv'
<1>1. deadman_alive' \in BOOLEAN /\ "deadman" \in Publishers
  BY DEF StackTypeOK, Publishers
<1>2. OnlyBurst' /\ MovesAreFresh' /\ SameLastWord'
  BY <1>1, PublishBurst
<1>3. DeadIsBlank'
  BY <1>1, PublishChannels DEF DeadmanInv, DeadIsBlank, deadman_vars
<1>4. /\ to_firmware'["deadman"] = to_firmware["deadman"]
      /\ deadman_alive => to_deadman'["deadman"] = to_deadman["deadman"]
  BY <1>1, PublishChannels
<1>5. MoveIsHeard'
  <2>1. SUFFICES ASSUME last_moving
                 PROVE  MoveIsHeard'
    BY DEF MoveIsHeard, deadman_vars
  <2>2. /\ deadman_alive /\ age # None /\ age \in Ages
        /\ silence' = 0 \/ silence' = silence
    BY <2>1 DEF DeadmanInv, DeadIsBlank, MoveIsHeard, StackTypeOK, DeadmanTypeOK, Publish
  <2>3. age >= 0 /\ 0 # None
    BY <2>2, VelocityAssumption DEF Ages
  <2> QED BY <1>4, <2>1, <2>2, <2>3 DEF DeadmanInv, MoveIsHeard, deadman_vars
<1>6. MovesReachBoth'
  BY <1>1, PublishChannels DEF DeadmanInv, MovesReachBoth, deadman_vars
<1>7. HoldZerosCounted'
  <2>1. SUFFICES ASSUME holding # None, ~MovePending'
                 PROVE  HoldZerosCounted'
    BY DEF HoldZerosCounted, deadman_vars
  <2>2. deadman_alive
    BY <2>1 DEF DeadmanInv, DeadIsBlank
  <2>3. ~is_moving_command(c) /\ ~MovePending
    BY <1>1, <2>1, <2>2, PublishChannels DEF MovePending
  <2>4. \A q \in Publishers : Moves(to_firmware'[q]) <=> Moves(to_firmware[q])
    BY <1>1, <2>3, PublishChannels
  <2>5. Stopped' = Stopped
    BY DEF Stopped, is_moving_command
  <2> QED BY <1>4, <2>1, <2>3, <2>4, <2>5 DEF DeadmanInv, HoldZerosCounted, deadman_vars
<1> QED BY <1>2, <1>3, <1>5, <1>6, <1>7 DEF DeadmanInv

LEMMA FirmwareDeadman ==
  ASSUME StackTypeOK, DeadmanInv, NEW p \in Publishers,
         FirmwareReceives(p) \/ RadioDrops(p)
  PROVE  DeadmanInv'
<1>1. /\ to_firmware' = [to_firmware EXCEPT ![p] = Tail(@)]
      /\ to_firmware \in Channels /\ to_firmware[p] # <<>>
      /\ UNCHANGED <<deadman_vars, deadman_alive, to_deadman, silence, burst>>
      /\ \/ latched' = Head(to_firmware[p]) /\ losses' = losses
         \/ latched' = latched /\ losses' = losses + 1
      /\ losses \in Nat
  BY BoundsAreNat DEF StackTypeOK, FirmwareReceives, RadioDrops, alive_vars
<1>2. /\ to_firmware[p] \in Seq(Twist)
      /\ \A q \in Publishers : to_firmware'[q] = IF q = p THEN Tail(to_firmware[p])
                                                 ELSE to_firmware[q]
  BY <1>1 DEF Channels
<1>3. /\ \A q \in Publishers : Moves(to_firmware'[q]) => Moves(to_firmware[q])
      /\ is_moving_command(Head(to_firmware[p])) => Moves(to_firmware[p])
      /\ \A h : LastWord(to_firmware[p], h) =
                  LastWord(to_firmware'[p], is_moving_command(Head(to_firmware[p])))
  BY <1>1, <1>2, TailWords
<1>4. p \in burst
  BY <1>1 DEF DeadmanInv, OnlyBurst
<1>5. DeadIsBlank' /\ MoveIsHeard'
  BY <1>1 DEF DeadmanInv, DeadIsBlank, MoveIsHeard, deadman_vars, Quiet
<1>6. OnlyBurst'
  BY <1>1, <1>2, <1>4 DEF DeadmanInv, OnlyBurst
<1>7. MovesAreFresh'
  BY <1>1 DEF DeadmanInv, MovesAreFresh
<1>8. MovesReachBoth'
  BY <1>1, <1>3 DEF DeadmanInv, MovesReachBoth, deadman_vars
<1>9. SameLastWord'
  <2>1. SUFFICES ASSUME deadman_alive, losses' = 0, NEW q \in Publishers, burst = {q},
                        age # None \/ to_deadman[q] # <<>>
                 PROVE  LastWord(to_firmware'[q], is_moving_command(latched')) =
                          LastWord(to_deadman[q], last_moving)
    BY <1>1 DEF SameLastWord, deadman_vars
  <2>2. q = p /\ losses = 0 /\ latched' = Head(to_firmware[p])
    BY <1>1, <1>4, <2>1
  <2>3. is_moving_command(latched') = is_moving_command(Head(to_firmware[p]))
    BY <2>2
  <2>4. LastWord(to_firmware[p], is_moving_command(latched))
          = LastWord(to_deadman[p], last_moving)
    BY <2>1, <2>2 DEF DeadmanInv, SameLastWord
  <2> QED BY <1>3, <2>2, <2>3, <2>4
<1>10. HoldZerosCounted'
  <2>1. MovePending' = MovePending
    BY <1>1 DEF MovePending
  <2>2. SUFFICES ASSUME holding # None, ~MovePending
                 PROVE  HoldZerosCounted'
    BY <1>1, <2>1 DEF HoldZerosCounted, deadman_vars
  <2>3. \A q \in Publishers : ~Moves(to_firmware'[q]) /\ ~Moves(to_firmware[q])
    BY <1>3, <2>2 DEF DeadmanInv, HoldZerosCounted
  <2>4. SUFFICES ASSUME ~Stopped'
                 PROVE  losses' >= Hold - holding
                          + (IF ~deadman_due /\ to_firmware'["deadman"] = <<>>
                             THEN 1 ELSE 0)
    BY <1>1, <2>3 DEF HoldZerosCounted, deadman_vars
  <2>5. losses' = losses + 1 /\ ~Stopped
    BY <1>1, <1>3, <2>3, <2>4 DEF Stopped, is_moving_command
  <2>6. losses >= Hold - holding
                  + (IF ~deadman_due /\ to_firmware["deadman"] = <<>> THEN 1 ELSE 0)
    BY <2>2, <2>5 DEF DeadmanInv, HoldZerosCounted
  <2>7. holding \in Nat /\ Hold \in Nat
    BY <2>2, BoundsAreNat DEF StackTypeOK, DeadmanTypeOK
  <2> QED BY <1>1, <2>5, <2>6, <2>7
<1> QED BY <1>5, <1>6, <1>7, <1>8, <1>9, <1>10 DEF DeadmanInv

LEMMA DeadmanHears ==
  ASSUME StackTypeOK, DeadmanInv, NEW p \in Publishers, DeadmanReceives(p)
  PROVE  DeadmanInv'
<1> DEFINE c == Head(to_deadman[p])
<1>1. /\ to_deadman' = [to_deadman EXCEPT ![p] = Tail(@)]
      /\ to_deadman \in Channels /\ to_deadman[p] # <<>>
      /\ holding' = IF is_moving_command(c) THEN None ELSE holding
      /\ last_moving' = is_moving_command(c)
      /\ age' = 0 /\ deadman_due' = deadman_due
      /\ UNCHANGED <<deadman_alive, to_firmware, silence, burst, latched, losses>>
  BY DEF StackTypeOK, DeadmanReceives, OnCmd, alive_vars
<1>2. /\ to_deadman[p] \in Seq(Twist)
      /\ \A q \in Publishers : to_deadman'[q] = IF q = p THEN Tail(to_deadman[p])
                                                ELSE to_deadman[q]
  BY <1>1 DEF Channels
<1>3. /\ \A q \in Publishers : Moves(to_deadman'[q]) => Moves(to_deadman[q])
      /\ \A q \in Publishers :
           Moves(to_deadman[q]) => is_moving_command(c) \/ Moves(to_deadman'[q])
      /\ is_moving_command(c) => Moves(to_deadman[p])
      /\ \A h : LastWord(to_deadman[p], h) = LastWord(to_deadman'[p], is_moving_command(c))
  BY <1>1, <1>2, TailWords
<1> HIDE DEF c
<1>4. p \in burst /\ deadman_alive
  BY <1>1, QuietChannels DEF DeadmanInv, OnlyBurst, DeadIsBlank
<1>5. 0 # None /\ 0 <= Timeout /\ 0 <= Timeout + 1
  BY VelocityAssumption, BoundsAreNat
<1>6. DeadIsBlank'
  BY <1>1, <1>4 DEF DeadIsBlank
<1>7. OnlyBurst'
  BY <1>1, <1>2, <1>4 DEF DeadmanInv, OnlyBurst, Stopped, is_moving_command
<1>8. MovesAreFresh'
  BY <1>1, <1>3 DEF DeadmanInv, MovesAreFresh
<1>9. MoveIsHeard'
  BY <1>1, <1>3, <1>5 DEF DeadmanInv, MovesAreFresh, MoveIsHeard
<1>10. SameLastWord'
  <2>1. SUFFICES ASSUME losses = 0, NEW q \in Publishers, burst = {q}
                 PROVE  LastWord(to_firmware[q], is_moving_command(latched')) =
                          LastWord(to_deadman'[q], is_moving_command(c))
    BY <1>1 DEF SameLastWord
  <2>2. q = p
    BY <1>4, <2>1
  <2>3. LastWord(to_firmware[p], is_moving_command(latched))
          = LastWord(to_deadman[p], last_moving)
    BY <1>1, <1>4, <2>1, <2>2 DEF DeadmanInv, SameLastWord
  <2>4. latched' = latched
    BY <1>1
  <2> QED BY <1>3, <2>2, <2>3, <2>4
<1>11. MovesReachBoth'
  BY <1>1 DEF MovesReachBoth
<1>12. HoldZerosCounted'
  <2>1. SUFFICES ASSUME ~is_moving_command(c), holding # None, ~MovePending'
                 PROVE  HoldZerosCounted'
    BY <1>1 DEF HoldZerosCounted
  <2>2. ~MovePending
    BY <1>3, <2>1 DEF MovePending
  <2>3. Stopped' = Stopped
    BY <1>1 DEF Stopped, is_moving_command
  <2> QED BY <1>1, <2>1, <2>2, <2>3 DEF DeadmanInv, HoldZerosCounted
<1> QED BY <1>6, <1>7, <1>8, <1>9, <1>10, <1>11, <1>12 DEF DeadmanInv

LEMMA DeadmanTimerDeadman ==
  ASSUME StackTypeOK, DeadmanInv, DeadmanTimer
  PROVE  DeadmanInv'
<1>1. /\ deadman_alive /\ deadman_alive' /\ deadman_due /\ ~deadman_due'
      /\ UNCHANGED <<last_moving, age, latched, losses>>
      /\ holding' = CASE Latched                       -> holding
                      [] ~Latched /\ should_intervene  -> Hold
                      [] ~Latched /\ ~should_intervene -> None
      /\ "deadman" \in Publishers /\ Zero \in Twist
  BY OutputIsTwist DEF DeadmanTimer, DeadmanTick, alive_vars, Publishers
<1>2. DeadIsBlank'
  BY <1>1 DEF DeadIsBlank
<1>3. CASE ~DeadmanPublishes
  <2>1. /\ UNCHANGED <<to_firmware, to_deadman, silence, burst>>
        /\ holding' = None /\ ~should_intervene
    BY <1>1, <1>3 DEF DeadmanTimer, bus_vars, DeadmanPublishes
  <2>2. OnlyBurst' /\ MovesAreFresh'
    BY <1>1, <2>1 DEF DeadmanInv, OnlyBurst, MovesAreFresh, Stopped, is_moving_command, Moves
  <2>3. MoveIsHeard'
    <3>1. last_moving => age \in Nat /\ age <= Timeout
      BY <2>1, BoundsAreNat
      DEF DeadmanInv, MoveIsHeard, should_intervene, StackTypeOK, DeadmanTypeOK, Ages, AgeCap
    <3> QED BY <1>1, <2>1, <3>1, BoundsAreNat DEF DeadmanInv, MoveIsHeard
  <2>4. SameLastWord' /\ MovesReachBoth'
    BY <1>1, <2>1 DEF DeadmanInv, SameLastWord, MovesReachBoth, Moves, LastWord,
                      is_moving_command
  <2>5. HoldZerosCounted'
    BY <2>1 DEF HoldZerosCounted
  <2> QED BY <1>2, <2>2, <2>3, <2>4, <2>5 DEF DeadmanInv
<1>4. CASE DeadmanPublishes
  <2>1. Publish("deadman", Zero)
    BY <1>4 DEF DeadmanTimer
  <2>2. OnlyBurst' /\ MovesAreFresh' /\ SameLastWord'
    BY <1>1, <2>1, PublishBurst
  <2>3. /\ silence' = silence
        /\ to_deadman'["deadman"] # <<>> /\ to_firmware'["deadman"] # <<>>
        /\ \A q \in Publishers : /\ Moves(to_firmware'[q]) <=> Moves(to_firmware[q])
                                 /\ Moves(to_deadman'[q]) <=> Moves(to_deadman[q])
    BY <1>1, <2>1, ZeroIsStill, PublishChannels DEF Publish
  <2>4. MoveIsHeard' /\ MovesReachBoth'
    BY <1>1, <2>3 DEF DeadmanInv, MoveIsHeard, MovesReachBoth
  <2>5. HoldZerosCounted'
    <3>1. SUFFICES ASSUME ~MovePending'
                   PROVE  HoldZerosCounted'
      BY DEF HoldZerosCounted
    <3>2. ~MovePending
      BY <2>3, <3>1 DEF MovePending
    <3>3. Stopped' = Stopped
      BY <1>1 DEF Stopped, is_moving_command
    <3>4. CASE Latched
      <4>1. holding # None /\ holding' = holding
        BY <1>1, <3>4 DEF Latched
      <4> QED BY <1>1, <2>3, <3>2, <3>3, <4>1 DEF DeadmanInv, HoldZerosCounted
    <3>5. CASE ~Latched
      <4>1. should_intervene /\ holding' = Hold
        BY <1>1, <1>4, <3>5 DEF DeadmanPublishes
      <4>2. age # 0
        BY <4>1, BoundsAreNat DEF should_intervene
      <4>3. \A q \in Publishers : ~Moves(to_firmware'[q])
        BY <1>1, <2>3, <3>2, <4>2 DEF DeadmanInv, MovesReachBoth, MovePending
      <4>4. losses' >= Hold - Hold + 0
        BY <1>1, BoundsAreNat DEF StackTypeOK
      <4> QED BY <2>3, <4>1, <4>3, <4>4 DEF HoldZerosCounted
    <3> QED BY <3>4, <3>5
  <2> QED BY <1>2, <2>2, <2>4, <2>5 DEF DeadmanInv
<1> QED BY <1>3, <1>4

LEMMA DeadmanEndsDeadman ==
  ASSUME StackTypeOK, DeadmanInv, NEW says_zero \in BOOLEAN, DeadmanDies(says_zero)
  PROVE  DeadmanInv'
<1>1. /\ ~deadman_alive' /\ deadman_alive' \in BOOLEAN
      /\ ~last_moving' /\ age' = None /\ holding' = None
      /\ UNCHANGED <<latched, losses>>
      /\ "deadman" \in Publishers /\ Zero \in Twist
  BY OutputIsTwist DEF DeadmanDies, DeadmanForgets, Publishers
<1>2. CASE says_zero
  <2>1. Publish("deadman", Zero)
    BY <1>2 DEF DeadmanDies
  <2>2. OnlyBurst' /\ MovesAreFresh'
    BY <1>1, <2>1, PublishBurst
  <2>3. to_deadman' = Quiet
    BY <1>1, <2>1 DEF Publish
  <2> QED BY <1>1, <2>2, <2>3
          DEF DeadmanInv, DeadIsBlank, MoveIsHeard, SameLastWord, MovesReachBoth,
              HoldZerosCounted, Quiet
<1>3. CASE ~says_zero
  <2>1. to_deadman' = Quiet /\ UNCHANGED <<to_firmware, silence, burst>>
    BY <1>3 DEF DeadmanDies
  <2>2. OnlyBurst' /\ MovesAreFresh'
    BY <1>1, <2>1, QuietChannels
    DEF DeadmanInv, OnlyBurst, MovesAreFresh, Stopped, is_moving_command
  <2> QED BY <1>1, <2>1, <2>2
          DEF DeadmanInv, DeadIsBlank, MoveIsHeard, SameLastWord, MovesReachBoth,
              HoldZerosCounted, Quiet
<1> QED BY <1>2, <1>3

LEMMA DeadmanStartsDeadman ==
  ASSUME StackTypeOK, DeadmanInv, DeadmanStarts
  PROVE  DeadmanInv'
<1>1. /\ ~last_moving /\ age = None /\ holding = None
      /\ to_firmware = Quiet /\ to_deadman = Quiet /\ deadman_alive'
      /\ UNCHANGED <<last_moving, age, holding, to_firmware, to_deadman, latched, losses,
                     silence, burst>>
  BY DEF DeadmanInv, DeadIsBlank, DeadmanStarts, Idle, deadman_vars, bus_vars
<1>2. DeadIsBlank' /\ MoveIsHeard' /\ HoldZerosCounted'
  BY <1>1 DEF DeadIsBlank, MoveIsHeard, HoldZerosCounted
<1>3. OnlyBurst' /\ MovesAreFresh'
  BY <1>1, QuietChannels
  DEF DeadmanInv, OnlyBurst, MovesAreFresh, Stopped, is_moving_command
<1>4. SameLastWord' /\ MovesReachBoth'
  BY <1>1, QuietChannels DEF SameLastWord, MovesReachBoth
<1> QED BY <1>2, <1>3, <1>4 DEF DeadmanInv

LEMMA PeriodDeadman ==
  ASSUME StackTypeOK, DeadmanInv, Period
  PROVE  DeadmanInv'
<1>1. /\ to_firmware = Quiet /\ to_deadman = Quiet
      /\ to_firmware' = Quiet /\ to_deadman' = Quiet
      /\ silence' = Older(silence, SilenceCap)
      /\ UNCHANGED <<deadman_alive, last_moving, burst, latched, losses>>
      /\ deadman_alive => /\ ~deadman_due /\ deadman_due'
                          /\ age' = Older(age, AgeCap)
                          /\ holding' = IF Latched THEN holding - 1 ELSE holding
      /\ ~deadman_alive => UNCHANGED <<age, holding, deadman_due>>
  BY DEF Period, Idle, DeadmanElapse, alive_vars, deadman_vars
<1>2. /\ age \in (0 .. SilenceCap) \cup {None}
      /\ silence \in (0 .. SilenceCap) \cup {None}
      /\ holding \in (0 .. Hold) \cup {None}
      /\ losses \in Nat
  BY BoundsAreNat DEF StackTypeOK, DeadmanTypeOK, Ages
<1>3. Stopped' = Stopped
  BY <1>1 DEF Stopped, is_moving_command
<1>4. DeadIsBlank' /\ OnlyBurst' /\ MovesAreFresh' /\ MovesReachBoth'
  BY <1>1, <1>3, QuietChannels
  DEF DeadmanInv, DeadIsBlank, OnlyBurst, MovesAreFresh, MovesReachBoth
<1>5. MoveIsHeard'
  <2>1. SUFFICES ASSUME last_moving
                 PROVE  MoveIsHeard'
    BY <1>1 DEF MoveIsHeard
  <2>2. deadman_alive /\ to_deadman["deadman"] = <<>>
    BY <1>1, <2>1, QuietChannels DEF DeadmanInv, DeadIsBlank, Publishers
  <2>3. /\ age \in Nat /\ silence \in Nat /\ age <= Timeout /\ silence <= age
    BY <1>1, <1>2, <2>1, <2>2, BoundsAreNat DEF DeadmanInv, MoveIsHeard
  <2>4. age' = age + 1 /\ silence' = silence + 1
    BY <1>1, <1>2, <2>2, <2>3, BoundsAreNat, OlderCounts, VelocityAssumption
  <2> QED BY <1>1, <2>2, <2>3, <2>4, BoundsAreNat, VelocityAssumption DEF MoveIsHeard
<1>6. SameLastWord'
  <2>1. age' = None <=> age = None
    BY <1>1, <1>2, BoundsAreNat, OlderCounts DEF DeadmanInv, DeadIsBlank
  <2> QED BY <1>1, <2>1 DEF DeadmanInv, SameLastWord
<1>7. HoldZerosCounted'
  <2>1. SUFFICES ASSUME holding' # None
                 PROVE  HoldZerosCounted'
    BY DEF HoldZerosCounted
  <2>2. deadman_alive /\ holding # None
    BY <1>1, <2>1 DEF DeadmanInv, DeadIsBlank, Latched
  <2>3. \A p \in Publishers : ~Moves(to_firmware'[p])
    BY <1>1, QuietChannels
  <2>4. ASSUME ~Stopped
        PROVE  losses >= Hold - holding'
    <3>1. losses >= Hold - holding + 1
      <4>1. ~MovePending /\ to_firmware["deadman"] = <<>>
        BY <1>1, QuietChannels DEF MovePending, Publishers
      <4> QED BY <1>1, <2>2, <2>4, <4>1 DEF DeadmanInv, HoldZerosCounted
    <3>2. holding \in Nat /\ holding' \in {holding, holding - 1} /\ Hold \in Nat
      BY <1>1, <1>2, <2>2, BoundsAreNat
    <3>3. losses \in Nat
      BY <1>1, <1>2, BoundsAreNat
    <3>4. CASE holding' = holding
      BY <3>1, <3>2, <3>3, <3>4
    <3>5. CASE holding' = holding - 1
      <4>1. Hold - (holding - 1) = Hold - holding + 1
        BY <3>2
      <4> QED BY <3>1, <3>5, <4>1
    <3> QED BY <3>2, <3>4, <3>5
  <2>5. holding' \in Int /\ losses \in Nat /\ Hold \in Nat
    BY <1>1, <1>2, <2>2, BoundsAreNat
  <2> QED BY <1>1, <1>3, <2>2, <2>3, <2>4, <2>5 DEF HoldZerosCounted
<1> QED BY <1>4, <1>5, <1>6, <1>7 DEF DeadmanInv
-----------------------------------------------------------------------------
LEMMA InitInv == StackInit => Inv
<1> SUFFICES ASSUME StackInit
             PROVE  Inv
  OBVIOUS
<1>1. /\ ~last_moving /\ age = None /\ holding = None /\ req = Zero
      /\ ~governor_alive /\ ~deadman_alive /\ burst = {}
      /\ to_firmware = Quiet /\ to_deadman = Quiet /\ Stopped
  BY ZeroIsStill DEF StackInit, DeadmanInit, GovernorInit, Stopped
<1>2. GovernorInv
  BY <1>1 DEF GovernorInv, RequestIsRemembered, NoLateMoves, GovernorZerosCounted
<1>3. DeadmanInv
  BY <1>1, QuietChannels
  DEF DeadmanInv, DeadIsBlank, OnlyBurst, MovesAreFresh, MoveIsHeard, SameLastWord,
      MovesReachBoth, HoldZerosCounted
<1> QED BY <1>2, <1>3, InitType DEF Inv

LEMMA NextInv == Inv /\ [StackNext]_stack_vars => Inv'
<1> SUFFICES ASSUME Inv, [StackNext]_stack_vars
             PROVE  Inv'
  OBVIOUS
<1> USE DEF Inv
<1>1. ASSUME NEW p \in Publishers, FirmwareReceives(p) \/ RadioDrops(p) \/ DeadmanReceives(p)
      PROVE  Inv'
  BY <1>1, DeliveryType, DeliveryGovernor, FirmwareDeadman, DeadmanHears
<1>2. ASSUME NEW r \in Requests, Request(r)
      PROVE  Inv'
  <2>1. DeadmanInv'
    BY <1>2, DeadmanAside DEF Request, alive_vars, bus_vars
  <2> QED BY <1>2, <2>1, DriverType, DriverGovernor
<1>3. ASSUME NEW c \in Commands, Command(c)
      PROVE  Inv'
  <2>1. /\ Publish("driver", c) /\ c \in Twist /\ "driver" \in Publishers
        /\ deadman_alive' = deadman_alive /\ UNCHANGED <<deadman_vars, latched, losses>>
    BY <1>3, DeadmanAssumption DEF Command, alive_vars, Publishers
  <2>2. DeadmanInv'
    BY <2>1, OthersAreHeard
  <2> QED BY <1>3, <2>2, DriverType, DriverGovernor
<1>4. ASSUME NEW scan \in Scans, Scan(scan)
      PROVE  Inv'
  <2>1. DeadmanInv'
    BY <1>4, DeadmanAside DEF Scan, alive_vars, bus_vars
  <2> QED BY <1>4, <2>1, DriverType, DriverGovernor
<1>5. CASE DriversGone
  <2>1. DeadmanInv'
    BY <1>5, DeadmanAside DEF DriversGone, bus_vars
  <2> QED BY <1>5, <2>1, DriverType, DriverGovernor
<1>6. CASE GovernorTimer
  <2>1. /\ Publish("governor", GovernorOutput) /\ GovernorOutput \in Twist
        /\ "governor" \in Publishers
        /\ deadman_alive' = deadman_alive /\ UNCHANGED <<deadman_vars, latched, losses>>
    BY <1>6, OutputIsTwist DEF GovernorTimer, alive_vars, Publishers
  <2>2. DeadmanInv'
    BY <2>1, OthersAreHeard
  <2> QED BY <1>6, <2>2, NodeType, NodeGovernor
<1>7. CASE DeadmanTimer
  BY <1>7, NodeType, NodeGovernor, DeadmanTimerDeadman
<1>8. ASSUME NEW says_zero \in BOOLEAN, GovernorDies(says_zero)
      PROVE  Inv'
  <2>1. /\ deadman_alive' = deadman_alive /\ UNCHANGED <<deadman_vars, latched, losses>>
        /\ "governor" \in Publishers /\ Zero \in Twist
    BY <1>8, OutputIsTwist DEF GovernorDies, Publishers
  <2>2. CASE says_zero
    <3>1. DeadmanInv'
      BY <1>8, <2>1, <2>2, OthersAreHeard DEF GovernorDies
    <3> QED BY <1>8, <3>1, NodeType, NodeGovernor
  <2>3. CASE ~says_zero
    <3>1. DeadmanInv'
      BY <1>8, <2>1, <2>3, DeadmanAside DEF GovernorDies, bus_vars
    <3> QED BY <1>8, <3>1, NodeType, NodeGovernor
  <2> QED BY <2>2, <2>3
<1>9. ASSUME NEW says_zero \in BOOLEAN, DeadmanDies(says_zero)
      PROVE  Inv'
  BY <1>9, NodeType, NodeGovernor, DeadmanEndsDeadman
<1>10. CASE GovernorStarts
  <2>1. DeadmanInv'
    BY <1>10, DeadmanAside DEF GovernorStarts, bus_vars
  <2> QED BY <1>10, <2>1, NodeType, NodeGovernor
<1>11. CASE DeadmanStarts
  BY <1>11, NodeType, NodeGovernor, DeadmanStartsDeadman
<1>12. CASE Period
  BY <1>12, PeriodType, PeriodGovernor, PeriodDeadman
<1>13. CASE UNCHANGED stack_vars
  <2>1. StackTypeOK'
    BY <1>13, DeadmanStutterType, GovernorStutterType
    DEF stack_vars, alive_vars, bus_vars, StackTypeOK
  <2>2. GovernorInv' /\ DeadmanInv'
    BY <1>13, GovernorAside, DeadmanAside DEF stack_vars, alive_vars, bus_vars, governor_vars
  <2> QED BY <2>1, <2>2
<1> QED BY <1>1, <1>2, <1>3, <1>4, <1>5, <1>6, <1>7, <1>8, <1>9, <1>10, <1>11, <1>12, <1>13
        DEF StackNext

\* The invariant holds throughout every behaviour, fair or not.
LEMMA Invariance == StackSpec => []Inv
  BY InitInv, NextInv, PTL DEF StackSpec
-----------------------------------------------------------------------------
(* Every variable keeps to its type: whatever is under way to either       *)
(* receiver is a twist, and the ages stay within their caps.               *)
THEOREM TypeCorrect == StackSpec => []StackTypeOK
<1>1. Inv => StackTypeOK
  BY DEF Inv
<1> QED BY <1>1, Invariance, PTL

(* For every timeout and every number of lost messages: while the governor *)
(* lives the car stands still within CmdTimeout plus two periods of the    *)
(* last request for motion, plus one per loss.                             *)
THEOREM GovernorStops == StackSpec => []GovernorStopsTheCar
<1>1. ASSUME Inv
      PROVE  GovernorStopsTheCar
  <2>1. SUFFICES ASSUME governor_alive, still # None, still >= GovernorBound + losses,
                        ~Stopped
                 PROVE  FALSE
    BY DEF GovernorStopsTheCar
  <2>2. still \in Nat /\ losses \in Nat /\ CmdTimeout \in Nat /\ GovernorBound = CmdTimeout + 2
    BY <1>1, <2>1, BoundsAreNat DEF Inv, StackTypeOK, GovernorBound
  <2>3. losses >= still - (CmdTimeout + 1)
                  + (IF ~governor_due /\ to_firmware["governor"] = <<>> THEN 1 ELSE 0)
    BY <1>1, <2>1, <2>2 DEF Inv, GovernorInv, GovernorZerosCounted
  <2> QED BY <2>1, <2>2, <2>3
<1> QED BY <1>1, Invariance, PTL

LEMMA OneOrNone ==
  ASSUME NEW S \in SUBSET Publishers, Cardinality(S) <= 1
  PROVE  S = {} \/ \E p \in Publishers : S = {p}
<1>1. IsFiniteSet(Publishers)
  <2>1. IsFiniteSet({"driver"})
    BY FS_Singleton
  <2>2. IsFiniteSet({"driver"} \cup {"governor"})
    BY <2>1, FS_AddElement
  <2>3. IsFiniteSet(({"driver"} \cup {"governor"}) \cup {"deadman"})
    BY <2>2, FS_AddElement
  <2>4. Publishers = ({"driver"} \cup {"governor"}) \cup {"deadman"}
    BY DEF Publishers
  <2> QED BY <2>3, <2>4
<1>2. IsFiniteSet(S)
  BY <1>1, FS_Subset
<1>3. Cardinality(S) = 0 \/ Cardinality(S) = 1
  BY <1>2, FS_CardinalityType
<1> QED BY <1>2, <1>3, FS_EmptySet, FS_Singleton

(* For every timeout: once the governor is dead the deadman stops the car  *)
(* within Timeout plus two periods of the last moving command, under the   *)
(* conditions under which it hears what the firmware hears.                *)
THEOREM DeadmanStops == StackSpec => []DeadmanStopsTheCar
<1>1. ASSUME Inv
      PROVE  DeadmanStopsTheCar
  <2>1. SUFFICES ASSUME deadman_alive, age # None, losses = 0, Cardinality(burst) <= 1,
                        Idle, silence # None, silence >= DeadmanBound
                 PROVE  Stopped
    BY DEF DeadmanStopsTheCar
  <2>2. ~last_moving
    <3>1. SUFFICES ASSUME last_moving
                   PROVE  FALSE
      OBVIOUS
    <3>2. age <= Timeout + 1 /\ silence <= age
      BY <1>1, <3>1 DEF Inv, DeadmanInv, MoveIsHeard
    <3>3. age \in Nat /\ silence \in Nat /\ Timeout \in Nat /\ DeadmanBound = Timeout + 2
      BY <1>1, <2>1, BoundsAreNat
      DEF Inv, StackTypeOK, DeadmanTypeOK, Ages, AgeCap, DeadmanBound
    <3> QED BY <2>1, <3>2, <3>3
  <2>3. burst = {} \/ \E p \in Publishers : burst = {p}
    BY <1>1, <2>1, OneOrNone DEF Inv, StackTypeOK
  <2>4. CASE burst = {}
    BY <1>1, <2>4 DEF Inv, DeadmanInv, OnlyBurst
  <2>5. ASSUME NEW p \in Publishers, burst = {p}
        PROVE  Stopped
    <3>1. to_firmware[p] = <<>> /\ to_deadman[p] = <<>>
      BY <2>1, QuietChannels DEF Idle
    <3>2. LastWord(<<>>, is_moving_command(latched)) = LastWord(<<>>, last_moving)
      BY <1>1, <2>1, <2>5, <3>1 DEF Inv, DeadmanInv, SameLastWord
    <3>3. is_moving_command(latched) = last_moving
      BY <3>2, EmptyWords
    <3> QED BY <2>2, <3>3 DEF Stopped
  <2> QED BY <2>3, <2>4, <2>5
<1> QED BY <1>1, Invariance, PTL

(* A hold longer than the number of messages the radio may drop leaves the *)
(* car stopped when it runs out, unless a move is on its way to the        *)
(* deadman: one zero at least was taken.                                   *)
THEOREM ReleasedStopped ==
  ASSUME Hold > MaxLoss
  PROVE  StackSpec => []ReleasedMeansStopped
<1>1. ASSUME Inv
      PROVE  ReleasedMeansStopped
  <2>1. SUFFICES ASSUME deadman_due, holding = 0, ~MovePending, ~Stopped
                 PROVE  FALSE
    BY DEF ReleasedMeansStopped, HoldRunsOut, MovePending, Moves
  <2>2. losses >= Hold - holding + 0
    BY <1>1, <2>1, VelocityAssumption DEF Inv, DeadmanInv, HoldZerosCounted
  <2>3. losses \in 0 .. MaxLoss
    BY <1>1 DEF Inv, StackTypeOK
  <2> QED BY <2>1, <2>2, <2>3, BoundsAreNat
<1> QED BY <1>1, Invariance, PTL
=============================================================================
