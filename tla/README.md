# A verification project for yahboomcar-ros2

TLA+ models of the parts of this repository that keep a real car from driving on
by itself, of the simulators that stand in for it and of the tools that drive,
measure and judge it; the TLC runs that check them, and TLAPS proofs of what they
promise.
Paths below are relative to the repository.

The repository's own account of the danger is `docs/safety-case.md`: the
firmware of the car has **no command watchdog**. It executes the last `/cmd_vel`
it was given until it is given another. Most of what this project models exists
because of that: two nodes that take motion away, tools that must leave zeros
behind, and checks whose word is taken for it that the car stands.

- [The system](#the-system)
- [The modules](#the-modules)
- [What is checked](#what-is-checked)
- [Bounds](#bounds) and [fairness](#fairness)
- [What is proved](#what-is-proved)
- [Where code and documents disagree](#where-code-and-documents-disagree)
- [What is not modelled](#what-is-not-modelled)
- [Plan](#plan)

## The system

| Component | State it keeps | Operations | Talks to |
|---|---|---|---|
| **deadman** (`cmd_vel_deadman.py`, `deadman.py`) | `last_moving`, `last_time`, `holding_until` | `_on_cmd`, `_tick` at 20 Hz, start, end with a zero in `finally` | hears all of `/cmd_vel`, its own zeros too; publishes zeros on it |
| **governor** (`cmd_vel_governor.py`, `governor.py`) | `min_range`, `last_scan`, `req`, `last_cmd`, `_warned_bypass` | `_on_scan`, `_on_cmd`, `_tick` at 20 Hz, `_check_bypass` every 5 s, start, end | `/scan`, `/cmd_vel_raw` in; `/cmd_vel` out |
| **drivers** (teleop, patrol, test tools, Nav2) | - | publish on `/cmd_vel_raw`, or on `/cmd_vel` directly; die | governor, firmware, deadman |
| **firmware** (not in the repository) | the latched command | takes a command; never lets go of it | over Wi-Fi |
| **guard of the tools** (`tools/_cmd_vel_safety.py`) and the patrol behind it (`sim_patrol.py`) | what discovery has shown so far; leg, lap, stuck mark | `target_of`, `require_simulator`, `SafeCmdVel`, stop handlers; legs, recovery | the ROS graph, `/cmd_vel` |
| **simctl** (`tools/simctl`, `tools/_session_record.py`) | processes, the session manifest | start, stop in 7 steps, teleop, estop, record | all of the above |
| **laser odometry** (`laser_odometry_node.py`, `scan_matcher.py`) | previous scan, pose, counters | `_on_scan` | `/scan` in, odometry out |
| **2D simulator** (`fake_robot.py`, `physics.py`) | latched command, true and wheel pose | physics, scan and IMU ticks | stands in for car and firmware |
| **twin** (`joint_state_bridge.py`, `single_instance.py`) | last odometry, wheel angles | `_on_odom`, `_tick`, start-up check for a second publisher | `/odom_raw` in, `/joint_states` out |
| **Isaac backend** (`tools/sim_runner.py`, `_render_pacing_probe.py`, `_scan_frame_relay.py`) | render pacing, phase of every topic, the relay's window | step, trim, relay, the self-tests of the scene | simulates sensors |
| **benches** (`measure_braking.py`, `bench_motion.py`, `measure_latency.py`, `ekf_ab_test.py`, `twin_motion_sequence.py`, `car_selftest.py`, `nav2_smoke.py`) | a trial, its verdict; the store of calibrations and runs | drive, kill a driver, stop, look, fit an envelope, cancel a goal | the car over Wi-Fi, Nav2's action server |
| **checks** (`check_odom_properties.py`, `verify_twin.py`, `slam_preflight.py`) | last messages, streaks, a verdict | drive or listen, judge, exit | odometry, ground truth, transforms |
| **board tools** (`provision_board.py`, `board_reset.py`) | what was written, read, tried | write, reset, read back | the board over serial |

What is hard here, and what the properties are for:

* **Interleaving.** Two timers and any number of publishers on one topic, each
  message reaching firmware and deadman on its own. Two subscribers may see the
  messages of two publishers in different orders.
* **Crashes.** Each node may be killed with a speed latched in the car, come back
  without memory, or end without managing to say zero.
* **Loss.** A zero lost on the radio is heard by the deadman, which runs on the
  same machine as its publisher.
* **Staleness.** The governor keeps its last range and request; only two ages say
  whether they still mean anything. The tools judge by the last message they have.
* **Partial failure.** A tool is signalled between starting a driver and killing it;
  a stop begins while the start is not over; a cancellation is answered late.
* **Verdicts.** A check that passes without having seen anything is worse than none.
* **Boundaries.** Ages exactly at a limit, timer phases, wrapped angles, empty
  scans, non-finite numbers, rules applied one after another.

`PROJECT.json` lists the hazards, each with the line where it bites and the
properties that would notice.

## The modules

```
Velocity                      twists, NaN and infinity, saturating ages
  |-- Deadman                 the node: one operator per callback
  |     |-- DeadmanAlone      ... under any traffic                  MCDeadman
  |-- Governor                the node, forward_min_range, decide
        |-- GovernorAlone     ... under any scans and requests       MCGovernor
Deadman + Governor
  |-- SafetyStack             both nodes, drivers, radio, firmware   MCSafetyStack
  |-- Approach                both nodes, a lidar, a wall            MCApproach
        implements CommandLease

TargetOf                      discovery and the guard
  |-- Driving                 SafeCmdVel and the patrol behind it    MCDriving

RenderPacing, IsaacLoop, ScanRelay      Isaac and its relay
FakeRobot                               the 2D simulator             MCSimulator
TwinBridge, LaserOdometry               nodes that read either

Session                                 simctl
BrakingBench, BenchMotion, NavSmoke     benches that drive
CarTrials                               four tools on the raised car MCOperator
RobotChecks, TwinVerdict, SlamGate      checks                       MCBench
SimSuite, BoardSetup                    self-tests, board tools
BypassAlarm                             the governor's watch

DeadmanProofs, DecideProofs, GovernorProofs, DeadmanLemmas, ApproachProofs,
StackProofs, ToolProofs, SimulatorProofs
```

**Time.** In the stack, one step of time is one period of the nodes' timers
(20 Hz). In every period each live timer fires once, anywhere in it, so that two
ticks in a row are less than two periods apart, in any phase to each other and to
the messages. Ages are counted in periods and saturate above the limits they are
compared with. The other modules say in their head what their time is.

**Velocities** are integers in a unit the instance chooses, or one of the two
values that fail `math.isfinite`. The `zero_epsilon` of the deadman is the single
value 0 on that scale. A speed that the slow zone scales is rounded down. Where a
module only asks whether the car moves, a velocity is a Boolean.

**Runs of parts.** The components below `MCSimulator` and `MCOperator` share no
state: each accepts whatever its inputs may be. These two modules run them one at
a time, `part` says which, so that every component is explored from all of its
initial states under its own inputs, and none in the product with another. A
behaviour of a part is a behaviour of that component alone.

### The safety stack

**`Deadman`.** `last_moving`; `age` is `_age()`; `holding` is the time left until
`holding_until` (`None` when that is `None`, 0 when it has been reached);
`deadman_due` says that the timer has still to fire. `OnCmd` is `_on_cmd`,
`should_intervene` the function of that name, `DeadmanTick` and `DeadmanPublishes`
are `_tick`: while `now < holding_until` it publishes and returns; otherwise the
hold is dropped and the same tick looks for a silence.

**`Governor`.** A scan is a set of readings (range, angle in degrees).
`forward_min_range` filters and takes the minimum, infinity if nothing is left.
`decide` is the composition of the seven rules of the code under their numbers:
`Refused` (1 to 3), `Capped` (4, 5), `YawGated` (6), `Braked` (7). `reasons`
is the list of the same name, gathered branch by branch as the code gathers it and
not by comparing twists; `limited` is that there is one. Rule 7 zeroes `vy` wherever
it stops.

**`DeadmanAlone`, `GovernorAlone`** put one node under an environment that may do
anything at any time, and record what the properties need: how long nobody moved
the car, whether a period was answered, the last twist published, the last scan.

**`SafetyStack`.** Each publisher has one channel to the firmware and one to the
deadman: in order within a channel, in any order between them. Whatever is sent
arrives, or is dropped by the radio, before the period ends. Drivers use
`/cmd_vel_raw` or `/cmd_vel`, and may all be gone at any moment, whatever they
said last. Both nodes may end with or without the zero of their `finally` block
and start again without memory. The firmware latches.

**`Approach`.** The same two nodes in front of a wall. `/cmd_vel` has a single
order here, so the two modules divide the hard parts between them. A command
turns the wheels one period later, the latency of command to motion that
`docs/safety-case.md` reports. Governor and lidar fail at any time; the governor
comes back at any time, any number of times.

**`CommandLease`** is what the nodes add up to, in three actions: a base whose
commands expire. `Approach` is shown to implement it.

**`BypassAlarm`** is the governor's `_check_bypass`: publishers of `/cmd_vel` come
and go between two polls, and any of them may vanish between being listed and being
asked, so that a poll sees any of those there are. `warned` is
`_warned_bypass`; `told` is kept for the property: whom an error has named since
a poll last missed it.

### Tools that drive

**`TargetOf`**: participants of the domain are discovered in any order and at any
second; `Look` is one turn of the loop in `target_of` and what `require_simulator`
makes of its end. A topic exists as soon as somebody subscribes to it, which is
why a viewer counts for the simulator it looks for.

**`Driving`** continues from a guard that is open: the patrol's legs and turns, its
laps, the mark of its stuck detector, its recovery, and the ends of a tool, by
itself, on an exception, on a signal through the handler. The detector compares the
last position it has been told with that of its mark. A position comes up to
`MaxLag` ticks late, or not at all any more, and a robot that moves may turn out to
be near its mark all the same. A position that jumps by itself is not modelled.
`SafeCmdVel` sends `Reps` zeros to each topic; the radio drops at most `MaxLoss` of
them.

**`BenchMotion`** is `bench_motion`: the looks at the graph and the battery, then
for every phase its trials, driven by the tool itself or by `_bench_driver`, a
process of its own that the tool kills. The link comes and goes at any moment;
without it the car keeps the last command. **`NavSmoke`** is `nav2_smoke`: one goal,
and `cancel_and_verify` in its two forms, with and without a goal handle, against an
action server that may accept late. **`CarTrials`** has the four smaller tools that
drive the raised car: `car_selftest`, `measure_latency`, `ekf_ab_test` and
`twin_motion_sequence`. Whether its motors turn the wheels, and whether its odometry
comes from encoders or from the commands, are facts of the car (a handspin shows the
latter);
`obeyed` records what the firmware carried out. **`BrakingBench`** is the store of
`measure_braking`, which every invocation loads at its start and saves whole at its
end, and the envelope fitted to what it holds.

### The session

**`Session`** is `simctl`: `start` brings up processes and waits for them, `stop`
goes through its seven steps (silence the drivers, zeros, look, the recorder, kill,
sweep, report), `teleop` and `estop` are processes of their own. An operator may
run `stop` while `start` still waits. The manifest is read, merged and replaced.

### Simulators and the nodes that read them

**`RenderPacing`** is `trim_render_pacing` against a plant whose scans per render
are not known, drift, and may stop following the renders at all. **`IsaacLoop`** is
`run_ros`: a pass reads the latched command, steps the physics and publishes what
`_due` says is due on the wall clock; a hitch makes one pass last longer.
**`ScanRelay`** is the filter between Isaac's lidar and `/scan`, its window and its
fail-open; revolutions are corrupted in any pattern, and the model counts the truth
beside the relay's verdicts. **`FakeRobot`** latches a command as the firmware does
and executes it with the dead time and deceleration of the braking fixture, along
one axis. **`TwinBridge`** is the start-up check of `single_instance` and the wheels
of one bridge: `last_tick` is taken before the look for publishers, odometry arrives
during the look and anywhere between two ticks, and a tick integrates all the time
since `last_tick` at the last twist, if that is fresh. **`LaserOdometry`** sums up
the matcher's answers; the matcher itself is a choice: it converges or not, is
degenerate or not, and when it is neither bad it returns the motion between the two
scans. **`SimSuite`** is `sim_runner` without `--ros`: the self-tests, each
beginning where the one before it left the robot, and facing as it did. Either wall
of the line may end a leg, a turn may go too far, and a robot that is stopped may
roll on. The walls beside the line are not modelled.

### Checks

**`RobotChecks`** is `check_odom_properties`: a robot driven for so long that a
simulator with collisions pins it to a wall, and odometry that either measures its
wheels or copies ground truth. **`TwinVerdict`** is `verify_twin` with its two
negative controls. **`SlamGate`** is the gate of `slam_preflight`: a scan is looked
up among the transforms that have come. **`BoardSetup`** has the two tools that talk
to the board: writes that may not stick, reads that may not be answered.

Operators named `Bad...` are plausible mistakes in the code, written just before
the definition that they vary. No specification uses them; they are there to show
that each property notices one.

## What is checked

| Run | States | Properties | Shows |
|---|---|---|---|
| `deadman` | 1,491 | `SilenceIsAnswered`, `NeverInterrupts`, `HoldSendsItsQuota`, `TypeOK` | with the code's own numbers, 10 ticks of timeout and 40 of hold: no period of silence goes unanswered, a driver who keeps talking is never stopped, and a hold that nobody resumes sends all its zeros |
| `governor` | 21,574 | `NeverInventsMotion`, `ForwardIsPaidFor`, `MoreSeenIsNeverFaster`, `StaleMeansZero`, `EveryChangeIsNamed`, `TypeOK` | the governor only takes motion away, and gives a reason for all it takes; forward speed is within what *every* reading ahead allows; one more reading never makes the car faster; a silence on either input ends in a zero |
| `stack` | 417,254 | `GovernorStopsTheCar`, `DeadmanStopsTheCar`, `ReleasedMeansStopped`, `DriverlessCarStops`, `StackTypeOK` | bounds on the time to a stop while nodes die, messages overlap and one is lost; and that a car without drivers stops in the end |
| `approach` | 2,167,232 | `KeepsClearance`, `CoastIsBounded`, `ImplementsLease`, `TypeOK` | a driver who keeps asking for full speed at a wall, with lidar and governor failing at the worst moments, is kept 23 cm away, wherever it starts; and the refinement of `CommandLease` |
| `driving` | 115,826 | `CarInTheDwellIsFound`, `LeftStopped`, `BlockedIsNoticed`, `TypeOK` | with the guard's own 15 and 6 seconds: a car that answers during the dwell is not driven; every end of a tool but SIGKILL leaves zeros on every topic it drove; a patrol that pushes against something notices within two windows of the last it was told of its motion |
| `simulator` | 561,328 | `PacingSettles`, `RatesRecover`, `MatchingRoomIsFiltered`, `CommandTakesEffect`, `WheelsFollowOdometry`, `SoleUnlessTogether`, `PoseIsTheMatchedMotion`, `SimTypeOK` | the pacing reaches the contract's rate or the limit on the right side; what a hitch held up is sent; no corrupted revolution gets through in the room the relay was written for, and the relay does not give up, in any pattern short of more than nine in ten of a window; commands take effect in time; odometry that stops turns the wheels on for no longer than it stays fresh and one gap of the ticks; a second bridge is noticed; an outage of the matcher loses its own motion and nothing else |
| `operator` | 798,411 | `StopLeavesAtRest`, `StopLeavesNothing`, `SaidStoppedStaysStopped`, `KeptRunsAreOfOneScale`, `MeasuredBoundsAreSafe`, `ExitZeroIsEarned`, `NoBurstPasses`, `EveryReturnIsReported`, `OperatorTypeOK` | a stopped session is stopped; a robot said to stand stays so; what a tool passes has a reason to pass, and a bench that passes leaves the car at rest; the gate passes no burst of failures; what it measured errs on the safe side; whoever drives past the governor is named |
| `governor_empty` | | `EmptyScanStops` | violated, see below |
| `stack_race` | | `CoversAnyPublisherDying` | violated, see below |
| `stack_restart` | | `NoHistoryNothingLatched` | violated, see below |
| `bench_signal` | | `NothingDrivesOn` | violated, see below |
| `guard_viewer` | | `OpenMeansSimulator` | violated, see below |

The bound on the coast in `approach` is tight: with one period less TLC finds a
behaviour. The clearance is nearly so. 23 cm is what the proof gives (below); 24 cm
hold of the code's thresholds too, and 25 cm are violated. The bound of
`DeadmanStopsTheCar` is tight: a deadman that triggers one tick later violates it.

Some properties carry a condition, and the conditions are part of the result.

* `DeadmanStopsTheCar`: the deadman covers a dead publisher if it has heard
  something since it started, the radio dropped nothing, and the last publications
  were not under way at the same time. The runs `stack_race` and `stack_restart`
  drop one of these conditions each.
* `CarInTheDwellIsFound`: the search had `Confirm` seconds left when it saw the
  simulator. A simulator that surfaces later has its dwell cut short by the overall
  deadline, and nothing in the code notices.
* `StopLeavesAtRest` and `StopLeavesNothing`: nobody drives of whom `simctl` was not
  told, and nobody starts another session meanwhile.
* `SoleUnlessTogether`: two bridges of which one came up while the other was
  looking may both stay. `single_instance` counts publishers once, before it
  creates its own.
* `CheatIsCaught`, in `ExitZeroIsEarned`: ground truth is heard throughout. When it
  falls silent, the comparison is made with the last message and may pass.
* `UpperBoundHolds`, in `MeasuredBoundsAreSafe`: each repeat began at rest. A car
  that still rolls answers a command before it was given. The bound is one on the
  latencies met, of a car with its wheels in the air; `measure_latency.py:29-38` says
  that they are shorter than those on the floor.
* `PassShowsWhatItSays`, in `ExitZeroIsEarned`: rows of motion show that the firmware
  obeyed; that the wheels turned, only if odometry is of encoders, which the handspin
  shows (`car_selftest.py:333-335`).
* `PassedWithoutContact`, in `ExitZeroIsEarned`: the robot of `obstacle-stop` rolls on
  for less than the distance at which it is throttled. One that rolls further passes
  against the wall. A leg that a wall ends passes too (`drive-straight`), and nothing
  is claimed of it.
* `MatchingRoomIsFiltered`: no window, as long as the relay's, has had more than nine
  in ten of its revolutions corrupted.
* `WheelsFollowOdometry`: the gap of the ticks counts. The first tick of a bridge
  integrates the time of its look for other publishers at the twist it has just heard.
* `SaidStoppedStaysStopped`: a request is accepted within `MaxLate` cancel-alls,
  fewer than the tool waits for, and a live controller leaves no pause of two
  seconds. The code has no proof of either bound; it says so itself ("no proven
  bound").

### Bounds

| Bound | Where | Why it is enough |
|---|---|---|
| timeouts of 1 and 0 periods, hold of 2 | `stack` | each limit is reached, exceeded by one and by more; an instance with 2, 1 and 3 (678,732 states) gives the same results |
| `MaxLoss` = 1 | `stack` | one loss is what separates a hold of several zeros from a single one; `GovernorStopsTheCar` counts losses in its bound |
| one message under way per direct driver | `stack` | `Command` waits for the driver's last message; a second one in the same period is a later command, which the next step allows |
| one moving command and one clear scan | `stack` | the property is about when messages are sent and taken, not about what `decide` does with a range; `governor` and `approach` vary those |
| at most 2 readings in a scan, of 6 | `governor` | each kind of reading alone and with each other one: in the sector in both angle conventions, on its edge, outside, too near, not finite |
| `Far` = 100 cm, 9 cm per period | `approach` | the car starts anywhere from the clearance to outside the slow zone, so each braking phase is passed through in every alignment of the steps with the distances |
| no bound | `deadman` | ages and the hold saturate by themselves |
| `MaxLoss` = 2 of `Reps` = 3 zeros | `driving` | all of the repetitions but one are lost; the code sends 20 (`zero_reps`) |
| legs of 6 ticks, turns of 2, a stuck window of 2, `MaxLag` = 1, `MaxLaps` = 2 | `driving` | a leg is longer than two windows and the lag, the shortest in which being blocked can be noticed and the leg still go on; the second lap begins with what the first left |
| gains of 6, 12 and 14 scans per ten renders, flat rates of 60 and 130 tenths of a hertz, `MaxDrift` = 3 changes of the lidar | `simulator` | slower and faster than asked, at either limit of the pacing, and a plant that ignores it on either side |
| a window of 10 revolutions | `simulator` | any pattern of corrupted ones, so that shares of exactly nine in ten and of all ten are reached, and bursts of any length in the window: with the code's 300, the 36 in a row and the mixture of a half that it reports are far below |
| two bridges, a turn of 3 steps, `OdomTimeout` and `LookTime` of 2, `MaxTickGap` = 3 | `simulator` | the check is between two processes; a third adds another pair; a look, and a gap of the ticks, may be as long as odometry stays fresh, or longer |
| 4 scans over 3 places | `simulator` | one match after a dropped one after a used one, forward and back |
| 2 hitches of up to 4 passes | `simulator` | one during the recovery from the other |
| 2 sessions, 1 outside event | `operator` | one stale manifest entry, one process that comes or goes at any moment of a stop |
| 2 invocations at a time of 3, scales {4, 7, 10, 11} | `operator` | two overlap in any order and a third reads what they left; scales with and without a problem, and two that are near each other |
| stopping distances {1, 3, 18} over 3 stages | `operator` | envelopes that rise, and fits that the sweep of biases turns unphysical |
| `HoldRounds` = 3, `MaxRounds` = 6, `MaxLate` = 2 | `operator` | a late acceptance resets the count in the last round in which it can, and the tool gives up once |
| 3 latency repeats with odometry every 2 | `operator` | percentiles differ from the maximum and from each other |
| a window of 6 scans, bursts over 1 | `operator` | a burst at either end of the window, two that do not join |
| an arena of half 10, 20 steps, throttled at 2, `MaxCoast` = 3 | `operator` | the robot reaches either wall from every place a test can leave it; it rolls on for less than, as far as and further than the distance that it is throttled at |

In the stack, ages saturate two periods above the timeout of the deadman and one
above the limits of the governor, where no comparison in a property or in the code
tells them apart.

### Fairness

Three properties need any; nothing else does, and no other run has any.

* `DriverlessCarStops`: `StackFairness` asks weak fairness of the timers of live
  nodes (`rclpy.spin` runs them), of messages under way to the firmware and to the
  deadman, of each publisher, and of the end of a period. It asks nothing of
  drivers, of scans, or of a dead node coming back. The radio may still drop a
  message, `MaxLoss` times.
* `PacingSettles`: weak fairness of `Trim`, which the loop of `sim_runner` does,
  from what the pacing probe reports, for as long as it renders. Nothing is asked of
  the plant; the property says that it follows the renders from some moment on.
* `RatesRecover`: weak fairness of `Pass`, the body of the loop of `run_ros`.

Deadlock is not checked in `driving`, `simulator`, `operator`, `bench_signal` and
`guard_viewer`: tools end.

## What is proved

For every value of the constants, from the named assumptions in the modules
(`VelocityAssumption`, `DeadmanAssumption`, and so on): thresholds and timeouts are
naturals, in any relation to each other, and requests are twists, finite or not.

**`DeadmanProofs`**: `TypeOK`, `SilenceIsAnswered`, `HoldSendsItsQuota`,
`NeverInterrupts`. None is inductive. The invariant adds that while the last word
heard was a move, the node's age is the age of that move; that a hold only exists
after a silence; and that zeros sent and time left of a hold make up the quota.

**`DecideProofs`** has the lemmas about the pure functions. `NearestAhead`:
`forward_min_range` is infinite exactly if nothing valid is ahead, and otherwise
a lower bound of what is (from the well-foundedness of the naturals, as `Min` is
a `CHOOSE`). `SlowedBounds`: the scaled speed lies between 0 and the speed, on or
below the line of the slow zone. `DecideIsWithin` puts the rules together.

**`GovernorProofs`**: `TypeOK`, `StaleMeansZero`, `NeverInventsMotion`,
`ForwardIsPaidFor`, `EveryChangeIsNamed` (rule by rule: what changes the twist has
given its reason), from the invariant that the range remembered is that of the last
scan; and `MoreSeenIsNeverFaster`, which is about `decide` alone: the nearest range
falls when a reading is added, the scaled speed rises with the range, the stop line
has no way back, and the caps keep an order.

**`ApproachProofs`**: `TypeOK`, `CoastIsBounded`, and `LeaseImplemented`, the
refinement of `CommandLease`. They rest on `MoveIsHeard`: while the firmware
executes a move, that move is the last word the deadman heard, no zero of its own is
on its way back to it, and its age is at most `Timeout` once its timer has fired in
the period. `CoastFollowsAge` bounds the distance by the age on top. `ClearanceKept`
proves `KeepsClearance` for all thresholds in the proportion that `IsSized` states:
the slow zone takes at least `ScanTimeout + Timeout + 2` periods at the cap, and the
way from the stop line to the clearance holds two periods at the cap for every
`ZonePeriods` of `ScanTimeout + Timeout`. The code's own numbers meet it with 23 cm,
which `MCApproach` states as an assumption for TLC to evaluate. The invariant,
`ClearanceInv`, is an account of promises: each forward command was bought by a scan
(`CommandWasPaid`, `WheelsWerePaid`), what the latched one can still cover before
the deadman ends it fits before the clearance (`LeaseFits`), and so does whatever
the governor can still buy with the scan it holds until that is stale (`ScanFits`).

**`StackProofs`**: `StackTypeOK`, `GovernorStopsTheCar`, `DeadmanStopsTheCar`, and
`ReleasedMeansStopped`, the last one if the hold is longer than the number of
messages that may be lost. Nothing is in order between the channels here, so that
the deadman need not have heard the move the firmware executes, which is what
`MoveIsHeard` of `Approach` says (the invariant of that name here says less). Three
invariants take its place. `GovernorZerosCounted`: a car that still moves
`CmdTimeout` periods after the last request has missed a zero of the governor in
every period since, and there were only so many losses. `HoldZerosCounted`: the same
of the zeros of a hold, as long as no move is under way. `SameLastWord`: if whatever
is under way is of one publisher and nothing was lost, then firmware and deadman
will have heard the same last word once it has arrived, although either may be ahead
of the other. **`DeadmanLemmas`** are about the node and shared with
`ApproachProofs`.

**`ToolProofs`**, about everything in `MCOperator`. A behaviour of the whole is one
of each tool, which the others leave alone (`PartsBehave`), so that the tools are
proved about one by one; `ToolsKeepTheirWord` puts the promises together again.

* The session (`StopLeavesAtRest`, `StopLeavesNothing`): a stop ends the sources
  before it sends zeros and the simulator after it, and while nobody meddles,
  whatever is still running is on a list that has not been worked off yet. What a
  start launches after the stop has passed its list is meddling.
* The store of calibrations (`KeptRunsAreOfOneScale`): each copy, on disk or in an
  invocation, is sound by itself. An identity belongs to one push, since the clock
  that stamps an invocation is later than everything the copy it loaded holds; so
  that copies may overwrite each other in any order.
* The exit codes (`ExitZeroIsEarned`), one theorem for each tool: which rows have
  been earned by the step that the tool has reached. For the self-test, that the
  firmware obeyed each motion whose row has passed, and with encoders the wheels
  made it, as an odometry message is of some earlier moment of either; for the
  suite, that only a robot that is not yet throttled drives on, which leaves
  `StopCells` to the wall, and only a roll that is as long can use up; for the
  board, which call each step belongs to and what that call has read back; for the
  twin, that the drop test has seen the fallen chassis or never the last waypoint;
  for odometry, that it is not ahead of what its source measures, and ground truth
  that was heard throughout is where the body is; for the bench, in which of its
  steps it may own a driver or a chain.
* `SaidStoppedStaysStopped`: fewer rounds without a live goal have been counted than
  there were rounds, so that a request that can still be late keeps the count below
  `HoldRounds`.
* `MeasuredBoundsAreSafe`. The upper end of a bracket is the first time at which
  motion shows, which is no sooner than the motion if the car was at rest
  (`BracketTells`), and numbers that are no smaller one by one are no smaller at any
  rank (`RankedRises`). An envelope is the greatest of curves that rise and of the
  stops seen up to a speed, of which there are more at a higher one; the sums of
  the least-squares fit are numbers (`TotalIsNumber`), which is all that is needed
  of them.
* `NoBurstPasses`: one pass over the scans knows how many there were and succeeded,
  the run of failures it ends with, and the longest one (`Tells`). The stamps rise,
  so that the warm-up is what comes first and interrupts no run.
* `EveryReturnIsReported`: whom the alarm has warned of is whom the last poll found.
* `OperatorTypeOK`. Few of the types are kept by themselves. The store needs that an
  identity is no later than the clock that stamped it and that nobody drives under
  a scale of 0 (`GivenInv`); the counters need the place at which they are counted:
  the trials of a bench while one is under way, the rounds of a cancellation before
  it holds, the legs and brackets of a trial tool before it reports (`NavRounds`,
  `BenchTrials`, `TrialsAt`, `TrialsBrackets`). The latency reported lies within the
  time of a push because it is one of the brackets' upper ends (`UpperIsThere`).

**`SimulatorProofs`**, about what simulates the robot and the tools that drive it:

* `SimTypeOK`: the gain of the pacing stays within its limits, and the loop is
  behind by no more than its hitches. `SimulatorsKeepTheirWord` states the promises
  of the parts of the whole.
* `CommandTakesEffect` (dead time left and distance to the command fall together, by
  one in every tick), `WheelsFollowOdometry` (the overrun is at most the full rate
  over the time that the twist has been integrated for, which is `age + before -
  since`), `SoleUnlessTogether` for any finite number of processes, and
  `PoseIsTheMatchedMotion`.
* `MatchingRoomIsFiltered`: the relay's verdicts are the truth about the last
  revolutions, one by one (`Aligned`), so that a full window of them has as many
  failures as corruptions (`FailsAreCorruptions`), and what makes the relay give up is
  an overwhelming. In the other room all of them fail, which is more than nine in ten
  (`AllFailGivesUp`).
* The guard and the driving: `CarInTheDwellIsFound`, from what a search that has seen
  the simulator knows of its clock; `LeftStopped`, as zeros lost and zeros left add
  up to `Reps` on any topic still latched; `BlockedIsNoticed`, as the windows begun
  since the push account for the ticks of it, and news of the motion before it
  outlives it by no more than the lag (`NewsPasses`); and `TypeOK`.

Every invariant and every action property that a passing run checks is proved. Only
model-checked are the three liveness properties, `DriverlessCarStops`,
`PacingSettles` and `RatesRecover`: liveness under fairness is out of the prover's
reach. The library's induction theorems take an operator as a
parameter, which the provers cannot instantiate; where a proof needs induction over
the length of a sequence, it takes the least length at which a statement fails, from
the well-foundedness of the naturals (`LeastIsThere`). That is also how the recursive
functions of the models are shown to have a value (`TotalsAreThere`,
`TalliesAreThere`). The models write sums and counts as such functions, and the
percentile as the least value of its rank, because the folds and the sort of the
community modules take operators.

## Where code and documents disagree

1. `cmd_vel_governor.py:26-27` and `docs/safety-case.md:233` say that a stale or
   empty scan stops the robot. A stale one does. An empty one stops forward
   motion: `governor.py:158` looks at the range only `if out_vx > 0.0`, so a
   blind lidar leaves reverse and yaw as they are, within their caps (run
   `governor_empty`).
2. `deadman.py:19-20` says that watching the topic covers any publisher dying.
   It does, unless the last move of one publisher and a zero of another are under
   way together, the firmware takes the zero first and the deadman the move
   first. Then the car drives and the deadman remembers a stop (`stack_race`).
   While the governor lives, its next tick repairs this.
3. `deadman.py:58-59` says that a topic without history has nothing latched. A
   deadman that is started, or restarted, while the car executes a command has
   no history (`stack_restart`).
4. `bench_motion.py:17` says that every phase runs inside `SafeCmdVel`, with zeros
   on SIGINT and SIGTERM, and `_cmd_vel_safety.py:202` that it ALWAYS leaves the
   robot stopped. The handler leaves with `os._exit`: the `finally` that kills
   `_bench_driver` does not run, and that process, started in a session of its own
   (`bench_motion.py:187`), publishes on at 20 Hz (`bench_signal`).
5. `_cmd_vel_safety.py:80-81` calls the presence of `/sim/ground_truth` positive
   evidence of a simulator. `target_of` looks for it among the topics that exist
   (`:123`), and a subscription makes a topic exist: a viewer, or
   `check_odom_properties.py:41-42`, which subscribes before it asks the guard,
   opens it on a domain without a simulator (`guard_viewer`).

Met on the way, without a run of their own:

* `sim_runner.py:351`: after a `rotate` that holds, a robot that moves as it is told has
  its back to the wall whose distance `obstacle-stop` measures, and fails for lack of
  time. `--test all` and `--test demo` cannot pass with it, although `sim_runner.py:1052`
  calls the three of the demo "passing motion tests".
* The `rest > 0` of `obstacle-stop` cannot be false: the hull keeps the robot's
  middle off the wall. A robot that rolls on into the wall after it was throttled passes.
* `check_odom_properties` passes on the last ground truth it heard when that topic
  falls silent during the long drive.
* `joint_state_bridge.py:131` sets `last_tick` before the look of 1.5 s: the first tick
  turns the wheels by all that time at a twist it has only just been told.
* `provision_board` reads back all it writes but the Wi-Fi password.

## What is not modelled

The `PROJECT.json` entry of each component says why. In short:

* numbers: the floating-point matching of scans, the physics behind the sensors,
  covariances, ray casting, the numbers that `slam_lens` plots;
* files and pictures: building scenes, scoring maps, the URDF converter, plots;
* the board's serial protocol, which is the vendor's;
* of `simctl`: `status`, the patrol wrapper, the second robot, RViz, SLAM and saving
  maps; of the tools: `test_failsafe` and the offline mode of `slam_preflight`;
* of the twin, the gimbal servos and the mecanum rates; of the 2D simulator, yaw,
  noise and the IMU;
* of the nodes, log lines, `~/forward_range`, `~/limiting`, the reading of parameters.

Braking distance and a moving obstacle are left out of `Approach`, as the code
leaves them out. The clock of `BrakingBench` gives each invocation a time of its
own, where `cal_id` is a time in whole seconds: two pushes in one second are not
modelled. That `NavSmoke` waits for more rounds than an acceptance may be late is its
premise, as said above. `Session` starts one session at a time, and the two waits of
Isaac's start are one.

## Plan

Done: the stack with its proofs; the guard and the patrol; both simulators and
their readers; the session, the benches, the checks and the board tools; proofs
of every safety property that a run checks.

Left, in the order of what it would add:

1. `Session` over `SafetyStack`: the seven steps of a stop against nodes that die
   and messages that are lost, instead of a robot that answers zeros.
2. `FakeRobot` as a refinement of the latching firmware that `SafetyStack` assumes.
3. `test_failsafe` against the stack, and the second robot of `simctl`.
