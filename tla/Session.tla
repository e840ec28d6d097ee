------------------------------ MODULE Session ------------------------------
(***************************************************************************)
(* simctl: brings a simulated session up on a domain, lets an operator     *)
(* drive it, and takes it down again.  start, stop and teleop are          *)
(* processes of their own; nothing keeps an operator from running stop     *)
(* while start still waits, and processes come and go beside them.         *)
(***************************************************************************)
EXTENDS Integers

CONSTANTS MaxSessions,   \* sessions in a run of the model
          Budget         \* probes that wait_for lets fail before it gives up

ASSUME SessionAssumption == MaxSessions \in Nat /\ Budget \in Nat \ {0}

VARIABLES procs,      \* what runs on the domain
          moving,     \* the simulated robot executes a latched move
          flags,      \* what start was asked for
          start_pc, budget,
          stop_pc,
          reading,    \* what zero_domain saw in the end
          latest,     \* the session of the latest-d<domain> link, 0 for none
          manifest,   \* of each session: what session.json says of its bag
          recorders,  \* sessions whose recorder runs
          rival,      \* something drove during this stop that the stop was not told of
          meddled     \* something was started since this stop began

start_vars   == <<flags, start_pc, budget>>
session_vars == <<procs, moving, start_vars, stop_pc, reading, latest, manifest, recorders,
                  rival, meddled>>

Listed    == {"patrol", "keyboard"}            \* COMMAND_SOURCES
SimProcs  == {"sim", "governor", "patrol"}     \* SIM_PROCS
Drivers   == Listed \cup {"unlisted"}          \* ros2 topic pub, say
Sessions  == 1 .. MaxSessions
Flags     == [backend : {"2d", "isaac"}, safety : BOOLEAN, patrol : BOOLEAN]
NoFlags   == [backend |-> "2d", safety |-> TRUE, patrol |-> TRUE]
Working   == {"looking", "stack", "isaac", "waiting", "bag", "safety", "patrol"}
Ended     == {"idle", "refused", "aborted", "up", "killed"}
Stopping_ == {"term", "kill", "zero", "retry", "close", "sweep", "mop", "finish"}

SessionTypeOK == /\ procs \subseteq Drivers \cup SimProcs
                 /\ moving \in BOOLEAN
                 /\ flags \in Flags
                 /\ start_pc \in Working \cup Ended
                 /\ budget \in 0 .. Budget
                 /\ stop_pc \in Stopping_ \cup {"idle", "done"}
                 /\ reading \in {"rest", "moving", "unknown"}
                 /\ latest \in 0 .. MaxSessions
                 /\ manifest \in [Sessions -> {"no bag", "recording", "closed", "unclosed"}]
                 /\ recorders \subseteq Sessions
                 /\ rival \in BOOLEAN /\ meddled \in BOOLEAN

SessionInit == /\ procs = {} /\ moving = FALSE
               /\ flags = NoFlags
               /\ start_pc = "idle" /\ budget = 0
               /\ stop_pc = "idle" /\ reading = "unknown"
               /\ latest = 0 /\ recorders = {}
               /\ manifest = [s \in Sessions |-> "no bag"]
               /\ rival = FALSE /\ meddled = FALSE
-----------------------------------------------------------------------------
\* A process appears: a driver may be one that a stop in progress has not listed.
Launches(new) == /\ procs' = procs \cup new
                 /\ meddled' = (meddled \/ new # {})
                 /\ rival' = (rival \/ (stop_pc \in Stopping_ /\ new \cap Drivers # {}))

\* Processes end; the robot goes with its simulator.
Loses(gone) == /\ procs' = procs \ gone
               /\ moving' = (moving /\ "sim" \notin gone)

\* The arguments live as long as the process.
KeepFlags == flags' = IF start_pc' \in Ended THEN NoFlags ELSE flags

\* start looks for who is on the domain already (sim_target) and refuses a second one.
Ask == /\ start_pc \in Ended
       /\ latest < MaxSessions
       /\ start_pc' = "looking"
       /\ flags' \in Flags
       /\ meddled' = TRUE
       /\ UNCHANGED <<procs, moving, budget, stop_pc, reading, latest, manifest, recorders,
                      rival>>

\* new_session_dir moves the link; everything from here on is filed under it.
sim_target == /\ start_pc = "looking"
              /\ IF "sim" \in procs
                 THEN start_pc' = "refused" /\ UNCHANGED latest
                 ELSE start_pc' = "stack" /\ latest' = latest + 1
              /\ KeepFlags
              /\ UNCHANGED <<procs, moving, budget, stop_pc, reading, manifest,
                             recorders, rival, meddled>>

\* Isaac comes last, on top of the rest; the 2D simulator comes first.
LaunchStack == /\ start_pc \in {"stack", "isaac"}
               /\ IF start_pc = "stack" /\ flags.backend = "isaac"
                  THEN /\ Launches(IF flags.safety THEN {"governor"} ELSE {})
                       /\ start_pc' = "isaac" /\ UNCHANGED budget
                  ELSE /\ Launches({"sim"})
                       /\ start_pc' = "waiting" /\ budget' = Budget
               /\ KeepFlags
               /\ UNCHANGED <<moving, stop_pc, reading, latest, manifest, recorders>>

\* Only what comes up, or a process that is dead, ends the wait.
BadWaitFor(ready) == /\ start_pc' = IF "sim" \notin procs THEN "aborted"
                                    ELSE IF ready THEN "bag" ELSE "waiting"
                     /\ budget' = IF start_pc' = "waiting" THEN budget - 1 ELSE 0

\* wait_for: a dead process fails it at once, a spent budget in the end.
WaitFor(ready) == /\ start_pc' = IF "sim" \notin procs \/ budget = 0 THEN "aborted"
                                 ELSE IF ready THEN "bag" ELSE "waiting"
                  /\ budget' = IF start_pc' = "waiting" THEN budget - 1 ELSE 0

Waiting == /\ start_pc = "waiting"
           /\ \E ready \in BOOLEAN : WaitFor(ready)
           /\ KeepFlags
           /\ UNCHANGED <<procs, moving, stop_pc, reading, latest, manifest, recorders,
                          rival, meddled>>

Recording == /\ recorders' = recorders \cup {latest}
             /\ manifest' = [manifest EXCEPT ![latest] = "recording"]

\* Fail-open: without a recorder, for want of disk or because of --no-bag, the session goes on.
start_session_bag == /\ start_pc = "bag"
                     /\ start_pc' = "safety"
                     /\ \/ Recording
                        \/ UNCHANGED <<manifest, recorders>>
                     /\ meddled' = TRUE
                     /\ KeepFlags
                     /\ UNCHANGED <<procs, moving, budget, stop_pc, reading, latest,
                                    rival>>

\* What drives comes after what guards it.
LaunchSafety == /\ start_pc = "safety"
                /\ start_pc' = "patrol"
                /\ Launches(IF flags.backend = "2d" /\ flags.safety THEN {"governor"} ELSE {})
                /\ KeepFlags
                /\ UNCHANGED <<moving, budget, stop_pc, reading, latest, manifest,
                               recorders>>
LaunchPatrol == /\ start_pc = "patrol"
                /\ start_pc' = "up"
                /\ Launches(IF flags.patrol THEN {"patrol"} ELSE {})
                /\ KeepFlags
                /\ UNCHANGED <<moving, budget, stop_pc, reading, latest, manifest,
                               recorders>>

StartStep == \/ sim_target \/ LaunchStack \/ Waiting \/ start_session_bag
             \/ LaunchSafety \/ LaunchPatrol

\* Ctrl-C on start leaves what it launched.
StartKilled == /\ start_pc \in Working
               /\ start_pc' = "killed"
               /\ KeepFlags
               /\ UNCHANGED <<procs, moving, budget, stop_pc, reading, latest, manifest,
                              recorders, rival, meddled>>
-----------------------------------------------------------------------------
\* The zeros come first, the sources after them.
BadAfter(phase) ==
  [idle |-> "zero", done |-> "zero", zero |-> "term", retry |-> "term", term |-> "kill",
   kill |-> "close", close |-> "sweep", sweep |-> "mop", mop |-> "finish", finish |-> "done"][phase]

\* The steps of cmd_stop, in their order; "retry" only if "zero" saw the robot move.
After(phase) ==
  [idle |-> "term", done |-> "term", term |-> "kill", kill |-> "zero", zero |-> "close",
   retry |-> "close", close |-> "sweep", sweep |-> "mop", mop |-> "finish", finish |-> "done"][phase]

StopBegins == /\ stop_pc \in {"idle", "done"}
              /\ stop_pc' = After(stop_pc)
              /\ rival' = ("unlisted" \in procs)
              /\ meddled' = (start_pc \in Working)
              /\ UNCHANGED <<procs, moving, start_vars, reading, latest, manifest, recorders>>

\* Nobody is killed who was asked.
BadEnds(patterns, asked) == \E tough \in SUBSET (procs \cap patterns) :
                              Loses((procs \cap patterns) \ tough)

\* SIGTERM, which some survive; after a while SIGKILL for all that are listed by then.
Ends(patterns, asked) == LET found == procs \cap patterns
                         IN IF asked THEN \E tough \in SUBSET found : Loses(found \ tough)
                            ELSE Loses(found)

SilenceSources == /\ stop_pc \in {"term", "kill"}
                  /\ stop_pc' = After(stop_pc)
                  /\ Ends(Listed, stop_pc = "term")
                  /\ UNCHANGED <<start_vars, reading, latest, manifest, recorders, rival,
                                 meddled>>

\* zero_domain: zeros for seconds, then the last odometry.  Whoever drives overrides them.
zero_domain == \E reaches, answers \in BOOLEAN :
  /\ moving' \in IF "sim" \in procs /\ procs \cap Drivers # {} THEN BOOLEAN
                 ELSE {moving /\ ~reaches}
  /\ reading' = IF ~answers THEN "unknown" ELSE IF moving' THEN "moving" ELSE "rest"

\* One retry when the robot is seen to move; the stop goes on in any case.
ZeroRobots == /\ stop_pc \in {"zero", "retry"}
              /\ zero_domain
              /\ stop_pc' = IF stop_pc = "zero" /\ reading' = "moving" THEN "retry"
                             ELSE After(stop_pc)
              /\ UNCHANGED <<procs, start_vars, latest, manifest, recorders, rival, meddled>>

\* The recorder is asked to close, and has ten seconds for it.
CloseBag == /\ stop_pc = "close"
            /\ stop_pc' = After(stop_pc)
            /\ IF latest > 0 /\ manifest[latest] # "no bag"
               THEN \E closes \in BOOLEAN :
                      /\ manifest' = [manifest EXCEPT ![latest] =
                                        IF closes THEN "closed" ELSE "unclosed"]
                      /\ latest \notin recorders /\ manifest[latest] = "closed" => closes
                      /\ recorders' = IF closes THEN recorders \ {latest} ELSE recorders
               ELSE UNCHANGED <<manifest, recorders>>
            /\ UNCHANGED <<procs, moving, start_vars, reading, latest, rival, meddled>>

Sweep == /\ stop_pc \in {"sweep", "mop"}
         /\ stop_pc' = After(stop_pc)
         /\ Ends(SimProcs, stop_pc = "sweep")
         /\ UNCHANGED <<start_vars, reading, latest, manifest, recorders, rival, meddled>>

StopEnds == /\ stop_pc = "finish"
            /\ stop_pc' = After(stop_pc)
            /\ reading' = "unknown"
            /\ UNCHANGED <<procs, moving, start_vars, latest, manifest, recorders, rival,
                           meddled>>
-----------------------------------------------------------------------------
\* teleop: refuses an empty domain, silences whoever drives, zeros, then the keyboard.
Teleop == /\ "sim" \in procs
          /\ procs' = (procs \ Listed) \cup {"keyboard"}
          /\ meddled' = TRUE
          /\ rival' = (rival \/ stop_pc \in Stopping_)
          /\ moving' \in {moving, FALSE}
          /\ UNCHANGED <<start_vars, stop_pc, reading, latest, manifest, recorders>>
TeleopEnds == /\ "keyboard" \in procs
              /\ procs' = procs \ {"keyboard"}
              /\ moving' \in {moving, FALSE}
              /\ UNCHANGED <<start_vars, stop_pc, reading, latest, manifest, recorders, rival,
                             meddled>>

\* estop: zeros only, and nothing is killed.
Estop == /\ procs \cap Drivers = {}
         /\ moving' \in {moving, FALSE}
         /\ UNCHANGED <<procs, start_vars, stop_pc, reading, latest, manifest, recorders, rival,
                        meddled>>

Drives == /\ procs \cap Drivers # {} /\ "sim" \in procs
          /\ moving' = ~moving
          /\ UNCHANGED <<procs, start_vars, stop_pc, reading, latest, manifest, recorders,
                         rival, meddled>>
SomebodyDrives == /\ "unlisted" \notin procs
                  /\ Launches({"unlisted"})
                  /\ UNCHANGED <<moving, start_vars, stop_pc, reading, latest, manifest,
                                 recorders>>
Crashes(p) == /\ p \in procs
              /\ Loses({p})
              /\ UNCHANGED <<start_vars, stop_pc, reading, latest, manifest, recorders, rival,
                             meddled>>

SessionNext == \/ Ask \/ StartStep \/ StartKilled
               \/ StopBegins \/ SilenceSources \/ ZeroRobots \/ CloseBag \/ Sweep \/ StopEnds
               \/ Teleop \/ TeleopEnds \/ Estop
               \/ Drives \/ SomebodyDrives
               \/ \E p \in {"sim", "patrol", "unlisted"} : Crashes(p)
-----------------------------------------------------------------------------
(* A stop that has seen the robot at rest leaves it there, unless somebody *)
(* drives whom it was not told of: what commands is silenced before the    *)
(* zeros are sent ("Zeroing first does not work", cmd_stop).               *)
StopLeavesAtRest ==
  stop_pc \in {"close", "sweep", "mop", "finish"} /\ reading = "rest" /\ ~rival => ~moving

(* A stop that nobody interfered with leaves none of simctl's processes,   *)
(* and the recorder of the latest session is closed or said not to be:     *)
(* it is found through the manifest that start wrote.                      *)
StopLeavesNothing ==
  stop_pc = "done" /\ ~meddled =>
    /\ procs \subseteq {"unlisted"}
    /\ latest \in recorders => manifest[latest] = "unclosed"
=============================================================================
