----------------------------- MODULE BoardSetup -----------------------------
(***************************************************************************)
(* The two tools that talk to the board over its serial line.              *)
(* provision_board writes four settings into the window that a reboot      *)
(* opens, reboots and reads five values back; board_reset resets until the *)
(* gyro is seen alive.  A setting may not stick, a value may not be read,  *)
(* and either tool may be killed between two steps.                        *)
(***************************************************************************)
EXTENDS Integers, Sequences

CONSTANTS MaxAttempts    \* --max-attempts

ASSUME BoardAssumption == MaxAttempts \in Nat \ {0}

VARIABLES board_call,   \* the tool and how it was called
          board_pc,
          stored,       \* what the board holds, setting by setting
          written,      \* settings written
          attempt,      \* resets made
          gyro,         \* since the last reset
          heard_gyro,   \* the state that the last health check gave
          board_code

board_vars == <<board_call, board_pc, stored, written, attempt, gyro, heard_gyro, board_code>>

\* What one call writes.  The password goes with the SSID and is not among what is read.
Settings == <<{"ssid", "password"}, {"agent_ip", "agent_port"}, {"car_type"}, {"domain_id"}>>
Fields   == UNION {Settings[i] : i \in 1 .. 4}
ReadBack == Fields \ {"password"}

Calls == {"provision", "dry_run", "reset", "reset_unverified", "until_live"}

BoardTypeOK == /\ board_call \in Calls
               /\ board_pc \in {"begin", "write", "read", "pulse", "verify", "gone", "declined"}
               /\ stored \in [Fields -> {"before", "asked"}]
               /\ written \in 0 .. 4
               /\ attempt \in 0 .. MaxAttempts
               /\ gyro \in {"live", "dead"}
               /\ heard_gyro \in {"live", "dead", "undetermined", "no_data"}
               /\ board_code \in {0, 1, 2, 130}

BoardInit == /\ board_call \in Calls /\ board_pc = "begin"
             /\ stored = [f \in Fields |-> "before"] /\ written = 0
             /\ attempt = 0 /\ gyro \in {"live", "dead"} /\ heard_gyro = "no_data"
             /\ board_code = 0
-----------------------------------------------------------------------------
Leaves(exit) == board_pc' = "gone" /\ board_code' = exit

\* Arguments, port, password and an answer from the board; then a dry run ends, and so does
\* one the operator does not confirm.  A reset needs its port and, to insist, a rotation.
BoardBegins ==
  /\ board_pc = "begin"
  /\ IF board_call \in {"provision", "dry_run"}
     THEN \/ Leaves(1)
          \/ board_pc' = "declined" /\ UNCHANGED board_code
          \/ board_call = "provision" /\ board_pc' = "write" /\ UNCHANGED board_code
     ELSE Leaves(2) \/ (board_pc' = "pulse" /\ UNCHANGED board_code)
  /\ UNCHANGED <<board_call, stored, written, attempt, gyro, heard_gyro>>

\* One of the four calls.  It sticks or it does not, depending on the window.
Write == /\ board_pc = "write"
         /\ written' = written + 1
         /\ stored' \in {stored, [f \in Fields |-> IF f \in Settings[written'] THEN "asked"
                                                    ELSE stored[f]]}
         /\ board_pc' = IF written' = 4 THEN "read" ELSE "write"
         /\ UNCHANGED <<board_call, attempt, gyro, heard_gyro, board_code>>

Mismatches(answered) == {f \in ReadBack : f \notin answered \/ stored[f] # "asked"}

\* After another reboot.  A value that is not answered is a mismatch.
read_config == /\ board_pc = "read"
               /\ \E answered \in SUBSET ReadBack :
                    Leaves(IF Mismatches(answered) = {} THEN 0 ELSE 1)
               /\ UNCHANGED <<board_call, stored, written, attempt, gyro, heard_gyro>>

\* A reset restarts the firmware, and with it the gyro or not.
pulse_reset == /\ board_pc = "pulse"
               /\ attempt' = attempt + 1
               /\ gyro' \in {"live", "dead"}
               /\ \/ board_call = "reset_unverified" /\ Leaves(0)
                  \/ board_call # "reset_unverified" /\ board_pc' = "verify"
                     /\ UNCHANGED board_code
               /\ UNCHANGED <<board_call, stored, written, heard_gyro>>

\* sensor_health: a gyro that sees the rotation is live; without one nothing is determined.
gyro_state(rotated) == IF rotated THEN gyro ELSE "undetermined"

\* All sensors well and the gyro live: done.  Well and undetermined: the operator is asked.
\* Else the next attempt, if it is to insist.
Verified == /\ board_pc = "verify"
            /\ \E well \in BOOLEAN, state \in {gyro_state(TRUE), gyro_state(FALSE), "no_data"} :
                 /\ well => state # "no_data"
                 /\ heard_gyro' = state
                 /\ IF well /\ state = "live" THEN Leaves(0)
                    ELSE IF state = "live" \/ (well /\ state = "undetermined")
                            \/ board_call # "until_live" \/ attempt = MaxAttempts
                    THEN Leaves(1)
                    ELSE board_pc' = "pulse" /\ UNCHANGED board_code
            /\ UNCHANGED <<board_call, stored, written, attempt, gyro>>

BoardToolKilled == /\ board_pc \notin {"gone", "declined"}
                   /\ Leaves(130)
                   /\ UNCHANGED <<board_call, stored, written, attempt, gyro, heard_gyro>>

BoardNext == BoardBegins \/ Write \/ read_config \/ pulse_reset \/ Verified \/ BoardToolKilled
-----------------------------------------------------------------------------
(* Success is the board's, not the tool's: what was written is what it     *)
(* holds, all five values however many did not stick or were not answered, *)
(* and the gyro lives since the last reset, not since an earlier one.      *)
SuccessIsTheBoards ==
  board_pc = "gone" /\ board_code = 0 =>
    CASE board_call = "provision"             -> \A f \in ReadBack : stored[f] = "asked"
      [] board_call \in {"reset", "until_live"} -> gyro = "live"
      [] OTHER                                -> TRUE
=============================================================================
