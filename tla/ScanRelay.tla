----------------------------- MODULE ScanRelay -----------------------------
(***************************************************************************)
(* _scan_frame_relay: between Isaac's lidar and /scan, drops revolutions   *)
(* assembled with the wrong phase, and gives up when nothing at all fits   *)
(* the room.                                                               *)
(***************************************************************************)
EXTENDS Integers, Sequences, FiniteSetsExt

CONSTANT Window  \* FAIL_OPEN_WINDOW

ASSUME RelayAssumption == Window \in Nat \ {0}

VARIABLES room_fits,    \* the arena is the one the relay was written for
          pose_known,   \* ground truth has arrived
          recent,       \* the verdicts of the last Window revolutions
          fail_open,
          shown,        \* what became of the last revolution
          corrupt,      \* which of the last Window revolutions the lidar corrupted
          overwhelmed   \* Window of them in a row once held more than nine in ten

relay_vars == <<room_fits, pose_known, recent, fail_open, shown, corrupt, overwhelmed>>

\* Beams of a revolution: valid, compared with a wall, seen beyond it.
Beams(kind) ==
  CASE kind = "clean"    -> [valid |-> 340, both |-> 340, beyond |-> 3]
    [] kind = "boxes"    -> [valid |-> 300, both |-> 300, beyond |-> 0]
    [] kind = "rotated"  -> [valid |-> 340, both |-> 340, beyond |-> 140]
    [] kind = "sentinel" -> [valid |-> 120, both |-> 120, beyond |-> 0]
    [] kind = "outside"  -> [valid |-> 250, both |-> 60, beyond |-> 0]

Kinds == {"clean", "boxes", "rotated", "sentinel", "outside"}
Corrupted == {"rotated", "sentinel"}

RelayTypeOK == /\ room_fits \in BOOLEAN
               /\ pose_known \in BOOLEAN
               /\ recent \in Seq(BOOLEAN) /\ Len(recent) <= Window
               /\ fail_open \in BOOLEAN
               /\ shown \in Kinds \cup {"nothing"}
               /\ corrupt \in [1 .. Window -> BOOLEAN]
               /\ overwhelmed \in BOOLEAN

RelayInit == /\ room_fits \in BOOLEAN
             /\ pose_known = FALSE
             /\ recent = <<>>
             /\ fail_open = FALSE
             /\ shown = "nothing"
             /\ corrupt = [i \in 1 .. Window |-> FALSE]
             /\ overwhelmed = FALSE
-----------------------------------------------------------------------------
\* More than a tenth of the compared beams see through a wall; too few to compare is all.
impossible(s) == s.both < 90 \/ 10 * s.beyond > s.both

OnTruth == /\ ~pose_known
           /\ pose_known' = TRUE
           /\ UNCHANGED <<room_fits, recent, fail_open, shown, corrupt, overwhelmed>>

Fails(log) == Quantify(DOMAIN log, LAMBDA i : ~log[i])

\* The share is taken of what there is, from the first revolution on.
BadGivesUp(log) == 10 * Fails(log) > 9 * Len(log)

GivesUp(log) == /\ Len(log) = Window
                /\ 10 * Fails(log) > 9 * Window

\* Truly corrupted revolutions among the last ones, whatever was made of them.
Corruptions(flags) == Quantify(DOMAIN flags, LAMBDA i : flags[i])

Spun(corrupted) == [i \in 1 .. Window |-> IF i < Window THEN corrupt[i + 1] ELSE corrupted]

\* A revolution arrives, corrupted in any pattern.  In a room that does not fit,
\* walls are where they should not be.
OnScan(kind) ==
  LET ok  == Beams(kind).valid >= 200 /\ ~impossible(Beams(kind))
      log == LET all == Append(recent, ok) IN IF Len(all) > Window THEN Tail(all) ELSE all
  IN /\ IF room_fits THEN kind # "outside" ELSE kind \in {"rotated", "outside"}
     /\ corrupt' = Spun(kind \in Corrupted)
     /\ overwhelmed' = (overwhelmed \/ 10 * Corruptions(corrupt') > 9 * Window)
     /\ IF pose_known /\ ~fail_open
        THEN /\ recent' = log
             /\ fail_open' = GivesUp(log)
             /\ shown' = IF ok THEN kind ELSE "nothing"
        ELSE /\ shown' = IF pose_known THEN kind ELSE "nothing"
             /\ UNCHANGED <<recent, fail_open>>
     /\ UNCHANGED <<room_fits, pose_known>>

RelayNext == OnTruth \/ \E kind \in Kinds : OnScan(kind)
-----------------------------------------------------------------------------
(* "Fail-open only on near-total failure over a long window [...]          *)
(* corruption bursts (36 measured) and bad mixtures (~50%) never reach     *)
(* this" (FAIL_OPEN_FRACTION): in the room it was written for, whatever    *)
(* the pattern, the relay goes on filtering and shows no corrupted         *)
(* revolution until more than nine in ten of some Window in a row, truth   *)
(* or not, have been corrupted; in a room that does not fit, the scan is   *)
(* back once Window revolutions have been judged, and not starved for ever.*)
MatchingRoomIsFiltered ==
  /\ room_fits /\ ~overwhelmed => ~fail_open /\ shown \notin Corrupted
  /\ ~room_fits /\ Len(recent) = Window => fail_open
=============================================================================
