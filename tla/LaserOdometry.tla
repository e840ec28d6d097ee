---------------------------- MODULE LaserOdometry ----------------------------
(***************************************************************************)
(* laser_odometry_node: a pose summed up from matches of successive scans. *)
(* The scan matcher is external: its answer converges or not, is           *)
(* degenerate or not, and when it is neither bad it is the motion between  *)
(* the two scans.  Motion is along one axis.                               *)
(***************************************************************************)
EXTENDS Integers

CONSTANTS Places,              \* where the robot may be when a scan is taken
          MaxScans,            \* the model ends there
          NoScan

ASSUME LaserAssumption == /\ Places \subseteq Int
                          /\ MaxScans \in Nat
                          /\ NoScan \notin Int

VARIABLES publish_degenerate,  \* the parameter
          tf,                  \* the transform from the lidar to the base is there
          base_from_laser,     \* it has been resolved, and is kept
          prev_xy,             \* where the scan to match against was taken, or NoScan
          first,               \* where the first one was
          pose,                \* the published pose
          dropped,             \* motion between scans whose match was not used
          n_matched, n_dropped, n_degenerate, n_over

laser_vars == <<publish_degenerate, tf, base_from_laser, prev_xy, first, pose, dropped,
                n_matched, n_dropped, n_degenerate, n_over>>

LaserTypeOK == /\ publish_degenerate \in BOOLEAN
               /\ tf \in BOOLEAN /\ base_from_laser \in BOOLEAN
               /\ prev_xy \in Places \cup {NoScan} /\ first \in Places \cup {NoScan}
               /\ pose \in Int /\ dropped \in Int
               /\ n_matched \in Nat /\ n_dropped \in Nat
               /\ n_degenerate \in Nat /\ n_over \in Nat

LaserInit == /\ publish_degenerate \in BOOLEAN
             /\ tf = FALSE /\ base_from_laser = FALSE
             /\ prev_xy = NoScan /\ first = NoScan
             /\ pose = 0 /\ dropped = 0
             /\ n_matched = 0 /\ n_dropped = 0 /\ n_degenerate = 0 /\ n_over = 0
-----------------------------------------------------------------------------
TransformAppears == /\ ~tf
                    /\ tf' = TRUE
                    /\ UNCHANGED <<publish_degenerate, base_from_laser, prev_xy, first, pose,
                                   dropped, n_matched, n_dropped, n_degenerate, n_over>>

\* A scan with enough points and nothing to match it against.
FirstScan(at) == /\ prev_xy = NoScan
                 /\ prev_xy' = at
                 /\ first' = at
                 /\ UNCHANGED <<publish_degenerate, tf, base_from_laser, pose, dropped,
                                n_matched, n_dropped, n_degenerate, n_over>>

\* What the matcher may answer.
Answers == [converged : BOOLEAN, degenerate : BOOLEAN, over : BOOLEAN]

\* The scan is kept only when it was matched.
BadKept(at, used) == prev_xy' = IF used THEN at ELSE prev_xy

Kept(at, used) == prev_xy' = at

Used(r) == r.converged /\ (~r.degenerate \/ publish_degenerate)

\* The step the node adds: along the weak direction of a degenerate match it may be any.
Steps(r, at) == IF r.degenerate THEN {0, at - prev_xy} ELSE {at - prev_xy}

MatchScan(at, r) ==
  /\ prev_xy # NoScan
  /\ n_matched + n_dropped < MaxScans
  /\ Kept(at, Used(r))
  /\ n_over' = IF r.over THEN n_over + 1 ELSE n_over
  /\ n_degenerate' = IF r.converged /\ r.degenerate THEN n_degenerate + 1 ELSE n_degenerate
  /\ IF Used(r)
     THEN /\ \E step \in Steps(r, at) : pose' = pose + step
          /\ base_from_laser' = (base_from_laser \/ tf)
          /\ n_matched' = n_matched + 1
          /\ UNCHANGED <<dropped, n_dropped>>
     ELSE /\ n_dropped' = n_dropped + 1
          /\ dropped' = dropped + (at - prev_xy)
          /\ UNCHANGED <<pose, base_from_laser, n_matched>>
  /\ UNCHANGED <<publish_degenerate, tf, first>>

LaserNext == \/ TransformAppears
             \/ \E at \in Places : FirstScan(at) \/ \E r \in Answers : MatchScan(at, r)
-----------------------------------------------------------------------------
(* The pose is the motion since the first scan less the motion between     *)
(* scans that were not matched, never a part of it twice: a scan that does *)
(* not converge, or is degenerate, is the one the next is matched against  *)
(* (_on_scan), so an outage loses its own motion and nothing else.         *)
PoseIsTheMatchedMotion ==
  ~publish_degenerate /\ prev_xy # NoScan => pose + dropped = prev_xy - first
=============================================================================
