----------------------------- MODULE MCDeadman -----------------------------
(* The deadman with the values of the code: 20 Hz, timeout 0.5 s, hold 2 s. *)
EXTENDS DeadmanAlone

MCCommands == {Zero,
               [Zero EXCEPT !.vx = 150],
               [Zero EXCEPT !.wz = -400],
               [Zero EXCEPT !.vy = NaN]}
=============================================================================
