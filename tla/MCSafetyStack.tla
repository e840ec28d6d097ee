--------------------------- MODULE MCSafetyStack ---------------------------
(* The stack with one moving command and one scan, which shows a clear way. *)
EXTENDS SafetyStack

MCForward  == [Zero EXCEPT !.vx = 1]
MCCommands == {Zero, MCForward}
MCScans    == {{[range |-> 3, angle |-> 0]}}
=============================================================================
