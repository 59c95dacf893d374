------------------------------ MODULE MCPointer ------------------------------
(* Pointer with counters of 16 values and two motions of the ball: a fast   *)
(* move, and one that is the most negative there is in x.                   *)
EXTENDS Pointer

MCMotions == {[x |-> 3, y |-> 0], [x |-> -8, y |-> 5]}
MCInvert == {"y"}
=============================================================================
