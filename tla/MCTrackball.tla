----------------------------- MODULE MCTrackball -----------------------------
(* Trackball with a ball that moves, if it does, by one count.             *)
EXTENDS Trackball
MCOne == {[x |-> 1, y |-> 0]}
=============================================================================
