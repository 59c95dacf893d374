------------------------------ MODULE MCTimers ------------------------------
(* Timers with a short interval for all but the health check.             *)
EXTENDS Timers
MCInterval == [t \in Timer |-> IF t = "health" THEN 3 ELSE 2]
=============================================================================
