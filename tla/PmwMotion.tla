------------------------------ MODULE PmwMotion ------------------------------
(* The motion counters of src/firmware/src/pmw3360.c.  The GPIO interrupt  *)
(* of the sensor's motion pin (pmw_motion_irq) adds to delta_x and delta_y *)
(* at any point of the main loop at which it is enabled; the main loop     *)
(* takes the sums with pmw_get.                                            *)
EXTENDS Integers

CONSTANTS Int16,   \* 2^16, how many values the sensor's counters have
          Motions, \* how far the ball may have moved when an interrupt comes
          MaxIrqs  \* bound: how many interrupts come

Axis == {"x", "y"}

ASSUME MotionAssumption ==
  /\ Int16 \in Nat \ {0}
  /\ Motions \subseteq [Axis -> {d \in Int : -Int16 <= 2 * d /\ 2 * d < Int16}]
  /\ MaxIrqs \in Nat

VARIABLES delta,         \* delta_x and delta_y
          mouse_motion,  \* set by the first interrupt, never cleared
          irq_enabled,   \* the GPIO interrupt is not masked
          pc,            \* the statement of pmw_get that is next
          r,             \* pmw_get's result
          irqs,          \* history: interrupts so far
          sums,          \* history: what all, all but the last, ... have moved
          produced,      \* history: what all interrupts have moved
          delivered      \* history: what all pmw_get calls have returned

shared == <<delta, mouse_motion, irq_enabled>>
local == <<pc, r>>
motionHistory == <<irqs, sums, produced, delivered>>
motionVars == <<shared, local, motionHistory>>

Zero == [a \in Axis |-> 0]
f (+) g == [a \in Axis |-> f[a] + g[a]]

Steps == {"idle", "stop", "copy_x", "copy_y", "clear_x", "clear_y", "start",
          "return"}
-----------------------------------------------------------------------------
\* Plausible slips; a run substitutes each for the definition it is named
\* after.
GetStop_Missing ==
  /\ pc = "stop"
  /\ pc' = "copy_x"
  /\ UNCHANGED <<shared, r, motionHistory>>
GetReturn_ClearsFlag ==
  /\ pc = "return"
  /\ pc' = "idle"
  /\ mouse_motion' = FALSE
  /\ delivered' = delivered (+) r.delta
  /\ UNCHANGED <<delta, irq_enabled, r, irqs, sums, produced>>

TwosComplement_Ones(b) ==
  IF 2 * b >= Int16 THEN -((Int16 - 1) - b) ELSE b

\* The two delta registers of an axis hold the motion in 16 bits.
DeltaRaw(d) == d % Int16

\* convert_two_complement: with the sign bit set, all 16 bits are inverted,
\* one is added and the sign changed.
TwosComplement(b) ==
  IF 2 * b >= Int16 THEN -(((Int16 - 1) - b) + 1) ELSE b

\* pmw_motion_irq and pmw_handle_interrupt: the interrupt runs to completion
\* between two statements of the main loop.
Interrupt(motion) ==
  LET moved == [a \in Axis |-> TwosComplement(DeltaRaw(motion[a]))]
  IN  /\ irq_enabled
      /\ irqs < MaxIrqs
      /\ irqs' = irqs + 1
      /\ delta' = delta (+) moved
      /\ produced' = produced (+) motion
      /\ sums' = sums \cup {produced'}
      /\ mouse_motion' = TRUE
      /\ UNCHANGED <<irq_enabled, local, delivered>>

\* pmw_get is called; without motion it returns at once.
GetBegin ==
  /\ pc = "idle"
  /\ pc' = IF mouse_motion THEN "stop" ELSE "return"
  /\ r' = [motion |-> mouse_motion, delta |-> Zero]
  /\ UNCHANGED <<shared, motionHistory>>

GetStop ==
  /\ pc = "stop"
  /\ pc' = "copy_x"
  /\ irq_enabled' = FALSE
  /\ UNCHANGED <<delta, mouse_motion, r, motionHistory>>

Copy(a, at, next) ==
  /\ pc = at
  /\ pc' = next
  /\ r' = [r EXCEPT !.delta[a] = delta[a]]
  /\ UNCHANGED <<shared, motionHistory>>

Clear(a, at, next) ==
  /\ pc = at
  /\ pc' = next
  /\ delta' = [delta EXCEPT ![a] = 0]
  /\ UNCHANGED <<mouse_motion, irq_enabled, r, motionHistory>>

GetStart ==
  /\ pc = "start"
  /\ pc' = "return"
  /\ irq_enabled' = TRUE
  /\ UNCHANGED <<delta, mouse_motion, r, motionHistory>>

\* The caller has the result.
GetReturn ==
  /\ pc = "return"
  /\ pc' = "idle"
  /\ delivered' = delivered (+) r.delta
  /\ UNCHANGED <<shared, r, irqs, sums, produced>>

\* The statements of pmw_get between its call and its return.
GetStep ==
  \/ GetStop
  \/ Copy("x", "copy_x", "copy_y")
  \/ Copy("y", "copy_y", "clear_x")
  \/ Clear("x", "clear_x", "clear_y")
  \/ Clear("y", "clear_y", "start")
  \/ GetStart
-----------------------------------------------------------------------------
MotionInit ==
  /\ delta = Zero
  /\ mouse_motion = FALSE
  /\ irq_enabled = TRUE
  /\ pc = "idle"
  /\ r = [motion |-> FALSE, delta |-> Zero]
  /\ irqs = 0
  /\ sums = {Zero}
  /\ produced = Zero /\ delivered = Zero

MotionNext ==
  \/ \E motion \in Motions : Interrupt(motion)
  \/ GetBegin \/ GetStep \/ GetReturn

MotionSpec == MotionInit /\ [][MotionNext]_motionVars
-----------------------------------------------------------------------------
Sum == [Axis -> Int]

\* What n reports of the sensor can move the ball.
Reach(n) == {d \in Int : -(n * Int16) <= 2 * d /\ 2 * d <= n * Int16}

(* The types of the variables; delta_x and delta_y stay in reach of the    *)
(* interrupts taken, so no overflow of int32_t as long as fewer than 65536 *)
(* interrupts come between two pmw_get calls.                              *)
MotionTypeOK ==
  /\ delta \in [Axis -> Reach(irqs)]
  /\ mouse_motion \in BOOLEAN
  /\ irq_enabled \in BOOLEAN
  /\ pc \in Steps
  /\ r \in [motion : BOOLEAN, delta : Sum]
  /\ irqs \in 0 .. MaxIrqs
  /\ sums \subseteq Sum
  /\ produced \in Sum /\ delivered \in Sum

\* The axes pmw_get has copied out and cleared but not returned yet.
Taken ==
  CASE pc = "clear_y" -> {"x"}
    [] pc \in {"start", "return"} -> Axis
    [] OTHER -> {}

(* No count is lost or doubled, wherever the interrupt hits (pmw_get), and *)
(* the sign is right up to the most negative motion (util.c:60-65): what   *)
(* the ball has moved is what callers got, plus what the call in *)
(* progress has taken out, plus what still waits.                          *)
Conserved ==
  \A a \in Axis :
    produced[a] = delivered[a] + delta[a]
                  + (IF a \in Taken THEN r.delta[a] ELSE 0)

(* A caller never gets the x of one interrupt with the y of another: what  *)
(* all callers got is what the interrupts up to some moment had moved.     *)
NoTearing == pc = "idle" => delivered \in sums
=============================================================================
