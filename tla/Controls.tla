------------------------------- MODULE Controls -------------------------------
(* src/firmware/src/controls.c: the mouse state, what a button event does  *)
(* to it (controls_mouse_new) and how each read turns the motion taken     *)
(* from the sensor into pointer motion, scroll ticks and the click the     *)
(* scroll button stands for (controls_mouse_read).                         *)
EXTENDS PmwMotion

CONSTANTS ScrollReduce,  \* SCROLL_REDUCE_SENSITIVITY: counts per scroll tick
          MinSuppress,   \* MIN_SCROLL_SUPPRESS_CLICK
          ClickTime      \* MOUSE_FAKE_MIDDLE_CLICK_TIME

ASSUME ControlsAssumption ==
  /\ ScrollReduce \in Nat \ {0}
  /\ MinSuppress \in Nat
  /\ ClickTime \in Nat \ {0}

VARIABLES mouse, last_mouse, scroll_sum  \* the statics of controls.c

controlsVars == <<mouse, last_mouse, scroll_sum>>

Buttons == {"left", "middle", "right", "back", "forward"}

MouseState ==
  [changed : BOOLEAN, button : [Buttons -> BOOLEAN], delta : Sum, scroll : Sum,
   internal_scroll : Sum, scroll_lock : BOOLEAN, fake_middle : 0 .. ClickTime]

\* The value v has once it is stored in a signed integer of n values.
Signed(v, n) == LET u == v % n IN IF 2 * u >= n THEN u - n ELSE u

Abs(v) == IF v < 0 THEN -v ELSE v

WithButton(m, b, down) == [m EXCEPT !.button[b] = down]

\* The middle button goes down or up and the count of its click is set.
WithMiddle(m, down, count) ==
  [WithButton(m, "middle", down) EXCEPT !.fake_middle = count]
-----------------------------------------------------------------------------
\* Plausible slips; a run substitutes each for the definition it is named
\* after.
Ticks_Forward(v) == IF v > ScrollReduce THEN (v - 1) \div ScrollReduce ELSE 0
CountClick_Stuck(m) ==
  [m EXCEPT !.fake_middle = IF @ = 0 \/ @ + 1 > ClickTime THEN 0 ELSE @ + 1]
SumAfter_Kept(m, sum) == sum
CountClick_Early(m) ==
  IF m.fake_middle = 0 THEN m
  ELSE IF m.fake_middle + 1 >= ClickTime
  THEN WithMiddle(m, FALSE, 0)
  ELSE [m EXCEPT !.fake_middle = @ + 1]
Changed_Once(m) == [m EXCEPT !.changed = \/ m.button # last_mouse.button
                                         \/ m.delta # Zero \/ m.scroll # Zero]

\* controls_mouse_new: switch 1 is the scroll button, the others are buttons.
ButtonOf(id) == IF id = 0 THEN "back" ELSE IF id = 2 THEN "left" ELSE "right"

Press(id, state) ==
  IF id = 1 THEN [mouse EXCEPT !.scroll_lock = state]
  ELSE WithButton(mouse, ButtonOf(id), state)

ControlsMouseNew(id, state) ==
  /\ mouse' = Press(id, state)
  /\ UNCHANGED <<last_mouse, scroll_sum>>

\* Without any motion yet the deltas keep their value, which is zero.
TakeMotion(m, motion) ==
  IF motion.motion
  THEN [m EXCEPT !.delta = [a \in Axis |-> Signed(motion.delta[a], Int16)]]
  ELSE m

\* How often the two loops of an axis run: until v is within ScrollReduce.
Ticks(v) ==
  CASE v > ScrollReduce  -> (v - 1) \div ScrollReduce
    [] v < -ScrollReduce -> -((-v - 1) \div ScrollReduce)
    [] OTHER -> 0

ScrollSum(m) == scroll_sum + Abs(m.delta["x"]) + Abs(m.delta["y"])

\* With the scroll button held motion turns into scroll ticks and what is
\* left for the next one; otherwise what was left is forgotten.
Scroll(m) ==
  IF m.scroll_lock
  THEN LET v == [a \in Axis |-> Signed(m.internal_scroll[a] + m.delta[a], Int16)]
       IN  [m EXCEPT !.scroll = [a \in Axis |-> Ticks(v[a])],
                     !.internal_scroll =
                        [a \in Axis |-> v[a] - ScrollReduce * Ticks(v[a])],
                     !.delta = Zero]
  ELSE [m EXCEPT !.scroll = Zero, !.internal_scroll = Zero]

\* The click in progress is one read older, or over.
CountClick(m) ==
  IF m.fake_middle = 0 THEN m
  ELSE IF m.fake_middle + 1 > ClickTime
  THEN WithMiddle(m, FALSE, 0)
  ELSE [m EXCEPT !.fake_middle = @ + 1]

Unlocked(m) == ~m.scroll_lock /\ last_mouse.scroll_lock

\* The scroll button was released and the ball has hardly moved: click.
StartClick(m, sum) ==
  IF Unlocked(m) /\ sum < MinSuppress
  THEN WithMiddle(m, TRUE, 1)
  ELSE m

SumAfter(m, sum) == IF Unlocked(m) THEN 0 ELSE sum

\* Once set, changed stays.
Changed(m) ==
  [m EXCEPT !.changed = \/ @
                        \/ m.button # last_mouse.button
                        \/ m.delta # last_mouse.delta
                        \/ m.scroll # last_mouse.scroll
                        \/ m.delta # Zero
                        \/ m.scroll # Zero]

ControlsMouseRead(motion) ==
  LET moved == TakeMotion(mouse, motion)
      sum   == IF moved.scroll_lock THEN ScrollSum(moved) ELSE scroll_sum
      ready == CountClick(Scroll(moved))
  IN  /\ mouse' = Changed(StartClick(ready, sum))
      /\ last_mouse' = mouse'
      /\ scroll_sum' = SumAfter(ready, sum)
-----------------------------------------------------------------------------
ControlsInit ==
  /\ mouse = [changed |-> FALSE, button |-> [b \in Buttons |-> FALSE],
              delta |-> Zero, scroll |-> Zero, internal_scroll |-> Zero,
              scroll_lock |-> FALSE, fake_middle |-> 0]
  /\ last_mouse = mouse
  /\ scroll_sum = 0
-----------------------------------------------------------------------------
(* What is kept for the next tick is less than a tick and a bit: the loops *)
(* of controls_mouse_read stop at ScrollReduce, not below it.              *)
ControlsTypeOK ==
  /\ mouse \in MouseState /\ last_mouse \in MouseState
  /\ scroll_sum \in Nat
  /\ \A a \in Axis : Abs(mouse.internal_scroll[a]) <= ScrollReduce

(* The middle button, which no switch drives, is down exactly while a      *)
(* click is being counted, so it cannot get stuck (controls.c:128-142).    *)
ClickCounted == mouse.button["middle"] <=> mouse.fake_middle > 0
=============================================================================
