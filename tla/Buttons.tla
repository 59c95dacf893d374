------------------------------- MODULE Buttons -------------------------------
(* src/firmware/src/buttons.c: the main loop samples the switches one      *)
(* after the other and debounces each with a millisecond clock that wraps. *)
EXTENDS Integers

CONSTANTS N,        \* BUTTONS_COUNT
          ClockMod, \* 2^32, where the clock wraps
          Delay,    \* DEBOUNCE_DELAY_MS
          MaxGap    \* bound: milliseconds between two samples; the watchdog
                    \* resets a main loop that is slower than 500

ASSUME ButtonsAssumption ==
  /\ N \in Nat \ {0} /\ ClockMod \in Nat /\ Delay \in Nat /\ MaxGap \in Nat \ {0}
  /\ Delay + N * MaxGap < ClockMod

VARIABLES wire,          \* the level of each switch, bouncing as it likes
          clock,         \* to_ms_since_boot, modulo 2^32
          next,          \* the switch buttons_run samples next
          last_time, current_state, last_state,  \* struct button_state
          stable,        \* history: ms since the samples last changed
          quiet          \* history: ms since the wire last changed

state == <<last_time, current_state, last_state>>
vars == <<wire, clock, next, state, stable, quiet>>

Id == 0 .. N - 1

\* The longest a stable level can go unreported: one round until it is seen,
\* the delay, one more round.
Latency == Delay + 2 * N * MaxGap

\* History clocks stop where nothing more depends on them.
Later(t, gap, limit) == IF t + gap > limit THEN limit ELSE t + gap
-----------------------------------------------------------------------------
\* Plausible slips; a run substitutes each for the definition it is named
\* after.
Elapsed_Deadline(now, last) == IF now >= (last + Delay + 1) % ClockMod
                               THEN Delay + 1 ELSE 0
LastTimeAfter_Always(i, now) ==
  IF wire[i] # current_state[i] THEN now ELSE last_time[i]

\* The for loop of buttons_run, started again by the main loop.
NextId(i) == (i + 1) % N

\* The subtraction of two uint32_t.
Elapsed(now, last) == (now - last) % ClockMod

LastTimeAfter(i, now) == IF wire[i] # last_state[i] THEN now ELSE last_time[i]

\* The body of buttons_run's loop for switch i, gap milliseconds after the
\* body for the switch before it; controls_mouse_new(i, wire[i]) is called
\* when current_state changes.
SampleSwitch(i, gap) ==
  /\ next = i
  /\ next' = NextId(i)
  /\ clock' = (clock + gap) % ClockMod
  /\ last_time' = [last_time EXCEPT ![i] = LastTimeAfter(i, clock')]
  /\ current_state' = [current_state EXCEPT ![i] =
       IF Elapsed(clock', last_time'[i]) > Delay THEN wire[i] ELSE @]
  /\ last_state' = [last_state EXCEPT ![i] = wire[i]]
  /\ UNCHANGED wire

Sample(i, gap) ==
  /\ SampleSwitch(i, gap)
  /\ stable' = [j \in Id |-> IF j = i /\ wire[i] # last_state[i] THEN 0
                             ELSE Later(stable[j], gap, Delay + 1)]
  /\ quiet' = [j \in Id |-> Later(quiet[j], gap, Latency + 1)]

\* A switch bounces, is pressed or released.
FlipSwitch(i) ==
  /\ wire' = [wire EXCEPT ![i] = ~@]
  /\ UNCHANGED <<clock, next, state>>

Flip(i) ==
  /\ FlipSwitch(i)
  /\ quiet' = [quiet EXCEPT ![i] = 0]
  /\ UNCHANGED stable
-----------------------------------------------------------------------------
SwitchInit ==
  /\ wire \in [Id -> BOOLEAN]
  /\ clock \in 0 .. Delay + 1  \* how long the initialisation took
  /\ next = 0
  /\ last_time = [i \in Id |-> 0]
  /\ current_state = [i \in Id |-> FALSE]
  /\ last_state = [i \in Id |-> FALSE]

Init ==
  /\ SwitchInit
  /\ stable = [i \in Id |-> clock]
  /\ quiet = [i \in Id |-> 0]

ButtonsRun == \E i \in Id, gap \in 0 .. MaxGap : Sample(i, gap)

Next == ButtonsRun \/ \E i \in Id : Flip(i)

Spec == Init /\ [][Next]_vars
-----------------------------------------------------------------------------
\* The times kept are on the clock, and the loop samples switches there are.
TypeOK ==
  /\ wire \in [Id -> BOOLEAN]
  /\ clock \in 0 .. ClockMod - 1
  /\ next \in Id
  /\ last_time \in [Id -> 0 .. ClockMod - 1]
  /\ current_state \in [Id -> BOOLEAN] /\ last_state \in [Id -> BOOLEAN]
  /\ stable \in [Id -> 0 .. Delay + 1]
  /\ quiet \in [Id -> 0 .. Latency + 1]

(* The controls only hear of a level that every sample of more than Delay  *)
(* milliseconds has seen, wherever the clock wraps (buttons.c:52-61).      *)
Debounced ==
  [][\A i \in Id : current_state'[i] # current_state[i] =>
       wire[i] = last_state[i] /\ stable'[i] > Delay]_vars

(* A level that stays is reported within the delay and two rounds of the   *)
(* main loop, also when the clock wraps meanwhile (buttons.c:52-61).       *)
InTime == \A i \in Id : quiet[i] > Latency => current_state[i] = wire[i]
=============================================================================
