------------------------------- MODULE Timers -------------------------------
(* What the main loop of src/firmware/src/main.c does from time to time:    *)
(* heartbeat_run (util.c), hid_task (usb_hid.c), the repeated command of    *)
(* cnsl_run (console.c) and pmw_run (pmw3360.c), and the watchdog.  All     *)
(* read a millisecond clock of 32 bits that wraps after 49.7 days, and do   *)
(* not compare with it in the same way.                                     *)
EXTENDS Integers

CONSTANTS ClockMod,   \* the clock counts modulo ClockMod (2^32)
          Interval,   \* the interval of each timer
          HeadStart,  \* 1001: how long ago a new repetition was last due
          WatchdogMs, \* what watchdog_enable is told (500)
          BootMs,     \* what boot has taken
          MaxOwed,    \* bound: how far hid_task can be behind
          MaxFed      \* bound: how often one pass feeds the watchdog itself

VARIABLES clock,          \* to_ms_since_boot, board_millis
          pc,             \* the function the loop is in
          last,           \* last_heartbeat, start_ms, ..., last_health_check
          now,            \* of cnsl_run, while it runs the command
          repeat_command, \* console.c
          spent,          \* time since watchdog_update
          fed,            \* history: watchdog_update calls in this pass
          age,            \* history: time since the timer was last due; for
                          \* hid_task, the time it has not answered with a poll
          slept           \* history: its time came and the clock wrapped
                          \* before the loop came round

vars == <<clock, pc, last, now, repeat_command, spent, fed, age, slept>>

Timer == {"heartbeat", "hid", "repeat", "health"}

ASSUME TimersAssumption ==
  /\ Interval \in [Timer -> 1 .. ClockMod - 1]
  /\ {ClockMod, HeadStart, WatchdogMs, BootMs, MaxOwed, MaxFed} \subseteq Nat
  /\ Interval["repeat"] < HeadStart
  /\ BootMs <= MaxOwed
  /\ \A t \in Timer : Interval[t] + HeadStart + 2 * MaxOwed <= ClockMod
-----------------------------------------------------------------------------
Minus(a, b) == (a - b + ClockMod) % ClockMod
DueTime(t) == (last[t] + Interval[t]) % ClockMod

Due_Deadline(t) == clock >= DueTime(t)
Due_After(t) == IF t = "hid" THEN Minus(clock, last[t]) > Interval[t]
                ELSE clock > DueTime(t)
Due(t) == IF t = "hid" THEN Minus(clock, last[t]) >= Interval[t]
          ELSE clock >= DueTime(t)

\* start_ms advances by the interval, the others to the present.
LastAfter_Now(t) == clock
LastAfter(t) == IF t = "hid" THEN DueTime(t) ELSE clock

Fired(t) ==
  /\ last' = [last EXCEPT ![t] = LastAfter(t)]
  /\ age' = [age EXCEPT ![t] = IF t = "hid" THEN @ - Interval[t] ELSE 0]
  /\ slept' = [slept EXCEPT ![t] = FALSE]

\* heartbeat_run, hid_task, pmw_run
Look(t, next) ==
  /\ pc = t
  /\ pc' = next
  /\ IF Due(t) THEN Fired(t) ELSE UNCHANGED <<last, age, slept>>

HeartbeatRun == Look("heartbeat", "hid") /\ UNCHANGED <<clock, now, repeat_command, spent, fed>>
HidTask == Look("hid", "repeat") /\ UNCHANGED <<clock, now, repeat_command, spent, fed>>

\* The pass ends; the next one begins with watchdog_update.
PmwRun ==
  /\ Look("health", "heartbeat")
  /\ spent' = 0
  /\ fed' = 0
  /\ UNCHANGED <<clock, now, repeat_command>>

\* cnsl_run reads the clock, runs the command, then stores what it has read.
CnslRun ==
  /\ pc = "repeat"
  /\ IF repeat_command /\ Due("repeat")
     THEN pc' = "repeating" /\ now' = clock
     ELSE pc' = "health" /\ UNCHANGED now
  /\ UNCHANGED <<clock, last, repeat_command, spent, fed, age, slept>>

StopRepeat ==
  /\ repeat_command' = FALSE
  /\ age' = [age EXCEPT !["repeat"] = 0]
  /\ slept' = [slept EXCEPT !["repeat"] = FALSE]
  /\ UNCHANGED last

\* There was no command before repeat.
NothingToRepeat ==
  /\ pc = "repeat"
  /\ repeat_command
  /\ StopRepeat
  /\ pc' = "health"
  /\ UNCHANGED <<clock, now, spent, fed>>

Repeated ==
  /\ pc = "repeating"
  /\ pc' = "health"
  /\ last' = [last EXCEPT !["repeat"] = now]
  /\ age' = [age EXCEPT !["repeat"] = IF repeat_command THEN Minus(clock, now) ELSE 0]
  /\ slept' = [slept EXCEPT !["repeat"] =
                             repeat_command /\ clock < now /\ now + Interval["repeat"] < ClockMod]
  /\ now' = 0
  /\ UNCHANGED <<clock, repeat_command, spent, fed>>

\* The command repeat, from usb_run or in the output of a command.  In the
\* first moments of the clock the time it sets lies ahead.
RepeatCommand ==
  /\ pc \in {"hid", "repeat", "repeating"}
  /\ IF repeat_command
     THEN StopRepeat
     ELSE /\ repeat_command' = TRUE
          /\ last' = [last EXCEPT !["repeat"] = Minus(clock, HeadStart)]
          /\ age' = [age EXCEPT !["repeat"] = HeadStart]
          /\ slept' = [slept EXCEPT !["repeat"] = clock + Interval["repeat"] < HeadStart]
  /\ UNCHANGED <<clock, pc, now, spent, fed>>

Running(t) == t = "repeat" => repeat_command
Old(t) == IF t = "hid" THEN MaxOwed ELSE Interval[t] + HeadStart  \* enough

\* A millisecond passes.
Tick ==
  /\ spent < WatchdogMs
  /\ age["hid"] < MaxOwed
  /\ spent' = spent + 1
  /\ clock' = (clock + 1) % ClockMod
  /\ age' = [t \in Timer |-> IF Running(t) /\ age[t] < Old(t) THEN age[t] + 1 ELSE age[t]]
  /\ slept' = [t \in Timer |->
       slept[t] \/ /\ t # "hid" /\ Running(t)
                   /\ clock' = 0 /\ last[t] + Interval[t] < ClockMod]
  /\ UNCHANGED <<pc, last, now, repeat_command, fed>>

\* The command data waits for the ball and feeds the watchdog meanwhile.
FeedWatchdog ==
  /\ pc \in {"hid", "repeating"}
  /\ spent > 0
  /\ fed < MaxFed
  /\ fed' = fed + 1
  /\ spent' = 0
  /\ UNCHANGED <<clock, pc, last, now, repeat_command, age, slept>>

Init ==
  /\ clock = BootMs
  /\ pc = "heartbeat"
  /\ last = [t \in Timer |-> 0]
  /\ now = 0
  /\ repeat_command = FALSE
  /\ spent = 0
  /\ fed = 0
  /\ age = [t \in Timer |-> IF t = "repeat" THEN 0 ELSE BootMs]
  /\ slept = [t \in Timer |-> FALSE]

\* The watchdog: everything starts again.
Watchdog ==
  /\ spent = WatchdogMs
  /\ clock' = BootMs
  /\ pc' = "heartbeat"
  /\ last' = [t \in Timer |-> 0]
  /\ now' = 0
  /\ repeat_command' = FALSE
  /\ spent' = 0
  /\ fed' = 0
  /\ age' = [t \in Timer |-> IF t = "repeat" THEN 0 ELSE BootMs]
  /\ slept' = [t \in Timer |-> FALSE]

Step == HeartbeatRun \/ HidTask \/ CnslRun \/ NothingToRepeat \/ Repeated \/ PmwRun

Next == Step \/ RepeatCommand \/ Tick \/ FeedWatchdog \/ Watchdog

Spec == Init /\ [][Next]_vars

\* The processor does not stop, and neither does the clock.
FairSpec == Spec /\ WF_vars(Step) /\ WF_vars(Tick)
-----------------------------------------------------------------------------
\* The clock, the times kept and the times between them are within its range,
\* and the watchdog fires in time.
TypeOK ==
  /\ clock \in 0 .. ClockMod - 1 /\ now \in 0 .. ClockMod - 1
  /\ pc \in Timer \cup {"repeating"}
  /\ last \in [Timer -> 0 .. ClockMod - 1]
  /\ repeat_command \in BOOLEAN
  /\ spent \in 0 .. WatchdogMs /\ fed \in 0 .. MaxFed
  /\ age \in [Timer -> 0 .. ClockMod - 1]
  /\ slept \in [Timer -> BOOLEAN]

Looking(t) == pc = t /\ Running(t)

\* No timer runs before its interval is over, but the three that compare with
\* a sum while that sum has wrapped: they then run in every pass until the
\* clock wraps too (util.c:45, console.c:208, pmw3360.c:581).
NotEarly ==
  \A t \in Timer :
    Looking(t) /\ Due(t) =>
      age[t] >= Interval[t] \/ (t # "hid" /\ last[t] + Interval[t] >= ClockMod)

\* When the loop looks after the interval is over, the timer runs, unless it is
\* one of the three and the clock has wrapped meanwhile, or repeat was typed in
\* the first half second of the clock (console.c:59).
OnTime ==
  \A t \in Timer : Looking(t) /\ age[t] >= Interval[t] => Due(t) \/ slept[t]

\* Polls that a long pass has held up are made up for, one in every pass
\* (usb_hid.c:146), as long as the passes are short again.
CatchesUp ==
  <>[](spent < Interval["hid"] /\ fed = 0) => []<>(age["hid"] < Interval["hid"])
=============================================================================
