---------------------------- MODULE TimersProofs ----------------------------
(* Proofs about Timers: which of the timers run early and which late, for   *)
(* every set of intervals and every width of the clock that holds them.     *)
EXTENDS Timers, TLAPS

-----------------------------------------------------------------------------
\* The sum last + interval has left the range of the clock.
Wrapped(t) == last[t] + Interval[t] >= ClockMod

Comparing == Timer \ {"hid"}

\* Where the loop is when it has looked at the timer after hid_task.
After(t) ==
  CASE t = "heartbeat" -> {"hid"}
    [] t = "repeat" -> {"health", "heartbeat", "hid"}
    [] t = "health" -> {"heartbeat", "hid"}
    [] OTHER -> {}

\* How long ago that was, at most: hid_task has been called since with no
\* more owed than it may be, or the time since is still owed.
Behind(t) == age["hid"] + (IF pc \in After(t) THEN 0 ELSE MaxOwed)

\* hid_task is owed what it computes.
Owed ==
  /\ age["hid"] = Minus(clock, last["hid"])
  /\ age["hid"] <= MaxOwed

\* While the sum is in range, the clock is ahead of last by the age, until it
\* wraps, which it does after the interval is over.
InRange(t) ==
  Running(t) /\ ~Wrapped(t) =>
    IF slept[t] THEN age[t] >= Interval[t]
    ELSE /\ clock >= last[t] + age[t]
         /\ age[t] < Interval[t] => clock = last[t] + age[t]

\* When it is not, the clock wraps before it reaches the sum and does not come
\* round to last again before the loop does.
OutOfRange(t) ==
  Running(t) /\ Wrapped(t) =>
    /\ ~slept[t]
    /\ age[t] <= Minus(clock, last[t])
    /\ clock < last[t] => clock < DueTime(t) + HeadStart + Behind(t)

\* cnsl_run has read the clock after hid_task has.
Reading == pc = "repeating" => Minus(clock, now) <= age["hid"]

IInv ==
  TypeOK /\ Owed /\ Reading /\ \A t \in Comparing : InRange(t) /\ OutOfRange(t)
-----------------------------------------------------------------------------
(* The constants are numbers, and the clock holds every interval, the head  *)
(* start of repeat and two long passes.                                     *)
LEMMA Constants ==
  /\ ClockMod \in Nat /\ ClockMod > 0
  /\ HeadStart \in Nat /\ MaxOwed \in Nat /\ BootMs \in Nat
  /\ WatchdogMs \in Nat /\ MaxFed \in Nat
  /\ BootMs <= MaxOwed /\ HeadStart < ClockMod /\ MaxOwed < ClockMod
  /\ Interval["repeat"] < HeadStart
  /\ \A t \in Timer : /\ Interval[t] \in Nat /\ Interval[t] > 0
                       /\ Interval[t] < ClockMod
                       /\ Interval[t] + HeadStart + 2 * MaxOwed <= ClockMod
<1>1. "repeat" \in Timer
  BY DEF Timer
<1>2. ClockMod \in Nat /\ HeadStart \in Nat /\ MaxOwed \in Nat /\ BootMs \in Nat
      /\ WatchdogMs \in Nat /\ MaxFed \in Nat
  BY TimersAssumption
<1>3. \A t \in Timer : /\ Interval[t] \in Nat /\ Interval[t] > 0
                       /\ Interval[t] < ClockMod
                       /\ Interval[t] + HeadStart + 2 * MaxOwed <= ClockMod
  BY <1>2, TimersAssumption
<1>. QED  BY <1>1, <1>2, <1>3, TimersAssumption

(* The difference of two times, and what the clock shows after a sum. *)
LEMMA MinusType ==
  ASSUME NEW a \in 0 .. ClockMod - 1, NEW b \in 0 .. ClockMod - 1
  PROVE  /\ Minus(a, b) \in 0 .. ClockMod - 1
         /\ Minus(a, b) = IF a >= b THEN a - b ELSE a - b + ClockMod
<1>. DEFINE C == ClockMod
<1>1. C \in Nat \ {0} /\ a \in 0 .. C - 1 /\ b \in 0 .. C - 1
  BY Constants
<1>2. (a - b + C) % C = IF a >= b THEN a - b ELSE a - b + C
  <2>. HIDE DEF C
  <2>. QED  BY <1>1
<1>. QED  BY <1>1, <1>2 DEF Minus

(* A sum on the clock is the plain one, or one turn of the clock less. *)
LEMMA SumType ==
  ASSUME NEW a \in 0 .. ClockMod - 1, NEW b \in 0 .. ClockMod - 1
  PROVE  /\ (a + b) % ClockMod \in 0 .. ClockMod - 1
         /\ (a + b) % ClockMod = IF a + b < ClockMod THEN a + b ELSE a + b - ClockMod
<1>. DEFINE C == ClockMod
<1>1. C \in Nat \ {0} /\ a \in 0 .. C - 1 /\ b \in 0 .. C - 1
  BY Constants
<1>2. (a + b) % C = IF a + b < C THEN a + b ELSE a + b - C
  <2>. HIDE DEF C
  <2>. QED  BY <1>1
<1>. QED  BY <1>1, <1>2

(* What TypeOK says of one timer. *)
LEMMA Times ==
  ASSUME TypeOK, NEW t \in Timer
  PROVE  /\ clock \in 0 .. ClockMod - 1 /\ clock \in Nat
         /\ last[t] \in 0 .. ClockMod - 1 /\ last[t] \in Nat
         /\ age[t] \in 0 .. ClockMod - 1 /\ age[t] \in Nat
<1>1. /\ clock \in 0 .. ClockMod - 1 /\ last[t] \in 0 .. ClockMod - 1
      /\ age[t] \in 0 .. ClockMod - 1
  BY DEF TypeOK
<1>. QED  BY <1>1, Constants

(* When a timer is due next, for one whose time is on the clock. *)
LEMMA DueTimeType ==
  ASSUME TypeOK, NEW t \in Timer
  PROVE  /\ DueTime(t) \in 0 .. ClockMod - 1
         /\ DueTime(t) = IF Wrapped(t) THEN last[t] + Interval[t] - ClockMod
                         ELSE last[t] + Interval[t]
<1>1. last[t] \in 0 .. ClockMod - 1
  BY DEF TypeOK
<1>. Interval[t] \in 0 .. ClockMod - 1
  BY Constants
<1>2. (last[t] + Interval[t]) % ClockMod \in 0 .. ClockMod - 1
  BY <1>1, SumType
<1>3. (last[t] + Interval[t]) % ClockMod =
        IF last[t] + Interval[t] < ClockMod THEN last[t] + Interval[t]
        ELSE last[t] + Interval[t] - ClockMod
  BY <1>1, SumType
<1>. QED  BY <1>1, <1>2, <1>3, Constants DEF DueTime, Wrapped
-----------------------------------------------------------------------------
(* It holds when the program has started. *)
LEMMA Started == Init => IInv
<1>. SUFFICES ASSUME Init PROVE IInv
  OBVIOUS
<1>. /\ clock = BootMs /\ pc = "heartbeat" /\ last = [t \in Timer |-> 0] /\ now = 0
     /\ repeat_command = FALSE /\ spent = 0 /\ fed = 0
     /\ age = [t \in Timer |-> IF t = "repeat" THEN 0 ELSE BootMs]
     /\ slept = [t \in Timer |-> FALSE]
  BY DEF Init
<1>1. TypeOK
  <2>1. BootMs \in 0 .. ClockMod - 1 /\ 0 \in 0 .. ClockMod - 1
    BY Constants
  <2>2. 0 \in 0 .. WatchdogMs /\ 0 \in 0 .. MaxFed
    BY Constants
  <2>. QED  BY <2>1, <2>2 DEF TypeOK, Timer
<1>2. Owed
  <2>1. age["hid"] = BootMs /\ last["hid"] = 0
    BY DEF Timer
  <2>2. Minus(BootMs, 0) = BootMs
    <3>1. BootMs \in 0 .. ClockMod - 1 /\ 0 \in 0 .. ClockMod - 1
      BY Constants
    <3>. QED  BY <3>1, MinusType
  <2>. QED  BY <2>1, <2>2, Constants DEF Owed
<1>3. Reading
  BY DEF Reading
<1>4. ASSUME NEW t \in Comparing
      PROVE  InRange(t) /\ OutOfRange(t)
  <2>. t \in Timer
    BY <1>4 DEF Comparing
  <2>1. last[t] = 0 /\ ~slept[t]
    OBVIOUS
  <2>3. ~Wrapped(t)
    BY <2>1, Constants DEF Wrapped
  <2>2. Running(t) => age[t] = BootMs
    BY <2>1 DEF Running
  <2>. QED  BY <2>1, <2>2, <2>3, Constants DEF InRange, OutOfRange
<1>. QED  BY <1>1, <1>2, <1>3, <1>4 DEF IInv

(* And when the watchdog has started it again. *)
LEMMA StartedAgain == Watchdog => IInv'
<1>1. Watchdog => Init'
  BY DEF Watchdog, Init
<1>. QED  BY <1>1, Started, PTL

(* A timer that is told the present begins afresh. *)
LEMMA Afresh ==
  ASSUME TypeOK', NEW t \in Comparing,
         last'[t] = clock', age'[t] = 0, slept'[t] = FALSE
  PROVE  InRange(t)' /\ OutOfRange(t)'
<1>1. last'[t] \in 0 .. ClockMod - 1 /\ clock' \in 0 .. ClockMod - 1
  BY DEF TypeOK, Comparing
<1>2. Minus(clock', last'[t]) \in Nat
  BY <1>1, MinusType
<1>3. clock' = last'[t] + age'[t] /\ clock' >= last'[t] + age'[t]
  <2>1. clock' \in Nat
    BY <1>1
  <2>2. \A x \in Nat : x = x + 0 /\ x >= x + 0
    OBVIOUS
  <2>. QED  BY <2>1, <2>2
<1>4. InRange(t)'
  BY <1>3, Zenon DEF InRange
<1>5. OutOfRange(t)'
  BY <1>1, <1>2 DEF OutOfRange
<1>. QED  BY <1>4, <1>5

(* One that does not run promises nothing. *)
LEMMA Stopped ==
  ASSUME NEW t, ~Running(t)'
  PROVE  InRange(t)' /\ OutOfRange(t)'
BY DEF InRange, OutOfRange
-----------------------------------------------------------------------------
(* The order of the loop: what a step of the loop does to the time a timer  *)
(* has not been looked at.  A step that is not that of the timer leaves it  *)
(* behind by no less, as what is owed is at least 0 and at most MaxOwed.    *)
LEMMA StillBehind ==
  ASSUME NEW t \in Comparing,
         age["hid"] \in 0 .. MaxOwed, age'["hid"] \in 0 .. MaxOwed,
         \/ pc = "heartbeat" /\ pc' = "hid" /\ t # "heartbeat" /\ age'["hid"] = age["hid"]
         \/ pc = "hid" /\ pc' = "repeat"
         \/ pc = "repeat" /\ pc' \in {"health", "repeating"} /\ t # "repeat"
            /\ age'["hid"] = age["hid"]
         \/ pc = "repeat" /\ pc' = "repeating" /\ age'["hid"] = age["hid"]
         \/ pc = "repeating" /\ pc' = "health" /\ t # "repeat" /\ age'["hid"] = age["hid"]
         \/ pc = "health" /\ pc' = "heartbeat" /\ t # "health" /\ age'["hid"] = age["hid"]
         \/ pc' = pc /\ age'["hid"] = age["hid"]
  PROVE  Behind(t)' >= Behind(t)
<1>1. t \in {"heartbeat", "repeat", "health"}
  BY DEF Comparing, Timer
<1>2. After("heartbeat") = {"hid"} /\ After("repeat") = {"health", "heartbeat", "hid"}
      /\ After("health") = {"heartbeat", "hid"}
  BY DEF After
<1>. QED  BY <1>1, <1>2, Constants DEF Behind

(* A step that leaves a timer alone and neither the clock nor repeat moves. *)
LEMMA LeftAlone ==
  ASSUME NEW t \in Comparing, TypeOK, InRange(t), OutOfRange(t),
         clock' = clock, last'[t] = last[t], age'[t] = age[t], slept'[t] = slept[t],
         Running(t)' => Running(t), Behind(t) \in Nat, Behind(t)' \in Nat,
         Behind(t)' >= Behind(t)
  PROVE  InRange(t)' /\ OutOfRange(t)'
<1>1. InRange(t)'
  BY Zenon DEF InRange, Wrapped
<1>2. Wrapped(t)' = Wrapped(t) /\ DueTime(t)' = DueTime(t)
      /\ Minus(clock, last[t])' = Minus(clock, last[t])
  BY DEF Wrapped, DueTime, Minus
<1>3. ASSUME Running(t)', Wrapped(t)', clock' < last'[t]
      PROVE  clock' < DueTime(t)' + HeadStart + Behind(t)'
  <2>1. clock < DueTime(t) + HeadStart + Behind(t)
    BY <1>2, <1>3 DEF OutOfRange
  <2>2. clock \in Nat /\ DueTime(t) \in Nat /\ HeadStart \in Nat
    BY DueTimeType, Constants DEF TypeOK, Comparing
  <2>. QED  BY <1>2, <2>1, <2>2
<1>. QED  BY <1>1, <1>2, <1>3, Zenon DEF OutOfRange

(* A timer that was looked at and was not due: if its sum is out of range,  *)
(* the clock has not reached it.                                            *)
LEMMA LookedAt ==
  ASSUME NEW t \in Comparing, TypeOK, InRange(t), OutOfRange(t),
         clock' = clock, last'[t] = last[t], age'[t] = age[t], slept'[t] = slept[t],
         Running(t)' => Running(t), Behind(t)' \in Nat, ~Due(t)
  PROVE  InRange(t)' /\ OutOfRange(t)'
<1>1. InRange(t)'
  BY Zenon DEF InRange, Wrapped
<1>2. Wrapped(t)' = Wrapped(t) /\ DueTime(t)' = DueTime(t)
      /\ Minus(clock, last[t])' = Minus(clock, last[t])
  BY DEF Wrapped, DueTime, Minus
<1>3. clock' < DueTime(t)' + HeadStart + Behind(t)'
  <2>1. clock < DueTime(t)
    <3>1. clock \in Nat /\ DueTime(t) \in Nat
      BY DueTimeType DEF TypeOK, Comparing
    <3>. QED  BY <3>1 DEF Due, Comparing
  <2>2. clock \in Nat /\ DueTime(t) \in Nat /\ HeadStart \in Nat
    BY DueTimeType, Constants DEF TypeOK, Comparing
  <2>. QED  BY <1>2, <2>1, <2>2
<1>. QED  BY <1>1, <1>2, <1>3, Zenon DEF OutOfRange
-----------------------------------------------------------------------------
(* What IInv says of hid_task and how far behind the others can be. *)
LEMMA BehindType ==
  ASSUME IInv
  PROVE  /\ age["hid"] \in 0 .. MaxOwed
         /\ \A t \in Comparing : Behind(t) \in Nat /\ Behind(t) <= age["hid"] + MaxOwed
<1>1. age["hid"] \in 0 .. MaxOwed
  BY Constants DEF IInv, TypeOK, Owed, Timer
<1>. QED  BY <1>1, Constants DEF Behind

(* A poll: the time advances by the interval, and so much less is owed. *)
LEMMA Polled ==
  ASSUME IInv, HidTask
  PROVE  /\ Owed' /\ age'["hid"] \in 0 .. MaxOwed
         /\ last'["hid"] \in 0 .. ClockMod - 1
<1>1. CASE ~Due("hid")
  <2>1. UNCHANGED <<clock, last, age>>
    BY <1>1 DEF HidTask, Look
  <2>2. Minus(clock, last["hid"])' = Minus(clock, last["hid"])
    BY <2>1 DEF Minus
  <2>. QED  BY <2>1, <2>2, BehindType DEF IInv, TypeOK, Owed, Timer
<1>2. CASE Due("hid")
  <2>. DEFINE a == age["hid"]  l == last["hid"]  i == Interval["hid"]
  <2>1. clock' = clock /\ last'["hid"] = DueTime("hid") /\ age'["hid"] = a - i
    BY <1>2 DEF HidTask, Look, Fired, LastAfter, IInv, TypeOK, Timer
  <2>2. i \in Nat /\ i > 0 /\ i < ClockMod /\ ClockMod \in Nat
        /\ MaxOwed \in Nat /\ MaxOwed < ClockMod
    BY Constants DEF Timer
  <2>3. clock \in 0 .. ClockMod - 1 /\ l \in 0 .. ClockMod - 1
    BY DEF IInv, TypeOK, Timer
  <2>4. a = IF clock >= l THEN clock - l ELSE clock - l + ClockMod
    BY <2>3, MinusType DEF IInv, Owed
  <2>5. i <= a
    BY <1>2, <2>2, <2>3, MinusType DEF Due, IInv, Owed
  <2>6. DueTime("hid") \in 0 .. ClockMod - 1
        /\ DueTime("hid") = IF l + i < ClockMod THEN l + i ELSE l + i - ClockMod
    <3>1. l + i < ClockMod <=> ~Wrapped("hid")
      BY <2>2, <2>3 DEF Wrapped
    <3>. QED  BY <3>1, DueTimeType DEF IInv, Timer
  <2>7. Minus(clock, DueTime("hid")) =
          IF clock >= DueTime("hid") THEN clock - DueTime("hid")
          ELSE clock - DueTime("hid") + ClockMod
    BY <2>3, <2>6, MinusType
  <2>8. a \in 0 .. MaxOwed
    BY BehindType
  <2>. HIDE DEF a, l, i
  <2>9. Minus(clock, DueTime("hid")) = a - i
    BY <2>2, <2>3, <2>4, <2>5, <2>6, <2>7
  <2>10. Minus(clock, last["hid"])' = a - i
    BY <2>1, <2>9 DEF Minus
  <2>11. a - i \in 0 .. MaxOwed
    BY <2>2, <2>5, <2>8
  <2>. QED  BY <2>1, <2>2, <2>6, <2>10, <2>11 DEF Owed
<1>. QED  BY <1>1, <1>2

(* A timer that compares and is due is told the present. *)
LEMMA FiredNow ==
  ASSUME TypeOK, NEW t \in Comparing, Fired(t)
  PROVE  /\ last'[t] = clock /\ age'[t] = 0 /\ slept'[t] = FALSE
         /\ \A s \in Timer \ {t} : last'[s] = last[s] /\ age'[s] = age[s] /\ slept'[s] = slept[s]
         /\ last' \in [Timer -> 0 .. ClockMod - 1]
         /\ age' \in [Timer -> 0 .. ClockMod - 1]
         /\ slept' \in [Timer -> BOOLEAN]
<1>1. t \in Timer /\ t # "hid"
  BY DEF Comparing
<1>2. 0 \in 0 .. ClockMod - 1
  BY Constants
<1>. QED  BY <1>1, <1>2 DEF Fired, LastAfter, TypeOK
-----------------------------------------------------------------------------
(* What a look at a timer that compares does to it, and what not. *)
LEMMA LookType ==
  ASSUME IInv, NEW t \in Comparing, NEW next, Look(t, next)
  PROVE  /\ last' \in [Timer -> 0 .. ClockMod - 1]
         /\ age' \in [Timer -> 0 .. ClockMod - 1]
         /\ slept' \in [Timer -> BOOLEAN]
         /\ \A s \in Timer \ {t} : last'[s] = last[s] /\ age'[s] = age[s] /\ slept'[s] = slept[s]
         /\ Due(t) => last'[t] = clock /\ age'[t] = 0 /\ slept'[t] = FALSE
         /\ ~Due(t) => last' = last /\ age' = age /\ slept' = slept
<1>1. CASE Due(t)
  BY <1>1, FiredNow DEF Look, IInv
<1>2. CASE ~Due(t)
  BY <1>2 DEF Look, IInv, TypeOK
<1>. QED  BY <1>1, <1>2

(* Only the look at hid_task changes what it is owed. *)
LEMMA OwedKept ==
  ASSUME IInv, clock' = clock, last'["hid"] = last["hid"], age'["hid"] = age["hid"]
  PROVE  Owed' /\ age'["hid"] \in 0 .. MaxOwed
<1>1. Minus(clock, last["hid"])' = Minus(clock, last["hid"])
  BY DEF Minus
<1>. QED  BY <1>1, BehindType DEF Owed, IInv

(* How far behind the others are after a step, from what hid_task is owed. *)
LEMMA BehindAfter ==
  ASSUME age'["hid"] \in 0 .. MaxOwed, NEW t
  PROVE  Behind(t)' \in Nat
BY Constants DEF Behind

(* heartbeat_run and pmw_run: one of the timers is looked at. *)
LEMMA LookKeeps ==
  ASSUME IInv, NEW t \in {"heartbeat", "health"}, NEW next, Look(t, next),
         t = "heartbeat" => next = "hid", t = "health" => next = "heartbeat",
         spent' \in 0 .. WatchdogMs, fed' \in 0 .. MaxFed,
         UNCHANGED <<clock, now, repeat_command>>
  PROVE  IInv'
<1>. t \in Comparing /\ t # "repeat" /\ pc = t /\ pc' = next /\ t # "hid" /\ "hid" \in Timer
  BY DEF Comparing, Timer, Look
<1>1. last'["hid"] = last["hid"] /\ age'["hid"] = age["hid"]
  BY LookType
<1>2. Owed' /\ age'["hid"] \in 0 .. MaxOwed
  BY <1>1, OwedKept
<1>3. TypeOK'
  <2>1. pc' \in Timer \cup {"repeating"}
    BY DEF Timer
  <2>. QED  BY <2>1, LookType DEF IInv, TypeOK
<1>4. Reading'
  BY DEF Reading
<1>5. ASSUME NEW s \in Comparing
      PROVE  InRange(s)' /\ OutOfRange(s)'
  <2>. s \in Timer /\ (Running(s)' => Running(s)) /\ Behind(s)' \in Nat /\ Behind(s) \in Nat
    BY <1>2, BehindAfter, BehindType DEF Comparing, Running
  <2>1. CASE s # t
    <3>1. last'[s] = last[s] /\ age'[s] = age[s] /\ slept'[s] = slept[s]
      BY <2>1, LookType
    <3>2. Behind(s)' >= Behind(s)
      BY <1>1, <1>2, <2>1, StillBehind, BehindType
    <3>. QED  BY <3>1, <3>2, LeftAlone DEF IInv
  <2>2. CASE s = t /\ ~Due(t)
    BY <2>2, LookType, LookedAt DEF IInv
  <2>3. CASE s = t /\ Due(t)
    BY <1>3, <2>3, LookType, Afresh
  <2>. QED  BY <2>1, <2>2, <2>3
<1>. QED  BY <1>2, <1>3, <1>4, <1>5 DEF IInv

(* hid_task. *)
LEMMA HidKeeps ==
  ASSUME IInv, HidTask
  PROVE  IInv'
<1>. pc = "hid" /\ pc' = "repeat" /\ UNCHANGED <<clock, now, repeat_command, spent, fed>>
  BY DEF HidTask, Look
<1>1. Owed' /\ age'["hid"] \in 0 .. MaxOwed /\ last'["hid"] \in 0 .. ClockMod - 1
  BY Polled
<1>2. \A s \in Timer \ {"hid"} : last'[s] = last[s] /\ age'[s] = age[s] /\ slept'[s] = slept[s]
  BY DEF HidTask, Look, Fired, IInv, TypeOK
<1>3. TypeOK'
  <2>1. age'["hid"] \in 0 .. ClockMod - 1
    BY <1>1, Constants
  <2>2. /\ last' \in [Timer -> 0 .. ClockMod - 1]
        /\ age' \in [Timer -> 0 .. ClockMod - 1]
        /\ slept' \in [Timer -> BOOLEAN]
    <3>1. CASE Due("hid")
      <4>1. last' = [last EXCEPT !["hid"] = last'["hid"]]
            /\ age' = [age EXCEPT !["hid"] = age'["hid"]]
            /\ slept' = [slept EXCEPT !["hid"] = FALSE]
        BY <3>1 DEF HidTask, Look, Fired, IInv, TypeOK, Timer
      <4>. QED  BY <1>1, <2>1, <4>1 DEF IInv, TypeOK
    <3>2. CASE ~Due("hid")
      BY <3>2 DEF HidTask, Look, IInv, TypeOK
    <3>. QED  BY <3>1, <3>2
  <2>. QED  BY <2>2 DEF IInv, TypeOK, Timer
<1>4. Reading'
  BY DEF Reading
<1>5. ASSUME NEW s \in Comparing
      PROVE  InRange(s)' /\ OutOfRange(s)'
  <2>1. s \in Timer \ {"hid"} /\ (Running(s)' => Running(s))
    BY DEF Comparing, Running
  <2>2. Behind(s)' \in Nat /\ Behind(s) \in Nat /\ Behind(s)' >= Behind(s)
    BY <1>1, StillBehind, BehindType, BehindAfter
  <2>. QED  BY <1>2, <2>1, <2>2, LeftAlone DEF IInv
<1>. QED  BY <1>1, <1>3, <1>4, <1>5 DEF IInv
-----------------------------------------------------------------------------
(* cnsl_run looks at the time of the repetition. *)
LEMMA CnslKeeps ==
  ASSUME IInv, CnslRun
  PROVE  IInv'
<1>. pc = "repeat" /\ UNCHANGED <<clock, last, repeat_command, spent, fed, age, slept>>
  BY DEF CnslRun
<1>1. Owed' /\ age'["hid"] \in 0 .. MaxOwed
  BY OwedKept
<1>2. TypeOK' /\ pc' \in {"health", "repeating"}
  BY DEF CnslRun, IInv, TypeOK, Timer
<1>3. Reading'
  <2>1. CASE now' = clock
    <3>1. Minus(clock, now)' = 0
      BY <1>2, <2>1, MinusType DEF TypeOK
    <3>. QED  BY <1>1, <3>1 DEF Reading
  <2>2. CASE pc' = "health"
    BY <2>2 DEF Reading
  <2>. QED  BY <2>1, <2>2 DEF CnslRun
<1>4. ASSUME NEW s \in Comparing
      PROVE  InRange(s)' /\ OutOfRange(s)'
  <2>1. (Running(s)' => Running(s)) /\ Behind(s)' \in Nat /\ Behind(s) \in Nat
    BY <1>1, BehindAfter, BehindType DEF Running
  <2>2. CASE s # "repeat" \/ pc' = "repeating"
    <3>1. Behind(s)' >= Behind(s)
      BY <1>1, <1>2, <2>2, StillBehind, BehindType
    <3>. QED  BY <2>1, <3>1, LeftAlone DEF IInv
  <2>3. CASE s = "repeat" /\ pc' = "health"
    <3>1. ~Running(s) \/ ~Due(s)
      BY <2>3 DEF CnslRun, Running
    <3>2. ~Running(s)' \/ ~Due(s)
      BY <3>1 DEF Running
    <3>. QED  BY <2>1, <3>2, LookedAt, Stopped DEF IInv
  <2>. QED  BY <1>2, <2>2, <2>3
<1>. QED  BY <1>1, <1>2, <1>3, <1>4 DEF IInv

(* repeat stops: the other timers are left alone, this one promises nothing. *)
LEMMA StopKeeps ==
  ASSUME IInv, StopRepeat, UNCHANGED <<clock, spent, fed>>, now' = now,
         \/ pc' = pc
         \/ pc = "repeat" /\ pc' = "health"
  PROVE  IInv'
<1>1. last'["hid"] = last["hid"] /\ age'["hid"] = age["hid"]
  BY DEF StopRepeat, IInv, TypeOK, Timer
<1>2. Owed' /\ age'["hid"] \in 0 .. MaxOwed
  BY <1>1, OwedKept
<1>3. TypeOK'
  <2>1. 0 \in 0 .. ClockMod - 1
    BY Constants
  <2>. QED  BY <2>1 DEF StopRepeat, IInv, TypeOK, Timer
<1>4. Reading'
  <2>1. pc' = "repeating" => pc = "repeating"
    OBVIOUS
  <2>2. Minus(clock, now)' = Minus(clock, now)
    BY DEF Minus
  <2>. QED  BY <1>1, <2>1, <2>2 DEF Reading, IInv
<1>5. ASSUME NEW s \in Comparing
      PROVE  InRange(s)' /\ OutOfRange(s)'
  <2>1. CASE s = "repeat"
    <3>1. ~Running(s)'
      BY <2>1 DEF StopRepeat, Running
    <3>. QED  BY <3>1, Stopped
  <2>2. CASE s # "repeat"
    <3>1. /\ last'[s] = last[s] /\ age'[s] = age[s] /\ slept'[s] = slept[s]
          /\ (Running(s)' => Running(s))
      BY <2>2 DEF StopRepeat, IInv, TypeOK, Comparing, Running
    <3>2. Behind(s)' \in Nat /\ Behind(s) \in Nat
      BY <1>2, BehindAfter, BehindType
    <3>3. Behind(s)' >= Behind(s)
      BY <1>1, <1>2, <2>2, StillBehind, BehindType
    <3>. QED  BY <3>1, <3>2, <3>3, LeftAlone DEF IInv
  <2>. QED  BY <2>1, <2>2
<1>. QED  BY <1>2, <1>3, <1>4, <1>5 DEF IInv

(* The command repeat sets the time of the last repetition HeadStart back:  *)
(* it is over, or the time lies ahead and the difference has wrapped.       *)
LEMMA SetBack ==
  ASSUME TypeOK, TypeOK', NEW b \in Nat, Behind("repeat")' = b,
         clock' = clock, last'["repeat"] = Minus(clock, HeadStart),
         age'["repeat"] = HeadStart,
         slept'["repeat"] = (clock + Interval["repeat"] < HeadStart)
  PROVE  InRange("repeat")' /\ OutOfRange("repeat")'
<1>. DEFINE L == last'["repeat"]  I == Interval["repeat"]  H == HeadStart  C == ClockMod
<1>1. clock \in 0 .. C - 1 /\ H \in 0 .. C - 1 /\ C \in Nat
  BY Constants DEF TypeOK
<1>2. I \in Nat /\ I > 0 /\ I < H /\ I < C
  BY Constants DEF Timer
<1>3. L = IF clock >= H THEN clock - H ELSE clock - H + C
  BY <1>1, MinusType
<1>4. slept'["repeat"] = (clock + I < H) /\ age'["repeat"] = H
  OBVIOUS
<1>5. Wrapped("repeat")' <=> L + I >= C
  BY DEF Wrapped
<1>6. DueTime("repeat")' = IF L + I < C THEN L + I ELSE L + I - C
  <2>1. L \in 0 .. C - 1 /\ I \in 0 .. C - 1
    BY <1>1, <1>2 DEF TypeOK, Timer
  <2>2. (L + I) % C = IF L + I < C THEN L + I ELSE L + I - C
    BY <2>1, SumType
  <2>. QED  BY <2>2 DEF DueTime
<1>7. Minus(clock', L) = IF clock >= L THEN clock - L ELSE clock - L + C
  <2>1. L \in 0 .. C - 1
    BY DEF TypeOK, Timer
  <2>. QED  BY <1>1, <2>1, MinusType
<1>. HIDE DEF L, I, H, C
<1>8. L + I < C => IF clock + I < H THEN H >= I ELSE clock >= L + H /\ ~(H < I)
  BY <1>1, <1>2, <1>3
<1>9. L + I >= C => ~(clock + I < H) /\ H <= Minus(clock', L)
  BY <1>1, <1>2, <1>3, <1>7
<1>10. L + I >= C => clock < DueTime("repeat")' + H + b
  BY <1>1, <1>2, <1>3, <1>6
<1>11. InRange("repeat")'
  <2>1. ASSUME ~Wrapped("repeat")'
        PROVE  IF slept'["repeat"] THEN age'["repeat"] >= I
               ELSE /\ clock' >= L + age'["repeat"]
                    /\ age'["repeat"] < I => clock' = L + age'["repeat"]
    <3>1. L + I < C
      BY <1>1, <1>2, <1>3, <1>5, <2>1
    <3>. QED  BY <1>4, <1>8, <3>1, Zenon
  <2>. QED  BY <2>1, Zenon DEF InRange, L, I
<1>12. OutOfRange("repeat")'
  BY <1>4, <1>5, <1>9, <1>10, Zenon DEF OutOfRange, L, I, H, C
<1>. QED  BY <1>11, <1>12

(* The command repeat, typed or in the output of a command. *)
LEMMA RepeatKeeps ==
  ASSUME IInv, RepeatCommand
  PROVE  IInv'
<1>. UNCHANGED <<clock, pc, now, spent, fed>>
  BY DEF RepeatCommand
<1>1. CASE repeat_command
  BY <1>1, StopKeeps DEF RepeatCommand
<1>2. CASE ~repeat_command
  <2>1. /\ repeat_command' = TRUE
        /\ last' = [last EXCEPT !["repeat"] = Minus(clock, HeadStart)]
        /\ age' = [age EXCEPT !["repeat"] = HeadStart]
        /\ slept' = [slept EXCEPT !["repeat"] = clock + Interval["repeat"] < HeadStart]
    BY <1>2 DEF RepeatCommand
  <2>2. last'["hid"] = last["hid"] /\ age'["hid"] = age["hid"]
    BY <2>1 DEF IInv, TypeOK, Timer
  <2>3. Owed' /\ age'["hid"] \in 0 .. MaxOwed
    BY <2>2, OwedKept
  <2>4. TypeOK'
    <3>1. HeadStart \in 0 .. ClockMod - 1
      BY Constants
    <3>2. Minus(clock, HeadStart) \in 0 .. ClockMod - 1
      BY <3>1, MinusType DEF IInv, TypeOK
    <3>. QED  BY <2>1, <3>1, <3>2 DEF IInv, TypeOK, Timer
  <2>5. Reading'
    <3>1. Minus(clock, now)' = Minus(clock, now)
      BY DEF Minus
    <3>. QED  BY <2>2, <3>1 DEF Reading, IInv
  <2>6. ASSUME NEW s \in Comparing
        PROVE  InRange(s)' /\ OutOfRange(s)'
    <3>1. Behind(s)' \in Nat /\ Behind(s) \in Nat
      BY <2>3, BehindAfter, BehindType
    <3>2. CASE s = "repeat"
      <4>1. /\ last'["repeat"] = Minus(clock, HeadStart)
            /\ age'["repeat"] = HeadStart
            /\ slept'["repeat"] = (clock + Interval["repeat"] < HeadStart)
        BY <2>1 DEF IInv, TypeOK, Timer
      <4>2. TypeOK
        BY DEF IInv
      <4>. QED  BY <2>4, <3>1, <3>2, <4>1, <4>2, SetBack
    <3>3. CASE s # "repeat"
      <4>1. /\ last'[s] = last[s] /\ age'[s] = age[s] /\ slept'[s] = slept[s]
            /\ (Running(s)' => Running(s))
        BY <2>1, <3>3 DEF IInv, TypeOK, Comparing, Running
      <4>2. Behind(s)' >= Behind(s)
        BY <2>2, <2>3, StillBehind, BehindType
      <4>. QED  BY <3>1, <4>1, <4>2, LeftAlone DEF IInv
    <3>. QED  BY <3>2, <3>3
  <2>. QED  BY <2>3, <2>4, <2>5, <2>6 DEF IInv
<1>. QED  BY <1>1, <1>2

(* The command is done, and the time it was read before it is stored. *)
LEMMA StoredLate ==
  ASSUME TypeOK, TypeOK', NEW b \in Nat, Behind("repeat")' = b,
         age'["hid"] = age["hid"], pc' = "health",
         clock' = clock, last'["repeat"] = now, Minus(clock, now) <= age["hid"],
         age'["repeat"] = Minus(clock, now),
         slept'["repeat"] = (clock < now /\ now + Interval["repeat"] < ClockMod)
  PROVE  InRange("repeat")' /\ OutOfRange("repeat")'
<1>. DEFINE L == last'["repeat"]  I == Interval["repeat"]  A == age'["repeat"]
            C == ClockMod  H == HeadStart
<1>1. clock \in 0 .. C - 1 /\ L \in 0 .. C - 1 /\ C \in Nat /\ H \in Nat
  BY Constants DEF TypeOK
<1>2. I \in Nat /\ I > 0 /\ I < C
  BY Constants DEF Timer
<1>3. A = Minus(clock', L) /\ A = IF clock >= L THEN clock - L ELSE clock - L + C
  BY <1>1, MinusType DEF TypeOK
<1>4. slept'["repeat"] = (clock < L /\ L + I < C)
  OBVIOUS
<1>5. Wrapped("repeat")' <=> L + I >= C
  BY DEF Wrapped
<1>6. DueTime("repeat")' = IF L + I < C THEN L + I ELSE L + I - C
  <2>1. L \in 0 .. C - 1 /\ I \in 0 .. C - 1
    BY <1>1, <1>2
  <2>2. (L + I) % C = IF L + I < C THEN L + I ELSE L + I - C
    BY <2>1, SumType
  <2>. QED  BY <2>2 DEF DueTime
<1>7. A <= b
  <2>1. age["hid"] \in Nat /\ A \in Nat
    BY <1>1, MinusType DEF TypeOK, Timer
  <2>2. b = age["hid"]
    BY <2>1 DEF Behind, After
  <2>. QED  BY <2>1, <2>2
<1>. HIDE DEF L, I, A, C, H
<1>8. L + I < C => IF clock < L THEN A >= I
                   ELSE clock >= L + A /\ clock = L + A
  BY <1>1, <1>2, <1>3
<1>9. L + I >= C => A <= Minus(clock', L)
                    /\ (clock < L => clock < DueTime("repeat")' + H + b)
  <2>1. A <= A
    BY <1>1, <1>3
  <2>. QED  BY <2>1, <1>1, <1>2, <1>3, <1>6, <1>7
<1>10. InRange("repeat")'
  <2>1. ASSUME ~Wrapped("repeat")'
        PROVE  IF slept'["repeat"] THEN A >= I
               ELSE clock' >= L + A /\ (A < I => clock' = L + A)
    <3>1. L + I < C
      BY <1>1, <1>2, <1>5, <2>1
    <3>. QED  BY <1>4, <1>8, <3>1, Zenon
  <2>. QED  BY <2>1, Zenon DEF InRange, L, I, A
<1>11. OutOfRange("repeat")'
  <2>1. ASSUME L + I >= C
        PROVE  ~slept'["repeat"]
    <3>1. ~(L + I < C)
      BY <1>1, <1>2, <2>1
    <3>. QED  BY <1>4, <3>1, Zenon
  <2>. QED  BY <1>5, <1>9, <2>1, Zenon DEF OutOfRange, L, I, A, C, H
<1>. QED  BY <1>10, <1>11

(* After the repeated command its timer keeps the time from before it. *)
LEMMA RepeatedKeeps ==
  ASSUME IInv, Repeated
  PROVE  IInv'
<1>. pc = "repeating" /\ pc' = "health" /\ UNCHANGED <<clock, repeat_command, spent, fed>>
  BY DEF Repeated
<1>1. /\ last' = [last EXCEPT !["repeat"] = now]
      /\ age' = [age EXCEPT !["repeat"] = IF repeat_command THEN Minus(clock, now) ELSE 0]
      /\ slept' = [slept EXCEPT !["repeat"] =
           repeat_command /\ clock < now /\ now + Interval["repeat"] < ClockMod]
      /\ now' = 0
  BY DEF Repeated
<1>2. last'["hid"] = last["hid"] /\ age'["hid"] = age["hid"]
  BY <1>1 DEF IInv, TypeOK, Timer
<1>3. Owed' /\ age'["hid"] \in 0 .. MaxOwed
  BY <1>2, OwedKept
<1>4. TypeOK'
  <2>1. 0 \in 0 .. ClockMod - 1
    BY Constants
  <2>2. Minus(clock, now) \in 0 .. ClockMod - 1
    BY MinusType DEF IInv, TypeOK
  <2>3. (repeat_command /\ clock < now /\ now + Interval["repeat"] < ClockMod) \in BOOLEAN
    OBVIOUS
  <2>4. slept' \in [Timer -> BOOLEAN]
    BY <1>1, <2>3 DEF IInv, TypeOK
  <2>. QED  BY <1>1, <2>1, <2>2, <2>4 DEF IInv, TypeOK, Timer
<1>5. Reading'
  BY DEF Reading
<1>6. ASSUME NEW s \in Comparing
      PROVE  InRange(s)' /\ OutOfRange(s)'
  <2>1. Behind(s)' \in Nat /\ Behind(s) \in Nat
    BY <1>3, BehindAfter, BehindType
  <2>2. CASE s = "repeat" /\ ~repeat_command
    <3>1. ~Running(s)'
      BY <2>2 DEF Running
    <3>. QED  BY <3>1, Stopped
  <2>3. CASE s = "repeat" /\ repeat_command
    <3>1. /\ last'["repeat"] = now /\ age'["repeat"] = Minus(clock, now)
          /\ slept'["repeat"] = (clock < now /\ now + Interval["repeat"] < ClockMod)
      BY <1>1, <2>3 DEF IInv, TypeOK, Timer
    <3>2. TypeOK /\ Minus(clock, now) <= age["hid"]
      BY DEF IInv, Reading
    <3>. QED  BY <1>2, <1>4, <2>1, <2>3, <3>1, <3>2, StoredLate
  <2>4. CASE s # "repeat"
    <3>1. /\ last'[s] = last[s] /\ age'[s] = age[s] /\ slept'[s] = slept[s]
          /\ (Running(s)' => Running(s))
      BY <1>1, <2>4 DEF IInv, TypeOK, Comparing, Running
    <3>2. Behind(s)' >= Behind(s)
      BY <1>2, <1>3, <2>4, StillBehind, BehindType
    <3>. QED  BY <2>1, <3>1, <3>2, LeftAlone DEF IInv
  <2>. QED  BY <2>2, <2>3, <2>4
<1>. QED  BY <1>3, <1>4, <1>5, <1>6 DEF IInv
-----------------------------------------------------------------------------
(* A millisecond later the difference is one more, unless it wraps. *)
LEMMA MinusTick ==
  ASSUME NEW a \in 0 .. ClockMod - 1, NEW b \in 0 .. ClockMod - 1
  PROVE  /\ (a + 1) % ClockMod \in 0 .. ClockMod - 1
         /\ (a + 1) % ClockMod = IF a + 1 < ClockMod THEN a + 1 ELSE 0
         /\ Minus(a, b) + 1 < ClockMod => Minus((a + 1) % ClockMod, b) = Minus(a, b) + 1
<1>. DEFINE C == ClockMod  later == (a + 1) % C
<1>1. C \in Nat \ {0} /\ a \in 0 .. C - 1 /\ b \in 0 .. C - 1
  BY Constants
<1>2. later = IF a + 1 < C THEN a + 1 ELSE 0
  <2>. HIDE DEF C
  <2>. QED  BY <1>1
<1>3. later \in 0 .. C - 1
  BY <1>1, <1>2
<1>. HIDE DEF C, later
<1>4. Minus(later, b) = IF later >= b THEN later - b ELSE later - b + C
  BY <1>3, MinusType DEF C
<1>5. Minus(a, b) = IF a >= b THEN a - b ELSE a - b + C
  BY MinusType DEF C
<1>6. Minus(a, b) + 1 < C => Minus(later, b) = Minus(a, b) + 1
  BY <1>1, <1>2, <1>3, <1>4, <1>5
<1>. QED  BY <1>2, <1>3, <1>6 DEF C, later

(* Time goes by for a timer that compares. *)
LEMMA TimeGoesBy ==
  ASSUME IInv, Tick, NEW t \in Comparing
  PROVE  InRange(t)' /\ OutOfRange(t)'
<1>. DEFINE L == last[t]  I == Interval[t]  A == age[t]  C == ClockMod  H == HeadStart
            D == DueTime(t)  B == Behind(t)  M == Minus(clock, L)
<1>1. t \in Timer /\ t # "hid" /\ "hid" \in Timer
  BY DEF Comparing, Timer
<1>2. C \in Nat /\ I \in Nat /\ I > 0 /\ I < C /\ H \in Nat /\ MaxOwed \in Nat
      /\ I + H + 2 * MaxOwed <= C
  BY <1>1, Constants
<1>3. clock \in 0 .. C - 1 /\ L \in 0 .. C - 1 /\ A \in 0 .. C - 1
  BY <1>1 DEF IInv, TypeOK
<1>4. clock' = IF clock + 1 < C THEN clock + 1 ELSE 0
  BY <1>3, MinusTick DEF Tick
<1>5. last' = last /\ repeat_command' = repeat_command /\ pc' = pc
  BY DEF Tick
<1>6. A \in Nat /\ age'[t] = IF Running(t) /\ A < I + H THEN A + 1 ELSE A
  BY <1>1, <1>2, <1>3 DEF Tick, Old
<1>7. Running(t) => slept'[t] = (slept[t] \/ (clock' = 0 /\ L + I < C))
  BY <1>1 DEF Tick
<1>8. D \in 0 .. C - 1 /\ D = IF L + I >= C THEN L + I - C ELSE L + I
  BY <1>1, DueTimeType DEF IInv, Wrapped
<1>9. B \in Nat /\ B < MaxOwed + MaxOwed
  <2>1. age["hid"] \in Nat /\ age["hid"] < MaxOwed
    BY BehindType DEF Tick
  <2>. QED  BY <1>2, <2>1, BehindType
<1>10. Behind(t)' = B + 1
  <2>1. age'["hid"] = age["hid"] + 1
    BY <1>1 DEF Tick, Running, Old
  <2>2. age["hid"] \in Nat /\ MaxOwed \in Nat
    BY <1>2, BehindType
  <2>. QED  BY <1>5, <2>1, <2>2 DEF Behind
<1>11. M \in 0 .. C - 1 /\ M = IF clock >= L THEN clock - L ELSE clock - L + C
  BY <1>3, MinusType
<1>12. M + 1 < C => Minus(clock', L) = M + 1
  BY <1>3, MinusTick DEF Tick
<1>13. InRange(t) /\ OutOfRange(t)
  BY DEF IInv
<1>14. DueTime(t)' = D /\ Minus(clock, last[t])' = Minus(clock', L)
       /\ (Wrapped(t)' <=> L + I >= C) /\ (Wrapped(t) <=> L + I >= C)
       /\ (Running(t)' <=> Running(t))
  BY <1>5 DEF DueTime, Minus, Wrapped, Running
<1>15. InRange(t)'
  <2>. SUFFICES ASSUME Running(t), ~(L + I >= C)
                PROVE  IF slept'[t] THEN age'[t] >= I
                       ELSE /\ clock' >= L + age'[t]
                            /\ age'[t] < I => clock' = L + age'[t]
    BY <1>5, <1>14, Zenon DEF InRange
  <2>1. IF slept[t] THEN A >= I ELSE clock >= L + A /\ (A < I => clock = L + A)
    BY <1>13, <1>14, Zenon DEF InRange
  <2>. HIDE DEF L, I, A, C, H, D, B, M
  <2>2. L + I < C /\ age'[t] >= A /\ age'[t] <= A + 1 /\ age'[t] \in Nat
        /\ (A < I => age'[t] = A + 1)
    BY <1>2, <1>3, <1>6
  <2>3. CASE slept[t]
    <3>1. age'[t] >= I
      BY <1>2, <1>3, <2>1, <2>2, <2>3
    <3>. QED  BY <1>7, <2>3, <3>1, Zenon
  <2>4. CASE ~slept[t] /\ clock' = 0
    <3>1. A >= I
      BY <1>2, <1>3, <1>4, <2>1, <2>2, <2>4
    <3>2. age'[t] >= I
      BY <1>2, <1>3, <2>2, <3>1
    <3>. QED  BY <1>7, <2>2, <2>4, <3>2, Zenon
  <2>5. CASE ~slept[t] /\ clock' # 0
    <3>1. ~slept'[t]
      BY <1>7, <2>5, Zenon
    <3>2. clock' >= L + age'[t] /\ (age'[t] < I => clock' = L + age'[t])
      BY <1>2, <1>3, <1>4, <2>1, <2>2, <2>5
    <3>. QED  BY <3>1, <3>2, Zenon
  <2>. QED  BY <2>3, <2>4, <2>5
<1>16. OutOfRange(t)'
  <2>. SUFFICES ASSUME Running(t), L + I >= C
                PROVE  /\ ~slept'[t]
                       /\ age'[t] <= Minus(clock', L)
                       /\ clock' < L => clock' < D + H + (B + 1)
    BY <1>5, <1>10, <1>14, Zenon DEF OutOfRange
  <2>1. ~slept[t] /\ A <= M /\ (clock < L => clock < D + H + B)
    BY <1>13, <1>14, Zenon DEF OutOfRange
  <2>. HIDE DEF L, I, A, C, H, D, B, M
  <2>2. ~(L + I < C)
    BY <1>2, <1>3
  <2>3. ~slept'[t]
    BY <1>7, <2>1, <2>2, Zenon
  <2>4. M + 1 < C
    BY <1>2, <1>3, <1>8, <1>9, <1>11, <2>1
  <2>5. age'[t] <= Minus(clock', L)
    BY <1>2, <1>3, <1>6, <1>11, <1>12, <2>1, <2>4
  <2>6. clock' < L => clock' < D + H + (B + 1)
    BY <1>2, <1>3, <1>4, <1>8, <1>9, <2>1
  <2>. QED  BY <2>3, <2>5, <2>6
<1>. QED  BY <1>15, <1>16

(* A millisecond passes: no timer that runs is left behind by a turn. *)
LEMMA TickKeeps ==
  ASSUME IInv, Tick
  PROVE  IInv'
<1>. UNCHANGED <<pc, last, now, repeat_command, fed>>
  BY DEF Tick
<1>1. clock' \in 0 .. ClockMod - 1 /\ clock' = (clock + 1) % ClockMod
  <2>1. clock \in 0 .. ClockMod - 1 /\ 0 \in 0 .. ClockMod - 1
    BY Constants DEF IInv, TypeOK
  <2>. QED  BY <2>1, MinusTick DEF Tick
<1>2. age'["hid"] = age["hid"] + 1 /\ age["hid"] < MaxOwed /\ age["hid"] \in Nat
  BY BehindType DEF Tick, Running, Old, Timer
<1>3. Owed'
  <2>1. Minus(clock, last["hid"]) + 1 < ClockMod
    BY <1>2, Constants DEF IInv, Owed
  <2>2. Minus(clock, last["hid"])' = Minus(clock, last["hid"]) + 1
    <3>1. clock \in 0 .. ClockMod - 1 /\ last["hid"] \in 0 .. ClockMod - 1
      BY DEF IInv, TypeOK, Timer
    <3>2. Minus((clock + 1) % ClockMod, last["hid"]) = Minus(clock, last["hid"]) + 1
      BY <2>1, <3>1, MinusTick
    <3>. QED  BY <1>1, <3>2 DEF Minus
  <2>. QED  BY <1>2, <2>2, Constants DEF IInv, Owed
<1>4. Reading'
  <2>. SUFFICES ASSUME pc = "repeating"
                PROVE  Minus(clock', now) <= age'["hid"]
    BY DEF Reading, Minus
  <2>1. Minus(clock, now) <= age["hid"]
    BY DEF IInv, Reading
  <2>2. clock \in 0 .. ClockMod - 1 /\ now \in 0 .. ClockMod - 1
    BY DEF IInv, TypeOK
  <2>3. Minus(clock, now) \in Nat
    BY <2>2, MinusType
  <2>4. Minus(clock, now) + 1 < ClockMod
    BY <1>2, <2>1, <2>3, Constants
  <2>5. Minus(clock', now) = Minus(clock, now) + 1
    BY <1>1, <2>2, <2>4, MinusTick
  <2>. QED  BY <1>2, <2>1, <2>3, <2>5
<1>5. TypeOK'
  <2>1. spent' \in 0 .. WatchdogMs
    BY Constants DEF Tick, IInv, TypeOK
  <2>2. ASSUME NEW t \in Timer
        PROVE  (IF Running(t) /\ age[t] < Old(t) THEN age[t] + 1 ELSE age[t]) \in 0 .. ClockMod - 1
    <3>1. age[t] \in 0 .. ClockMod - 1
      BY DEF IInv, TypeOK
    <3>2. Old(t) \in Nat /\ Old(t) < ClockMod
      <4>1. CASE t = "hid"
        BY <4>1, Constants DEF Old
      <4>2. CASE t # "hid"
        <5>1. MaxOwed > 0
          BY <1>2, Constants
        <5>2. Interval[t] \in Nat /\ Interval[t] + HeadStart + 2 * MaxOwed <= ClockMod
          BY Constants
        <5>. QED  BY <4>2, <5>1, <5>2, Constants DEF Old
      <4>. QED  BY <4>1, <4>2
    <3>. QED  BY <3>1, <3>2, Constants
  <2>3. age' \in [Timer -> 0 .. ClockMod - 1]
    BY <2>2 DEF Tick
  <2>4. slept' \in [Timer -> BOOLEAN]
    <3>1. \A t \in Timer : slept[t] \in BOOLEAN
      BY DEF IInv, TypeOK
    <3>. QED  BY <3>1 DEF Tick
  <2>. QED  BY <1>1, <2>1, <2>3, <2>4 DEF IInv, TypeOK
<1>. QED  BY <1>3, <1>4, <1>5, TimeGoesBy DEF IInv

(* The watchdog is fed, or nothing happens: the timers are left alone. *)
LEMMA NothingKeeps ==
  ASSUME IInv, UNCHANGED <<clock, pc, last, now, repeat_command, age, slept>>,
         spent' \in 0 .. WatchdogMs, fed' \in 0 .. MaxFed
  PROVE  IInv'
<1>1. Owed' /\ age'["hid"] \in 0 .. MaxOwed
  BY OwedKept
<1>2. TypeOK'
  BY DEF IInv, TypeOK
<1>3. Reading'
  <2>1. Minus(clock, now)' = Minus(clock, now)
    BY DEF Minus
  <2>. QED  BY <2>1 DEF IInv, Reading
<1>4. ASSUME NEW t \in Comparing
      PROVE  InRange(t)' /\ OutOfRange(t)'
  <2>1. Behind(t)' \in Nat /\ Behind(t) \in Nat
    BY <1>1, BehindAfter, BehindType
  <2>2. Behind(t)' >= Behind(t) /\ (Running(t)' => Running(t))
    BY <1>1, StillBehind, BehindType DEF Running
  <2>. QED  BY <2>1, <2>2, LeftAlone DEF IInv
<1>. QED  BY <1>1, <1>2, <1>3, <1>4 DEF IInv

(* Every step of the program keeps the invariant. *)
LEMMA NextKeeps ==
  ASSUME IInv, [Next]_vars
  PROVE  IInv'
<1>. spent \in 0 .. WatchdogMs /\ fed \in 0 .. MaxFed
     /\ 0 \in 0 .. WatchdogMs /\ 0 \in 0 .. MaxFed
  BY Constants DEF IInv, TypeOK
<1>1. CASE HeartbeatRun
  <2>1. UNCHANGED <<clock, now, repeat_command, spent, fed>> /\ Look("heartbeat", "hid")
    BY <1>1 DEF HeartbeatRun
  <2>. QED  BY <2>1, LookKeeps
<1>2. CASE HidTask
  BY <1>2, HidKeeps
<1>3. CASE CnslRun
  BY <1>3, CnslKeeps
<1>4. CASE NothingToRepeat
  BY <1>4, StopKeeps DEF NothingToRepeat
<1>5. CASE Repeated
  BY <1>5, RepeatedKeeps
<1>6. CASE PmwRun
  <2>1. UNCHANGED <<clock, now, repeat_command>> /\ Look("health", "heartbeat")
        /\ spent' = 0 /\ fed' = 0
    BY <1>6 DEF PmwRun
  <2>. QED  BY <2>1, LookKeeps
<1>7. CASE RepeatCommand
  BY <1>7, RepeatKeeps
<1>8. CASE Tick
  BY <1>8, TickKeeps
<1>9. CASE FeedWatchdog
  <2>1. fed' \in 0 .. MaxFed /\ spent' \in 0 .. WatchdogMs
    BY <1>9, Constants DEF FeedWatchdog
  <2>. QED  BY <1>9, <2>1, NothingKeeps DEF FeedWatchdog
<1>10. CASE Watchdog
  BY <1>10, StartedAgain
<1>11. CASE UNCHANGED vars
  BY <1>11, NothingKeeps DEF vars
<1>. QED  BY <1>1, <1>2, <1>3, <1>4, <1>5, <1>6, <1>7, <1>8, <1>9, <1>10, <1>11 DEF Next, Step

(* The invariant of all that follows: every time the loop keeps is tied to  *)
(* the time that has really passed, also where the clock has wrapped.       *)
THEOREM Invariance == Spec => []IInv
<1>1. Init => IInv
  BY Started
<1>2. IInv /\ [Next]_vars => IInv'
  BY NextKeeps
<1>. QED  BY <1>1, <1>2, PTL DEF Spec

(* The times are on the clock, no wait between two of them is longer than   *)
(* the clock can tell, and the watchdog fires in time.                      *)
THEOREM TypeCorrect == Spec => []TypeOK
<1>1. IInv => TypeOK
  BY DEF IInv
<1>. QED  BY <1>1, Invariance, PTL

(* No timer runs before its interval is over, unless it is one of the three *)
(* that compare with a sum and that sum has wrapped.                        *)
THEOREM NeverEarly == Spec => []NotEarly
<1>1. ASSUME IInv, NEW t \in Timer, Looking(t), Due(t)
      PROVE  age[t] >= Interval[t] \/ (t # "hid" /\ last[t] + Interval[t] >= ClockMod)
  <2>1. CASE t = "hid"
    BY <1>1, <2>1 DEF Due, IInv, Owed
  <2>2. CASE t # "hid" /\ ~Wrapped(t)
    <3>1. Running(t) /\ InRange(t)
      BY <1>1, <2>2 DEF Looking, IInv, Comparing
    <3>2. clock >= last[t] + Interval[t]
      BY <1>1, <2>2, DueTimeType DEF Due, IInv
    <3>3. age[t] \in Nat /\ last[t] \in Nat /\ Interval[t] \in Nat /\ clock \in Nat
      BY <1>1, Constants, Times DEF IInv
    <3>4. CASE slept[t]
      BY <2>2, <3>1, <3>4, Zenon DEF InRange
    <3>5. CASE ~slept[t]
      <4>1. age[t] < Interval[t] => clock = last[t] + age[t]
        BY <2>2, <3>1, <3>5, Zenon DEF InRange
      <4>. QED  BY <3>2, <3>3, <4>1
    <3>. QED  BY <3>4, <3>5
  <2>3. CASE t # "hid" /\ Wrapped(t)
    BY <2>3 DEF Wrapped
  <2>. QED  BY <2>1, <2>2, <2>3
<1>2. IInv => NotEarly
  BY <1>1 DEF NotEarly
<1>. QED  BY <1>2, Invariance, PTL

(* A timer whose interval is over runs when the loop looks at it, unless it *)
(* is one of the three and the clock has wrapped meanwhile.                 *)
THEOREM AlwaysOnTime == Spec => []OnTime
<1>1. ASSUME IInv, NEW t \in Timer, Looking(t), age[t] >= Interval[t], ~slept[t]
      PROVE  Due(t)
  <2>0. age[t] \in Nat /\ last[t] \in 0 .. ClockMod - 1 /\ Interval[t] \in Nat
        /\ clock \in 0 .. ClockMod - 1 /\ ClockMod \in Nat /\ Interval[t] < ClockMod
    BY <1>1, Constants, Times DEF IInv
  <2>1. CASE t = "hid"
    BY <1>1, <2>1 DEF Due, IInv, Owed
  <2>2. CASE t # "hid" /\ ~Wrapped(t)
    <3>1. Running(t) /\ InRange(t)
      BY <1>1, <2>2 DEF Looking, IInv, Comparing
    <3>2. clock >= last[t] + age[t]
      BY <1>1, <2>2, <3>1, Zenon DEF InRange
    <3>3. DueTime(t) = last[t] + Interval[t]
      BY <1>1, <2>2, DueTimeType DEF IInv
    <3>4. clock >= DueTime(t)
      BY <1>1, <2>0, <3>2, <3>3
    <3>. QED  BY <2>2, <3>4 DEF Due
  <2>3. CASE t # "hid" /\ Wrapped(t)
    <3>1. Running(t) /\ OutOfRange(t)
      BY <1>1, <2>3 DEF Looking, IInv, Comparing
    <3>2. age[t] <= Minus(clock, last[t])
      BY <2>3, <3>1, Zenon DEF OutOfRange
    <3>3. Minus(clock, last[t]) = IF clock >= last[t] THEN clock - last[t]
                                  ELSE clock - last[t] + ClockMod
      BY <2>0, MinusType
    <3>4. DueTime(t) = last[t] + Interval[t] - ClockMod
      BY <1>1, <2>3, DueTimeType DEF IInv
    <3>5. clock >= DueTime(t)
      BY <1>1, <2>0, <3>2, <3>3, <3>4
    <3>. QED  BY <2>3, <3>5 DEF Due
  <2>. QED  BY <2>1, <2>2, <2>3
<1>2. IInv => OnTime
  BY <1>1 DEF OnTime
<1>. QED  BY <1>2, Invariance, PTL
=============================================================================
