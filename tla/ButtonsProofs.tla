---------------------------- MODULE ButtonsProofs ----------------------------
(* Proofs about Buttons: the switches are debounced, and in time, for every *)
(* number of switches, delay and length of a round of the main loop, also   *)
(* where the clock wraps.                                                   *)
EXTENDS Buttons, TLAPS

-----------------------------------------------------------------------------
\* How many samples of other switches have followed the last one of switch i.
Since(i) == IF next > i THEN next - 1 - i ELSE next - 1 - i + N

\* How long they may have taken.
Waited(i) == Since(i) * MaxGap

\* What the code keeps of the time: now - last_time[i].
Age(i) == Elapsed(clock, last_time[i])

\* A level the loop has not seen yet is no older than the time since it looked.
Seen(i) == last_state[i] # wire[i] => quiet[i] <= Waited(i)

\* A level that is seen but not reported is still within the delay, so the
\* difference has not wrapped, and it was seen at most a round after it came.
Pending(i) ==
  current_state[i] # last_state[i] =>
    /\ Age(i) <= Delay + Waited(i)
    /\ last_state[i] = wire[i] => quiet[i] <= Age(i) + N * MaxGap

\* Within the delay the difference is the time the samples have agreed.
Measured(i) == stable[i] <= Delay => Age(i) = stable[i]

IInv == TypeOK /\ \A i \in Id : Seen(i) /\ Pending(i) /\ Measured(i)
-----------------------------------------------------------------------------
(* The constants are numbers, and there is at least one switch. *)
LEMMA Constants ==
  /\ N \in Nat /\ N > 0 /\ MaxGap \in Nat /\ MaxGap > 0
  /\ Delay \in Nat /\ N * MaxGap \in Nat
  /\ ClockMod \in Nat /\ ClockMod > 0
  /\ Delay + N * MaxGap < ClockMod /\ Delay + 1 < ClockMod
<1>1. N \in Nat /\ MaxGap \in Nat /\ Delay \in Nat /\ ClockMod \in Nat
      /\ N > 0 /\ MaxGap > 0
  BY ButtonsAssumption
<1>2. N * MaxGap \in Nat /\ N * MaxGap >= 1
  <2>1. \A a, b \in Nat : a > 0 /\ b > 0 => a * b \in Nat /\ a * b >= 1
    OBVIOUS
  <2>. QED  BY <1>1, <2>1
<1>. QED  BY <1>1, <1>2, ButtonsAssumption

(* Less than a round of samples lies behind, and less than a round's time. *)
LEMMA WithinRound ==
  ASSUME NEW a \in 0 .. N - 1
  PROVE  /\ a * MaxGap \in Nat
         /\ a * MaxGap + MaxGap <= N * MaxGap
         /\ (a + 1) * MaxGap = a * MaxGap + MaxGap
<1>1. a * MaxGap \in Nat
  BY Constants
<1>2. (a + 1) * MaxGap = a * MaxGap + MaxGap
  BY Constants
<1>3. (a + 1) * MaxGap <= N * MaxGap
  <2>1. \A x, y, m \in Nat : x <= y => x * m <= y * m
    OBVIOUS
  <2>2. a + 1 \in Nat /\ a + 1 <= N
    BY Constants
  <2>. QED  BY <2>1, <2>2, Constants
<1>. QED  BY <1>1, <1>2, <1>3

(* What the code computes from the clock is on the clock. *)
LEMMA ElapsedType ==
  ASSUME NEW C \in Nat, NEW now \in 0 .. C - 1, NEW last \in 0 .. C - 1, C = ClockMod
  PROVE  /\ Elapsed(now, last) \in 0 .. C - 1
         /\ Elapsed(now, last) = IF now >= last THEN now - last ELSE now - last + C
<1>1. C \in Nat \ {0}
  OBVIOUS
<1>. QED  BY <1>1 DEF Elapsed

(* The difference grows with the clock, wrapped or not, up to the modulus. *)
LEMMA ElapsedLater ==
  ASSUME NEW now \in 0 .. ClockMod - 1, NEW last \in 0 .. ClockMod - 1,
         NEW gap \in Nat, Elapsed(now, last) + gap < ClockMod
  PROVE  Elapsed((now + gap) % ClockMod, last) = Elapsed(now, last) + gap
<1>. DEFINE C == ClockMod
            later == (now + gap) % C
<1>1. C \in Nat \ {0}
  BY Constants
<1>. HIDE DEF C
<1>2. /\ Elapsed(now, last) \in 0 .. C - 1
      /\ Elapsed(now, last) = IF now >= last THEN now - last ELSE now - last + C
  BY <1>1, ElapsedType DEF C
<1>3. gap < C
  BY <1>1, <1>2 DEF C
<1>4. later = IF now + gap < C THEN now + gap ELSE now + gap - C
  BY <1>1, <1>3 DEF C
<1>5. later \in 0 .. C - 1
  BY <1>1, <1>3, <1>4 DEF C
<1>6. Elapsed(later, last) = IF later >= last THEN later - last ELSE later - last + C
  BY <1>1, <1>5, ElapsedType DEF C
<1>7. Elapsed(later, last) = Elapsed(now, last) + gap
  BY <1>1, <1>2, <1>4, <1>6 DEF C
<1>. QED  BY <1>7 DEF C

(* Nothing has elapsed since now. *)
LEMMA ElapsedZero == ASSUME NEW now \in 0 .. ClockMod - 1 PROVE Elapsed(now, now) = 0
BY Constants, ElapsedType

(* A sample is the last of its switch, and one more for the others. *)
LEMMA SinceSample ==
  ASSUME next \in Id, next' = NextId(next), NEW i \in Id
  PROVE  /\ Since(i) \in 0 .. N - 1
         /\ i = next => Since(i) = N - 1 /\ Since(i)' = 0
         /\ i # next => Since(i) + 1 \in 0 .. N - 1 /\ Since(i)' = Since(i) + 1
<1>1. next' = IF next + 1 = N THEN 0 ELSE next + 1
  BY Constants DEF NextId, Id
<1>. QED  BY <1>1, Constants DEF Since, Id

(* So waiting grows by at most the gap, to at most a round. *)
LEMMA WaitedSample ==
  ASSUME next \in Id, next' = NextId(next), NEW i \in Id, NEW gap \in 0 .. MaxGap
  PROVE  /\ Waited(i) \in Nat /\ Waited(i)' \in Nat
         /\ Waited(i) + gap <= N * MaxGap
         /\ i # next => Waited(i) + gap <= Waited(i)'
<1>1. Waited(i) \in Nat /\ Waited(i) + MaxGap <= N * MaxGap
  BY SinceSample, WithinRound DEF Waited
<1>2. gap \in Nat /\ gap <= MaxGap
  BY Constants
<1>3. Waited(i)' = Since(i)' * MaxGap
  BY DEF Waited
<1>4. CASE i = next
  <2>1. Since(i)' = 0 /\ 0 * MaxGap = 0
    BY <1>4, SinceSample, Constants
  <2>. QED  BY <1>1, <1>2, <1>3, <1>4, <2>1, Constants
<1>5. CASE i # next
  <2>1. Waited(i)' = Waited(i) + MaxGap
    BY <1>3, <1>5, SinceSample, WithinRound DEF Waited
  <2>. QED  BY <1>1, <1>2, <2>1, Constants
<1>. QED  BY <1>4, <1>5
-----------------------------------------------------------------------------
(* A history clock goes with the time, up to where it stops. *)
LEMMA LaterType ==
  ASSUME NEW limit \in Nat, NEW t \in 0 .. limit, NEW gap \in Nat
  PROVE  /\ Later(t, gap, limit) \in 0 .. limit
         /\ Later(t, gap, limit) <= t + gap
         /\ Later(t, gap, limit) < limit => Later(t, gap, limit) = t + gap
BY DEF Later

(* How long a level may go unreported is a number. *)
LEMMA LatencyType == Latency \in Nat /\ Latency = Delay + N * MaxGap + N * MaxGap
<1>1. \A n, m \in Nat : 2 * n * m = n * m + n * m
  OBVIOUS
<1>. QED  BY <1>1, Constants DEF Latency

(* What a sample of switch i does to the times. *)
LEMMA SampleTimes ==
  ASSUME TypeOK, NEW i \in Id, NEW gap \in 0 .. MaxGap, Sample(i, gap), NEW j \in Id
  PROVE  /\ clock' \in 0 .. ClockMod - 1
         /\ last_time'[j] = IF j = i /\ wire[j] # last_state[j] THEN clock' ELSE last_time[j]
         /\ stable'[j] = IF j = i /\ wire[j] # last_state[j] THEN 0
                         ELSE Later(stable[j], gap, Delay + 1)
         /\ quiet'[j] = Later(quiet[j], gap, Latency + 1)
<1>1. clock' \in 0 .. ClockMod - 1
  <2>1. \A c \in Nat : c > 0 => \A t \in 0 .. c - 1, g \in Nat : (t + g) % c \in 0 .. c - 1
    OBVIOUS
  <2>. QED  BY <2>1, Constants DEF Sample, SampleSwitch, TypeOK
<1>. QED  BY <1>1 DEF Sample, SampleSwitch, LastTimeAfter, TypeOK

(* The difference is 0 after a change, and else grows while it is small.   *)
LEMMA SampleAge ==
  ASSUME TypeOK, NEW i \in Id, NEW gap \in 0 .. MaxGap, Sample(i, gap), NEW j \in Id
  PROVE  /\ Age(j) \in Nat /\ Age(j)' \in Nat
         /\ (j = i /\ wire[j] # last_state[j]) => Age(j)' = 0
         /\ ~(j = i /\ wire[j] # last_state[j]) =>
              (Age(j) + gap < ClockMod => Age(j)' = Age(j) + gap)
<1>1. /\ clock \in 0 .. ClockMod - 1 /\ last_time[j] \in 0 .. ClockMod - 1
      /\ clock' \in 0 .. ClockMod - 1 /\ gap \in Nat
  BY SampleTimes, Constants DEF TypeOK
<1>2. Age(j)' = Elapsed(clock', last_time'[j])
  BY DEF Age, Elapsed
<1>3. last_time'[j] \in 0 .. ClockMod - 1
  BY <1>1, SampleTimes
<1>4. Age(j) \in Nat /\ Age(j)' \in Nat
  BY <1>1, <1>2, <1>3, ElapsedType, Constants DEF Age
<1>5. clock' = (clock + gap) % ClockMod
  BY DEF Sample, SampleSwitch
<1>6. (j = i /\ wire[j] # last_state[j]) => Age(j)' = 0
  BY <1>1, <1>2, SampleTimes, ElapsedZero
<1>7. ~(j = i /\ wire[j] # last_state[j]) =>
        (Age(j) + gap < ClockMod => Age(j)' = Age(j) + gap)
  BY <1>1, <1>2, <1>5, SampleTimes, ElapsedLater DEF Age
<1>. QED  BY <1>4, <1>6, <1>7

(* What a sample of switch i does to what the controls hear. *)
LEMMA SampleStates ==
  ASSUME TypeOK, NEW i \in Id, NEW gap \in 0 .. MaxGap, Sample(i, gap), NEW j \in Id
  PROVE  /\ wire' = wire /\ next = i /\ next' = NextId(next)
         /\ last_state'[j] = IF j = i THEN wire[j] ELSE last_state[j]
         /\ current_state'[j] = IF j = i /\ Age(j)' > Delay THEN wire[j] ELSE current_state[j]
<1>1. Age(j)' = Elapsed(clock', last_time'[j])
  BY DEF Age, Elapsed
<1>. QED  BY <1>1 DEF Sample, SampleSwitch, TypeOK

(* The times kept stay on the clock. *)
LEMMA SampleType ==
  ASSUME TypeOK, NEW i \in Id, NEW gap \in 0 .. MaxGap, Sample(i, gap)
  PROVE  TypeOK'
<1>1. next' \in Id
  BY Constants DEF Sample, SampleSwitch, NextId, Id, TypeOK
<1>2. clock' \in 0 .. ClockMod - 1 /\ last_time' \in [Id -> 0 .. ClockMod - 1]
  <2>1. clock' \in 0 .. ClockMod - 1
    BY SampleTimes
  <2>. QED  BY <2>1, SampleTimes DEF Sample, SampleSwitch, TypeOK
<1>3. /\ wire' \in [Id -> BOOLEAN] /\ current_state' \in [Id -> BOOLEAN]
      /\ last_state' \in [Id -> BOOLEAN]
  BY DEF Sample, SampleSwitch, TypeOK
<1>4. stable' \in [Id -> 0 .. Delay + 1] /\ quiet' \in [Id -> 0 .. Latency + 1]
  <2>1. Delay + 1 \in Nat /\ Latency + 1 \in Nat /\ gap \in Nat
    BY Constants, LatencyType
  <2>2. ASSUME NEW j \in Id
        PROVE  stable'[j] \in 0 .. Delay + 1 /\ quiet'[j] \in 0 .. Latency + 1
    <3>1. stable[j] \in 0 .. Delay + 1 /\ quiet[j] \in 0 .. Latency + 1
      BY DEF TypeOK
    <3>2. Later(stable[j], gap, Delay + 1) \in 0 .. Delay + 1
      BY <2>1, <3>1, LaterType
    <3>3. Later(quiet[j], gap, Latency + 1) \in 0 .. Latency + 1
      BY <2>1, <3>1, LaterType
    <3>. QED  BY <2>1, <3>2, <3>3, SampleTimes
  <2>3. stable' = [j \in Id |-> stable'[j]] /\ quiet' = [j \in Id |-> quiet'[j]]
    BY DEF Sample
  <2>. QED  BY <2>2, <2>3
<1>. QED  BY <1>1, <1>2, <1>3, <1>4 DEF TypeOK
-----------------------------------------------------------------------------
(* A sample keeps what is known of each switch. *)
LEMMA SampleIInv ==
  ASSUME IInv, NEW i \in Id, NEW gap \in 0 .. MaxGap, Sample(i, gap)
  PROVE  IInv'
<1>1. TypeOK /\ TypeOK' /\ next \in Id /\ next' = NextId(next) /\ next = i
  BY SampleType, SampleStates DEF IInv, TypeOK
<1>2. ASSUME NEW j \in Id PROVE Seen(j)' /\ Pending(j)' /\ Measured(j)'
  <2>. DEFINE Round == N * MaxGap
  <2>1. /\ Waited(j) \in Nat /\ Waited(j)' \in Nat /\ Waited(j) + gap <= Round
        /\ j # i => Waited(j) + gap <= Waited(j)'
    BY <1>1, WaitedSample
  <2>2. /\ gap \in Nat /\ Round \in Nat /\ Delay \in Nat /\ ClockMod \in Nat
        /\ Delay + Round < ClockMod /\ Delay + 1 < ClockMod
    BY Constants
  <2>3. /\ quiet'[j] \in Nat /\ quiet[j] \in Nat /\ quiet'[j] <= quiet[j] + gap
    <3>1. Latency + 1 \in Nat /\ quiet[j] \in 0 .. Latency + 1
      BY <1>1, LatencyType DEF TypeOK
    <3>2. quiet'[j] = Later(quiet[j], gap, Latency + 1)
      BY <1>1, SampleTimes
    <3>3. /\ Later(quiet[j], gap, Latency + 1) \in 0 .. Latency + 1
          /\ Later(quiet[j], gap, Latency + 1) <= quiet[j] + gap
      BY <2>2, <3>1, LaterType
    <3>. QED  BY <3>1, <3>2, <3>3
  <2>4. /\ stable[j] \in Nat
        /\ ~(j = i /\ wire[j] # last_state[j]) /\ stable'[j] <= Delay
             => stable'[j] = stable[j] + gap
        /\ (j = i /\ wire[j] # last_state[j]) => stable'[j] = 0
    <3>1. Delay + 1 \in Nat /\ stable[j] \in 0 .. Delay + 1
      BY <1>1, <2>2 DEF TypeOK
    <3>2. stable'[j] = IF j = i /\ wire[j] # last_state[j] THEN 0
                       ELSE Later(stable[j], gap, Delay + 1)
      BY <1>1, SampleTimes
    <3>3. Later(stable[j], gap, Delay + 1) < Delay + 1
            => Later(stable[j], gap, Delay + 1) = stable[j] + gap
      BY <2>2, <3>1, LaterType
    <3>4. stable'[j] \in Nat
      BY <3>1, <1>1 DEF TypeOK
    <3>. QED  BY <2>2, <3>1, <3>2, <3>3, <3>4
  <2>5. Seen(j) /\ Pending(j) /\ Measured(j)
    BY DEF IInv
  <2>. HIDE DEF Round
  <2>6. Seen(j)'
    BY <1>1, <2>1, <2>2, <2>3, <2>5, SampleStates DEF Seen
  <2>7. Measured(j)'
    BY <1>1, <2>2, <2>4, <2>5, SampleAge DEF Measured
  <2>8. Pending(j)'
    <3>. SUFFICES ASSUME current_state'[j] # last_state'[j]
                  PROVE  /\ Age(j)' <= Delay + Waited(j)'
                         /\ last_state'[j] = wire'[j] => quiet'[j] <= Age(j)' + Round
      BY DEF Pending, Round
    <3>1. CASE j = i /\ wire[j] # last_state[j]
      BY <1>1, <2>1, <2>2, <2>3, <2>5, <3>1, SampleAge, SampleStates DEF Seen
    <3>2. CASE j = i /\ wire[j] = last_state[j]
      BY <1>1, <2>1, <2>2, <2>3, <2>5, <3>2, SampleAge, SampleStates DEF Pending, Round
    <3>3. CASE j # i
      BY <1>1, <2>1, <2>2, <2>3, <2>5, <3>3, SampleAge, SampleStates DEF Pending, Round
    <3>. QED  BY <3>1, <3>2, <3>3
  <2>. QED  BY <2>6, <2>7, <2>8
<1>. QED  BY <1>1, <1>2 DEF IInv

(* So does a flip: nothing is older than it. *)
LEMMA FlipIInv == ASSUME IInv, NEW i \in Id, Flip(i) PROVE IInv'
<1>1. /\ UNCHANGED <<clock, next, last_time, current_state, last_state, stable>>
      /\ wire' = [wire EXCEPT ![i] = ~@] /\ quiet' = [quiet EXCEPT ![i] = 0]
      /\ next \in Id
  BY DEF Flip, FlipSwitch, state, IInv, TypeOK
<1>2. TypeOK'
  BY <1>1, LatencyType DEF IInv, TypeOK
<1>3. ASSUME NEW j \in Id PROVE Seen(j)' /\ Pending(j)' /\ Measured(j)'
  <2>1. Waited(j)' = Waited(j) /\ Age(j)' = Age(j)
    BY <1>1 DEF Waited, Since, Age, Elapsed
  <2>2. Waited(j) \in Nat
    <3>1. Since(j) \in 0 .. N - 1
      BY <1>1, Constants DEF Since, Id
    <3>. QED  BY <3>1, WithinRound DEF Waited
  <2>3. Age(j) \in Nat
    BY ElapsedType, Constants DEF Age, IInv, TypeOK
  <2>4. N * MaxGap \in Nat
    BY Constants
  <2>5. Seen(j) /\ Pending(j) /\ Measured(j) /\ wire \in [Id -> BOOLEAN]
        /\ quiet \in [Id -> 0 .. Latency + 1]
    BY DEF IInv, TypeOK
  <2>6. Measured(j)'
    BY <1>1, <2>1, <2>5 DEF Measured
  <2>7. CASE j = i
    <3>1. quiet'[j] = 0
      BY <1>1, <2>5, <2>7
    <3>. QED  BY <1>1, <2>1, <2>2, <2>3, <2>4, <2>5, <2>6, <3>1 DEF Seen, Pending
  <2>8. CASE j # i
    <3>1. quiet'[j] = quiet[j] /\ wire'[j] = wire[j]
      BY <1>1, <2>5, <2>8
    <3>. QED  BY <1>1, <2>1, <2>5, <2>6, <3>1 DEF Seen, Pending
  <2>. QED  BY <2>7, <2>8
<1>. QED  BY <1>2, <1>3 DEF IInv

(* All times start together. *)
LEMMA InitIInv == Init => IInv
<1>. SUFFICES ASSUME Init PROVE IInv
  OBVIOUS
<1>1. TypeOK
  BY Constants, LatencyType DEF Init, SwitchInit, TypeOK, Id
<1>2. ASSUME NEW i \in Id PROVE Seen(i) /\ Pending(i) /\ Measured(i)
  <2>1. Since(i) \in 0 .. N - 1
    BY <1>1, Constants DEF TypeOK, Since, Id
  <2>2. Waited(i) \in Nat
    BY <2>1, WithinRound DEF Waited
  <2>3. Age(i) = stable[i]
    <3>1. clock \in 0 .. ClockMod - 1 /\ 0 \in 0 .. ClockMod - 1 /\ last_time[i] = 0
      BY <1>1, Constants DEF TypeOK, Init, SwitchInit
    <3>2. Elapsed(clock, 0) = clock
      BY <3>1, ElapsedType, Constants
    <3>. QED  BY <3>1, <3>2 DEF Age, Init
  <2>4. quiet[i] = 0 /\ current_state[i] = last_state[i]
    BY DEF Init, SwitchInit
  <2>. QED  BY <2>2, <2>3, <2>4 DEF Seen, Pending, Measured
<1>. QED  BY <1>1, <1>2 DEF IInv

(* Every step of the switches keeps it. *)
LEMMA NextIInv == IInv /\ [Next]_vars => IInv'
<1>1. ASSUME IInv, UNCHANGED vars PROVE IInv'
  BY <1>1 DEF vars, state, IInv, TypeOK, Seen, Pending, Measured, Waited, Since, Age, Elapsed
<1>. QED  BY <1>1, SampleIInv, FlipIInv DEF Next, ButtonsRun

(* What is kept of the times is right, in every state. *)
THEOREM Invariance == Spec => []IInv
<1>. QED  BY InitIInv, NextIInv, PTL DEF Spec

(* The times stay on the clock, the index inside the array of switches.    *)
THEOREM TypeCorrect == Spec => []TypeOK
<1>1. IInv => TypeOK
  BY DEF IInv
<1>. QED  BY <1>1, Invariance, PTL

(* A level that stays is reported within the delay and two rounds of the   *)
(* main loop, whatever the number of switches, the delay, and the place    *)
(* where the clock wraps (buttons.c:52-61).                                *)
THEOREM ReportedInTime == Spec => []InTime
<1>1. ASSUME IInv PROVE InTime
  <2>. SUFFICES ASSUME NEW i \in Id, quiet[i] > Latency
                PROVE  current_state[i] = wire[i]
    BY DEF InTime
  <2>. DEFINE Round == N * MaxGap
  <2>1. Since(i) \in 0 .. N - 1
    BY <1>1, Constants DEF IInv, TypeOK, Since, Id
  <2>2. /\ Waited(i) \in Nat /\ Waited(i) + MaxGap <= Round
        /\ Round \in Nat /\ MaxGap \in Nat /\ MaxGap > 0 /\ Delay \in Nat
        /\ Latency = Delay + Round + Round
    BY <2>1, WithinRound, Constants, LatencyType DEF Waited
  <2>3. quiet[i] \in Nat /\ Age(i) \in Nat
    BY <1>1, ElapsedType, Constants, LatencyType DEF IInv, TypeOK, Age
  <2>. HIDE DEF Round
  <2>4. last_state[i] = wire[i]
    BY <1>1, <2>2, <2>3 DEF IInv, Seen
  <2>5. current_state[i] = last_state[i]
    <3>. SUFFICES ASSUME current_state[i] # last_state[i] PROVE FALSE
      OBVIOUS
    <3>1. Age(i) <= Delay + Waited(i) /\ quiet[i] <= Age(i) + Round
      BY <1>1, <2>4 DEF IInv, Pending, Round
    <3>. QED  BY <2>2, <2>3, <3>1
  <2>. QED  BY <2>4, <2>5
<1>. QED  BY <1>1, Invariance, PTL

(* The controls only hear of a level that every sample of more than the    *)
(* delay has seen, although the difference is of times that wrap.          *)
THEOREM OnlyDebounced == Spec => Debounced
<1>. DEFINE Step == \A i \in Id : current_state'[i] # current_state[i] =>
                      wire[i] = last_state[i] /\ stable'[i] > Delay
<1>1. ASSUME IInv, IInv', Next PROVE Step
  <2>. SUFFICES ASSUME NEW j \in Id, current_state'[j] # current_state[j]
                PROVE  wire[j] = last_state[j] /\ stable'[j] > Delay
    OBVIOUS
  <2>1. PICK i \in Id, gap \in 0 .. MaxGap : Sample(i, gap)
    BY <1>1 DEF Next, ButtonsRun, Flip, FlipSwitch, state
  <2>2. j = i /\ Age(j)' > Delay
    BY <1>1, <2>1, SampleStates DEF IInv
  <2>3. Age(j)' # 0
    BY <2>2, Constants
  <2>4. wire[j] = last_state[j]
    BY <1>1, <2>1, <2>2, <2>3, SampleAge DEF IInv
  <2>5. stable'[j] <= Delay => Age(j)' = stable'[j]
    BY <1>1 DEF IInv, Measured
  <2>6. stable'[j] \in Nat
    BY <1>1, Constants DEF IInv, TypeOK
  <2>. QED  BY <2>2, <2>4, <2>5, <2>6, Constants
<1>2. IInv /\ IInv' /\ [Next]_vars => [Step]_vars
  BY <1>1
<1>. QED  BY <1>2, Invariance, PTL DEF Spec, Debounced
=============================================================================
