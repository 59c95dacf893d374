---------------------------- MODULE PointerProofs ----------------------------
(* Proofs about PmwMotion, for every set of sensor readings and any number *)
(* of interrupts; about Pointer: what PmwMotion promises holds end to end, *)
(* and the click of the scroll button is counted right, for every          *)
(* configuration; and about Trackball, which is Pointer with bouncing      *)
(* switches: the controls hold what the switches have been debounced to,   *)
(* and all that Pointer promises holds.                                    *)
EXTENDS Trackball, TLAPS

-----------------------------------------------------------------------------
\* ----- PmwMotion: the motion counters between the interrupt and pmw_get.
\* pmw_get is between masking and unmasking the interrupt.
Masked == {"copy_x", "copy_y", "clear_x", "clear_y", "start"}

\* The axes whose counter has been copied into the result.
Copied ==
  CASE pc = "copy_y" -> {"x"}
    [] pc \in {"clear_x", "clear_y", "start", "return"} -> Axis
    [] OTHER -> {}

(* While the interrupt is masked the counters stand still, so the copies   *)
(* stay equal to them until they are cleared; and what is to be returned   *)
(* completes what was delivered to the sum of some first interrupts.       *)
GetInv ==
  /\ pc \in Masked => ~irq_enabled
  /\ \A a \in Axis :
       /\ a \in Copied \ Taken => r.delta[a] = delta[a]
       /\ (a \in Taken /\ pc # "return") => delta[a] = 0
  /\ produced \in sums
  /\ pc = "return" => delivered (+) r.delta \in sums

IInv == MotionTypeOK /\ Conserved /\ GetInv /\ NoTearing

(* convert_two_complement gives back every motion the registers can hold.  *)
LEMMA Converted ==
  ASSUME MotionAssumption, NEW d \in Int, -Int16 <= 2 * d, 2 * d < Int16
  PROVE  TwosComplement(DeltaRaw(d)) = d
<1>1. Int16 \in Nat \ {0}
  BY DEF MotionAssumption
<1>2. CASE d >= 0
  <2>1. d % Int16 = d
    BY <1>1, <1>2
  <2>. QED  BY <1>1, <1>2, <2>1 DEF TwosComplement, DeltaRaw
<1>3. CASE d < 0
  <2>1. d % Int16 = d + Int16
    BY <1>1, <1>3
  <2>. QED  BY <1>1, <1>3, <2>1 DEF TwosComplement, DeltaRaw
<1>. QED  BY <1>2, <1>3

(* Distances add up: one more report, one more step of reach. *)
LEMMA ReachAdd ==
  ASSUME MotionAssumption, NEW n \in Nat, NEW d \in Reach(n),
         NEW b \in Int, -Int16 <= 2 * b, 2 * b < Int16
  PROVE  d + b \in Reach(n + 1)
<1>2. (n + 1) * Int16 = n * Int16 + Int16 /\ n * Int16 \in Int
  BY DEF MotionAssumption
<1>. QED  BY <1>2 DEF Reach, MotionAssumption

(* What was in reach stays in reach when another interrupt is counted. *)
LEMMA ReachGrows ==
  ASSUME MotionAssumption, NEW n \in Nat, NEW d \in Reach(n)
  PROVE  d \in Reach(n + 1) /\ 0 \in Reach(n)
<1>1. (n + 1) * Int16 = n * Int16 + Int16 /\ n * Int16 \in Nat
  BY DEF MotionAssumption
<1>. QED  BY <1>1 DEF Reach, MotionAssumption

(* The counters start at zero, everything accounted for. *)
LEMMA InitIInv == MotionAssumption /\ MotionInit => IInv
<1>. SUFFICES ASSUME MotionAssumption, MotionInit PROVE IInv
  OBVIOUS
<1>1. 0 \in Reach(0)
  BY DEF Reach, MotionAssumption
<1>2. \A a \in Axis : Zero[a] = 0
  BY DEF Zero
<1>3. Zero \in Sum /\ Zero \in [Axis -> Reach(0)]
  BY <1>1 DEF Zero, Sum
<1>4. pc = "idle" /\ Copied = {} /\ Taken = {}
  BY DEF MotionInit, Copied, Taken
<1>5. MotionTypeOK
  <2>1. irqs \in 0 .. MaxIrqs /\ irqs = 0
    BY DEF MotionInit, MotionAssumption
  <2>2. delta \in [Axis -> Reach(irqs)]
    BY <1>3, <2>1 DEF MotionInit
  <2>3. r \in [motion : BOOLEAN, delta : Sum] /\ sums \subseteq Sum
    BY <1>3 DEF MotionInit
  <2>. QED  BY <1>3, <2>1, <2>2, <2>3 DEF MotionTypeOK, MotionInit, Steps
<1>6. Conserved /\ NoTearing
  <2>1. \A a \in Axis : produced[a] = 0 /\ delivered[a] = 0 /\ delta[a] = 0
    BY <1>2 DEF MotionInit
  <2>2. \A a \in Axis : a \notin Taken
    BY <1>4
  <2>3. Conserved
    BY <2>1, <2>2 DEF Conserved
  <2>4. NoTearing
    BY DEF NoTearing, MotionInit
  <2>. QED  BY <2>3, <2>4
<1>7. GetInv
  BY <1>2, <1>4 DEF GetInv, MotionInit, Masked
<1>. QED  BY <1>5, <1>6, <1>7 DEF IInv

(* An interrupt cannot hit pmw_get between the copies. *)
LEMMA InterruptIInv ==
  ASSUME MotionAssumption, NEW motion \in Motions, IInv, Interrupt(motion)
  PROVE  IInv'
<1>. DEFINE moved == [a \in Axis |-> TwosComplement(DeltaRaw(motion[a]))]
<1>. USE DEF IInv
<1>1. /\ irq_enabled /\ irqs' = irqs + 1 /\ irqs' \in 0 .. MaxIrqs
      /\ delta' = delta (+) moved /\ produced' = produced (+) motion
      /\ sums' = sums \cup {produced'} /\ mouse_motion' = TRUE
      /\ UNCHANGED <<irq_enabled, pc, r, delivered>>
  BY DEF Interrupt, local, MotionTypeOK, MotionAssumption
<1>2. \A a \in Axis : /\ motion[a] \in Int
                       /\ -Int16 <= 2 * motion[a] /\ 2 * motion[a] < Int16
                       /\ moved[a] = motion[a]
  BY Converted DEF MotionAssumption
<1>3. \A a \in Axis :
        /\ moved[a] \in Int
        /\ delta'[a] = delta[a] + moved[a]
        /\ produced'[a] = produced[a] + moved[a]
  BY <1>1, <1>2 DEF (+)
<1>4. delta' \in [Axis -> Reach(irqs')] /\ produced' \in Sum
  <2>1. irqs \in Nat
    BY DEF MotionTypeOK, MotionAssumption
  <2>2. \A a \in Axis : delta'[a] \in Reach(irqs')
    BY <1>1, <1>2, <1>3, <2>1, ReachAdd DEF MotionTypeOK
  <2>3. \A a \in Axis : produced'[a] \in Int
    BY <1>3 DEF MotionTypeOK, Sum
  <2>. QED  BY <1>1, <2>2, <2>3 DEF Sum, (+)
<1>5. MotionTypeOK'
  BY <1>1, <1>4 DEF MotionTypeOK, Sum
<1>6. pc \notin Masked
  BY <1>1 DEF GetInv
<1>7. Conserved'
  BY <1>1, <1>3 DEF Conserved, Taken, MotionTypeOK, Sum, Reach
<1>8. GetInv' /\ NoTearing'
  BY <1>1, <1>6 DEF GetInv, NoTearing, Taken, Copied, Masked, MotionTypeOK, Steps
<1>. QED  BY <1>5, <1>7, <1>8

(* Calling pmw_get moves nothing. *)
LEMMA BeginIInv == ASSUME MotionAssumption, IInv, GetBegin PROVE IInv'
<1>. USE DEF IInv
<1>1. /\ pc = "idle" /\ pc' \in {"stop", "return"}
      /\ r' = [motion |-> mouse_motion, delta |-> Zero]
      /\ UNCHANGED <<delta, mouse_motion, irq_enabled, irqs, sums, produced,
                     delivered>>
  BY DEF GetBegin, shared, motionHistory
<1>2. Zero \in Sum /\ \A a \in Axis : Zero[a] = 0
  BY DEF Zero, Sum
<1>3. MotionTypeOK'
  BY <1>1, <1>2 DEF MotionTypeOK, Steps
<1>4. Conserved'
  BY <1>1, <1>2 DEF Conserved, Taken, MotionTypeOK, Sum, Reach
<1>5. delivered (+) Zero = delivered
  BY <1>2 DEF (+), MotionTypeOK, Sum
<1>6. GetInv' /\ NoTearing'
  BY <1>1, <1>2, <1>5 DEF GetInv, NoTearing, Copied, Taken, Masked
<1>. QED  BY <1>3, <1>4, <1>6

(* Masking the interrupt touches no counter. *)
LEMMA StopIInv == ASSUME MotionAssumption, IInv, GetStop PROVE IInv'
BY DEF GetStop, motionHistory, IInv, MotionTypeOK, Conserved, GetInv,
       NoTearing, Taken, Copied, Masked, Steps

(* Copying an axis keeps the copy equal to the counter. *)
LEMMA CopyIInv ==
  ASSUME MotionAssumption, IInv,
         Copy("x", "copy_x", "copy_y") \/ Copy("y", "copy_y", "clear_x")
  PROVE  IInv'
<1>. USE DEF IInv
<1>1. PICK a \in Axis :
        /\ pc = (IF a = "x" THEN "copy_x" ELSE "copy_y")
        /\ pc' = (IF a = "x" THEN "copy_y" ELSE "clear_x")
        /\ r' = [r EXCEPT !.delta[a] = delta[a]]
        /\ UNCHANGED <<shared, motionHistory>>
  BY DEF Copy, Axis
<1>2. UNCHANGED <<delta, mouse_motion, irq_enabled, irqs, sums, produced,
                  delivered>>
  BY <1>1 DEF shared, motionHistory
<1>3. /\ r'.motion = r.motion
      /\ r'.delta = [r.delta EXCEPT ![a] = delta[a]]
      /\ r' \in [motion : BOOLEAN, delta : Sum]
  BY <1>1 DEF MotionTypeOK, Sum, Reach
<1>4. MotionTypeOK'
  BY <1>1, <1>2, <1>3 DEF MotionTypeOK, Steps
<1>5. \A b \in Axis : r'.delta[b] = IF b = a THEN delta[b] ELSE r.delta[b]
  BY <1>3 DEF MotionTypeOK, Sum
<1>6. Taken' = {} /\ Taken = {}
  BY <1>1 DEF Taken
<1>7. Copied' = Copied \cup {a}
  BY <1>1 DEF Copied, Axis
<1>8. Conserved' /\ NoTearing'
  BY <1>1, <1>2, <1>6 DEF Conserved, NoTearing
<1>9. GetInv'
  BY <1>1, <1>2, <1>5, <1>6, <1>7 DEF GetInv, Masked
<1>. QED  BY <1>4, <1>8, <1>9

(* Clearing an axis takes what was copied, as the counter stood still. *)
LEMMA ClearIInv ==
  ASSUME MotionAssumption, IInv,
         Clear("x", "clear_x", "clear_y") \/ Clear("y", "clear_y", "start")
  PROVE  IInv'
<1>. USE DEF IInv
<1>1. PICK a \in Axis :
        /\ pc = (IF a = "x" THEN "clear_x" ELSE "clear_y")
        /\ pc' = (IF a = "x" THEN "clear_y" ELSE "start")
        /\ delta' = [delta EXCEPT ![a] = 0]
        /\ UNCHANGED <<mouse_motion, irq_enabled, r, motionHistory>>
  BY DEF Clear, Axis
<1>2. UNCHANGED <<irqs, sums, produced, delivered>>
  BY <1>1 DEF motionHistory
<1>3. \A b \in Axis : delta'[b] = IF b = a THEN 0 ELSE delta[b]
  BY <1>1 DEF MotionTypeOK
<1>4. 0 \in Reach(irqs)
  BY ReachGrows DEF MotionTypeOK, MotionAssumption, Axis
<1>5. MotionTypeOK'
  BY <1>1, <1>2, <1>4 DEF MotionTypeOK, Steps
<1>6. Taken' = Taken \cup {a} /\ a \notin Taken
  BY <1>1 DEF Taken, Axis
<1>7. Copied = Axis /\ Copied' = Axis
  BY <1>1 DEF Copied
<1>8. r.delta[a] = delta[a]
  BY <1>6, <1>7 DEF GetInv
<1>9. Conserved' /\ NoTearing'
  BY <1>1, <1>2, <1>3, <1>6, <1>8
     DEF Conserved, NoTearing, MotionTypeOK, Sum, Reach
<1>10. GetInv'
  BY <1>1, <1>2, <1>3, <1>6, <1>7 DEF GetInv, Masked, MotionTypeOK
<1>. QED  BY <1>5, <1>9, <1>10

(* When the interrupt is unmasked both counters have been taken. *)
LEMMA StartIInv == ASSUME MotionAssumption, IInv, GetStart PROVE IInv'
<1>. USE DEF IInv
<1>1. /\ pc = "start" /\ pc' = "return" /\ irq_enabled' = TRUE
      /\ UNCHANGED <<delta, mouse_motion, r, irqs, sums, produced, delivered>>
  BY DEF GetStart, motionHistory
<1>2. MotionTypeOK'
  BY <1>1 DEF MotionTypeOK, Steps
<1>3. Taken = Axis /\ Taken' = Axis /\ Copied = Axis /\ Copied' = Axis
  BY <1>1 DEF Taken, Copied
<1>4. Conserved' /\ NoTearing'
  BY <1>1, <1>3 DEF Conserved, NoTearing
<1>5. \A a \in Axis : delta[a] = 0 /\ produced[a] = delivered[a] + r.delta[a]
  BY <1>1, <1>3 DEF GetInv, Conserved, MotionTypeOK, Sum
<1>6. delivered (+) r.delta = produced
  <2>1. \A a \in Axis : (delivered (+) r.delta)[a] = produced[a]
    BY <1>5 DEF (+)
  <2>. QED  BY <2>1 DEF (+), MotionTypeOK, Sum
<1>7. GetInv'
  BY <1>1, <1>3, <1>6 DEF GetInv, Masked
<1>. QED  BY <1>2, <1>4, <1>7

(* The caller gets the sum of some first interrupts. *)
LEMMA ReturnIInv == ASSUME MotionAssumption, IInv, GetReturn PROVE IInv'
<1>. USE DEF IInv
<1>1. /\ pc = "return" /\ pc' = "idle" /\ delivered' = delivered (+) r.delta
      /\ UNCHANGED <<delta, mouse_motion, irq_enabled, r, irqs, sums, produced>>
  BY DEF GetReturn, shared
<1>2. \A a \in Axis : delivered'[a] = delivered[a] + r.delta[a]
  BY <1>1 DEF (+)
<1>3. MotionTypeOK'
  <2>1. delivered' \in Sum
    BY <1>1 DEF (+), Sum, MotionTypeOK
  <2>. QED  BY <1>1, <2>1 DEF MotionTypeOK, Steps
<1>4. Taken = Axis /\ Taken' = {} /\ Copied' = {}
  BY <1>1 DEF Taken, Copied
<1>5. Conserved'
  BY <1>1, <1>2, <1>4 DEF Conserved, MotionTypeOK, Sum, Reach
<1>6. sums' = sums /\ delivered' \in sums
  BY <1>1 DEF GetReturn, GetInv
<1>7. NoTearing' /\ GetInv'
  BY <1>1, <1>4, <1>6 DEF NoTearing, GetInv, Masked
<1>. QED  BY <1>3, <1>5, <1>7

(* Every step keeps the invariant. *)
LEMMA NextIInv == MotionAssumption /\ IInv /\ [MotionNext]_motionVars => IInv'
<1>. SUFFICES ASSUME MotionAssumption, IInv, [MotionNext]_motionVars PROVE IInv'
  OBVIOUS
<1>1. CASE \E motion \in Motions : Interrupt(motion)
  BY <1>1, InterruptIInv
<1>2. CASE GetBegin
  BY <1>2, BeginIInv
<1>3. CASE GetStep
  BY <1>3, StopIInv, CopyIInv, ClearIInv, StartIInv DEF GetStep
<1>4. CASE GetReturn
  BY <1>4, ReturnIInv
<1>5. CASE UNCHANGED motionVars
  BY <1>5 DEF motionVars, shared, local, motionHistory, IInv, MotionTypeOK,
              Conserved, GetInv, NoTearing, Taken, Copied
<1>. QED  BY <1>1, <1>2, <1>3, <1>4, <1>5 DEF MotionNext

(* The inductive invariant holds in every state. *)
THEOREM Invariance == MotionSpec => []IInv
<1>. QED  BY MotionAssumption, InitIInv, NextIInv, PTL DEF MotionSpec

(* The variables keep their types; the counters stay in reach.             *)
THEOREM TypeCorrect == MotionSpec => []MotionTypeOK
<1>1. IInv => MotionTypeOK
  BY DEF IInv
<1>. QED  BY <1>1, Invariance, PTL

(* However interrupts and pmw_get interleave, no count of the sensor is    *)
(* lost or returned twice (pmw_get, pmw_handle_interrupt).                 *)
THEOREM NothingLost == MotionSpec => []Conserved
<1>1. IInv => Conserved
  BY DEF IInv
<1>. QED  BY <1>1, Invariance, PTL

(* pmw_get returns whole reports: never the x of one with the y of another.*)
THEOREM NothingTorn == MotionSpec => []NoTearing
<1>1. IInv => NoTearing
  BY DEF IInv
<1>. QED  BY <1>1, Invariance, PTL
-----------------------------------------------------------------------------
\* ----- Pointer: the reports, the buttons and the scroll wheel.
(* The rest of the firmware uses the motion counters only through pmw_get. *)
LEMMA UsesMotion == Spec => MotionSpec
<1>1. Init => MotionInit
  BY DEF Init
<1>2. [Next]_vars => [MotionNext]_motionVars
  <2>1. Irq => MotionNext
    BY DEF Irq, MotionNext
  <2>2. HidTask \/ Get \/ SendReport => MotionNext
    BY DEF HidTask, Get, SendReport, MotionNext
  <2>3. ASSUME NEW id \in Ids, NEW state \in BOOLEAN, SwitchEvent(id, state)
        PROVE  UNCHANGED motionVars
    BY <2>3 DEF SwitchEvent
  <2>4. HostPoll \/ Suspend \/ Resume \/ BusReset => UNCHANGED motionVars
    BY DEF HostPoll, Suspend, Resume, BusReset
  <2>5. UNCHANGED vars => UNCHANGED motionVars
    BY DEF vars
  <2>. QED  BY <2>1, <2>2, <2>3, <2>4, <2>5 DEF Next
<1>. QED  BY <1>1, <1>2, PTL DEF Spec, MotionSpec

(* From the sensor to the controls no count is lost or doubled, whatever   *)
(* the host, the switches and the interrupt do meanwhile.                  *)
THEOREM NothingLostEndToEnd == Spec => [](Conserved /\ NoTearing)
<1>. QED  BY UsesMotion, NothingLost, NothingTorn, PTL
-----------------------------------------------------------------------------
\* As much of the types of the controls as counting the click takes.
ClickTypeOK ==
  /\ mouse \in MouseState /\ last_mouse \in MouseState
  /\ scroll_sum \in Nat
  /\ session \in Nat /\ middleFor \in Nat /\ overrun \in BOOLEAN

\* Before the first interrupt neither the controls nor pmw_get hold motion.
Still ==
  /\ ~mouse_motion => mouse.delta = Zero
  /\ r.motion => mouse_motion
  /\ (pc # "idle" /\ ~r.motion) =>
       pc = "return" /\ r.delta = Zero /\ mouse.delta = Zero

(* Reports with the middle button down keep up with the click's counter,   *)
(* and scroll_sum is what the history says was scrolled since the button   *)
(* was pressed.                                                            *)
ClickInv ==
  /\ ClickTypeOK
  /\ ClickCounted
  /\ Still
  /\ mouse.fake_middle <= middleFor
  /\ last_mouse.scroll_lock => (~overrun => scroll_sum = session)
  /\ ~last_mouse.scroll_lock => scroll_sum = 0

(* Stored values are integers. *)
LEMMA SignedType == \A v \in Int, n \in Nat \ {0} : Signed(v, n) \in Int
BY DEF Signed

(* Ticks are whole. *)
LEMMA TicksType == ControlsAssumption => \A v \in Int : Ticks(v) \in Int
BY DEF Ticks, ControlsAssumption


(* The motion taken has the types of the controls and changes nothing else.*)
LEMMA TakeMotionType ==
  ASSUME MotionAssumption, NEW m \in MouseState,
         NEW motion \in [motion : BOOLEAN, delta : Sum]
  PROVE  LET moved == TakeMotion(m, motion)
         IN  /\ moved \in MouseState
             /\ moved.button = m.button /\ moved.fake_middle = m.fake_middle
             /\ moved.scroll_lock = m.scroll_lock
             /\ ~motion.motion => moved.delta = m.delta
             /\ motion.motion => \A a \in Axis :
                  moved.delta[a] = Signed(motion.delta[a], Int16)
<1>1. [a \in Axis |-> Signed(motion.delta[a], Int16)] \in Sum
  BY SignedType DEF Sum, MotionAssumption
<1>. QED  BY <1>1 DEF TakeMotion, MouseState

(* Scrolling has the types of the controls and leaves the buttons alone. *)
LEMMA ScrollType ==
  ASSUME MotionAssumption, ControlsAssumption, NEW m \in MouseState
  PROVE  /\ Scroll(m) \in MouseState
         /\ Scroll(m).button = m.button
         /\ Scroll(m).fake_middle = m.fake_middle
         /\ Scroll(m).scroll_lock = m.scroll_lock
         /\ Scroll(m).delta \in {m.delta, Zero}
<1>. DEFINE v == [a \in Axis |-> Signed(m.internal_scroll[a] + m.delta[a], Int16)]
            scroll == [a \in Axis |-> Ticks(v[a])]
            internal == [a \in Axis |-> v[a] - ScrollReduce * Ticks(v[a])]
<1>1. \A a \in Axis : v[a] \in Int
  BY SignedType DEF MouseState, Sum, MotionAssumption
<1>2. \A a \in Axis : scroll[a] \in Int /\ internal[a] \in Int
  BY <1>1, TicksType DEF ControlsAssumption
<1>3. scroll \in Sum /\ internal \in Sum /\ Zero \in Sum
  BY <1>2 DEF Sum, Zero
<1>4. Scroll(m) = IF m.scroll_lock
                  THEN [m EXCEPT !.scroll = scroll, !.internal_scroll = internal,
                                 !.delta = Zero]
                  ELSE [m EXCEPT !.scroll = Zero, !.internal_scroll = Zero]
  BY DEF Scroll
<1>. HIDE DEF v, scroll, internal
<1>. QED  BY <1>3, <1>4 DEF MouseState

(* Pressing or releasing a button touches nothing else. *)
LEMMA WithButtonType ==
  ASSUME NEW m \in MouseState, NEW b \in Buttons, NEW down \in BOOLEAN
  PROVE  /\ WithButton(m, b, down) \in MouseState
         /\ WithButton(m, b, down).button[b] = down
         /\ \A c \in Buttons \ {b} : WithButton(m, b, down).button[c] = m.button[c]
         /\ WithButton(m, b, down).fake_middle = m.fake_middle
         /\ WithButton(m, b, down).delta = m.delta
         /\ WithButton(m, b, down).internal_scroll = m.internal_scroll
         /\ WithButton(m, b, down).scroll_lock = m.scroll_lock
<1>. DEFINE button == [m.button EXCEPT ![b] = down]
<1>1. /\ button \in [Buttons -> BOOLEAN] /\ button[b] = down
      /\ \A c \in Buttons \ {b} : button[c] = m.button[c]
  BY DEF MouseState
<1>2. WithButton(m, b, down) = [m EXCEPT !.button = button]
  BY DEF WithButton
<1>. HIDE DEF button
<1>. QED  BY <1>1, <1>2 DEF MouseState

(* The same with the count of the click. *)
LEMMA SetClickType ==
  ASSUME ControlsAssumption, NEW m \in MouseState, NEW down \in BOOLEAN,
         NEW count \in 0 .. ClickTime
  PROVE  /\ WithMiddle(m, down, count) \in MouseState
         /\ WithMiddle(m, down, count).button["middle"] = down
         /\ WithMiddle(m, down, count).fake_middle = count
         /\ WithMiddle(m, down, count).delta = m.delta
         /\ WithMiddle(m, down, count).scroll_lock = m.scroll_lock
<1>. DEFINE set == WithButton(m, "middle", down)
<1>1. /\ set \in MouseState /\ set.button["middle"] = down
      /\ set.delta = m.delta /\ set.scroll_lock = m.scroll_lock
  BY WithButtonType DEF Buttons
<1>2. WithMiddle(m, down, count) = [set EXCEPT !.fake_middle = count]
  BY DEF WithMiddle
<1>. HIDE DEF set
<1>. QED  BY <1>1, <1>2 DEF MouseState

(* One read of the controls counts the click and starts one if it is due. *)
LEMMA ClickStep ==
  ASSUME ControlsAssumption, NEW m \in MouseState, NEW sum \in Nat,
         m.button["middle"] <=> m.fake_middle > 0
  PROVE  LET after == Changed(StartClick(CountClick(m), sum))
             clicked == ~m.scroll_lock /\ last_mouse.scroll_lock /\ sum < MinSuppress
         IN  /\ after \in MouseState
             /\ after.button["middle"] <=> after.fake_middle > 0
             /\ after.delta = m.delta
             /\ after.fake_middle <= m.fake_middle + 1
             /\ after.scroll_lock = m.scroll_lock
             /\ after.fake_middle = 1 <=> clicked
             /\ (m.fake_middle > 0 /\ after.fake_middle = 0)
                  => m.fake_middle = ClickTime
<1>. DEFINE counted == CountClick(m)
            started == StartClick(counted, sum)
<1>1. /\ counted \in MouseState
      /\ counted.button["middle"] <=> counted.fake_middle > 0
      /\ counted.delta = m.delta /\ counted.scroll_lock = m.scroll_lock
      /\ counted.fake_middle <= m.fake_middle + 1 /\ counted.fake_middle # 1
      /\ (m.fake_middle > 0 /\ counted.fake_middle = 0) => m.fake_middle = ClickTime
  <2>1. CASE m.fake_middle = 0
    BY <2>1 DEF CountClick, MouseState
  <2>2. CASE m.fake_middle # 0 /\ m.fake_middle + 1 > ClickTime
    <3>1. counted = WithMiddle(m, FALSE, 0)
      BY <2>2 DEF CountClick
    <3>2. 0 \in 0 .. ClickTime /\ FALSE \in BOOLEAN
      BY DEF ControlsAssumption
    <3>3. /\ WithMiddle(m, FALSE, 0) \in MouseState
          /\ WithMiddle(m, FALSE, 0).button["middle"] = FALSE
          /\ WithMiddle(m, FALSE, 0).fake_middle = 0
          /\ WithMiddle(m, FALSE, 0).delta = m.delta
          /\ WithMiddle(m, FALSE, 0).scroll_lock = m.scroll_lock
      BY <3>2, SetClickType
    <3>4. m.fake_middle \in 0 .. ClickTime /\ ClickTime \in Nat
      BY DEF MouseState, ControlsAssumption
    <3>5. ~counted.button["middle"] /\ ~(counted.fake_middle > 0)
      <4>1. ~counted.button["middle"] /\ counted.fake_middle = 0
        BY <3>1, <3>3, Zenon
      <4>2. ~(0 > 0)
        OBVIOUS
      <4>. QED  BY <4>1, <4>2, Zenon
    <3>6. m.fake_middle = ClickTime /\ 0 <= m.fake_middle + 1 /\ 0 # 1
      BY <2>2, <3>4
    <3>. QED  BY <3>1, <3>3, <3>5, <3>6, Zenon
  <2>3. CASE m.fake_middle # 0 /\ ~(m.fake_middle + 1 > ClickTime)
    <3>1. counted = [m EXCEPT !.fake_middle = m.fake_middle + 1]
      BY <2>3 DEF CountClick
    <3>. QED  BY <2>3, <3>1 DEF MouseState, ControlsAssumption
  <2>. QED  BY <2>1, <2>2, <2>3
<1>2. /\ started \in MouseState
      /\ started.button["middle"] <=> started.fake_middle > 0
      /\ started.delta = m.delta /\ started.scroll_lock = m.scroll_lock
      /\ started.fake_middle <= m.fake_middle + 1
      /\ started.fake_middle = 1 <=>
           (~m.scroll_lock /\ last_mouse.scroll_lock /\ sum < MinSuppress)
      /\ (m.fake_middle > 0 /\ started.fake_middle = 0) => m.fake_middle = ClickTime
  <2>1. CASE Unlocked(counted) /\ sum < MinSuppress
    <3>1. started = WithMiddle(counted, TRUE, 1)
      BY <2>1 DEF StartClick
    <3>2. 1 \in 0 .. ClickTime /\ TRUE \in BOOLEAN
      BY DEF ControlsAssumption
    <3>3. /\ WithMiddle(counted, TRUE, 1) \in MouseState
          /\ WithMiddle(counted, TRUE, 1).button["middle"] = TRUE
          /\ WithMiddle(counted, TRUE, 1).fake_middle = 1
          /\ WithMiddle(counted, TRUE, 1).delta = counted.delta
          /\ WithMiddle(counted, TRUE, 1).scroll_lock = counted.scroll_lock
      BY <1>1, <3>2, SetClickType
    <3>4. m.fake_middle \in Nat /\ ~m.scroll_lock /\ last_mouse.scroll_lock
      BY <1>1, <2>1 DEF Unlocked, MouseState
    <3>5. started.button["middle"] /\ started.fake_middle > 0
      <4>1. started.button["middle"] /\ started.fake_middle = 1
        BY <3>1, <3>3, Zenon
      <4>2. 1 > 0
        OBVIOUS
      <4>. QED  BY <4>1, <4>2, Zenon
    <3>6. 1 <= m.fake_middle + 1 /\ 1 # 0
      BY <3>4
    <3>. QED  BY <1>1, <2>1, <3>1, <3>3, <3>4, <3>5, <3>6, Zenon
  <2>2. CASE ~(Unlocked(counted) /\ sum < MinSuppress)
    BY <1>1, <2>2 DEF StartClick, Unlocked
  <2>. QED  BY <2>1, <2>2
<1>3. /\ Changed(started) \in MouseState
      /\ Changed(started).button = started.button
      /\ Changed(started).delta = started.delta
      /\ Changed(started).scroll_lock = started.scroll_lock
      /\ Changed(started).fake_middle = started.fake_middle
  <2>1. PICK flag \in BOOLEAN : Changed(started) = [started EXCEPT !.changed = flag]
    BY DEF Changed
  <2>. QED  BY <1>2, <2>1 DEF MouseState
<1>. QED  BY <1>2, <1>3

(* A switch sets its own flag of the controls and nothing else.  None of   *)
(* them is the middle button, so they leave the click alone.               *)
LEMMA PressType ==
  ASSUME mouse \in MouseState, NEW id \in 0 .. 3, NEW state \in BOOLEAN
  PROVE  /\ Press(id, state) \in MouseState
         /\ Press(id, state).button["middle"] = mouse.button["middle"]
         /\ Press(id, state).fake_middle = mouse.fake_middle
         /\ Press(id, state).delta = mouse.delta
         /\ Press(id, state).internal_scroll = mouse.internal_scroll
         /\ Press(id, state).scroll_lock = IF id = 1 THEN state ELSE mouse.scroll_lock
         /\ \A b \in Buttons : Press(id, state).button[b] =
              IF id # 1 /\ b = ButtonOf(id) THEN state ELSE mouse.button[b]
<1>1. CASE id = 1
  <2>1. Press(id, state) = [mouse EXCEPT !.scroll_lock = state]
    BY <1>1 DEF Press
  <2>2. /\ Press(id, state) \in MouseState
        /\ Press(id, state).button = mouse.button
        /\ Press(id, state).fake_middle = mouse.fake_middle
        /\ Press(id, state).delta = mouse.delta
        /\ Press(id, state).internal_scroll = mouse.internal_scroll
        /\ Press(id, state).scroll_lock = state
    BY <2>1 DEF MouseState
  <2>. QED  BY <1>1, <2>2
<1>2. CASE id # 1
  <2>1. Press(id, state) = WithButton(mouse, ButtonOf(id), state)
    BY <1>2 DEF Press
  <2>2. ButtonOf(id) \in Buttons /\ "middle" \in Buttons \ {ButtonOf(id)}
    BY DEF ButtonOf, Buttons
  <2>3. /\ Press(id, state) \in MouseState
        /\ Press(id, state).button[ButtonOf(id)] = state
        /\ \A b \in Buttons \ {ButtonOf(id)} : Press(id, state).button[b] = mouse.button[b]
        /\ Press(id, state).fake_middle = mouse.fake_middle
        /\ Press(id, state).delta = mouse.delta
        /\ Press(id, state).internal_scroll = mouse.internal_scroll
        /\ Press(id, state).scroll_lock = mouse.scroll_lock
    BY <2>1, <2>2, WithButtonType
  <2>4. ASSUME NEW b \in Buttons
        PROVE  Press(id, state).button[b] =
                 IF id # 1 /\ b = ButtonOf(id) THEN state ELSE mouse.button[b]
    BY <1>2, <2>3, Zenon
  <2>5. Press(id, state).button["middle"] = mouse.button["middle"]
    BY <2>2, <2>3, Zenon
  <2>6. Press(id, state).scroll_lock = IF id = 1 THEN state ELSE mouse.scroll_lock
    BY <1>2, <2>3, Zenon
  <2>. QED  BY <2>3, <2>4, <2>5, <2>6, Zenon
<1>. QED  BY <1>1, <1>2

(* What a read of the controls does to the click and its history. *)
LEMMA SendReportClick ==
  ASSUME MotionAssumption, ControlsAssumption, MotionTypeOK, ClickInv, SendReport
  PROVE  /\ ClickInv'
         /\ (mouse.button["middle"] /\ ~mouse'.button["middle"])
              => middleFor >= ClickTime
         /\ (last_mouse.scroll_lock /\ ~mouse.scroll_lock /\ ~overrun)
              => (mouse'.fake_middle = 1 <=> session < MinSuppress)
<1>. DEFINE moved == TakeMotion(mouse, r)
            sum == IF moved.scroll_lock THEN ScrollSum(moved) ELSE scroll_sum
            m == Scroll(moved)
<1>1. /\ mouse \in MouseState /\ last_mouse \in MouseState
      /\ r \in [motion : BOOLEAN, delta : Sum]
      /\ scroll_sum \in Nat /\ session \in Nat /\ middleFor \in Nat
      /\ overrun \in BOOLEAN
      /\ mouse.button["middle"] <=> mouse.fake_middle > 0
  BY DEF ClickInv, ClickTypeOK, ClickCounted, MotionTypeOK
<1>2. /\ pc = "return" /\ pc' = "idle"
      /\ UNCHANGED <<delta, mouse_motion, irq_enabled, r>>
      /\ mouse' = Changed(StartClick(CountClick(m), sum))
      /\ last_mouse' = mouse'
      /\ scroll_sum' = SumAfter(CountClick(m), sum)
      /\ middleFor' = IF mouse'.button["middle"] THEN middleFor + 1 ELSE 0
      /\ session' = IF mouse.scroll_lock
                    THEN (IF last_mouse.scroll_lock THEN session ELSE 0)
                         + Abs(r.delta["x"]) + Abs(r.delta["y"])
                    ELSE session
      /\ overrun' = IF mouse.scroll_lock
                    THEN \/ last_mouse.scroll_lock /\ overrun
                         \/ \E a \in Axis : r.delta[a] # Signed(r.delta[a], Int16)
                    ELSE overrun
  BY DEF SendReport, GetReturn, ControlsMouseRead, shared
<1>3. /\ moved \in MouseState
      /\ moved.button = mouse.button /\ moved.fake_middle = mouse.fake_middle
      /\ moved.scroll_lock = mouse.scroll_lock
      /\ ~r.motion => moved.delta = mouse.delta
      /\ r.motion => \A a \in Axis : moved.delta[a] = Signed(r.delta[a], Int16)
  BY <1>1, TakeMotionType
<1>4. /\ m \in MouseState
      /\ m.button = mouse.button /\ m.fake_middle = mouse.fake_middle
      /\ m.scroll_lock = mouse.scroll_lock
      /\ m.delta \in {moved.delta, Zero}
  BY <1>3, ScrollType
<1>5. \A v \in Int : Abs(v) \in Nat
  BY DEF Abs
<1>6. sum \in Nat /\ session' \in Nat /\ "x" \in Axis /\ "y" \in Axis
  <2>1. "x" \in Axis /\ "y" \in Axis
    BY DEF Axis
  <2>2. /\ moved.delta["x"] \in Int /\ moved.delta["y"] \in Int
        /\ r.delta["x"] \in Int /\ r.delta["y"] \in Int
    BY <1>1, <1>3, <2>1 DEF MouseState, Sum
  <2>3. ScrollSum(moved) \in Nat
    BY <1>1, <1>5, <2>2 DEF ScrollSum
  <2>4. Abs(r.delta["x"]) \in Nat /\ Abs(r.delta["y"]) \in Nat
    BY <1>5, <2>2
  <2>. QED  BY <1>1, <1>2, <2>1, <2>3, <2>4
<1>. DEFINE clicked == ~m.scroll_lock /\ last_mouse.scroll_lock /\ sum < MinSuppress
<1>. HIDE DEF moved, sum, m
<1>7. /\ mouse' \in MouseState
      /\ mouse'.button["middle"] <=> mouse'.fake_middle > 0
      /\ mouse'.delta = m.delta
      /\ mouse'.fake_middle <= m.fake_middle + 1
      /\ mouse'.scroll_lock = m.scroll_lock
      /\ mouse'.fake_middle = 1 <=> clicked
      /\ (m.fake_middle > 0 /\ mouse'.fake_middle = 0) => m.fake_middle = ClickTime
  <2>1. m.button["middle"] <=> m.fake_middle > 0
    BY <1>1, <1>4, Zenon
  <2>. DEFINE after == Changed(StartClick(CountClick(m), sum))
  <2>2. /\ after \in MouseState
        /\ after.button["middle"] <=> after.fake_middle > 0
        /\ after.delta = m.delta
        /\ after.fake_middle <= m.fake_middle + 1
        /\ after.scroll_lock = m.scroll_lock
        /\ after.fake_middle = 1 <=> clicked
        /\ (m.fake_middle > 0 /\ after.fake_middle = 0) => m.fake_middle = ClickTime
    BY <1>4, <1>6, <2>1, ClickStep, Zenon
  <2>. QED  BY <1>2, <2>2, Zenon
<1>8. CountClick(m).scroll_lock = m.scroll_lock
  <2>1. WithMiddle(m, FALSE, 0).scroll_lock = m.scroll_lock
    <3>1. 0 \in 0 .. ClickTime /\ FALSE \in BOOLEAN
      BY DEF ControlsAssumption
    <3>. QED  BY <1>4, <3>1, SetClickType
  <2>. QED  BY <1>4, <2>1 DEF CountClick, MouseState
<1>9. scroll_sum' = IF ~mouse.scroll_lock /\ last_mouse.scroll_lock THEN 0 ELSE sum
  BY <1>2, <1>4, <1>8 DEF SumAfter, Unlocked
<1>10. (mouse.scroll_lock /\ ~overrun') =>
         /\ ~(last_mouse.scroll_lock /\ overrun)
         /\ \A a \in Axis : moved.delta[a] = r.delta[a]
  <2>1. ~r.motion => mouse.delta = r.delta
    BY <1>2 DEF ClickInv, Still
  <2>. QED  BY <1>2, <1>3, <2>1
<1>11. ClickTypeOK'
  <2>1. ASSUME mouse.scroll_lock PROVE overrun' \in BOOLEAN
    <3>1. overrun' = \/ last_mouse.scroll_lock /\ overrun
                     \/ \E a \in Axis : r.delta[a] # Signed(r.delta[a], Int16)
      BY <1>2, <2>1, Zenon
    <3>. QED  BY <3>1
  <2>2. ASSUME ~mouse.scroll_lock PROVE overrun' \in BOOLEAN
    BY <1>1, <1>2, <2>2, Zenon
  <2>3. overrun' \in BOOLEAN
    BY <2>1, <2>2
  <2>4. scroll_sum' \in Nat /\ session' \in Nat /\ middleFor' \in Nat
    BY <1>1, <1>2, <1>6, <1>9
  <2>. QED  BY <1>2, <1>7, <2>3, <2>4, Zenon DEF ClickTypeOK
<1>12. ClickCounted'
  BY <1>7 DEF ClickCounted
<1>13. Still'
  <2>1. ~mouse_motion' => mouse'.delta = Zero
    BY <1>2, <1>3, <1>4, <1>7 DEF ClickInv, Still
  <2>. QED  BY <1>2, <2>1 DEF ClickInv, Still
<1>14. mouse.fake_middle \in 0 .. ClickTime /\ mouse.fake_middle <= middleFor
       /\ mouse'.fake_middle \in 0 .. ClickTime /\ ClickTime \in Nat
  BY <1>1, <1>7 DEF ClickInv, MouseState, ControlsAssumption
<1>15. mouse'.fake_middle <= middleFor'
  <2>1. CASE mouse'.fake_middle > 0
    BY <1>1, <1>2, <1>4, <1>7, <1>14, <2>1
  <2>2. CASE mouse'.fake_middle = 0
    BY <1>11, <2>2 DEF ClickTypeOK
  <2>. QED  BY <1>14, <2>1, <2>2
<1>16. /\ last_mouse'.scroll_lock => (~overrun' => scroll_sum' = session')
       /\ ~last_mouse'.scroll_lock => scroll_sum' = 0
  <2>1. last_mouse'.scroll_lock = mouse.scroll_lock
    BY <1>2, <1>4, <1>7
  <2>2. ASSUME mouse.scroll_lock, ~overrun' PROVE scroll_sum' = session'
    <3>1. sum = scroll_sum + Abs(r.delta["x"]) + Abs(r.delta["y"])
      BY <1>3, <1>6, <1>10, <2>2 DEF sum, ScrollSum
    <3>2. scroll_sum = IF last_mouse.scroll_lock THEN session ELSE 0
      BY <1>10, <2>2 DEF ClickInv
    <3>. QED  BY <1>2, <1>9, <2>2, <3>1, <3>2
  <2>3. ASSUME ~mouse.scroll_lock PROVE scroll_sum' = 0
    <3>1. sum = scroll_sum
      BY <1>3, <2>3 DEF sum
    <3>. QED  BY <1>9, <2>3, <3>1 DEF ClickInv
  <2>. QED  BY <2>1, <2>2, <2>3
<1>17. (mouse.button["middle"] /\ ~mouse'.button["middle"]) => middleFor >= ClickTime
  BY <1>1, <1>4, <1>7, <1>14
<1>18. (last_mouse.scroll_lock /\ ~mouse.scroll_lock /\ ~overrun)
         => (mouse'.fake_middle = 1 <=> session < MinSuppress)
  <2>. SUFFICES ASSUME last_mouse.scroll_lock, ~mouse.scroll_lock, ~overrun
                PROVE  mouse'.fake_middle = 1 <=> session < MinSuppress
    OBVIOUS
  <2>1. sum = session
    BY <1>3 DEF sum, ClickInv
  <2>. QED  BY <1>4, <1>7, <2>1
<1>. QED  BY <1>11, <1>12, <1>13, <1>15, <1>16, <1>17, <1>18 DEF ClickInv

(* The controls start without a click. *)
LEMMA ClickInit == ControlsAssumption /\ Init => ClickInv
<1>. SUFFICES ASSUME ControlsAssumption, Init PROVE ClickInv
  OBVIOUS
<1>1. mouse \in MouseState /\ last_mouse = mouse
  BY DEF Init, ControlsInit, ControlsAssumption, MouseState, Zero, Sum
<1>2. /\ ~mouse.button["middle"] /\ mouse.fake_middle = 0
      /\ mouse.delta = Zero /\ ~last_mouse.scroll_lock
  BY DEF Init, ControlsInit, Buttons
<1>3. /\ scroll_sum = 0 /\ session = 0 /\ middleFor = 0 /\ overrun = FALSE
      /\ pc = "idle" /\ ~r.motion
  BY DEF Init, ControlsInit, MotionInit
<1>4. ClickTypeOK
  BY <1>1, <1>3 DEF ClickTypeOK
<1>5. ClickCounted
  <2>1. ~(mouse.fake_middle > 0)
    BY <1>2
  <2>. QED  BY <1>2, <2>1, Zenon DEF ClickCounted
<1>6. Still
  BY <1>2, <1>3 DEF Still
<1>. QED  BY <1>2, <1>3, <1>4, <1>5, <1>6 DEF ClickInv

(* A switch leaves the click and its history alone. *)
LEMMA PressClick ==
  ASSUME ClickInv, NEW id \in 0 .. 3, NEW state \in BOOLEAN,
         ControlsMouseNew(id, state),
         UNCHANGED <<mouse_motion, pc, r, overrun, session, middleFor>>
  PROVE  ClickInv'
<1>1. mouse' = Press(id, state) /\ UNCHANGED <<last_mouse, scroll_sum>>
  BY DEF ControlsMouseNew
<1>2. mouse \in MouseState
  BY DEF ClickInv, ClickTypeOK
<1>3. /\ mouse' \in MouseState
      /\ mouse'.button["middle"] = mouse.button["middle"]
      /\ mouse'.fake_middle = mouse.fake_middle
      /\ mouse'.delta = mouse.delta
  BY <1>1, <1>2, PressType
<1>4. ClickCounted'
  BY <1>3, Zenon DEF ClickInv, ClickCounted
<1>. QED  BY <1>1, <1>3, <1>4 DEF ClickInv, ClickTypeOK, Still

(* Every step keeps the click and its history consistent. *)
LEMMA ClickNext ==
  ASSUME MotionAssumption, ControlsAssumption, PointerAssumption,
         MotionTypeOK, ClickInv, [Next]_vars
  PROVE  ClickInv'
<1>1. CASE Irq
  <2>1. /\ mouse_motion' = TRUE
        /\ UNCHANGED <<pc, r, controlsVars, overrun, session, middleFor>>
    BY <1>1 DEF Irq, Interrupt, local, history
  <2>. QED  BY <2>1 DEF controlsVars, ClickInv, ClickTypeOK, ClickCounted, Still
<1>2. ASSUME NEW id \in Ids, NEW state \in BOOLEAN, SwitchEvent(id, state)
      PROVE  ClickInv'
  BY <1>2, PressClick
     DEF SwitchEvent, PointerAssumption, motionVars, shared, local
<1>3. CASE HidTask
  <2>1. /\ pc' = (IF mouse_motion THEN "stop" ELSE "return")
        /\ r' = [motion |-> mouse_motion, delta |-> Zero]
        /\ UNCHANGED <<mouse_motion, controlsVars, overrun, session, middleFor>>
    BY <1>3 DEF HidTask, GetBegin, shared, history
  <2>. QED  BY <2>1 DEF controlsVars, ClickInv, ClickTypeOK, ClickCounted, Still
<1>4. CASE Get
  <2>1. /\ pc # "idle" /\ pc # "return" /\ mouse_motion' = mouse_motion
        /\ r'.motion = r.motion
        /\ UNCHANGED <<controlsVars, overrun, session, middleFor>>
    BY <1>4 DEF Get, GetStep, GetStop, Copy, Clear, GetStart, shared, history,
                MotionTypeOK
  <2>2. r.motion
    BY <2>1 DEF ClickInv, Still
  <2>. QED  BY <2>1, <2>2
            DEF controlsVars, ClickInv, ClickTypeOK, ClickCounted, Still
<1>5. CASE SendReport
  BY <1>5, SendReportClick
<1>6. CASE HostPoll \/ Suspend \/ Resume \/ BusReset \/ UNCHANGED vars
  <2>1. UNCHANGED <<mouse_motion, pc, r, controlsVars, overrun, session, middleFor>>
    BY <1>6 DEF HostPoll, Suspend, Resume, BusReset, vars, motionVars, shared,
                local, history
  <2>. QED  BY <2>1 DEF controlsVars, ClickInv, ClickTypeOK, ClickCounted, Still
<1>. QED  BY <1>1, <1>2, <1>3, <1>4, <1>5, <1>6 DEF Next

(* Types of the motion counters and the click's invariant, in every state. *)
LEMMA ClickInvariance == Spec => [](MotionTypeOK /\ ClickInv)
<1>1. Spec => []MotionTypeOK
  BY UsesMotion, TypeCorrect, PTL
<1>2. Init => ClickInv
  BY ClickInit, ControlsAssumption
<1>3. MotionTypeOK /\ ClickInv /\ [Next]_vars => ClickInv'
  BY ClickNext, MotionAssumption, ControlsAssumption, PointerAssumption
<1>. QED  BY <1>1, <1>2, <1>3, PTL DEF Spec

(* The middle button is down exactly while a click is counted, so it never *)
(* sticks, whatever the thresholds (controls.c:128-142).                   *)
THEOREM NoStuckClick == Spec => []ClickCounted
<1>1. ClickInv => ClickCounted
  BY DEF ClickInv
<1>. QED  BY <1>1, ClickInvariance, PTL

(* The scroll button clicks exactly when released with less motion than    *)
(* the threshold, counted since it was pressed (controls.c:97-98, 136-144),*)
(* unless one of the reads since then did not fit an int16_t; what the     *)
(* reports could not hold, or earlier presses, make no difference.         *)
THEOREM ClicksExactlyUnscrolled == Spec => ClickUnlessScrolled
<1>1. MotionTypeOK /\ ClickInv /\ [Next]_vars =>
        [SendReport /\ last_mouse.scroll_lock /\ ~mouse.scroll_lock /\ ~overrun =>
           (mouse'.fake_middle = 1 <=> (session < MinSuppress))]_vars
  BY SendReportClick, MotionAssumption, ControlsAssumption
<1>. QED  BY <1>1, ClickInvariance, PTL DEF Spec, ClickUnlessScrolled

(* A click lasts at least ClickTime reports (controls.c:128-134).          *)
THEOREM ClicksLast == Spec => ClickLongEnough
<1>1. MotionTypeOK /\ ClickInv /\ [Next]_vars =>
        [SendReport /\ mouse.button["middle"] /\ ~mouse'.button["middle"] =>
           middleFor >= ClickTime]_vars
  BY SendReportClick, MotionAssumption, ControlsAssumption
<1>. QED  BY <1>1, ClickInvariance, PTL DEF Spec, ClickLongEnough
-----------------------------------------------------------------------------
\* What a field that is too narrow may lose.
Wraps(x) == \E q \in Int : x = Int8 * q

\* An axis of the pointer as the configuration turns it.
Turn(a, x) == IF a \in Invert THEN -x ELSE x

(* Division with remainder. *)
LEMMA Division ==
  ASSUME NEW m \in Nat \ {0}, NEW a \in Int
  PROVE  a % m = a - m * (a \div m) /\ a \div m \in Int /\ a % m \in 0 .. m - 1
<1>1. a % m \in 0 .. m - 1
  OBVIOUS
<1>2. a % m = a - m * (a \div m) /\ a \div m \in Int
  OBVIOUS
<1>. QED  BY <1>1, <1>2

(* A multiple of the width leaves no remainder, and the other way round. *)
LEMMA WrapsRemainder ==
  ASSUME PointerAssumption, NEW x \in Int PROVE x % Int8 = 0 <=> Wraps(x)
<1>1. Int8 \in Nat \ {0}
  BY DEF PointerAssumption
<1>2. ASSUME x % Int8 = 0 PROVE Wraps(x)
  <2>. DEFINE q == x \div Int8
  <2>1. x % Int8 = x - Int8 * q /\ q \in Int
    BY <1>1, Division
  <2>. HIDE DEF q
  <2>2. x = Int8 * q
    BY <1>1, <1>2, <2>1
  <2>. QED  BY <2>1, <2>2 DEF Wraps
<1>3. \A q \in Int : (Int8 * q) % Int8 = 0
  BY <1>1
<1>. QED  BY <1>2, <1>3 DEF Wraps

(* Multiples of the width add up to multiples of it. *)
LEMMA WrapsSum ==
  ASSUME PointerAssumption, NEW x \in Int, NEW y \in Int, NEW k \in Int,
         Wraps(x), Wraps(y)
  PROVE  Wraps(x + y) /\ Wraps(-x) /\ Wraps(k * x)
<1>1. Int8 \in Int
  BY DEF PointerAssumption
<1>2. PICK p \in Int, q \in Int : x = Int8 * p /\ y = Int8 * q
  BY DEF Wraps
<1>3. x + y = Int8 * (p + q) /\ -x = Int8 * (-p) /\ k * x = Int8 * (k * p)
  BY <1>1, <1>2
<1>4. p + q \in Int /\ -p \in Int /\ k * p \in Int
  OBVIOUS
<1>. QED  BY <1>3, <1>4 DEF Wraps

(* A field of n values is off by a multiple of n. *)
LEMMA SignedOff ==
  ASSUME NEW v \in Int, NEW n \in Nat \ {0}
  PROVE  Signed(v, n) \in Int /\ \E q \in Int : v - Signed(v, n) = n * q
<1>. DEFINE q == v \div n
            u == v % n
<1>1. v = n * q + u /\ q \in Int /\ u \in Int
  BY Division
<1>2. Signed(v, n) = IF 2 * u >= n THEN u - n ELSE u
  BY DEF Signed
<1>. HIDE DEF q, u
<1>3. n * (q + 1) = n * q + n /\ n * q \in Int /\ q + 1 \in Int
  BY <1>1
<1>4. v - Signed(v, n) = IF 2 * u >= n THEN n * (q + 1) ELSE n * q
  BY <1>1, <1>2, <1>3
<1>5. Signed(v, n) \in Int
  BY <1>1, <1>2
<1>. QED  BY <1>1, <1>3, <1>4, <1>5

(* A value within the field is stored as it is. *)
LEMMA SignedFits ==
  ASSUME NEW n \in Nat \ {0}, NEW v \in Int, -(n \div 2) < v, v < n \div 2
  PROVE  Signed(v, n) = v
BY DEF Signed

(* Nothing is stored as nothing. *)
LEMMA SignedZero == ASSUME NEW n \in Nat \ {0} PROVE Signed(0, n) = 0
BY DEF Signed

(* Nor has nothing a direction. *)
LEMMA TurnZero == \A a : Turn(a, 0) = 0
<1>1. \A a : \A x \in Int : Turn(a, x) = IF a \in Invert THEN 0 - x ELSE x
  BY DEF Turn
<1>. QED  BY <1>1

(* Both widths of the code lose multiples of 2^8 only. *)
LEMMA SignedWraps ==
  ASSUME MotionAssumption, PointerAssumption, NEW v \in Int
  PROVE  /\ Signed(v, Int8) \in Int /\ Wraps(v - Signed(v, Int8))
         /\ Signed(v, Int16) \in Int /\ Wraps(v - Signed(v, Int16))
<1>1. Int8 \in Nat \ {0} /\ Int16 \in Nat \ {0} /\ Int16 % Int8 = 0
  BY DEF PointerAssumption, MotionAssumption
<1>2. Signed(v, Int8) \in Int /\ Wraps(v - Signed(v, Int8))
  BY <1>1, SignedOff DEF Wraps
<1>3. PICK q \in Int : Signed(v, Int16) \in Int /\ v - Signed(v, Int16) = Int16 * q
  BY <1>1, SignedOff
<1>4. Wraps(Int16)
  BY <1>1, WrapsRemainder
<1>5. Int16 \in Int /\ q * Int16 = Int16 * q
  BY <1>1
<1>6. Wraps(q * Int16)
  BY <1>4, <1>5, WrapsSum
<1>. QED  BY <1>2, <1>3, <1>5, <1>6
-----------------------------------------------------------------------------
(* The loops of controls_mouse_read stop at ScrollReduce. *)
LEMMA TicksLeave ==
  ASSUME ControlsAssumption, NEW v \in Int
  PROVE  Ticks(v) \in Int /\ Abs(v - ScrollReduce * Ticks(v)) <= ScrollReduce
<1>1. ScrollReduce \in Nat \ {0}
  BY DEF ControlsAssumption
<1>2. CASE v > ScrollReduce
  <2>. DEFINE q == (v - 1) \div ScrollReduce
              u == (v - 1) % ScrollReduce
  <2>1. u = v - 1 - ScrollReduce * q /\ q \in Int /\ u \in 0 .. ScrollReduce - 1
    <3>1. v - 1 \in Int
      OBVIOUS
    <3>. QED  BY <1>1, <3>1, Division
  <2>2. Ticks(v) = q
    BY <1>2 DEF Ticks
  <2>. HIDE DEF q, u
  <2>3. ScrollReduce * q \in Int
    BY <1>1, <2>1
  <2>. QED  BY <1>1, <2>1, <2>2, <2>3 DEF Abs
<1>3. CASE v < -ScrollReduce
  <2>. DEFINE q == (-v - 1) \div ScrollReduce
              u == (-v - 1) % ScrollReduce
  <2>1. u = -v - 1 - ScrollReduce * q /\ q \in Int /\ u \in 0 .. ScrollReduce - 1
    BY <1>1, Division
  <2>2. Ticks(v) = -q
    BY <1>1, <1>3 DEF Ticks
  <2>. HIDE DEF q, u
  <2>3. ScrollReduce * q \in Int /\ ScrollReduce * (-q) = -(ScrollReduce * q)
    BY <1>1, <2>1
  <2>. QED  BY <1>1, <2>1, <2>2, <2>3 DEF Abs
<1>4. CASE ~(v > ScrollReduce) /\ ~(v < -ScrollReduce)
  <2>1. Ticks(v) = 0
    BY <1>4 DEF Ticks
  <2>. QED  BY <1>1, <1>4, <2>1 DEF Abs
<1>. QED  BY <1>2, <1>3, <1>4

(* Scrolling: what a read takes, with what was left, is in the ticks or is *)
(* left again, but for what the narrow fields lose.                        *)
LEMMA ScrollAccount ==
  ASSUME MotionAssumption, ControlsAssumption, PointerAssumption,
         NEW d \in Int, NEW kept \in Int
  PROVE  LET v == Signed(kept + Signed(d, Int16), Int16)
             t == Ticks(v)
             lost == d + kept - (v - ScrollReduce * t) - ScrollReduce * Signed(t, Int8)
         IN  /\ lost \in Int /\ Wraps(lost)
             /\ (/\ Signed(d, Int16) = d
                 /\ Abs(kept) + Abs(d) < Int16 \div 2
                 /\ Signed(t, Int8) = t) => lost = 0
<1>. DEFINE s == Signed(d, Int16)
            v == Signed(kept + s, Int16)
            t == Ticks(v)
            n == Signed(t, Int8)
            lost == d + kept - (v - ScrollReduce * t) - ScrollReduce * n
<1>1. s \in Int /\ Wraps(d - s)
  BY SignedWraps
<1>2. v \in Int /\ Wraps(kept + s - v)
  BY <1>1, SignedWraps
<1>3. t \in Int
  BY <1>2, TicksLeave
<1>4. n \in Int /\ Wraps(t - n)
  BY <1>3, SignedWraps
<1>5. ScrollReduce \in Int /\ Int16 \in Nat \ {0}
  BY DEF ControlsAssumption, MotionAssumption
<1>6. (Abs(kept) + Abs(d) < Int16 \div 2 /\ s = d) => v = kept + d
  <2>. SUFFICES ASSUME Abs(kept) + Abs(d) < Int16 \div 2, s = d PROVE v = kept + d
    OBVIOUS
  <2>1. Int16 \div 2 \in Int
    BY <1>5
  <2>2. -(Int16 \div 2) < kept + d /\ kept + d < Int16 \div 2
    BY <2>1 DEF Abs
  <2>. QED  BY <1>5, <2>2, SignedFits
<1>. HIDE DEF s, v, t, n
<1>7. lost = (d - s) + (kept + s - v) + ScrollReduce * (t - n)
  <2>1. ScrollReduce * (t - n) = ScrollReduce * t - ScrollReduce * n
    BY <1>3, <1>4, <1>5
  <2>2. ScrollReduce * t \in Int /\ ScrollReduce * n \in Int
    BY <1>3, <1>4, <1>5
  <2>. QED  BY <1>1, <1>2, <2>1, <2>2
<1>8. Wraps(lost)
  <2>1. d - s \in Int /\ kept + s - v \in Int /\ t - n \in Int
    BY <1>1, <1>2, <1>3, <1>4
  <2>2. Wraps((d - s) + (kept + s - v)) /\ (d - s) + (kept + s - v) \in Int
    BY <1>1, <1>2, <2>1, WrapsSum
  <2>3. Wraps(ScrollReduce * (t - n)) /\ ScrollReduce * (t - n) \in Int
    <3>1. \A x, k \in Int : Wraps(x) => Wraps(k * x)
      BY WrapsSum
    <3>2. Wraps(ScrollReduce * (t - n))
      BY <1>4, <1>5, <2>1, <3>1
    <3>3. ScrollReduce * (t - n) \in Int
      BY <1>5, <2>1
    <3>. QED  BY <3>2, <3>3
  <2>4. \A x, y \in Int : Wraps(x) /\ Wraps(y) => Wraps(x + y)
    BY <1>5, WrapsSum
  <2>5. Wraps(((d - s) + (kept + s - v)) + ScrollReduce * (t - n))
    BY <2>2, <2>3, <2>4
  <2>. QED  BY <1>7, <2>5
<1>9. lost \in Int
  BY <1>1, <1>2, <1>3, <1>4, <1>5
<1>10. (s = d /\ v = kept + d /\ n = t) => lost = 0
  <2>1. ScrollReduce * 0 = 0
    BY <1>5
  <2>. QED  BY <1>1, <1>2, <1>3, <1>4, <1>7, <2>1
<1>. QED  BY <1>6, <1>8, <1>9, <1>10 DEF s, v, t, n

(* Pointing: what a read takes is in the report, but for the same.         *)
LEMMA PointAccount ==
  ASSUME MotionAssumption, PointerAssumption, NEW a \in Axis, NEW d \in Int
  PROVE  LET s == Signed(d, Int16)
             shown == Turn(a, Signed(Turn(a, s), Int8))
         IN  shown \in Int /\ Wraps(d - shown)
<1>. DEFINE s == Signed(d, Int16)
            field == Signed(Turn(a, s), Int8)
<1>1. s \in Int /\ Wraps(d - s)
  BY SignedWraps
<1>2. Turn(a, s) \in Int
  BY <1>1 DEF Turn
<1>3. field \in Int /\ Wraps(Turn(a, s) - field)
  BY <1>2, SignedWraps
<1>. HIDE DEF s, field
<1>4. Wraps(s - Turn(a, field))
  <2>1. CASE a \in Invert
    <3>1. s - Turn(a, field) = -(Turn(a, s) - field) /\ Turn(a, s) - field \in Int
      BY <1>1, <1>3, <2>1 DEF Turn
    <3>. QED  BY <1>3, <3>1, WrapsSum
  <2>2. CASE a \notin Invert
    BY <1>3, <2>2 DEF Turn
  <2>. QED  BY <2>1, <2>2
<1>5. Turn(a, field) \in Int
  BY <1>3 DEF Turn
<1>6. d - Turn(a, field) = (d - s) + (s - Turn(a, field))
      /\ d - s \in Int /\ s - Turn(a, field) \in Int
  BY <1>1, <1>5
<1>. QED  BY <1>1, <1>4, <1>5, <1>6, WrapsSum DEF s, field
-----------------------------------------------------------------------------
(* The click leaves the motion and the other buttons alone, and a report   *)
(* that is not sent had nothing to say.                                    *)
LEMMA ReadKeeps ==
  ASSUME ControlsAssumption, NEW m \in MouseState, NEW sum \in Nat
  PROVE  LET after == Changed(StartClick(CountClick(m), sum))
         IN  /\ after.delta = m.delta /\ after.scroll = m.scroll
             /\ after.internal_scroll = m.internal_scroll
             /\ after.scroll_lock = m.scroll_lock
             /\ \A b \in Buttons \ {"middle"} : after.button[b] = m.button[b]
             /\ ~after.changed => after.delta = Zero /\ after.scroll = Zero
<1>. DEFINE Same(n) == /\ n \in MouseState
                       /\ n.delta = m.delta /\ n.scroll = m.scroll
                       /\ n.internal_scroll = m.internal_scroll
                       /\ n.scroll_lock = m.scroll_lock
                       /\ \A b \in Buttons \ {"middle"} : n.button[b] = m.button[b]
            counted == CountClick(m)
            started == StartClick(counted, sum)
<1>1. ASSUME NEW n, Same(n), NEW down \in BOOLEAN, NEW count \in 0 .. ClickTime
      PROVE  Same(WithMiddle(n, down, count))
  <2>1. WithMiddle(n, down, count) =
          [n EXCEPT !.button = [n.button EXCEPT !["middle"] = down], !.fake_middle = count]
    BY <1>1 DEF WithMiddle, WithButton, MouseState
  <2>2. /\ [n.button EXCEPT !["middle"] = down] \in [Buttons -> BOOLEAN]
        /\ \A b \in Buttons \ {"middle"} :
             [n.button EXCEPT !["middle"] = down][b] = n.button[b]
    BY <1>1 DEF MouseState
  <2>. DEFINE button == [n.button EXCEPT !["middle"] = down]
  <2>. HIDE DEF button
  <2>3. /\ WithMiddle(n, down, count) = [n EXCEPT !.button = button, !.fake_middle = count]
        /\ button \in [Buttons -> BOOLEAN]
        /\ \A b \in Buttons \ {"middle"} : button[b] = n.button[b]
    BY <2>1, <2>2 DEF button
  <2>. QED  BY <1>1, <2>3 DEF MouseState
<1>2. Same(m)
  OBVIOUS
<1>3. Same(counted)
  <2>1. CASE m.fake_middle = 0
    BY <1>2, <2>1 DEF CountClick
  <2>2. CASE m.fake_middle # 0 /\ m.fake_middle + 1 > ClickTime
    <3>1. 0 \in 0 .. ClickTime
      BY DEF ControlsAssumption
    <3>. HIDE DEF Same
    <3>2. counted = WithMiddle(m, FALSE, 0)
      BY <2>2 DEF CountClick
    <3>. QED  BY <1>1, <1>2, <3>1, <3>2, Zenon
  <2>3. CASE m.fake_middle # 0 /\ ~(m.fake_middle + 1 > ClickTime)
    <3>1. counted = [m EXCEPT !.fake_middle = m.fake_middle + 1]
      BY <2>3 DEF CountClick
    <3>. QED  BY <1>2, <2>3, <3>1 DEF MouseState, ControlsAssumption
  <2>. QED  BY <2>1, <2>2, <2>3
<1>4. Same(started)
  <2>1. CASE Unlocked(counted) /\ sum < MinSuppress
    <3>1. 1 \in 0 .. ClickTime
      BY DEF ControlsAssumption
    <3>2. started = WithMiddle(counted, TRUE, 1)
      BY <2>1 DEF StartClick
    <3>. HIDE DEF Same, counted, started
    <3>. QED  BY <1>1, <1>3, <3>1, <3>2, Zenon
  <2>2. CASE ~(Unlocked(counted) /\ sum < MinSuppress)
    BY <1>3, <2>2 DEF StartClick
  <2>. QED  BY <2>1, <2>2
<1>. HIDE DEF counted
<1>. DEFINE flag == \/ started.changed \/ started.button # last_mouse.button
                    \/ started.delta # last_mouse.delta
                    \/ started.scroll # last_mouse.scroll
                    \/ started.delta # Zero \/ started.scroll # Zero
<1>5. Changed(started) = [started EXCEPT !.changed = flag]
  BY <1>4 DEF Changed, MouseState
<1>6. ~flag => started.delta = Zero /\ started.scroll = Zero
  OBVIOUS
<1>. HIDE DEF started, flag
<1>7. /\ Changed(started).delta = started.delta
      /\ Changed(started).scroll = started.scroll
      /\ Changed(started).internal_scroll = started.internal_scroll
      /\ Changed(started).scroll_lock = started.scroll_lock
      /\ Changed(started).button = started.button
      /\ Changed(started).changed = flag
  BY <1>4, <1>5 DEF MouseState
<1>. QED  BY <1>4, <1>6, <1>7 DEF started, counted

(* What the motion taken becomes, axis by axis. *)
LEMMA ScrollValues ==
  ASSUME MotionAssumption, ControlsAssumption, NEW m \in MouseState, NEW a \in Axis
  PROVE  LET v == Signed(m.internal_scroll[a] + m.delta[a], Int16)
         IN  /\ Scroll(m).delta[a] = IF m.scroll_lock THEN 0 ELSE m.delta[a]
             /\ Scroll(m).scroll[a] = IF m.scroll_lock THEN Ticks(v) ELSE 0
             /\ Scroll(m).internal_scroll[a] =
                  IF m.scroll_lock THEN v - ScrollReduce * Ticks(v) ELSE 0
<1>. DEFINE V(b) == Signed(m.internal_scroll[b] + m.delta[b], Int16)
            scroll == [b \in Axis |-> Ticks(V(b))]
            internal == [b \in Axis |-> V(b) - ScrollReduce * Ticks(V(b))]
<1>1. Scroll(m) = IF m.scroll_lock
                  THEN [m EXCEPT !.scroll = scroll, !.internal_scroll = internal,
                                 !.delta = Zero]
                  ELSE [m EXCEPT !.scroll = Zero, !.internal_scroll = Zero]
  BY DEF Scroll
<1>2. /\ scroll[a] = Ticks(V(a)) /\ internal[a] = V(a) - ScrollReduce * Ticks(V(a))
      /\ Zero[a] = 0
  BY DEF Zero
<1>. HIDE DEF scroll, internal
<1>3. /\ m.scroll_lock => /\ Scroll(m).delta = Zero /\ Scroll(m).scroll = scroll
                          /\ Scroll(m).internal_scroll = internal
      /\ ~m.scroll_lock => /\ Scroll(m).delta = m.delta /\ Scroll(m).scroll = Zero
                           /\ Scroll(m).internal_scroll = Zero
  BY <1>1 DEF MouseState
<1>. QED  BY <1>2, <1>3

(* What a poll makes of the counts it has taken. *)
LEMMA SendReportValues ==
  ASSUME MotionAssumption, ControlsAssumption, MotionTypeOK, ClickInv, SendReport,
         NEW a \in Axis
  PROVE  LET v == Signed(mouse.internal_scroll[a] + Signed(r.delta[a], Int16), Int16)
         IN  /\ mouse'.delta[a] = IF mouse.scroll_lock THEN 0 ELSE Signed(r.delta[a], Int16)
             /\ mouse'.scroll[a] = IF mouse.scroll_lock THEN Ticks(v) ELSE 0
             /\ mouse'.internal_scroll[a] =
                  IF mouse.scroll_lock THEN v - ScrollReduce * Ticks(v) ELSE 0
             /\ ~mouse'.changed => mouse'.delta[a] = 0 /\ mouse'.scroll[a] = 0
             /\ \A b \in Buttons \ {"middle"} : mouse'.button[b] = mouse.button[b]
             /\ mouse'.scroll_lock = mouse.scroll_lock
<1>. DEFINE moved == TakeMotion(mouse, r)
            m == Scroll(moved)
            sum == IF moved.scroll_lock THEN ScrollSum(moved) ELSE scroll_sum
            after == Changed(StartClick(CountClick(m), sum))
            V(d) == Signed(mouse.internal_scroll[a] + d, Int16)
<1>1. /\ mouse \in MouseState /\ r \in [motion : BOOLEAN, delta : Sum]
      /\ scroll_sum \in Nat /\ pc = "return"
  BY DEF ClickInv, ClickTypeOK, MotionTypeOK, SendReport, GetReturn
<1>2. mouse' = after
  BY DEF SendReport, ControlsMouseRead
<1>3. /\ moved \in MouseState
      /\ moved.button = mouse.button /\ moved.scroll_lock = mouse.scroll_lock
      /\ ~r.motion => moved.delta = mouse.delta
      /\ r.motion => \A b \in Axis : moved.delta[b] = Signed(r.delta[b], Int16)
  BY <1>1, TakeMotionType
<1>4. moved.internal_scroll = mouse.internal_scroll
  BY <1>1 DEF TakeMotion, MouseState
<1>5. moved.delta[a] = Signed(r.delta[a], Int16)
  <2>1. CASE r.motion
    BY <1>3, <2>1
  <2>2. CASE ~r.motion
    <3>1. r.delta = Zero /\ mouse.delta = Zero
      BY <1>1, <2>2 DEF ClickInv, Still
    <3>2. Zero[a] = 0 /\ Signed(0, Int16) = 0
      BY DEF Zero, Signed, MotionAssumption
    <3>. QED  BY <1>3, <2>2, <3>1, <3>2
  <2>. QED  BY <2>1, <2>2
<1>6. sum \in Nat
  <2>1. "x" \in Axis /\ "y" \in Axis
    BY DEF Axis
  <2>2. moved.delta["x"] \in Int /\ moved.delta["y"] \in Int
    BY <1>3, <2>1 DEF MouseState, Sum
  <2>3. Abs(moved.delta["x"]) \in Nat /\ Abs(moved.delta["y"]) \in Nat
    BY <2>2 DEF Abs
  <2>. QED  BY <1>1, <2>3 DEF ScrollSum
<1>7. /\ m \in MouseState /\ m.button = mouse.button /\ m.scroll_lock = mouse.scroll_lock
  BY <1>3, ScrollType
<1>8. /\ m.delta[a] = IF mouse.scroll_lock THEN 0 ELSE moved.delta[a]
      /\ m.scroll[a] = IF mouse.scroll_lock THEN Ticks(V(moved.delta[a])) ELSE 0
      /\ m.internal_scroll[a] = IF mouse.scroll_lock
           THEN V(moved.delta[a]) - ScrollReduce * Ticks(V(moved.delta[a])) ELSE 0
  BY <1>3, <1>4, ScrollValues
<1>. HIDE DEF moved, m, sum
<1>9. /\ after.delta = m.delta /\ after.scroll = m.scroll
      /\ after.internal_scroll = m.internal_scroll
      /\ after.scroll_lock = m.scroll_lock
      /\ \A b \in Buttons \ {"middle"} : after.button[b] = m.button[b]
      /\ ~after.changed => after.delta = Zero /\ after.scroll = Zero
  BY <1>6, <1>7, ReadKeeps
<1>10. Zero[a] = 0
  BY DEF Zero
<1>. QED  BY <1>2, <1>5, <1>7, <1>8, <1>9, <1>10
-----------------------------------------------------------------------------
\* The counts of an axis that a report and the endpoint hold, and those that
\* were taken from the sensor and are nowhere.
Shown(a) == IF ep = NoReport THEN 0 ELSE Counts(ep)[a]
Missing(a) == delivered[a] - Counts(host)[a] - Shown(a)
              - mouse.internal_scroll[a] - dropped[a]

Account(a) == Wraps(Missing(a)) /\ (~truncated => Missing(a) = 0)

\* A poll only begins when the endpoint is free, and nothing fills it but it.
PollAlone == pc # "idle" => ep = NoReport

(* No count is lost on the way to the host; by the types, the click and    *)
(* the order of polls.                                                     *)
AccountInv == TypeOK /\ ClickInv /\ PollAlone /\ \A a \in Axis : Account(a)

(* What a report stands for, axis by axis. *)
LEMMA CountsOf ==
  ASSUME ControlsAssumption, NEW rep \in Report, NEW a \in Axis
  PROVE  /\ Counts(rep)[a] = Turn(a, rep.pointer[a]) + ScrollReduce * rep.scroll[a]
         /\ Counts(rep)[a] \in Int
         /\ rep.pointer[a] \in Int /\ rep.scroll[a] \in Int
<1>1. Counts(rep)[a] = Turn(a, rep.pointer[a]) + ScrollReduce * rep.scroll[a]
  BY DEF Counts, Oriented, Turn
<1>2. rep.pointer[a] \in Int /\ rep.scroll[a] \in Int /\ ScrollReduce \in Int
  BY DEF Report, Sum, ControlsAssumption
<1>3. ScrollReduce * rep.scroll[a] \in Int /\ Turn(a, rep.pointer[a]) \in Int
  BY <1>2 DEF Turn
<1>. QED  BY <1>1, <1>2, <1>3

(* A report is one, and differs from none. *)
LEMMA ReportType ==
  ASSUME PointerAssumption, MotionAssumption, NEW m \in MouseState
  PROVE  /\ MouseReport(m) \in Report
         /\ \A a \in Axis :
              /\ MouseReport(m).pointer[a] = Signed(Turn(a, m.delta[a]), Int8)
              /\ MouseReport(m).scroll[a] = Signed(m.scroll[a], Int8)
<1>. DEFINE pointer == [a \in Axis |-> Signed(Oriented(m.delta)[a], Int8)]
            scroll == [a \in Axis |-> Signed(m.scroll[a], Int8)]
<1>1. \A a \in Axis : Oriented(m.delta)[a] = Turn(a, m.delta[a])
  BY DEF Oriented, Turn
<1>2. \A a \in Axis : Turn(a, m.delta[a]) \in Int /\ m.scroll[a] \in Int
  BY DEF MouseState, Sum, Turn
<1>3. \A a \in Axis : pointer[a] \in Int /\ scroll[a] \in Int
  BY <1>1, <1>2, SignedWraps
<1>4. pointer \in Sum /\ scroll \in Sum
  BY <1>3 DEF Sum
<1>5. \A a \in Axis : /\ pointer[a] = Signed(Turn(a, m.delta[a]), Int8)
                      /\ scroll[a] = Signed(m.scroll[a], Int8)
  BY <1>1
<1>6. MouseReport(m) = [buttons |-> {b \in Reported : m.button[b]},
                        pointer |-> pointer, scroll |-> scroll]
  BY DEF MouseReport
<1>. HIDE DEF pointer, scroll
<1>. QED  BY <1>4, <1>5, <1>6 DEF Report

(* The empty endpoint is told from a report by its fields. *)
LEMMA NoReportDiffers == \A rep \in Report : rep # NoReport
<1>. SUFFICES ASSUME NEW rep \in Report PROVE rep # NoReport
  OBVIOUS
<1>1. "pointer" \in DOMAIN rep
  BY DEF Report
<1>2. "pointer" \notin DOMAIN NoReport
  BY DEF NoReport
<1>. QED  BY <1>1, <1>2

(* The two ways to say that everything is accounted for. *)
LEMMA AccountedAs ==
  ASSUME MotionAssumption, ControlsAssumption, PointerAssumption, TypeOK
  PROVE  /\ \A a \in Axis : Missing(a) \in Int
         /\ Accounted <=> \A a \in Axis : Account(a)
<1>1. ASSUME NEW a \in Axis PROVE Missing(a) \in Int
  <2>1. Shown(a) \in Int
    BY CountsOf DEF Shown, TypeOK
  <2>2. Counts(host)[a] \in Int
    BY CountsOf DEF TypeOK
  <2>3. /\ delivered[a] \in Int /\ mouse.internal_scroll[a] \in Int /\ dropped[a] \in Int
    BY DEF TypeOK, MotionTypeOK, ControlsTypeOK, MouseState, Sum
  <2>. QED  BY <2>1, <2>2, <2>3 DEF Missing
<1>2. \A a \in Axis : Missing(a) % Int8 = 0 <=> Wraps(Missing(a))
  BY <1>1, WrapsRemainder
<1>3. Accounted <=> \A a \in Axis : Missing(a) % Int8 = 0 /\ (~truncated => Missing(a) = 0)
  BY DEF Accounted, Missing, Shown
<1>. QED  BY <1>1, <1>2, <1>3 DEF Account

(* What a report shows of the state it was made from, sent or not: one     *)
(* that is not sent had nothing to show.                                   *)
LEMMA SendReportShown ==
  ASSUME MotionAssumption, ControlsAssumption, PointerAssumption, MotionTypeOK,
         ClickInv, SendReport, NEW a \in Axis
  PROVE  LET pointer == Turn(a, Signed(Turn(a, mouse'.delta[a]), Int8))
             scroll == Signed(mouse'.scroll[a], Int8)
         IN  /\ ep' \in Report \cup {NoReport}
             /\ Shown(a)' = pointer + ScrollReduce * scroll
             /\ ~truncated' => /\ ~truncated
                               /\ mouse'.delta[a] = pointer /\ mouse'.scroll[a] = scroll
                               /\ Signed(r.delta[a], Int16) = r.delta[a]
                               /\ Abs(mouse.internal_scroll[a]) + Abs(r.delta[a])
                                    < Int16 \div 2
<1>. DEFINE report == MouseReport(mouse')
            pointer == Turn(a, Signed(Turn(a, mouse'.delta[a]), Int8))
            scroll == Signed(mouse'.scroll[a], Int8)
<1>1. mouse' \in MouseState
  BY SendReportClick DEF ClickInv, ClickTypeOK
<1>2. /\ report \in Report
      /\ report.pointer[a] = Signed(Turn(a, mouse'.delta[a]), Int8)
      /\ report.scroll[a] = scroll
  BY <1>1, ReportType
<1>3. /\ ep' = IF mouse'.changed THEN report ELSE NoReport
      /\ truncated' = (truncated \/ \E b \in Axis :
           \/ mouse'.delta[b] # Oriented(report.pointer)[b]
           \/ mouse'.scroll[b] # report.scroll[b]
           \/ r.delta[b] # Signed(r.delta[b], Int16)
           \/ Abs(mouse.internal_scroll[b]) + Abs(r.delta[b]) >= Int16 \div 2)
  BY DEF SendReport
<1>4. Oriented(report.pointer)[a] = pointer
  BY <1>2 DEF Oriented, Turn
<1>5. Shown(a)' = IF ep' = NoReport THEN 0 ELSE Counts(ep')[a]
  BY DEF Shown, Counts, Oriented
<1>6. Counts(report)[a] = pointer + ScrollReduce * scroll
  BY <1>2, CountsOf
<1>. HIDE DEF report, pointer, scroll
<1>7. Shown(a)' = pointer + ScrollReduce * scroll
  <2>1. CASE mouse'.changed
    BY <1>2, <1>3, <1>5, <1>6, <2>1, NoReportDiffers
  <2>2. CASE ~mouse'.changed
    <3>1. mouse'.delta[a] = 0 /\ mouse'.scroll[a] = 0
      BY <2>2, SendReportValues
    <3>2. Signed(0, Int8) = 0
      BY SignedZero DEF PointerAssumption
    <3>3. pointer = 0 /\ scroll = 0 /\ ScrollReduce * 0 = 0
      BY <3>1, <3>2 DEF pointer, scroll, Turn, ControlsAssumption
    <3>. QED  BY <1>3, <1>5, <2>2, <3>3
  <2>. QED  BY <2>1, <2>2
<1>8. ep' \in Report \cup {NoReport}
  BY <1>2, <1>3
<1>9. ~truncated' => /\ ~truncated
                     /\ mouse'.delta[a] = pointer /\ mouse'.scroll[a] = scroll
                     /\ Signed(r.delta[a], Int16) = r.delta[a]
                     /\ ~(Abs(mouse.internal_scroll[a]) + Abs(r.delta[a]) >= Int16 \div 2)
  BY <1>2, <1>3, <1>4
<1>10. ~(Abs(mouse.internal_scroll[a]) + Abs(r.delta[a]) >= Int16 \div 2)
         => Abs(mouse.internal_scroll[a]) + Abs(r.delta[a]) < Int16 \div 2
  <2>1. mouse.internal_scroll[a] \in Int /\ r.delta[a] \in Int /\ Int16 \div 2 \in Int
    BY DEF ClickInv, ClickTypeOK, MouseState, MotionTypeOK, Sum, MotionAssumption
  <2>2. Abs(mouse.internal_scroll[a]) \in Int /\ Abs(r.delta[a]) \in Int
    BY <2>1 DEF Abs
  <2>. QED  BY <2>1, <2>2
<1>. QED  BY <1>7, <1>8, <1>9, <1>10 DEF pointer, scroll

(* A poll accounts for all counts it has taken. *)
LEMMA SendReportAccount ==
  ASSUME MotionAssumption, ControlsAssumption, PointerAssumption, AccountInv,
         SendReport, NEW a \in Axis
  PROVE  Account(a)'
<1>. DEFINE d == r.delta[a]
            kept == mouse.internal_scroll[a]
            s == Signed(d, Int16)
            v == Signed(kept + s, Int16)
            t == Ticks(v)
            D == delivered[a]
            H == Counts(host)[a]
            P == dropped[a]
<1>1. MotionTypeOK /\ ClickInv /\ PollAlone /\ Account(a) /\ Missing(a) \in Int
  BY AccountedAs DEF AccountInv, TypeOK
<1>2. d \in Int /\ kept \in Int /\ D \in Int /\ H \in Int /\ P \in Int
  BY CountsOf DEF AccountInv, TypeOK, MotionTypeOK, ControlsTypeOK, MouseState, Sum
<1>3. Missing(a) = D - H - kept - P
  <2>1. Shown(a) = 0
    BY <1>1 DEF PollAlone, Shown, SendReport, GetReturn
  <2>. QED  BY <1>2, <2>1 DEF Missing
<1>4. Missing(a)' = delivered'[a] - Counts(host)[a] - Shown(a)'
                    - mouse'.internal_scroll[a] - dropped'[a]
  <2>1. host' = host
    BY DEF SendReport
  <2>. QED  BY <2>1 DEF Missing, Counts, Oriented
<1>5. delivered'[a] = D + d
  BY DEF SendReport, GetReturn, (+)
<1>6. dropped'[a] = IF mouse.scroll_lock THEN P ELSE P + kept
  BY DEF SendReport, (+)
<1>7. /\ mouse'.delta[a] = IF mouse.scroll_lock THEN 0 ELSE s
      /\ mouse'.scroll[a] = IF mouse.scroll_lock THEN t ELSE 0
      /\ mouse'.internal_scroll[a] = IF mouse.scroll_lock THEN v - ScrollReduce * t ELSE 0
  BY <1>1, SendReportValues
<1>8. /\ Shown(a)' = Turn(a, Signed(Turn(a, mouse'.delta[a]), Int8))
                     + ScrollReduce * Signed(mouse'.scroll[a], Int8)
      /\ ~truncated' => /\ ~truncated
                        /\ mouse'.delta[a] = Turn(a, Signed(Turn(a, mouse'.delta[a]), Int8))
                        /\ mouse'.scroll[a] = Signed(mouse'.scroll[a], Int8)
                        /\ s = d /\ Abs(kept) + Abs(d) < Int16 \div 2
  BY <1>1, SendReportShown
<1>9. Signed(0, Int8) = 0 /\ Turn(a, 0) = 0 /\ ScrollReduce * 0 = 0
  <2>1. Signed(0, Int8) = 0
    BY SignedZero DEF PointerAssumption
  <2>2. Turn(a, 0) = 0
    BY TurnZero
  <2>3. ScrollReduce * 0 = 0
    BY DEF ControlsAssumption
  <2>. QED  BY <2>1, <2>2, <2>3
<1>10. PICK lost \in Int : /\ Missing(a)' = Missing(a) + lost
                           /\ Wraps(lost)
                           /\ ~truncated' => lost = 0
  <2>1. CASE mouse.scroll_lock
    <3>. DEFINE lost == d + kept - (v - ScrollReduce * t) - ScrollReduce * Signed(t, Int8)
    <3>1. /\ lost \in Int /\ Wraps(lost)
          /\ (s = d /\ Abs(kept) + Abs(d) < Int16 \div 2 /\ Signed(t, Int8) = t) => lost = 0
      BY <1>2, ScrollAccount
    <3>2. v \in Int /\ t \in Int /\ Signed(t, Int8) \in Int
      BY <1>2, SignedWraps, TicksLeave
    <3>3. ScrollReduce * t \in Int /\ ScrollReduce * Signed(t, Int8) \in Int
      BY <3>2 DEF ControlsAssumption
    <3>. HIDE DEF d, kept, D, H, P, s, v, t
    <3>4. Shown(a)' = ScrollReduce * Signed(t, Int8)
      BY <1>7, <1>8, <1>9, <2>1, <3>3
    <3>5. Missing(a)' = Missing(a) + lost
      BY <1>2, <1>3, <1>4, <1>5, <1>6, <1>7, <2>1, <3>2, <3>3, <3>4 DEF H
    <3>6. ~truncated' => lost = 0
      BY <1>7, <1>8, <2>1, <3>1
    <3>. QED  BY <3>1, <3>5, <3>6
  <2>2. CASE ~mouse.scroll_lock
    <3>. DEFINE shown == Turn(a, Signed(Turn(a, s), Int8))
                lost == d - shown
    <3>1. shown \in Int /\ Wraps(lost)
      BY <1>2, PointAccount
    <3>. HIDE DEF d, kept, D, H, P, s, v, t, shown
    <3>2. Shown(a)' = shown
      BY <1>7, <1>8, <1>9, <2>2, <3>1 DEF shown
    <3>3. Missing(a)' = Missing(a) + lost
      BY <1>2, <1>3, <1>4, <1>5, <1>6, <1>7, <2>2, <3>1, <3>2 DEF H
    <3>4. ~truncated' => lost = 0
      BY <1>2, <1>7, <1>8, <2>2, <3>1 DEF shown
    <3>. QED  BY <1>2, <3>1, <3>3, <3>4
  <2>. QED  BY <2>1, <2>2
<1>11. truncated' = FALSE \/ truncated' = TRUE
  BY DEF SendReport
<1>12. Wraps(Missing(a) + lost)
  <2>1. \A x, y \in Int : Wraps(x) /\ Wraps(y) => Wraps(x + y)
    <3>1. 0 \in Int
      OBVIOUS
    <3>. QED  BY <3>1, WrapsSum
  <2>2. Wraps(Missing(a)) /\ Missing(a) \in Int
    BY <1>1 DEF Account
  <2>3. Wraps(lost) /\ lost \in Int
    BY <1>10
  <2>. QED  BY <2>1, <2>2, <2>3
<1>. QED  BY <1>1, <1>8, <1>10, <1>11, <1>12 DEF Account

(* A poll leaves the types of everything right. *)
LEMMA SendReportType ==
  ASSUME MotionAssumption, ControlsAssumption, PointerAssumption, AccountInv,
         MotionTypeOK', SendReport
  PROVE  TypeOK'
<1>1. MotionTypeOK /\ ClickInv /\ TypeOK
  BY DEF AccountInv, TypeOK
<1>2. /\ mouse' \in MouseState /\ last_mouse' \in MouseState /\ scroll_sum' \in Nat
      /\ session' \in Nat /\ middleFor' \in Nat
      /\ overrun' \in BOOLEAN /\ truncated' \in BOOLEAN
  <2>1. truncated' \in BOOLEAN
    BY DEF SendReport
  <2>. QED  BY <1>1, <2>1, SendReportClick DEF ClickInv, ClickTypeOK
<1>3. ASSUME NEW a \in Axis PROVE Abs(mouse'.internal_scroll[a]) <= ScrollReduce
  <2>. DEFINE v == Signed(mouse.internal_scroll[a] + Signed(r.delta[a], Int16), Int16)
  <2>1. mouse.internal_scroll[a] \in Int /\ r.delta[a] \in Int
    BY <1>1 DEF ClickInv, ClickTypeOK, MouseState, MotionTypeOK, Sum
  <2>2. mouse.internal_scroll[a] + Signed(r.delta[a], Int16) \in Int
    BY <2>1, SignedWraps
  <2>3. v \in Int
    BY <2>2, SignedWraps
  <2>4. Abs(0) = 0 /\ ScrollReduce \in Nat
    BY DEF Abs, ControlsAssumption
  <2>5. mouse'.internal_scroll[a] = IF mouse.scroll_lock THEN v - ScrollReduce * Ticks(v) ELSE 0
    BY <1>1, SendReportValues
  <2>. HIDE DEF v
  <2>. QED  BY <2>3, <2>4, <2>5, TicksLeave
<1>4. ep' \in Report \cup {NoReport}
  <2>1. "x" \in Axis
    BY DEF Axis
  <2>. QED  BY <1>1, <2>1, SendReportShown
<1>5. dropped' \in Sum
  BY <1>1 DEF SendReport, (+), TypeOK, ControlsTypeOK, MouseState, Sum
<1>6. UNCHANGED <<attached, host, events, resets>>
  BY DEF SendReport
<1>. QED  BY <1>1, <1>2, <1>3, <1>4, <1>5, <1>6 DEF TypeOK, ControlsTypeOK

(* The host has what the report said. *)
LEMMA HostPollAccount ==
  ASSUME ControlsAssumption, AccountInv, HostPoll
  PROVE  /\ host' \in Report /\ \A a \in Axis : Account(a)'
<1>1. /\ ep \in Report /\ host \in Report
      /\ host' = [buttons |-> ep.buttons, pointer |-> host.pointer (+) ep.pointer,
                  scroll |-> host.scroll (+) ep.scroll]
      /\ ep' = NoReport /\ UNCHANGED <<delivered, mouse, dropped, truncated>>
  BY DEF AccountInv, TypeOK, HostPoll, motionVars, motionHistory, controlsVars, history
<1>. DEFINE pointer == host.pointer (+) ep.pointer
            scroll == host.scroll (+) ep.scroll
<1>2. /\ pointer \in Sum /\ scroll \in Sum
      /\ \A a \in Axis : /\ pointer[a] = host.pointer[a] + ep.pointer[a]
                         /\ scroll[a] = host.scroll[a] + ep.scroll[a]
  BY <1>1 DEF (+), Report, Sum
<1>. HIDE DEF pointer, scroll
<1>3. /\ host' \in Report /\ host'.pointer = pointer /\ host'.scroll = scroll
  BY <1>1, <1>2 DEF Report, pointer, scroll
<1>4. ASSUME NEW a \in Axis PROVE Account(a)'
  <2>1. /\ ep.pointer[a] \in Int /\ ep.scroll[a] \in Int
        /\ host.pointer[a] \in Int /\ host.scroll[a] \in Int
        /\ Counts(ep)[a] = Turn(a, ep.pointer[a]) + ScrollReduce * ep.scroll[a]
        /\ Counts(host)[a] = Turn(a, host.pointer[a]) + ScrollReduce * host.scroll[a]
        /\ Counts(ep)[a] \in Int /\ Counts(host)[a] \in Int
    BY <1>1, CountsOf
  <2>2. Counts(host')[a] = Turn(a, host'.pointer[a]) + ScrollReduce * host'.scroll[a]
    BY <1>3, CountsOf
  <2>3. Counts(host')[a] = Counts(host)[a] + Counts(ep)[a]
    <3>1. Turn(a, pointer[a]) = Turn(a, host.pointer[a]) + Turn(a, ep.pointer[a])
      BY <1>2, <2>1 DEF Turn
    <3>2. ScrollReduce * scroll[a] = ScrollReduce * host.scroll[a] + ScrollReduce * ep.scroll[a]
      BY <1>2, <2>1 DEF ControlsAssumption
    <3>3. /\ Turn(a, host.pointer[a]) \in Int /\ Turn(a, ep.pointer[a]) \in Int
          /\ ScrollReduce * host.scroll[a] \in Int /\ ScrollReduce * ep.scroll[a] \in Int
      BY <2>1 DEF Turn, ControlsAssumption
    <3>. QED  BY <1>3, <2>1, <2>2, <3>1, <3>2, <3>3
  <2>4. Missing(a)' = delivered[a] - Counts(host')[a] - 0 - mouse.internal_scroll[a] - dropped[a]
    BY <1>1 DEF Missing, Shown, Counts, Oriented
  <2>5. Shown(a) = Counts(ep)[a]
    BY DEF Shown, HostPoll
  <2>6. delivered[a] \in Int /\ mouse.internal_scroll[a] \in Int /\ dropped[a] \in Int
    BY DEF AccountInv, TypeOK, MotionTypeOK, ControlsTypeOK, MouseState, Sum
  <2>7. Missing(a)' = Missing(a)
    BY <2>1, <2>3, <2>4, <2>5, <2>6 DEF Missing
  <2>. QED  BY <1>1, <2>7 DEF Account, AccountInv, Wraps
<1>. QED  BY <1>3, <1>4

(* A bus reset throws away what the endpoint held. *)
LEMMA BusResetAccount ==
  ASSUME ControlsAssumption, AccountInv, BusReset
  PROVE  /\ host' \in Report /\ dropped' \in Sum /\ \A a \in Axis : Account(a)'
<1>1. /\ ep' = NoReport /\ host' = [host EXCEPT !.buttons = {}]
      /\ dropped' = IF ep = NoReport THEN dropped ELSE dropped (+) Counts(ep)
      /\ ep \in Report \cup {NoReport} /\ host \in Report /\ dropped \in Sum
      /\ UNCHANGED <<delivered, mouse, truncated>>
  BY DEF AccountInv, TypeOK, BusReset, motionVars, motionHistory, controlsVars
<1>2. host' \in Report /\ host'.pointer = host.pointer /\ host'.scroll = host.scroll
  BY <1>1 DEF Report
<1>3. ASSUME NEW a \in Axis PROVE dropped'[a] = dropped[a] + Shown(a) /\ Shown(a) \in Int
  <2>1. CASE ep = NoReport
    BY <1>1, <2>1 DEF Shown, Sum
  <2>2. CASE ep # NoReport
    BY <1>1, <2>2, CountsOf DEF Shown, (+)
  <2>. QED  BY <2>1, <2>2
<1>4. dropped' \in Sum
  <2>1. \A a \in Axis : dropped'[a] \in Int
    BY <1>1, <1>3 DEF Sum
  <2>2. dropped' = [a \in Axis |-> dropped'[a]]
    BY <1>1 DEF Sum, (+)
  <2>. QED  BY <2>1, <2>2 DEF Sum
<1>5. ASSUME NEW a \in Axis PROVE Account(a)'
  <2>1. Counts(host')[a] = Counts(host)[a]
    BY <1>2 DEF Counts, Oriented
  <2>2. Missing(a)' = delivered[a] - Counts(host')[a] - 0 - mouse.internal_scroll[a] - dropped'[a]
    BY <1>1 DEF Missing, Shown, Counts, Oriented
  <2>3. /\ delivered[a] \in Int /\ mouse.internal_scroll[a] \in Int /\ dropped[a] \in Int
        /\ Counts(host)[a] \in Int
    BY CountsOf DEF AccountInv, TypeOK, MotionTypeOK, ControlsTypeOK, MouseState, Sum
  <2>4. Missing(a)' = Missing(a)
    BY <1>3, <2>1, <2>2, <2>3 DEF Missing
  <2>. QED  BY <1>1, <2>4 DEF Account, AccountInv, Wraps
<1>. QED  BY <1>2, <1>4, <1>5

(* Nothing is unaccounted for as long as the counts stay where they are. *)
LEMMA AccountSame ==
  ASSUME AccountInv, UNCHANGED <<delivered, host, ep, dropped, truncated>>,
         mouse'.internal_scroll = mouse.internal_scroll
  PROVE  \A a \in Axis : Account(a)'
<1>. SUFFICES ASSUME NEW a \in Axis PROVE Account(a)'
  OBVIOUS
<1>1. Missing(a)' = Missing(a)
  BY DEF Missing, Shown, Counts, Oriented
<1>. QED  BY <1>1 DEF AccountInv, Account, Wraps

(* A switch moves no counts. *)
LEMMA PressAccount ==
  ASSUME AccountInv, MotionTypeOK', NEW id \in 0 .. 3, NEW state \in BOOLEAN,
         ControlsMouseNew(id, state), events' \in 0 .. MaxEvents,
         UNCHANGED <<motionVars, usb, resets, dropped, truncated, session, overrun,
                   middleFor>>
  PROVE  AccountInv'
<1>1. /\ mouse' = Press(id, state)
      /\ UNCHANGED <<last_mouse, scroll_sum, delivered, mouse_motion, pc, r>>
  BY DEF ControlsMouseNew, motionVars, shared, local, motionHistory
<1>2. mouse' \in MouseState /\ mouse'.internal_scroll = mouse.internal_scroll
  BY <1>1, PressType DEF AccountInv, ClickInv, ClickTypeOK
<1>3. \A a \in Axis : Account(a)'
  BY <1>1, <1>2, AccountSame DEF usb
<1>4. TypeOK'
  BY <1>1, <1>2 DEF AccountInv, TypeOK, ControlsTypeOK, usb
<1>5. ClickInv'
  BY <1>1, PressClick DEF AccountInv
<1>. QED  BY <1>1, <1>3, <1>4, <1>5 DEF AccountInv, PollAlone, usb

(* At first there are no counts. *)
LEMMA AccountInit ==
  ASSUME MotionAssumption, ControlsAssumption, PointerAssumption, Init, MotionTypeOK
  PROVE  AccountInv
<1>1. ClickInv
  BY ClickInit
<1>2. Zero \in Sum /\ \A a \in Axis : Zero[a] = 0
  BY DEF Zero, Sum
<1>3. /\ host = [buttons |-> {}, pointer |-> Zero, scroll |-> Zero] /\ host \in Report
      /\ ep = NoReport /\ dropped = Zero /\ delivered = Zero /\ pc = "idle"
      /\ mouse.internal_scroll = Zero
  BY <1>2 DEF Init, MotionInit, ControlsInit, Report
<1>4. TypeOK
  <2>1. 0 \in 0 .. MaxEvents /\ 0 \in 0 .. MaxResets
    BY DEF PointerAssumption
  <2>2. \A a \in Axis : Abs(mouse.internal_scroll[a]) <= ScrollReduce
    BY <1>2, <1>3 DEF Abs, ControlsAssumption
  <2>3. ControlsTypeOK /\ session \in Nat /\ middleFor \in Nat
        /\ overrun \in BOOLEAN /\ truncated \in BOOLEAN
    <3>1. truncated \in BOOLEAN
      BY DEF Init
    <3>. QED  BY <1>1, <2>2, <3>1 DEF ControlsTypeOK, ClickInv, ClickTypeOK
  <2>4. events \in 0 .. MaxEvents /\ resets \in 0 .. MaxResets /\ attached \in BOOLEAN
    BY <2>1 DEF Init
  <2>5. ep \in Report \cup {NoReport} /\ host \in Report /\ dropped \in Sum
    BY <1>2, <1>3
  <2>. QED  BY <2>3, <2>4, <2>5, Zenon DEF TypeOK
<1>5. ASSUME NEW a \in Axis PROVE Account(a)
  <2>1. Counts(host)[a] = 0
    <3>1. host.pointer[a] = 0 /\ host.scroll[a] = 0
      BY <1>2, <1>3
    <3>2. ScrollReduce * 0 = 0
      BY DEF ControlsAssumption
    <3>3. Counts(host)[a] = Turn(a, host.pointer[a]) + ScrollReduce * host.scroll[a]
      BY <1>3, CountsOf
    <3>4. Turn(a, 0) = 0
      BY TurnZero
    <3>. QED  BY <3>1, <3>2, <3>3, <3>4
  <2>2. Missing(a) = 0
    BY <1>2, <1>3, <2>1 DEF Missing, Shown
  <2>3. 0 = Int8 * 0
    BY DEF PointerAssumption
  <2>. QED  BY <2>2, <2>3 DEF Account, Wraps
<1>. QED  BY <1>1, <1>3, <1>4, <1>5 DEF AccountInv, PollAlone

(* Every step keeps the account. *)
LEMMA AccountNext ==
  ASSUME MotionAssumption, ControlsAssumption, PointerAssumption, AccountInv,
         MotionTypeOK', [Next]_vars
  PROVE  AccountInv'
<1>1. ClickInv'
  BY ClickNext DEF AccountInv, TypeOK
<1>. DEFINE Rest == \A a \in Axis : Account(a)
<1>2. CASE Irq \/ HidTask \/ Get \/ Suspend \/ Resume \/ UNCHANGED vars
  <2>1. /\ UNCHANGED <<controlsVars, ep, host, history, delivered>>
        /\ attached' \in BOOLEAN
        /\ pc' # "idle" => pc # "idle" \/ ep = NoReport
    <3>1. CASE Irq
      BY <3>1 DEF Irq, Interrupt, usb, local, AccountInv, TypeOK
    <3>2. CASE HidTask
      BY <3>2 DEF HidTask, TudHidReady, GetBegin, usb, motionHistory, AccountInv, TypeOK
    <3>3. CASE Get
      BY <3>3 DEF Get, GetStep, GetStop, Copy, Clear, GetStart, usb, motionHistory, AccountInv, TypeOK
    <3>4. CASE Suspend \/ Resume \/ UNCHANGED vars
      BY <3>4 DEF Suspend, Resume, vars, usb, motionVars, local, motionHistory, AccountInv, TypeOK
    <3>. QED  BY <1>2, <3>1, <3>2, <3>3, <3>4
  <2>2. Rest'
    BY <2>1, AccountSame DEF controlsVars, history
  <2>3. TypeOK'
    BY <2>1 DEF AccountInv, TypeOK, ControlsTypeOK, controlsVars, history
  <2>. QED  BY <1>1, <2>1, <2>2, <2>3 DEF AccountInv, PollAlone
<1>3. ASSUME NEW id \in Ids, NEW state \in BOOLEAN, SwitchEvent(id, state)
      PROVE  AccountInv'
  <2>1. events' \in 0 .. MaxEvents
    BY <1>3 DEF SwitchEvent, AccountInv, TypeOK, PointerAssumption
  <2>2. id \in 0 .. 3
    BY DEF PointerAssumption
  <2>. QED  BY <1>3, <2>1, <2>2, PressAccount DEF SwitchEvent
<1>4. CASE SendReport
  <2>1. TypeOK' /\ Rest'
    BY <1>4, SendReportType, SendReportAccount
  <2>2. pc' = "idle"
    BY <1>4 DEF SendReport, GetReturn
  <2>. QED  BY <1>1, <2>1, <2>2 DEF AccountInv, PollAlone
<1>5. CASE HostPoll
  <2>1. /\ ep' = NoReport /\ host' \in Report /\ Rest'
        /\ UNCHANGED <<controlsVars, attached, history, pc>>
    BY <1>5, HostPollAccount DEF HostPoll, motionVars, local
  <2>2. TypeOK'
    BY <2>1 DEF AccountInv, TypeOK, ControlsTypeOK, controlsVars, history
  <2>. QED  BY <1>1, <2>1, <2>2 DEF AccountInv, PollAlone
<1>6. CASE BusReset
  <2>1. /\ ep' = NoReport /\ host' \in Report /\ dropped' \in Sum /\ Rest'
        /\ attached' = FALSE /\ resets < MaxResets /\ resets' = resets + 1
        /\ UNCHANGED <<controlsVars, events, truncated, session, overrun,
                       middleFor>>
    BY <1>6, BusResetAccount DEF BusReset
  <2>2. resets' \in 0 .. MaxResets
    BY <2>1 DEF AccountInv, TypeOK, PointerAssumption
  <2>3. TypeOK'
    BY <2>1, <2>2 DEF AccountInv, TypeOK, ControlsTypeOK, controlsVars
  <2>. QED  BY <1>1, <2>1, <2>3 DEF AccountInv, PollAlone
<1>. QED  BY <1>2, <1>3, <1>4, <1>5, <1>6 DEF Next

(* The account holds in every state. *)
LEMMA AccountInvariance == Spec => []AccountInv
<1>1. Spec => []MotionTypeOK
  BY UsesMotion, TypeCorrect, PTL
<1>2. Init /\ MotionTypeOK => AccountInv
  BY AccountInit, MotionAssumption, ControlsAssumption, PointerAssumption
<1>3. MotionTypeOK' /\ AccountInv /\ [Next]_vars => AccountInv'
  BY AccountNext, MotionAssumption, ControlsAssumption, PointerAssumption
<1>. QED  BY <1>1, <1>2, <1>3, PTL DEF Spec

(* The variables of the controls, of the report and of the host keep their *)
(* types; what waits for the next tick is never more than a tick.          *)
THEOREM PointerTypeCorrect == Spec => []TypeOK
<1>1. AccountInv => TypeOK
  BY DEF AccountInv
<1>. QED  BY <1>1, AccountInvariance, PTL

(* Every count of motion a poll takes reaches the host, waits for it or was *)
(* thrown away with the reason known, for all widths of the fields, readings*)
(* and divisors of scrolling (controls.c:73-121, usb_hid.c:100-125).        *)
THEOREM EveryCountAccounted == Spec => []Accounted
<1>1. AccountInv => Accounted
  BY AccountedAs, MotionAssumption, ControlsAssumption, PointerAssumption DEF AccountInv
<1>. QED  BY <1>1, AccountInvariance, PTL
-----------------------------------------------------------------------------
\* ----- Trackball: the pointer with switches that bounce.
\* As much of the types of the switches as the controls depend on.
SwitchTypeOK == /\ wire \in [Switches!Id -> BOOLEAN]
                /\ current_state \in [Switches!Id -> BOOLEAN]

(* The controls know every debounced level, beside all they know in Pointer.*)
TrackballInv == AccountInv /\ SwitchTypeOK /\ SwitchesShown

(* The switches are some of the four the controls know. *)
LEMMA IdType == Switches!Id \subseteq 0 .. 3
BY SwitchesAssumption DEF Switches!Id

\* What a poll, the interrupt, the host and the bus do in one step.
PointerStep ==
  /\ \/ Irq \/ HidTask \/ Get \/ SendReport
     \/ HostPoll \/ Suspend \/ Resume \/ BusReset
  /\ UNCHANGED <<wire, current_state>>

\* A switch bounces, or nothing happens.
WireStep == /\ \A i \in Switches!Id : wire'[i] \in BOOLEAN
            /\ wire' \in [Switches!Id -> BOOLEAN]
            /\ UNCHANGED <<vars, current_state>>

(* A step is one of the pointer's, a sample, or a switch that bounces. *)
LEMMA StepCases ==
  ASSUME SwitchTypeOK, [TrackballNext]_allVars
  PROVE  \/ PointerStep
         \/ \E i \in Switches!Id, gap \in 0 .. MaxGap : Sample(i, gap)
         \/ WireStep
<1>1. ASSUME UsbRun \/ ((Irq \/ HostPoll) /\ UNCHANGED switchVars)
      PROVE  PointerStep
  BY <1>1 DEF UsbRun, PointerStep, switchVars
<1>2. ASSUME Flip \/ UNCHANGED allVars PROVE WireStep
  BY <1>2 DEF Flip, Switches!FlipSwitch, Switches!state, allVars, switchVars,
              WireStep, SwitchTypeOK
<1>. QED  BY <1>1, <1>2 DEF TrackballNext, ButtonsRun

(* A sample tells the controls of a change, and changes nothing else.      *)
LEMMA SampleStep ==
  ASSUME SwitchTypeOK, NEW i \in Switches!Id, NEW gap \in 0 .. MaxGap, Sample(i, gap)
  PROVE  /\ wire' = wire /\ UNCHANGED <<motionVars, usb, history>>
         /\ current_state' \in [Switches!Id -> BOOLEAN]
         /\ \A j \in Switches!Id \ {i} : current_state'[j] = current_state[j]
         /\ current_state'[i] \in {wire[i], current_state[i]}
         /\ IF current_state'[i] # current_state[i]
            THEN ControlsMouseNew(i, wire[i])
            ELSE UNCHANGED controlsVars
BY DEF Sample, Switches!SampleSwitch, SwitchTypeOK

(* To the motion counters it makes no difference who moves the switches.   *)
LEMMA TrackballMotion == TrackballSpec => MotionSpec
<1>1. TrackballInit => MotionInit
  BY DEF TrackballInit, Init
<1>2. ASSUME [TrackballNext]_allVars PROVE [MotionNext]_motionVars
  <2>1. CASE Irq \/ HidTask \/ Get \/ SendReport
    BY <2>1 DEF Irq, HidTask, Get, SendReport, MotionNext
  <2>2. ASSUME HostPoll \/ Suspend \/ Resume \/ BusReset PROVE UNCHANGED motionVars
    BY <2>2 DEF HostPoll, Suspend, Resume, BusReset
  <2>3. ASSUME ButtonsRun \/ Flip \/ UNCHANGED allVars PROVE UNCHANGED motionVars
    BY <2>3 DEF ButtonsRun, Sample, Flip, allVars, vars
  <2>. QED  BY <1>2, <2>1, <2>2, <2>3 DEF TrackballNext, UsbRun
<1>. QED  BY <1>1, <1>2, PTL DEF TrackballSpec, MotionSpec

(* At first nothing is pressed, at the switches and for the controls.      *)
LEMMA TrackballInvInit == ASSUME TrackballInit, MotionTypeOK PROVE TrackballInv
<1>1. AccountInv
  BY AccountInit, MotionAssumption, ControlsAssumption, PointerAssumption DEF TrackballInit
<1>2. SwitchTypeOK
  BY DEF TrackballInit, Switches!SwitchInit, SwitchTypeOK
<1>3. SwitchesShown
  BY DEF TrackballInit, Switches!SwitchInit, Init, ControlsInit, SwitchesShown, ButtonOf, Buttons
<1>. QED  BY <1>1, <1>2, <1>3 DEF TrackballInv

(* A poll changes no button but the middle one, which is no switch.        *)
LEMMA PointerStepShown == ASSUME TrackballInv, PointerStep PROVE SwitchesShown'
<1>1. ASSUME NEW i \in Switches!Id
      PROVE  ButtonOf(i) \in Buttons \ {"middle"}
  BY DEF ButtonOf, Buttons
<1>2. /\ mouse'.scroll_lock = mouse.scroll_lock
      /\ \A b \in Buttons \ {"middle"} : mouse'.button[b] = mouse.button[b]
  <2>1. CASE SendReport
    <3>1. "x" \in Axis /\ MotionTypeOK /\ ClickInv
      BY DEF Axis, TrackballInv, AccountInv, TypeOK
    <3>. QED  BY <2>1, <3>1, SendReportValues, MotionAssumption, ControlsAssumption
  <2>2. CASE ~SendReport
    BY <2>2 DEF PointerStep, Irq, HidTask, Get, HostPoll, Suspend, Resume, BusReset,
                controlsVars
  <2>. QED  BY <2>1, <2>2
<1>3. current_state' = current_state
  BY DEF PointerStep
<1>. QED  BY <1>1, <1>2, <1>3 DEF TrackballInv, SwitchesShown

(* A sample changes what the controls hold together with what it debounced.*)
LEMMA SampleShown ==
  ASSUME TrackballInv, NEW i \in Switches!Id, NEW gap \in 0 .. MaxGap, Sample(i, gap)
  PROVE  SwitchesShown'
<1>. SUFFICES ASSUME NEW j \in Switches!Id
              PROVE  current_state'[j] = IF j = 1 THEN mouse'.scroll_lock
                                         ELSE mouse'.button[ButtonOf(j)]
  BY DEF SwitchesShown
<1>1. /\ current_state[j] = IF j = 1 THEN mouse.scroll_lock ELSE mouse.button[ButtonOf(j)]
      /\ SwitchTypeOK
  BY DEF TrackballInv, SwitchesShown
<1>2. CASE current_state'[i] = current_state[i]
  BY <1>1, <1>2, SampleStep DEF controlsVars
<1>3. CASE current_state'[i] # current_state[i]
  <2>1. /\ mouse' = Press(i, wire[i]) /\ current_state'[i] = wire[i] /\ wire[i] \in BOOLEAN
        /\ j # i => current_state'[j] = current_state[j]
    BY <1>1, <1>3, SampleStep DEF ControlsMouseNew, SwitchTypeOK
  <2>2. i \in 0 .. 3 /\ j \in 0 .. 3 /\ mouse \in MouseState
    BY IdType DEF TrackballInv, AccountInv, ClickInv, ClickTypeOK
  <2>3. /\ mouse'.scroll_lock = IF i = 1 THEN wire[i] ELSE mouse.scroll_lock
        /\ \A b \in Buttons : mouse'.button[b] =
             IF i # 1 /\ b = ButtonOf(i) THEN wire[i] ELSE mouse.button[b]
    BY <2>1, <2>2, PressType
  <2>4. ButtonOf(i) \in Buttons /\ ButtonOf(j) \in Buttons
    BY DEF ButtonOf, Buttons
  <2>5. j # 1 /\ i # 1 /\ j # i => ButtonOf(j) # ButtonOf(i)
    BY <2>2 DEF ButtonOf
  <2>. QED  BY <1>1, <2>1, <2>3, <2>4, <2>5
<1>. QED  BY <1>2, <1>3

(* Every step keeps all of it. *)
LEMMA TrackballInvNext ==
  ASSUME TrackballInv, MotionTypeOK', [TrackballNext]_allVars PROVE TrackballInv'
<1>. USE MotionAssumption, ControlsAssumption, PointerAssumption
<1>1. CASE PointerStep
  <2>1. [Next]_vars
    BY <1>1 DEF PointerStep, Next
  <2>. QED  BY <1>1, <2>1, AccountNext, PointerStepShown
            DEF TrackballInv, SwitchTypeOK, PointerStep
<1>2. ASSUME NEW i \in Switches!Id, NEW gap \in 0 .. MaxGap, Sample(i, gap)
      PROVE  TrackballInv'
  <2>1. SwitchesShown' /\ SwitchTypeOK'
    BY <1>2, SampleShown, SampleStep DEF TrackballInv, SwitchTypeOK
  <2>2. i \in 0 .. 3 /\ wire[i] \in BOOLEAN /\ SwitchTypeOK
    BY IdType DEF TrackballInv, SwitchTypeOK
  <2>3. UNCHANGED <<motionVars, usb, history>>
    BY <1>2, <2>2, SampleStep
  <2>4. AccountInv'
    <3>1. CASE ControlsMouseNew(i, wire[i])
      <4>1. events' \in 0 .. MaxEvents
        BY <2>3 DEF history, TrackballInv, AccountInv, TypeOK
      <4>. QED  BY <2>2, <2>3, <3>1, <4>1, PressAccount DEF history, TrackballInv
    <3>2. CASE UNCHANGED controlsVars
      <4>1. UNCHANGED vars
        BY <2>3, <3>2 DEF vars
      <4>. QED  BY <4>1, AccountNext DEF TrackballInv
    <3>. QED  BY <1>2, <2>2, <3>1, <3>2, SampleStep
  <2>. QED  BY <2>1, <2>4 DEF TrackballInv
<1>3. CASE WireStep
  <2>1. AccountInv'
    BY <1>3, AccountNext DEF WireStep, TrackballInv
  <2>. QED  BY <1>3, <2>1
            DEF WireStep, TrackballInv, SwitchTypeOK, SwitchesShown, vars, controlsVars
<1>. QED  BY <1>1, <1>2, <1>3, StepCases DEF TrackballInv

(* The invariant of the whole holds in every state. *)
LEMMA TrackballInvariance == TrackballSpec => []TrackballInv
<1>1. TrackballSpec => []MotionTypeOK
  BY TrackballMotion, TypeCorrect, PTL
<1>2. TrackballInit /\ MotionTypeOK => TrackballInv
  BY TrackballInvInit
<1>3. MotionTypeOK' /\ TrackballInv /\ [TrackballNext]_allVars => TrackballInv'
  BY TrackballInvNext
<1>. QED  BY <1>1, <1>2, <1>3, PTL DEF TrackballSpec

(* Whatever the bouncing, the clock and the bus do, the controls hold what *)
(* the switches were debounced to (buttons.c:56-61, controls.c:46-66).     *)
THEOREM ControlsShowSwitches == TrackballSpec => []SwitchesShown
<1>1. TrackballInv => SwitchesShown
  BY DEF TrackballInv
<1>. QED  BY <1>1, TrackballInvariance, PTL

(* With real switches, too, no count is lost or torn on its way from the   *)
(* sensor to the host, and no click sticks.                                *)
THEOREM PointerKeepsPromises ==
  TrackballSpec => [](Conserved /\ NoTearing /\ Accounted /\ ClickCounted)
<1>1. TrackballInv => Accounted /\ ClickCounted
  BY AccountedAs, MotionAssumption, ControlsAssumption, PointerAssumption
     DEF TrackballInv, AccountInv, ClickInv
<1>. QED  BY <1>1, TrackballInvariance, TrackballMotion, NothingLost, NothingTorn, PTL
=============================================================================
