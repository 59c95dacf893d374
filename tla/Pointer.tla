------------------------------- MODULE Pointer -------------------------------
(* From the ball and the switches to the host: hid_task polls the controls *)
(* (src/firmware/src/usb_hid.c), which take the motion the interrupt has   *)
(* summed up, and hands a report to the USB stack, which the host fetches. *)
(*                                                                         *)
(* The poll runs in the main loop; the interrupt hits it anywhere, the     *)
(* switches and USB events change state only between two polls.  A poll    *)
(* may come at any time here, so every timing of hid_task is included.     *)
EXTENDS Controls

CONSTANTS Int8,      \* 2^8, how many values a field of the report has
          Ids,       \* the switches that are used, of 0 .. 3
          Invert,    \* the axes of the pointer the configuration inverts
          MaxEvents, \* bound: how many switch events come
          MaxResets  \* bound: how often the bus is reset or unplugged

ASSUME PointerAssumption ==
  /\ Int8 \in Nat \ {0} /\ Int16 % Int8 = 0
  /\ Ids \subseteq 0 .. 3
  /\ Invert \subseteq Axis
  /\ {MaxEvents, MaxResets} \subseteq Nat

VARIABLES attached,   \* tud_mounted() and not tud_suspended()
          ep,         \* the report the IN endpoint holds, or NoReport
          host,       \* what the host makes of the reports
          events,     \* history: switch events so far
          resets,     \* history: bus resets so far
          dropped,    \* history: counts that were thrown away
          truncated,  \* history: a field of a report was too narrow
          session,    \* history: counts scrolled with the button held
          overrun,    \* history: one of those reads exceeded an int16_t
          middleFor   \* history: reports with the middle button down, so far

usb == <<attached, ep, host>>
history == <<events, resets, dropped, truncated, session, overrun,
             middleFor>>
vars == <<motionVars, controlsVars, usb, history>>

Reported == {"left", "right", "middle", "back"}
Report == [buttons : SUBSET Reported, pointer : Sum, scroll : Sum]
NoReport == [buttons |-> {}]

TudHidReady == attached /\ ep = NoReport
-----------------------------------------------------------------------------
MouseReport_NoInvert(m) ==
  [buttons |-> {b \in Reported : m.button[b]},
   pointer |-> [a \in Axis |-> Signed(m.delta[a], Int8)],
   scroll  |-> [a \in Axis |-> Signed(m.scroll[a], Int8)]]

Oriented(f) == [a \in Axis |-> IF a \in Invert THEN -f[a] ELSE f[a]]

\* What send_hid_report hands to tud_hid_mouse_report, whose arguments are
\* of type int8_t.
MouseReport(m) ==
  [buttons |-> {b \in Reported : m.button[b]},
   pointer |-> [a \in Axis |-> Signed(Oriented(m.delta)[a], Int8)],
   scroll  |-> [a \in Axis |-> Signed(m.scroll[a], Int8)]]

\* How many counts of the sensor a report stands for.
Counts(report) ==
  [a \in Axis |-> Oriented(report.pointer)[a] + ScrollReduce * report.scroll[a]]

\* buttons_run has debounced a switch.
SwitchEvent(id, state) ==
  /\ pc = "idle"
  /\ events < MaxEvents
  /\ events' = events + 1
  /\ mouse # Press(id, state)
  /\ ControlsMouseNew(id, state)
  /\ UNCHANGED <<motionVars, usb, resets, dropped, truncated, session, overrun,
                 middleFor>>

\* hid_task, when it is due and the endpoint is free, reads the controls,
\* which call pmw_get ...
HidTask ==
  /\ TudHidReady
  /\ GetBegin
  /\ UNCHANGED <<controlsVars, usb, history>>

\* ... and with its result send_hid_report sends the report.
SendReport ==
  LET report == MouseReport(mouse')
  IN  /\ GetReturn
      /\ ControlsMouseRead(r)
      /\ ep' = IF mouse'.changed THEN report ELSE NoReport
      /\ dropped' = IF mouse.scroll_lock THEN dropped
                    ELSE dropped (+) mouse.internal_scroll
      /\ truncated' = (truncated \/ \E a \in Axis :
           \/ mouse'.delta[a] # Oriented(report.pointer)[a]
           \/ mouse'.scroll[a] # report.scroll[a]
           \/ r.delta[a] # Signed(r.delta[a], Int16)
           \/ Abs(mouse.internal_scroll[a]) + Abs(r.delta[a]) >= Int16 \div 2)
      /\ session' = IF mouse.scroll_lock
                    THEN (IF last_mouse.scroll_lock THEN session ELSE 0)
                         + Abs(r.delta["x"]) + Abs(r.delta["y"])
                    ELSE session
      /\ overrun' = IF mouse.scroll_lock
                    THEN \/ last_mouse.scroll_lock /\ overrun
                         \/ \E a \in Axis : r.delta[a] # Signed(r.delta[a], Int16)
                    ELSE overrun
      /\ middleFor' = IF mouse'.button["middle"] THEN middleFor + 1 ELSE 0
      /\ UNCHANGED <<attached, host, events, resets>>

\* The host fetches the report; tud_hid_report_complete_cb then asks for the
\* report after the mouse's, for which send_hid_report does nothing.
HostPoll ==
  /\ attached
  /\ ep # NoReport
  /\ host' = [buttons |-> ep.buttons, pointer |-> host.pointer (+) ep.pointer,
              scroll |-> host.scroll (+) ep.scroll]
  /\ ep' = NoReport
  /\ UNCHANGED <<motionVars, controlsVars, attached, history>>

\* Suspend and resume keep the report that waits in the endpoint.
Suspend ==
  /\ pc = "idle"
  /\ attached
  /\ attached' = FALSE
  /\ UNCHANGED <<motionVars, controlsVars, ep, host, history>>

Resume ==
  /\ pc = "idle"
  /\ ~attached
  /\ attached' = TRUE
  /\ UNCHANGED <<motionVars, controlsVars, ep, host, history>>

\* A bus reset or unplugging loses it, and the host forgets the buttons.
\* tud_mount_cb and tud_umount_cb only log; the controls keep their state.
BusReset ==
  /\ pc = "idle"
  /\ resets < MaxResets
  /\ resets' = resets + 1
  /\ attached' = FALSE
  /\ ep' = NoReport
  /\ host' = [host EXCEPT !.buttons = {}]
  /\ dropped' = IF ep = NoReport THEN dropped ELSE dropped (+) Counts(ep)
  /\ UNCHANGED <<motionVars, controlsVars, events, truncated, session, overrun,
                 middleFor>>
-----------------------------------------------------------------------------
Init ==
  /\ MotionInit
  /\ ControlsInit
  /\ attached = FALSE
  /\ ep = NoReport
  /\ host = [buttons |-> {}, pointer |-> Zero, scroll |-> Zero]
  /\ events = 0 /\ resets = 0
  /\ dropped = Zero /\ truncated = FALSE
  /\ session = 0 /\ overrun = FALSE /\ middleFor = 0

Irq == /\ \E motion \in Motions : Interrupt(motion)
       /\ UNCHANGED <<controlsVars, usb, history>>

Get == GetStep /\ UNCHANGED <<controlsVars, usb, history>>

Next ==
  \/ Irq
  \/ \E id \in Ids, state \in BOOLEAN : SwitchEvent(id, state)
  \/ HidTask \/ Get \/ SendReport
  \/ HostPoll
  \/ Suspend \/ Resume \/ BusReset

\* The main loop goes on polling, or the watchdog resets the device; a host
\* that has configured a device polls its interrupt endpoints.
Fairness ==
  /\ WF_vars(HidTask) /\ WF_vars(Get) /\ WF_vars(SendReport)
  /\ WF_vars(HostPoll)

Spec == Init /\ [][Next]_vars /\ Fairness
-----------------------------------------------------------------------------
TypeOK ==
  /\ MotionTypeOK /\ ControlsTypeOK
  /\ attached \in BOOLEAN
  /\ ep \in Report \cup {NoReport}
  /\ host \in Report
  /\ events \in 0 .. MaxEvents /\ resets \in 0 .. MaxResets
  /\ dropped \in Sum /\ truncated \in BOOLEAN
  /\ session \in Nat /\ overrun \in BOOLEAN /\ middleFor \in Nat

(* Every count of motion that controls_mouse_read took ends up at the host *)
(* as pointer motion or as part of a scroll tick, waits in the endpoint or *)
(* for the next tick, or was thrown away when the scroll button was up or  *)
(* the bus was reset.  A field too narrow loses multiples of 2^8 only.     *)
Accounted ==
  \A a \in Axis :
    LET shown   == IF ep = NoReport THEN 0 ELSE Counts(ep)[a]
        missing == delivered[a] - Counts(host)[a] - shown
                   - mouse.internal_scroll[a] - dropped[a]
    IN  missing % Int8 = 0 /\ (~truncated => missing = 0)

(* The scroll button clicks when it is released after less than MinSuppress*)
(* counts, summed over both axes and all reads since it was pressed, and   *)
(* never when it has scrolled (controls.c:97-98 and 136-144), unless one of*)
(* these very reads took more than mouse.delta_x, an int16_t, can hold.    *)
ClickUnlessScrolled ==
  [][SendReport /\ last_mouse.scroll_lock /\ ~mouse.scroll_lock /\ ~overrun =>
       (mouse'.fake_middle = 1 <=> (session < MinSuppress))]_vars

(* A click is long enough: the middle button is not reported as released   *)
(* before ClickTime reports have said it is down (controls.c:128-134).     *)
ClickLongEnough ==
  [][SendReport /\ mouse.button["middle"] /\ ~mouse'.button["middle"] =>
       middleFor >= ClickTime]_vars

(* Whatever was lost with a bus reset, a button that stays down or up is   *)
(* eventually so at the host: reports never cease to be sent once the      *)
(* first one was (controls.c:146-152, changed is never cleared).           *)
ButtonsReachHost ==
  \A b \in Reported : \A v \in BOOLEAN :
    <>[](attached /\ mouse.button[b] = v) => <>[]((b \in host.buttons) = v)

(* Once the ball stops all of its motion is taken, if the host is there.   *)
MotionIsTaken == <>[]attached => <>[](delivered = produced)
=============================================================================
