------------------------------ MODULE Trackball ------------------------------
(* The switches and the pointer together, as the main loop runs them:       *)
(* buttons_run samples and debounces every switch and tells the controls,   *)
(* then usb_run lets hid_task poll the controls and report to the host.     *)
(* What SwitchEvent of Pointer leaves open, which events come and when, is  *)
(* here what Buttons makes of bouncing wires.                               *)
EXTENDS Pointer

CONSTANTS N, ClockMod, Delay, MaxGap  \* of Buttons

VARIABLES wire, clock, next, last_time, current_state, last_state

\* Without the history variables of Buttons.
Switches == INSTANCE Buttons WITH stable <- 0, quiet <- 0

switchVars == <<wire, clock, next, last_time, current_state, last_state>>
allVars == <<vars, switchVars>>

ASSUME SwitchesAssumption ==
  /\ N \in 1 .. 4 /\ ClockMod \in Nat /\ Delay \in Nat /\ MaxGap \in Nat
  /\ Delay + N * MaxGap < ClockMod
-----------------------------------------------------------------------------
\* A plausible slip: the controls hear of every level that was read.
Sample_EveryEdge(i, gap) ==
  /\ pc = "idle"
  /\ Switches!SampleSwitch(i, gap)
  /\ IF wire[i] # last_state[i]
     THEN ControlsMouseNew(i, wire[i])
     ELSE UNCHANGED controlsVars
  /\ UNCHANGED <<motionVars, usb, history>>

\* The body of buttons_run's loop, with the call it makes.
Sample(i, gap) ==
  /\ pc = "idle"
  /\ Switches!SampleSwitch(i, gap)
  /\ IF current_state'[i] # current_state[i]
     THEN ControlsMouseNew(i, wire[i])
     ELSE UNCHANGED controlsVars
  /\ UNCHANGED <<motionVars, usb, history>>

ButtonsRun == \E i \in Switches!Id, gap \in 0 .. MaxGap : Sample(i, gap)

Flip == /\ \E i \in Switches!Id : Switches!FlipSwitch(i)
        /\ UNCHANGED vars

\* usb_run comes after a whole round of buttons_run: the reports, and in
\* tud_task what the host does.
UsbRun ==
  /\ next = 0
  /\ HidTask \/ Get \/ SendReport \/ Suspend \/ Resume \/ BusReset
  /\ UNCHANGED switchVars

TrackballInit == Init /\ Switches!SwitchInit

TrackballNext ==
  \/ ButtonsRun \/ Flip
  \/ UsbRun
  \/ (Irq \/ HostPoll) /\ UNCHANGED switchVars

\* The main loop comes round, in time that passes, and hid_task is due again
\* and again; a host that has configured a device polls it.
TrackballSpec ==
  /\ TrackballInit /\ [][TrackballNext]_allVars
  /\ SF_allVars(\E i \in Switches!Id, gap \in 1 .. MaxGap : Sample(i, gap))
  /\ SF_allVars(next = 0 /\ HidTask /\ UNCHANGED switchVars)
  /\ WF_allVars((Get \/ SendReport) /\ UNCHANGED switchVars)
  /\ WF_allVars(HostPoll /\ UNCHANGED switchVars)
-----------------------------------------------------------------------------
\* Whatever the bouncing, the clock's wraps and the bus do, the controls hold
\* what the switches were debounced to (buttons.c:56-61, controls.c:46-66).
SwitchesShown ==
  \A i \in Switches!Id :
    current_state[i] = IF i = 1 THEN mouse.scroll_lock ELSE mouse.button[ButtonOf(i)]

\* From the wire to the host: a switch that comes to rest is in the end shown by
\* the host as it rests, if the host stays there, also after a bus reset in
\* which the host has forgotten the buttons.
WireReachesHost ==
  \A v \in BOOLEAN :
    <>[](attached /\ wire[0] = v) => <>[](("back" \in host.buttons) = v)
=============================================================================
