------------------------------ MODULE PmwDriver ------------------------------
(* Who talks to the PMW3360 sensor, and when: the driver functions of      *)
(* src/firmware/src/pmw3360.c, the console commands and files that call    *)
(* them, and the health check of the main loop.                            *)
(*                                                                         *)
(* Two things make their order matter.  The MOTION interrupt reads the     *)
(* sensor over the same SPI bus, so a transaction it hits is lost, unless  *)
(* the driver has stopped it.  And every line that is printed runs the USB *)
(* stack (usb_cdc_write calls tud_task), which may deliver input and so    *)
(* run another console command before the printing one goes on.            *)
(*                                                                         *)
(* A function is a sequence of operations in Program; the C stack is       *)
(* stack, whose last frame runs.                                           *)
EXTENDS Naturals, Sequences, FiniteSets, SequencesExt

CONSTANTS MaxCommands, \* bound: how many console commands come
          MaxNest,     \* bound: how many of them are under way at once
          MaxUpsets    \* bound: how often the sensor loses a setting

ASSUME DriverAssumption == {MaxCommands, MaxNest, MaxUpsets} \subseteq Nat

VARIABLES stack,     \* the functions under way, the innermost last
          regs,      \* the sensor's registers
          irq,       \* the MOTION interrupt is enabled at the GPIO
          handler,   \* ... and its handler is installed (first_init)
          ok,        \* pmw_init has not failed since it last succeeded
          use_pmw,   \* main runs the health check
          commands,  \* history: console commands so far
          upsets     \* history: settings lost so far

vars == <<stack, regs, irq, handler, ok, use_pmw, commands, upsets>>
-----------------------------------------------------------------------------
\* What a function does, one operation at a time.  Functions are abstracted
\* to their SPI transactions, the interrupt's switch, and their output.
Stop == [op |-> "irq", on |-> FALSE]
Start == [op |-> "irq", on |-> TRUE]
Read(reg) == [op |-> "read", reg |-> reg]
Write(reg, val) == [op |-> "write", reg |-> reg, val |-> val]
Say == [op |-> "say"]                          \* print, println, debug
Call(fn, arg) == [op |-> "call", fn |-> fn, arg |-> arg]
MayReturn(why) == [op |-> "return", why |-> why] \* print an error and return
Op(name) == [op |-> name]

\* The settings, and the command that put the sensor into frame capture.
Reg == {"config1", "config2", "config5", "lift", "angle", "frame"}
Setting == {"reset", "default", "user", "corrupt"}
ValueOf == [config1 |-> Setting, config5 |-> Setting, angle |-> Setting,
            config2 |-> {"reset", "off", "split", "corrupt"},
            lift |-> {"reset", "max", "corrupt"},
            frame |-> {"none", "pmwf", "data", "corrupt"}]

\* ----- pmw3360.c
PmwSetSensitivity_OneAxis == <<Stop, Write("config1", "arg"), Start>>
PmwSetSensitivity ==
  <<Stop, Write("config1", "arg"), Write("config5", "arg"), Start>>

PmwGetSensitivity_WrongWay ==
  <<Stop, Read("config1"), Read("config5"), Op("same"),
    Say, Write("config1", "config1"), Start>>
PmwGetSensitivity ==
  <<Stop, Read("config1"), Read("config5"), Op("same"),
    Say, Write("config5", "config1"), Start>>

PmwSetAngle_Unguarded == <<Write("angle", "arg"), Start>>
PmwSetAngle == <<Stop, Write("angle", "arg"), Start>>

PmwGetAngle_NoStart == <<Stop, Read("angle")>>
PmwGetAngle == <<Stop, Read("angle"), Start>>

PmwIsAlive_NoStart == <<Stop, Read("id"), Read("id")>>
PmwIsAlive == <<Stop, Read("id"), Read("id"), Start>>

\* The interrupt stays stopped.
PmwFrameCapture ==
  <<Stop, Write("config2", "off"), Write("frame", "arg"),
    Write("frame", "arg"), Read("burst")>>

\* One sample stands for the PMW_DATA_DUMP_SAMPLES.
PmwDumpData ==
  <<MayReturn("open"), Say, Stop, Op("wait"), Write("burst", "any"),
    Read("burst"), Say, Start, MayReturn("close")>>

PmwInit_EarlySense ==
  <<Stop, Write("power_up", "any"), Read("id"), Write("srom", "any"),
    Call("pmw_set_sensitivity", "default"), Read("id"), Say,
    MayReturn("init"), Write("config2", "off"),
    Read("config2"), Write("config2", "config2"),
    Write("lift", "max"), Call("pmw_set_angle", "default"), Op("irq_init")>>
PmwInit ==
  <<Stop, Write("power_up", "any"), Read("id"), Write("srom", "any"),
    Read("id"), Say, MayReturn("init"),
    Write("config2", "off"), Read("config2"), Write("config2", "config2"),
    Call("pmw_set_sensitivity", "default"), Write("lift", "max"),
    Call("pmw_set_angle", "default"), Op("irq_init")>>

PmwRun == <<Call("pmw_is_alive", "any"), Op("alive"), Say, Op("reset")>>

\* ----- main.c, up to the main loop
Boot == <<Call("pmw_init", "any"), Op("booted")>>

\* ----- debug.c
DebugFrame ==
  <<MayReturn("open"), Call("pmw_frame_capture", "data"), MayReturn("write")>>
DebugStats == <<MayReturn("open"), Call("pmw_is_alive", "any"), MayReturn("write")>>
Debug == <<Say>>

\* ----- console.c
Pmwf_NoInit == <<Call("pmw_frame_capture", "pmwf"), Say>>
Pmwf == <<Call("pmw_frame_capture", "pmwf"), Say, Call("pmw_init", "any"), Say>>

\* The driver functions by name, and the console commands.
Driver ==
  [pmw_set_sensitivity |-> PmwSetSensitivity,
   pmw_get_sensitivity |-> PmwGetSensitivity,
   pmw_set_angle |-> PmwSetAngle, pmw_get_angle |-> PmwGetAngle,
   pmw_is_alive |-> PmwIsAlive, pmw_frame_capture |-> PmwFrameCapture,
   pmw_dump_data |-> PmwDumpData, pmw_init |-> PmwInit, pmw_run |-> PmwRun,
   main |-> Boot,
   debug_msc_pmw3360_frame |-> DebugFrame, debug_msc_pmw_stats |-> DebugStats,
   debug |-> Debug]

\* "cpi_N" and "angle_N" stand for the forms with a valid number, "help" for
\* all lines that only print, and "data" for stats too: which of the two the
\* line says is asked again at "line" (console.c:156), after output in which
\* input may have overwritten it, so both answers are possible for both.
Console ==
  [pmws |-> <<Call("pmw_is_alive", "any"), Say>>,
   pmwd |-> <<Call("pmw_dump_data", "serial"), Say>>,
   pmwf |-> Pmwf,
   pmwr |-> <<Say, Call("pmw_init", "any"), Say>>,
   cpi |-> <<Call("pmw_get_sensitivity", "any"), Say>>,
   cpi_N |-> <<Say, Call("pmw_set_sensitivity", "user"), Say>>,
   angle |-> <<Call("pmw_get_angle", "any"), Say>>,
   angle_N |-> <<Say, Call("pmw_set_angle", "user"), Say>>,
   reset |-> <<Op("reset")>>,
   data |-> <<Say, MayReturn("mount"), Say, Op("line"),
              Call("pmw_dump_data", "file"), Call("debug_msc_pmw3360_frame", "any"),
              Call("debug_msc_pmw_stats", "any"), Say>>,
   help |-> <<Say>>]

Command == DOMAIN Console
Program(fn) == IF fn \in Command THEN Console[fn] ELSE Driver[fn]
-----------------------------------------------------------------------------
\* A frame of the stack: the function, the operation it is at, its argument,
\* what it has read, and whether a command ran inside one of its prints.
Unread == [reg \in Reg |-> "reset"]
Frame(fn, arg) ==
  [fn |-> fn, at |-> 1, arg |-> arg, got |-> Unread, nested |-> FALSE]

Idle == stack = <<>>
Top == Last(stack)
Code == Program(Top.fn)
Done == Top.at > Len(Code)
Doing(op) == ~Idle /\ ~Done /\ Code[Top.at].op = op
Now == Code[Top.at]

SetTop(frame) == Append(Front(stack), frame)
Skip(n) == stack' = SetTop([Top EXCEPT !.at = @ + n])

\* The interrupt can run: it is enabled and has a handler.
Live == irq /\ handler

\* What pmw_init finds after a reset of the sensor.
Fresh == [reg \in Reg |-> IF reg = "frame" THEN "none" ELSE "reset"]

\* The data byte a write sends: a constant, the argument, sense_y, or
\* REG_CONFIG2 as it was read, with the bit that splits the axes.
Data == IF Now.val = "arg" THEN Top.arg
        ELSE IF Now.val = "config1" THEN Top.got["config1"]
        ELSE IF Now.val = "config2"
             THEN (IF Top.got["config2"] = "off" THEN "split" ELSE "corrupt")
        ELSE Now.val

\* What is left of a reset: main starts again, the sensor keeps its registers.
Restart ==
  /\ stack' = <<Frame("main", "any")>>
  /\ irq' = FALSE
  /\ handler' = FALSE
  /\ ok' = FALSE
  /\ use_pmw' = TRUE
  /\ UNCHANGED <<regs, commands, upsets>>

\* pmw_irq_start, pmw_irq_stop
SwitchIrq ==
  /\ Doing("irq")
  /\ irq' = Now.on
  /\ Skip(1)
  /\ UNCHANGED <<regs, handler, ok, use_pmw, commands, upsets>>

\* pmw_read_register.  If the interrupt hits, chip select is released in the
\* middle and the result is whatever the bus holds.
ReadRegister ==
  /\ Doing("read")
  /\ \E hit \in (IF Live THEN BOOLEAN ELSE {FALSE}) :
       stack' = SetTop([Top EXCEPT !.at = @ + 1,
                  !.got = [reg \in Reg |->
                    IF reg # Now.reg THEN @[reg]
                    ELSE IF hit THEN "corrupt" ELSE regs[reg]]])
  /\ UNCHANGED <<regs, irq, handler, ok, use_pmw, commands, upsets>>

\* pmw_write_register.  If the interrupt hits, the write may be lost, or the
\* sensor takes the first byte of the interrupt's transaction for the data.
WriteRegister ==
  /\ Doing("write")
  /\ IF Now.reg \in Reg
     THEN \E v \in {Data} \cup (IF Live THEN {regs[Now.reg], "corrupt"} ELSE {}) :
            regs' = [regs EXCEPT ![Now.reg] = v]
     ELSE regs' = IF Now.reg = "power_up" THEN Fresh ELSE regs
  /\ Skip(1)
  /\ UNCHANGED <<irq, handler, ok, use_pmw, commands, upsets>>

CallFunction ==
  /\ Doing("call")
  /\ stack' = Append(SetTop([Top EXCEPT !.at = @ + 1]), Frame(Now.fn, Now.arg))
  /\ UNCHANGED <<regs, irq, handler, ok, use_pmw, commands, upsets>>

Return ==
  /\ ~Idle
  /\ Done
  /\ stack' = Front(stack)
  /\ UNCHANGED <<regs, irq, handler, ok, use_pmw, commands, upsets>>

\* The errors: pmw_init finds no sensor or its firmware is broken, the file
\* system cannot be mounted, the file opened, written or closed.  The function
\* prints which, and returns.
MayFail ==
  /\ Doing("return")
  /\ \/ Skip(1) /\ ok' = ok
     \/ /\ Now.why \in {"open", "close"} => Top.arg # "serial"
        /\ stack' = Append(SetTop([Top EXCEPT !.at = Len(Code) + 1]), Frame("debug", "any"))
        /\ ok' = IF Now.why = "init" THEN FALSE ELSE ok
  /\ UNCHANGED <<regs, irq, handler, use_pmw, commands, upsets>>

\* The comparisons that skip what follows: sense_y = sense_x, a living sensor,
\* and a line that does not say data.
Decide ==
  /\ \/ Doing("same") /\ Skip(IF Top.got["config1"] = Top.got["config5"] THEN 3 ELSE 1)
     \/ (Doing("alive") \/ Doing("line")) /\ \E n \in {1, 3} : Skip(n)
  /\ UNCHANGED <<regs, irq, handler, ok, use_pmw, commands, upsets>>

\* pmw_irq_init
IrqInit ==
  /\ Doing("irq_init")
  /\ handler' = TRUE
  /\ irq' = TRUE
  /\ ok' = TRUE
  /\ Skip(1)
  /\ UNCHANGED <<regs, use_pmw, commands, upsets>>

Booted ==
  /\ Doing("booted")
  /\ use_pmw' = ok
  /\ Skip(1)
  /\ UNCHANGED <<regs, irq, handler, ok, commands, upsets>>

\* All output has gone to the host ...
Said ==
  /\ Doing("say")
  /\ Skip(1)
  /\ UNCHANGED <<regs, irq, handler, ok, use_pmw, commands, upsets>>

\* reset_to_main
ResetToMain ==
  /\ Doing("reset")
  /\ Restart
-----------------------------------------------------------------------------
\* During boot there is no terminal yet, and output is dropped.
Connected == stack[1].fn # "main"

\* ... or the host does not take it, and the watchdog ends usb_cdc_write's
\* loop; ...
Watchdog ==
  /\ Doing("say")
  /\ Connected
  /\ Restart

\* ... or tud_task delivers a line while it is under way.
NestedCommand(cmd) ==
  /\ Doing("say")
  /\ Connected
  /\ commands < MaxCommands
  /\ Cardinality({k \in DOMAIN stack : stack[k].fn \in Command}) < MaxNest
  /\ commands' = commands + 1
  /\ stack' = Append(SetTop([Top EXCEPT !.nested = TRUE]), Frame(cmd, "any"))
  /\ UNCHANGED <<regs, irq, handler, ok, use_pmw, upsets>>

\* The main loop is at usb_run or cnsl_run and a line arrives or is repeated.
MainCommand(cmd) ==
  /\ Idle
  /\ commands < MaxCommands
  /\ commands' = commands + 1
  /\ stack' = <<Frame(cmd, "any")>>
  /\ UNCHANGED <<regs, irq, handler, ok, use_pmw, upsets>>

\* pmw_run is due.
HealthCheck ==
  /\ Idle
  /\ use_pmw
  /\ stack' = <<Frame("pmw_run", "any")>>
  /\ UNCHANGED <<regs, irq, handler, ok, use_pmw, commands, upsets>>

\* hid_task calls pmw_get, which, if the interrupt had seen any motion, ends
\* with the interrupt enabled.
HidTask ==
  /\ Idle
  /\ \/ irq' = irq
     \/ handler /\ irq' = TRUE
  /\ UNCHANGED <<stack, regs, handler, ok, use_pmw, commands, upsets>>

\* pmw_dump_data waits for the MOTION pin: somebody moves the ball.
BallMoves ==
  /\ Doing("wait")
  /\ Skip(1)
  /\ UNCHANGED <<regs, irq, handler, ok, use_pmw, commands, upsets>>

\* The sensor loses one of the two settings pmw_get_sensitivity compares.
Upset ==
  /\ Idle
  /\ upsets < MaxUpsets
  /\ upsets' = upsets + 1
  /\ \E reg \in {"config1", "config5"} : regs' = [regs EXCEPT ![reg] = "corrupt"]
  /\ UNCHANGED <<stack, irq, handler, ok, use_pmw, commands>>

Init ==
  /\ stack = <<Frame("main", "any")>>
  /\ regs = Fresh
  /\ irq = FALSE
  /\ handler = FALSE
  /\ ok = FALSE
  /\ use_pmw = TRUE
  /\ commands = 0
  /\ upsets = 0

\* The processor goes on with the function it is in.
Execute ==
  \/ SwitchIrq \/ ReadRegister \/ WriteRegister \/ CallFunction \/ Return
  \/ MayFail \/ Decide \/ IrqInit \/ Booted \/ Said \/ ResetToMain

Next ==
  \/ Execute
  \/ Watchdog \/ HealthCheck \/ HidTask \/ BallMoves \/ Upset
  \/ \E cmd \in Command : NestedCommand(cmd) \/ MainCommand(cmd)

Spec == Init /\ [][Next]_vars

\* The processor does not stop, and the main loop comes round to
\* pmw_run again and again, which is due every second.
FairSpec == Spec /\ WF_vars(Execute) /\ WF_vars(HealthCheck)
-----------------------------------------------------------------------------
Argument == {"any", "serial", "file", "default", "user", "data", "pmwf"}
Frames ==
  [fn : Command \cup DOMAIN Driver, at : Nat, arg : Argument,
   got : [Reg -> UNION {ValueOf[reg] : reg \in Reg}], nested : BOOLEAN]

\* The stack holds functions of Program at one of their operations, and each
\* register a value the driver, a reset or a hit interrupt may leave there.
TypeOK ==
  /\ stack \in Seq(Frames)
  /\ \A k \in DOMAIN stack : stack[k].at \in 1 .. Len(Program(stack[k].fn)) + 1
  /\ regs \in [Reg -> UNION {ValueOf[reg] : reg \in Reg}]
  /\ \A reg \in Reg : regs[reg] \in ValueOf[reg]
  /\ {irq, handler, ok, use_pmw} \subseteq BOOLEAN
  /\ commands \in 0 .. MaxCommands
  /\ upsets \in 0 .. MaxUpsets

\* The interrupt never shares the SPI bus with a transaction of the driver,
\* but for two: the lift setting of a second pmw_init (pmw3360.c:570 comes
\* after the pmw_irq_start in pmw_set_sensitivity), and what follows output
\* in which another command ran, which ends with the interrupt enabled
\* (pmw3360.c:560-566 after 533-537, and 356 after 355).
BusUnshared ==
  /\ ~Idle
  /\ Live
  /\ Doing("read") \/ Doing("write")
  => \/ Now.reg = "lift"
     \/ Top.nested /\ Now.reg \in {"config2", "config5"}

\* Both axes have the same sensitivity whenever anybody can look, in the main
\* loop and at every output, unless the sensor lost one: pmw_set_sensitivity
\* writes them one by one, pmw_init and other commands in between.
AxesAgree ==
  upsets = 0 /\ (Idle \/ Doing("say")) => regs["config1"] = regs["config5"]

\* If the sensor lost one, pmw_get_sensitivity leaves them equal again, for
\* as long as no command changed the sensitivity behind its back.
AxesRepaired ==
  ~Idle /\ Top.fn = "pmw_get_sensitivity" /\ Done /\ ~Top.nested
     => regs["config1"] = regs["config5"]

\* When pmw_init succeeds the sensor has the defaults for sensitivity and
\* angle, whatever commands ran in its output, and tracks motion with split
\* axes unless one did.
InitConfigures ==
  Doing("irq_init") =>
    /\ \A reg \in {"config1", "config5", "angle"} : regs[reg] = "default"
    /\ ~Top.nested => regs["config2"] = "split" /\ regs["frame"] = "none"

\* The command pmwf never leaves the sensor in frame capture, where it reports
\* no motion: at the main loop only the command data has done so.
FrameCaptureEnds == Idle => regs["frame"] # "pmwf"

\* In the main loop the interrupt is off only after an initialisation that
\* failed, or after data (whose statistics file could not be opened).
IrqOnAtRest ==
  Idle /\ use_pmw /\ ~irq => ~ok \/ regs["frame"] = "data"

\* Whatever has turned the interrupt off, it comes back, unless main has
\* given up the sensor or pmw_dump_data waits for the ball.
IrqComesBack == []<>(irq \/ ~use_pmw \/ Doing("wait"))
=============================================================================
