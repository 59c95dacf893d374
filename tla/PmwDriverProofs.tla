--------------------------- MODULE PmwDriverProofs ---------------------------
(* Proofs about PmwDriver: who has the bus, what the sensor is left with    *)
(* and whether the interrupt comes back, for any number of commands, nested *)
(* in each other's output to any depth, and of lost settings.               *)
EXTENDS PmwDriver, SequenceTheorems, TLAPS

-----------------------------------------------------------------------------
\* Functions that leave the bus to those they call.
Plain ==
  Command \cup {"pmw_run", "main", "debug_msc_pmw3360_frame", "debug_msc_pmw_stats", "debug"}
Setters == {"pmw_set_sensitivity", "pmw_set_angle"}

\* f has the bus for itself: between its Stop and its Start, but after output
\* only if no command ran in it.
Off(f) ==
  \/ f.fn = "pmw_set_sensitivity" /\ f.at \in {2, 3, 4}
  \/ f.fn = "pmw_get_sensitivity" /\ f.at \in {2, 3, 4}
  \/ f.fn = "pmw_get_sensitivity" /\ f.at \in {5, 6, 7} /\ ~f.nested
  \/ f.fn \in {"pmw_set_angle", "pmw_get_angle"} /\ f.at \in {2, 3}
  \/ f.fn = "pmw_is_alive" /\ f.at \in {2, 3, 4}
  \/ f.fn = "pmw_frame_capture" /\ f.at \in {2, 3, 4, 5}
  \/ f.fn = "pmw_dump_data" /\ f.at \in {4, 5, 6}
  \/ f.fn = "pmw_init" /\ f.at \in {2, 3, 4, 5}
  \/ f.fn = "pmw_init" /\ f.at \in {6, 7, 8, 9, 10} /\ ~f.nested

\* What f knows of the registers r when it runs.
Knows(f, r) ==
  /\ f.fn = "pmw_set_sensitivity" =>
       /\ f.at \in {3, 4, 5} => r["config1"] = f.arg
       /\ f.at \in {4, 5} => r["config5"] = f.arg
  /\ f.fn = "pmw_set_angle" /\ f.at \in {3, 4} => r["angle"] = f.arg
  /\ f.fn = "pmw_frame_capture" /\ f.at \in {4, 5, 6} => r["frame"] = f.arg
  /\ f.fn = "pmw_get_sensitivity" =>
       /\ f.at \in {3, 4} \/ (f.at \in {5, 6} /\ ~f.nested) => f.got["config1"] = r["config1"]
       /\ f.at = 4 => f.got["config5"] = r["config5"]
       /\ f.at \in {7, 8} /\ ~f.nested => r["config1"] = r["config5"]
  /\ f.fn = "pmw_init" =>
       /\ ~f.nested =>
            /\ f.at \in {3, 4, 5, 6, 7, 8, 9, 10, 11, 12, 13, 14} => r["frame"] = "none"
            /\ f.at = 9 => r["config2"] = "off"
            /\ f.at = 10 => f.got["config2"] = "off"
            /\ f.at \in {11, 12, 13, 14} => r["config2"] = "split"
       /\ f.at \in {12, 13, 14} => r["config1"] = "default" /\ r["config5"] = "default"
       /\ f.at = 14 => r["angle"] = "default"

\* What f knows that has called g, of the registers r.
Knew(f, g, r) ==
  f.fn = "pmw_init" /\ g.fn \in Setters =>
    /\ ~f.nested => r["frame"] = "none" /\ r["config2"] = "split"
    /\ g.fn = "pmw_set_angle" => r["config1"] = "default" /\ r["config5"] = "default"

\* What may run in the output of a function or be called by it: g above f.
Above(f, g) ==
  \/ /\ g.fn \in Command /\ f.nested
     /\ \/ f.fn \in Plain \ {"main"}
        \/ f.fn = "pmw_get_sensitivity" /\ f.at = 5
        \/ f.fn = "pmw_init" /\ f.at = 6
        \/ f.fn = "pmw_dump_data" /\ f.at \in {2, 7}
  \/ g.fn = "pmw_set_sensitivity" /\ g.arg = "default" /\ f.fn = "pmw_init" /\ f.at = 12
  \/ g.fn = "pmw_set_angle" /\ g.arg = "default" /\ f.fn = "pmw_init" /\ f.at = 14
  \/ g.fn = "pmw_frame_capture" /\ g.arg = "pmwf" /\ f.fn = "pmwf" /\ f.at = 2
  \/ g.fn = "pmw_frame_capture" /\ g.arg = "data" /\ f.fn = "debug_msc_pmw3360_frame"
  \/ g.fn \in DOMAIN Driver \ {"main", "pmw_frame_capture"} /\ f.fn \in Plain
  \/ g.fn = "debug" /\ f.fn = "pmw_init" /\ f.at = 15
  \/ g.fn = "debug" /\ f.fn = "pmw_dump_data" /\ f.at = 10

FrameOK(f, used) ==
  /\ f.at \in 1 .. Len(Program(f.fn)) + 1
  /\ f.fn \in Setters => f.arg \in {"default", "user"}
  /\ f.fn = "pmw_frame_capture" => f.arg \in {"pmwf", "data"}
  /\ f.got["config1"] \in Setting
  /\ f.fn = "main" /\ f.at <= 2 => used

\* f will initialise the sensor; will turn the interrupt on, or fail.
WillInit(f) ==
  \/ f.fn = "pmwf" /\ f.at \in {2, 3}
  \/ f.fn = "pmw_init" /\ f.at \in {1, 2}
  \/ f.fn = "main" /\ f.at = 1
Restores(f) ==
  \/ f.fn = "pmw_set_sensitivity" /\ f.at \in {2, 3, 4}
  \/ f.fn = "pmw_get_sensitivity" /\ f.at \in {2, 3, 4, 5, 6, 7}
  \/ f.fn \in {"pmw_set_angle", "pmw_get_angle"} /\ f.at \in {2, 3}
  \/ f.fn = "pmw_is_alive" /\ f.at \in {2, 3, 4}
  \/ f.fn = "pmw_frame_capture" /\ f.at \in {2, 3}
  \/ f.fn = "pmwf" /\ f.at \in {2, 3}
  \/ f.fn = "pmw_dump_data" /\ f.at \in {4, 5, 6, 7, 8}
  \/ f.fn = "pmw_init" /\ f.at \in {1, 2, 3, 4, 5, 6, 7, 8, 9, 10, 11, 12, 13, 14}

\* f is between the two axes; writes one because it found them apart.
Midway(f) == f.fn = "pmw_set_sensitivity" /\ f.at = 3
Repairs(f) == f.fn = "pmw_get_sensitivity" /\ f.at \in {5, 6}

Typed ==
  /\ stack \in Seq(Frames)
  /\ regs \in [Reg -> UNION {ValueOf[reg] : reg \in Reg}]
  /\ \A reg \in Reg : regs[reg] \in ValueOf[reg]
  /\ irq \in BOOLEAN /\ handler \in BOOLEAN /\ ok \in BOOLEAN /\ use_pmw \in BOOLEAN
  /\ commands \in 0 .. MaxCommands /\ upsets \in 0 .. MaxUpsets

Shape ==
  /\ \A k \in 1 .. Len(stack) : FrameOK(stack[k], use_pmw)
  /\ ~Idle => stack[1].fn \in Command \cup {"main", "pmw_run"}
  /\ \A k \in 2 .. Len(stack) : Above(stack[k - 1], stack[k])

Informed ==
  /\ ~Idle => (Off(Top) => ~irq) /\ Knows(Top, regs)
  /\ Len(stack) >= 2 => Knew(stack[Len(stack) - 1], Top, regs)

Equal ==
  upsets = 0 =>
    /\ Idle \/ ~Midway(Top) => regs["config1"] = regs["config5"]
    /\ \A k \in 1 .. Len(stack) : ~Repairs(stack[k])

Captured == regs["frame"] = "pmwf" => \E k \in 1 .. Len(stack) : WillInit(stack[k])

Resting ==
  \/ irq \/ ~ok \/ regs["frame"] = "data" \/ ~use_pmw
  \/ \E k \in 1 .. Len(stack) : Restores(stack[k])

Ordered == Shape /\ Informed /\ Equal /\ Captured /\ Resting
IInv == Typed /\ Ordered
-----------------------------------------------------------------------------
\* ----- The functions, operation by operation.
IrqAt(o, on) == o.op = "irq" /\ o.on = on
ReadAt(o, reg) == o.op = "read" /\ o.reg = reg
WriteAt(o, reg, val) == o.op = "write" /\ o.reg = reg /\ o.val = val
CallAt(o, fn, arg) == o.op = "call" /\ o.fn = fn /\ o.arg = arg
MayAt(o, why) == o.op = "return" /\ o.why = why

(* The operations are known by their op. *)
LEMMA Operations ==
  /\ IrqAt(Stop, FALSE) /\ IrqAt(Start, TRUE) /\ Say.op = "say"
  /\ \A reg : ReadAt(Read(reg), reg)
  /\ \A reg, val : WriteAt(Write(reg, val), reg, val)
  /\ \A fn, arg : CallAt(Call(fn, arg), fn, arg)
  /\ \A why : MayAt(MayReturn(why), why)
  /\ \A name : Op(name).op = name
BY DEF Stop, Start, Say, Read, Write, Call, MayReturn, Op, IrqAt, ReadAt, WriteAt, CallAt, MayAt

(* What the functions are called. *)
LEMMA Names ==
  /\ Command = {"pmws", "pmwd", "pmwf", "pmwr", "cpi", "cpi_N", "angle", "angle_N", "reset",
                "data", "help"}
  /\ DOMAIN Driver = {"pmw_set_sensitivity", "pmw_get_sensitivity", "pmw_set_angle",
                      "pmw_get_angle", "pmw_is_alive", "pmw_frame_capture", "pmw_dump_data",
                      "pmw_init", "pmw_run", "main", "debug_msc_pmw3360_frame",
                      "debug_msc_pmw_stats", "debug"}
BY DEF Command, Console, Driver

\* pmw_set_sensitivity at its operation i
InSetSensitivity(i, o) ==
  \/ i = 1 /\ IrqAt(o, FALSE)
  \/ i = 2 /\ WriteAt(o, "config1", "arg")
  \/ i = 3 /\ WriteAt(o, "config5", "arg")
  \/ i = 4 /\ IrqAt(o, TRUE)

(* It is so at each. *)
LEMMA InSetSensitivityTable ==
  /\ Program("pmw_set_sensitivity") = PmwSetSensitivity /\ Len(PmwSetSensitivity) = 4
  /\ \A i \in 1 .. 4 : InSetSensitivity(i, PmwSetSensitivity[i])
<1>1. Program("pmw_set_sensitivity") = PmwSetSensitivity
  BY Names DEF Program, Driver
<1>2. /\ PmwSetSensitivity[1] = Stop /\ PmwSetSensitivity[2] = Write("config1", "arg")
      /\ PmwSetSensitivity[3] = Write("config5", "arg") /\ PmwSetSensitivity[4] = Start
      /\ Len(PmwSetSensitivity) = 4
  BY DEF PmwSetSensitivity
<1>3. \A i \in 1 .. 4 : i = 1 \/ i = 2 \/ i = 3 \/ i = 4
  OBVIOUS
<1>4. /\ InSetSensitivity(1, PmwSetSensitivity[1])
      /\ InSetSensitivity(2, PmwSetSensitivity[2])
      /\ InSetSensitivity(3, PmwSetSensitivity[3])
      /\ InSetSensitivity(4, PmwSetSensitivity[4])
  BY <1>2, Operations DEF InSetSensitivity
<1>. QED  BY <1>1, <1>2, <1>3, <1>4

\* pmw_get_sensitivity at its operation i
InGetSensitivity(i, o) ==
  \/ i = 1 /\ IrqAt(o, FALSE)
  \/ i = 2 /\ ReadAt(o, "config1")
  \/ i = 3 /\ ReadAt(o, "config5")
  \/ i = 4 /\ o.op = "same"
  \/ i = 5 /\ o.op = "say"
  \/ i = 6 /\ WriteAt(o, "config5", "config1")
  \/ i = 7 /\ IrqAt(o, TRUE)

(* It is so at each. *)
LEMMA InGetSensitivityTable ==
  /\ Program("pmw_get_sensitivity") = PmwGetSensitivity /\ Len(PmwGetSensitivity) = 7
  /\ \A i \in 1 .. 7 : InGetSensitivity(i, PmwGetSensitivity[i])
<1>1. Program("pmw_get_sensitivity") = PmwGetSensitivity
  BY Names DEF Program, Driver
<1>2. /\ PmwGetSensitivity[1] = Stop /\ PmwGetSensitivity[2] = Read("config1")
      /\ PmwGetSensitivity[3] = Read("config5") /\ PmwGetSensitivity[4] = Op("same")
      /\ PmwGetSensitivity[5] = Say
      /\ PmwGetSensitivity[6] = Write("config5", "config1")
      /\ PmwGetSensitivity[7] = Start /\ Len(PmwGetSensitivity) = 7
  BY DEF PmwGetSensitivity
<1>3. \A i \in 1 .. 7 : i = 1 \/ i = 2 \/ i = 3 \/ i = 4 \/ i = 5 \/ i = 6 \/ i = 7
  OBVIOUS
<1>4. /\ InGetSensitivity(1, PmwGetSensitivity[1])
      /\ InGetSensitivity(2, PmwGetSensitivity[2])
      /\ InGetSensitivity(3, PmwGetSensitivity[3])
      /\ InGetSensitivity(4, PmwGetSensitivity[4])
  BY <1>2, Operations DEF InGetSensitivity
<1>5. /\ InGetSensitivity(5, PmwGetSensitivity[5])
      /\ InGetSensitivity(6, PmwGetSensitivity[6])
      /\ InGetSensitivity(7, PmwGetSensitivity[7])
  BY <1>2, Operations DEF InGetSensitivity
<1>. QED  BY <1>1, <1>2, <1>3, <1>4, <1>5

\* pmw_set_angle at its operation i
InSetAngle(i, o) ==
  \/ i = 1 /\ IrqAt(o, FALSE)
  \/ i = 2 /\ WriteAt(o, "angle", "arg")
  \/ i = 3 /\ IrqAt(o, TRUE)

(* It is so at each. *)
LEMMA InSetAngleTable ==
  /\ Program("pmw_set_angle") = PmwSetAngle /\ Len(PmwSetAngle) = 3
  /\ \A i \in 1 .. 3 : InSetAngle(i, PmwSetAngle[i])
<1>1. Program("pmw_set_angle") = PmwSetAngle
  BY Names DEF Program, Driver
<1>2. /\ PmwSetAngle[1] = Stop /\ PmwSetAngle[2] = Write("angle", "arg")
      /\ PmwSetAngle[3] = Start /\ Len(PmwSetAngle) = 3
  BY DEF PmwSetAngle
<1>3. \A i \in 1 .. 3 : i = 1 \/ i = 2 \/ i = 3
  OBVIOUS
<1>4. /\ InSetAngle(1, PmwSetAngle[1]) /\ InSetAngle(2, PmwSetAngle[2])
      /\ InSetAngle(3, PmwSetAngle[3])
  BY <1>2, Operations DEF InSetAngle
<1>. QED  BY <1>1, <1>2, <1>3, <1>4

\* pmw_get_angle at its operation i
InGetAngle(i, o) ==
  \/ i = 1 /\ IrqAt(o, FALSE)
  \/ i = 2 /\ ReadAt(o, "angle")
  \/ i = 3 /\ IrqAt(o, TRUE)

(* It is so at each. *)
LEMMA InGetAngleTable ==
  /\ Program("pmw_get_angle") = PmwGetAngle /\ Len(PmwGetAngle) = 3
  /\ \A i \in 1 .. 3 : InGetAngle(i, PmwGetAngle[i])
<1>1. Program("pmw_get_angle") = PmwGetAngle
  BY Names DEF Program, Driver
<1>2. /\ PmwGetAngle[1] = Stop /\ PmwGetAngle[2] = Read("angle")
      /\ PmwGetAngle[3] = Start /\ Len(PmwGetAngle) = 3
  BY DEF PmwGetAngle
<1>3. \A i \in 1 .. 3 : i = 1 \/ i = 2 \/ i = 3
  OBVIOUS
<1>4. /\ InGetAngle(1, PmwGetAngle[1]) /\ InGetAngle(2, PmwGetAngle[2])
      /\ InGetAngle(3, PmwGetAngle[3])
  BY <1>2, Operations DEF InGetAngle
<1>. QED  BY <1>1, <1>2, <1>3, <1>4

\* pmw_is_alive at its operation i
InIsAlive(i, o) ==
  \/ i = 1 /\ IrqAt(o, FALSE)
  \/ i = 2 /\ ReadAt(o, "id")
  \/ i = 3 /\ ReadAt(o, "id")
  \/ i = 4 /\ IrqAt(o, TRUE)

(* It is so at each. *)
LEMMA InIsAliveTable ==
  /\ Program("pmw_is_alive") = PmwIsAlive /\ Len(PmwIsAlive) = 4
  /\ \A i \in 1 .. 4 : InIsAlive(i, PmwIsAlive[i])
<1>1. Program("pmw_is_alive") = PmwIsAlive
  BY Names DEF Program, Driver
<1>2. /\ PmwIsAlive[1] = Stop /\ PmwIsAlive[2] = Read("id")
      /\ PmwIsAlive[3] = Read("id") /\ PmwIsAlive[4] = Start /\ Len(PmwIsAlive) = 4
  BY DEF PmwIsAlive
<1>3. \A i \in 1 .. 4 : i = 1 \/ i = 2 \/ i = 3 \/ i = 4
  OBVIOUS
<1>4. /\ InIsAlive(1, PmwIsAlive[1]) /\ InIsAlive(2, PmwIsAlive[2])
      /\ InIsAlive(3, PmwIsAlive[3]) /\ InIsAlive(4, PmwIsAlive[4])
  BY <1>2, Operations DEF InIsAlive
<1>. QED  BY <1>1, <1>2, <1>3, <1>4

\* pmw_frame_capture at its operation i
InFrameCapture(i, o) ==
  \/ i = 1 /\ IrqAt(o, FALSE)
  \/ i = 2 /\ WriteAt(o, "config2", "off")
  \/ i = 3 /\ WriteAt(o, "frame", "arg")
  \/ i = 4 /\ WriteAt(o, "frame", "arg")
  \/ i = 5 /\ ReadAt(o, "burst")

(* It is so at each. *)
LEMMA InFrameCaptureTable ==
  /\ Program("pmw_frame_capture") = PmwFrameCapture /\ Len(PmwFrameCapture) = 5
  /\ \A i \in 1 .. 5 : InFrameCapture(i, PmwFrameCapture[i])
<1>1. Program("pmw_frame_capture") = PmwFrameCapture
  BY Names DEF Program, Driver
<1>2. /\ PmwFrameCapture[1] = Stop /\ PmwFrameCapture[2] = Write("config2", "off")
      /\ PmwFrameCapture[3] = Write("frame", "arg")
      /\ PmwFrameCapture[4] = Write("frame", "arg")
      /\ PmwFrameCapture[5] = Read("burst") /\ Len(PmwFrameCapture) = 5
  BY DEF PmwFrameCapture
<1>3. \A i \in 1 .. 5 : i = 1 \/ i = 2 \/ i = 3 \/ i = 4 \/ i = 5
  OBVIOUS
<1>4. /\ InFrameCapture(1, PmwFrameCapture[1]) /\ InFrameCapture(2, PmwFrameCapture[2])
      /\ InFrameCapture(3, PmwFrameCapture[3]) /\ InFrameCapture(4, PmwFrameCapture[4])
  BY <1>2, Operations DEF InFrameCapture
<1>5. InFrameCapture(5, PmwFrameCapture[5])
  BY <1>2, Operations DEF InFrameCapture
<1>. QED  BY <1>1, <1>2, <1>3, <1>4, <1>5

\* pmw_dump_data at its operation i
InDumpData(i, o) ==
  \/ i = 1 /\ MayAt(o, "open")
  \/ i = 2 /\ o.op = "say"
  \/ i = 3 /\ IrqAt(o, FALSE)
  \/ i = 4 /\ o.op = "wait"
  \/ i = 5 /\ WriteAt(o, "burst", "any")
  \/ i = 6 /\ ReadAt(o, "burst")
  \/ i = 7 /\ o.op = "say"
  \/ i = 8 /\ IrqAt(o, TRUE)
  \/ i = 9 /\ MayAt(o, "close")

(* It is so at each. *)
LEMMA InDumpDataTable ==
  /\ Program("pmw_dump_data") = PmwDumpData /\ Len(PmwDumpData) = 9
  /\ \A i \in 1 .. 9 : InDumpData(i, PmwDumpData[i])
<1>1. Program("pmw_dump_data") = PmwDumpData
  BY Names DEF Program, Driver
<1>2. /\ PmwDumpData[1] = MayReturn("open") /\ PmwDumpData[2] = Say
      /\ PmwDumpData[3] = Stop /\ PmwDumpData[4] = Op("wait")
      /\ PmwDumpData[5] = Write("burst", "any") /\ PmwDumpData[6] = Read("burst")
      /\ PmwDumpData[7] = Say /\ PmwDumpData[8] = Start
      /\ PmwDumpData[9] = MayReturn("close") /\ Len(PmwDumpData) = 9
  BY DEF PmwDumpData
<1>3. \A i \in 1 .. 9 : i = 1 \/ i = 2 \/ i = 3 \/ i = 4 \/ i = 5 \/ i = 6 \/ i = 7 \/ i = 8
          \/ i = 9
  OBVIOUS
<1>4. /\ InDumpData(1, PmwDumpData[1]) /\ InDumpData(2, PmwDumpData[2])
      /\ InDumpData(3, PmwDumpData[3]) /\ InDumpData(4, PmwDumpData[4])
  BY <1>2, Operations DEF InDumpData
<1>5. /\ InDumpData(5, PmwDumpData[5]) /\ InDumpData(6, PmwDumpData[6])
      /\ InDumpData(7, PmwDumpData[7]) /\ InDumpData(8, PmwDumpData[8])
      /\ InDumpData(9, PmwDumpData[9])
  BY <1>2, Operations DEF InDumpData
<1>. QED  BY <1>1, <1>2, <1>3, <1>4, <1>5

\* pmw_init at its operation i
InInit(i, o) ==
  \/ i = 1 /\ IrqAt(o, FALSE)
  \/ i = 2 /\ WriteAt(o, "power_up", "any")
  \/ i = 3 /\ ReadAt(o, "id")
  \/ i = 4 /\ WriteAt(o, "srom", "any")
  \/ i = 5 /\ ReadAt(o, "id")
  \/ i = 6 /\ o.op = "say"
  \/ i = 7 /\ MayAt(o, "init")
  \/ i = 8 /\ WriteAt(o, "config2", "off")
  \/ i = 9 /\ ReadAt(o, "config2")
  \/ i = 10 /\ WriteAt(o, "config2", "config2")
  \/ i = 11 /\ CallAt(o, "pmw_set_sensitivity", "default")
  \/ i = 12 /\ WriteAt(o, "lift", "max")
  \/ i = 13 /\ CallAt(o, "pmw_set_angle", "default")
  \/ i = 14 /\ o.op = "irq_init"

(* It is so at each. *)
LEMMA InInitTable ==
  /\ Program("pmw_init") = PmwInit /\ Len(PmwInit) = 14
  /\ \A i \in 1 .. 14 : InInit(i, PmwInit[i])
<1>1. Program("pmw_init") = PmwInit
  BY Names DEF Program, Driver
<1>2. /\ PmwInit[1] = Stop /\ PmwInit[2] = Write("power_up", "any")
      /\ PmwInit[3] = Read("id") /\ PmwInit[4] = Write("srom", "any")
      /\ PmwInit[5] = Read("id") /\ PmwInit[6] = Say /\ PmwInit[7] = MayReturn("init")
      /\ PmwInit[8] = Write("config2", "off") /\ PmwInit[9] = Read("config2")
      /\ PmwInit[10] = Write("config2", "config2")
      /\ PmwInit[11] = Call("pmw_set_sensitivity", "default")
      /\ PmwInit[12] = Write("lift", "max")
      /\ PmwInit[13] = Call("pmw_set_angle", "default") /\ PmwInit[14] = Op("irq_init")
      /\ Len(PmwInit) = 14
  BY DEF PmwInit
<1>3. \A i \in 1 .. 14 : i = 1 \/ i = 2 \/ i = 3 \/ i = 4 \/ i = 5 \/ i = 6 \/ i = 7 \/ i = 8 \/ i = 9
          \/ i = 10 \/ i = 11 \/ i = 12 \/ i = 13 \/ i = 14
  OBVIOUS
<1>4. /\ InInit(1, PmwInit[1]) /\ InInit(2, PmwInit[2]) /\ InInit(3, PmwInit[3])
      /\ InInit(4, PmwInit[4])
  BY <1>2, Operations DEF InInit
<1>5. /\ InInit(5, PmwInit[5]) /\ InInit(6, PmwInit[6]) /\ InInit(7, PmwInit[7])
      /\ InInit(8, PmwInit[8])
  BY <1>2, Operations DEF InInit
<1>6. /\ InInit(9, PmwInit[9]) /\ InInit(10, PmwInit[10]) /\ InInit(11, PmwInit[11])
      /\ InInit(12, PmwInit[12])
  BY <1>2, Operations DEF InInit
<1>7. /\ InInit(13, PmwInit[13]) /\ InInit(14, PmwInit[14])
  BY <1>2, Operations DEF InInit
<1>. QED  BY <1>1, <1>2, <1>3, <1>4, <1>5, <1>6, <1>7

\* pmw_run at its operation i
InRun(i, o) ==
  \/ i = 1 /\ CallAt(o, "pmw_is_alive", "any")
  \/ i = 2 /\ o.op = "alive"
  \/ i = 3 /\ o.op = "say"
  \/ i = 4 /\ o.op = "reset"

(* It is so at each. *)
LEMMA InRunTable ==
  /\ Program("pmw_run") = PmwRun /\ Len(PmwRun) = 4
  /\ \A i \in 1 .. 4 : InRun(i, PmwRun[i])
<1>1. Program("pmw_run") = PmwRun
  BY Names DEF Program, Driver
<1>2. /\ PmwRun[1] = Call("pmw_is_alive", "any") /\ PmwRun[2] = Op("alive")
      /\ PmwRun[3] = Say /\ PmwRun[4] = Op("reset") /\ Len(PmwRun) = 4
  BY DEF PmwRun
<1>3. \A i \in 1 .. 4 : i = 1 \/ i = 2 \/ i = 3 \/ i = 4
  OBVIOUS
<1>4. /\ InRun(1, PmwRun[1]) /\ InRun(2, PmwRun[2]) /\ InRun(3, PmwRun[3])
      /\ InRun(4, PmwRun[4])
  BY <1>2, Operations DEF InRun
<1>. QED  BY <1>1, <1>2, <1>3, <1>4

\* main at its operation i
InBoot(i, o) ==
  \/ i = 1 /\ CallAt(o, "pmw_init", "any")
  \/ i = 2 /\ o.op = "booted"

(* It is so at each. *)
LEMMA InBootTable ==
  /\ Program("main") = Boot /\ Len(Boot) = 2
  /\ \A i \in 1 .. 2 : InBoot(i, Boot[i])
<1>1. Program("main") = Boot
  BY Names DEF Program, Driver
<1>2. /\ Boot[1] = Call("pmw_init", "any") /\ Boot[2] = Op("booted") /\ Len(Boot) = 2
  BY DEF Boot
<1>3. \A i \in 1 .. 2 : i = 1 \/ i = 2
  OBVIOUS
<1>4. /\ InBoot(1, Boot[1]) /\ InBoot(2, Boot[2])
  BY <1>2, Operations DEF InBoot
<1>. QED  BY <1>1, <1>2, <1>3, <1>4

\* debug_msc_pmw3360_frame at its operation i
InDebugFrame(i, o) ==
  \/ i = 1 /\ MayAt(o, "open")
  \/ i = 2 /\ CallAt(o, "pmw_frame_capture", "data")
  \/ i = 3 /\ MayAt(o, "write")

(* It is so at each. *)
LEMMA InDebugFrameTable ==
  /\ Program("debug_msc_pmw3360_frame") = DebugFrame /\ Len(DebugFrame) = 3
  /\ \A i \in 1 .. 3 : InDebugFrame(i, DebugFrame[i])
<1>1. Program("debug_msc_pmw3360_frame") = DebugFrame
  BY Names DEF Program, Driver
<1>2. /\ DebugFrame[1] = MayReturn("open")
      /\ DebugFrame[2] = Call("pmw_frame_capture", "data")
      /\ DebugFrame[3] = MayReturn("write") /\ Len(DebugFrame) = 3
  BY DEF DebugFrame
<1>3. \A i \in 1 .. 3 : i = 1 \/ i = 2 \/ i = 3
  OBVIOUS
<1>4. /\ InDebugFrame(1, DebugFrame[1]) /\ InDebugFrame(2, DebugFrame[2])
      /\ InDebugFrame(3, DebugFrame[3])
  BY <1>2, Operations DEF InDebugFrame
<1>. QED  BY <1>1, <1>2, <1>3, <1>4

\* debug_msc_pmw_stats at its operation i
InDebugStats(i, o) ==
  \/ i = 1 /\ MayAt(o, "open")
  \/ i = 2 /\ CallAt(o, "pmw_is_alive", "any")
  \/ i = 3 /\ MayAt(o, "write")

(* It is so at each. *)
LEMMA InDebugStatsTable ==
  /\ Program("debug_msc_pmw_stats") = DebugStats /\ Len(DebugStats) = 3
  /\ \A i \in 1 .. 3 : InDebugStats(i, DebugStats[i])
<1>1. Program("debug_msc_pmw_stats") = DebugStats
  BY Names DEF Program, Driver
<1>2. /\ DebugStats[1] = MayReturn("open")
      /\ DebugStats[2] = Call("pmw_is_alive", "any")
      /\ DebugStats[3] = MayReturn("write") /\ Len(DebugStats) = 3
  BY DEF DebugStats
<1>3. \A i \in 1 .. 3 : i = 1 \/ i = 2 \/ i = 3
  OBVIOUS
<1>4. /\ InDebugStats(1, DebugStats[1]) /\ InDebugStats(2, DebugStats[2])
      /\ InDebugStats(3, DebugStats[3])
  BY <1>2, Operations DEF InDebugStats
<1>. QED  BY <1>1, <1>2, <1>3, <1>4

\* debug at its operation i
InDebug(i, o) == i = 1 /\ o.op = "say"

(* It is so at it. *)
LEMMA InDebugTable ==
  /\ Program("debug") = Debug /\ Len(Debug) = 1
  /\ \A i \in 1 .. 1 : InDebug(i, Debug[i])
<1>1. Program("debug") = Debug
  BY Names DEF Program, Driver
<1>2. Debug[1] = Say /\ Len(Debug) = 1
  BY DEF Debug
<1>3. \A i \in 1 .. 1 : i = 1
  OBVIOUS
<1>4. InDebug(1, Debug[1])
  BY <1>2, Operations DEF InDebug
<1>. QED  BY <1>1, <1>2, <1>3, <1>4

\* pmwf at its operation i
InPmwf(i, o) ==
  \/ i = 1 /\ CallAt(o, "pmw_frame_capture", "pmwf")
  \/ i = 2 /\ o.op = "say"
  \/ i = 3 /\ CallAt(o, "pmw_init", "any")
  \/ i = 4 /\ o.op = "say"

(* It is so at each. *)
LEMMA InPmwfTable ==
  /\ Program("pmwf") = Pmwf /\ Len(Pmwf) = 4
  /\ \A i \in 1 .. 4 : InPmwf(i, Pmwf[i])
<1>1. Program("pmwf") = Pmwf
  BY Names DEF Program, Console
<1>2. /\ Pmwf[1] = Call("pmw_frame_capture", "pmwf") /\ Pmwf[2] = Say
      /\ Pmwf[3] = Call("pmw_init", "any") /\ Pmwf[4] = Say /\ Len(Pmwf) = 4
  BY DEF Pmwf
<1>3. \A i \in 1 .. 4 : i = 1 \/ i = 2 \/ i = 3 \/ i = 4
  OBVIOUS
<1>4. /\ InPmwf(1, Pmwf[1]) /\ InPmwf(2, Pmwf[2]) /\ InPmwf(3, Pmwf[3])
      /\ InPmwf(4, Pmwf[4])
  BY <1>2, Operations DEF InPmwf
<1>. QED  BY <1>1, <1>2, <1>3, <1>4

\* The commands but pmwf: they print, and call what does not capture a frame.
Args == {"any", "serial", "file", "user"}
Plainly(o) ==
  \/ o.op \in {"say", "reset"}
  \/ MayAt(o, "mount")
  \/ /\ o.op = "call" /\ o.fn \in DOMAIN Driver \ {"main", "pmw_frame_capture"} /\ o.arg \in Args
     /\ o.fn \in Setters => o.arg = "user"
\* ... and data asks what the line says.
LineAt(fn, i, o) == fn = "data" /\ i = 4 /\ o.op = "line"

(* So are all operations the commands use. *)
LEMMA PlainOps ==
  /\ Plainly(Say) /\ Plainly(MayReturn("mount")) /\ Plainly(Op("reset"))
  /\ \A fn \in DOMAIN Driver \ ({"main", "pmw_frame_capture"} \cup Setters) :
       \A arg \in Args : Plainly(Call(fn, arg))
  /\ \A fn \in Setters : Plainly(Call(fn, "user"))
<1>1. Plainly(Say) /\ Plainly(MayReturn("mount")) /\ Plainly(Op("reset"))
  BY Operations DEF Plainly
<1>2. ASSUME NEW fn \in DOMAIN Driver \ ({"main", "pmw_frame_capture"} \cup Setters), NEW arg \in Args
      PROVE  Plainly(Call(fn, arg))
  BY Operations DEF Plainly, CallAt
<1>3. ASSUME NEW fn \in Setters PROVE Plainly(Call(fn, "user"))
  BY Operations, Names DEF Plainly, CallAt, Setters, Args
<1>. QED  BY <1>1, <1>2, <1>3

(* It is so for every one of them. *)
LEMMA CommandTable ==
  ASSUME NEW fn \in Command \ {"pmwf"}
  PROVE  /\ Len(Program(fn)) \in Nat
         /\ \A i \in 1 .. Len(Program(fn)) :
              Plainly(Program(fn)[i]) \/ LineAt(fn, i, Program(fn)[i])
<1>1. CASE fn = "pmws"
  <2>1. PICK p : p = <<Call("pmw_is_alive", "any"), Say>>
    OBVIOUS
  <2>2. Program(fn) = p
    BY <1>1, <2>1, Names DEF Program, Console
  <2>3. /\ p[1] = Call("pmw_is_alive", "any") /\ p[2] = Say /\ Len(p) = 2
    BY <2>1
  <2>4. \A i \in 1 .. 2 : i = 1 \/ i = 2
    OBVIOUS
  <2>5. /\ Plainly(Call("pmw_is_alive", "any")) /\ Plainly(Say)
    BY PlainOps, Names DEF Setters, Args
  <2>. QED  BY <2>2, <2>3, <2>4, <2>5
<1>2. CASE fn = "pmwd"
  <2>1. PICK p : p = <<Call("pmw_dump_data", "serial"), Say>>
    OBVIOUS
  <2>2. Program(fn) = p
    BY <1>2, <2>1, Names DEF Program, Console
  <2>3. /\ p[1] = Call("pmw_dump_data", "serial") /\ p[2] = Say /\ Len(p) = 2
    BY <2>1
  <2>4. \A i \in 1 .. 2 : i = 1 \/ i = 2
    OBVIOUS
  <2>5. /\ Plainly(Call("pmw_dump_data", "serial")) /\ Plainly(Say)
    BY PlainOps, Names DEF Setters, Args
  <2>. QED  BY <2>2, <2>3, <2>4, <2>5
<1>3. CASE fn = "pmwr"
  <2>1. PICK p : p = <<Say, Call("pmw_init", "any"), Say>>
    OBVIOUS
  <2>2. Program(fn) = p
    BY <1>3, <2>1, Names DEF Program, Console
  <2>3. /\ p[1] = Say /\ p[2] = Call("pmw_init", "any") /\ p[3] = Say /\ Len(p) = 3
    BY <2>1
  <2>4. \A i \in 1 .. 3 : i = 1 \/ i = 2 \/ i = 3
    OBVIOUS
  <2>5. /\ Plainly(Call("pmw_init", "any")) /\ Plainly(Say)
    BY PlainOps, Names DEF Setters, Args
  <2>. QED  BY <2>2, <2>3, <2>4, <2>5
<1>4. CASE fn = "cpi"
  <2>1. PICK p : p = <<Call("pmw_get_sensitivity", "any"), Say>>
    OBVIOUS
  <2>2. Program(fn) = p
    BY <1>4, <2>1, Names DEF Program, Console
  <2>3. /\ p[1] = Call("pmw_get_sensitivity", "any") /\ p[2] = Say /\ Len(p) = 2
    BY <2>1
  <2>4. \A i \in 1 .. 2 : i = 1 \/ i = 2
    OBVIOUS
  <2>5. /\ Plainly(Call("pmw_get_sensitivity", "any")) /\ Plainly(Say)
    BY PlainOps, Names DEF Setters, Args
  <2>. QED  BY <2>2, <2>3, <2>4, <2>5
<1>5. CASE fn = "cpi_N"
  <2>1. PICK p : p = <<Say, Call("pmw_set_sensitivity", "user"), Say>>
    OBVIOUS
  <2>2. Program(fn) = p
    BY <1>5, <2>1, Names DEF Program, Console
  <2>3. /\ p[1] = Say /\ p[2] = Call("pmw_set_sensitivity", "user") /\ p[3] = Say
        /\ Len(p) = 3
    BY <2>1
  <2>4. \A i \in 1 .. 3 : i = 1 \/ i = 2 \/ i = 3
    OBVIOUS
  <2>5. /\ Plainly(Call("pmw_set_sensitivity", "user")) /\ Plainly(Say)
    BY PlainOps, Names DEF Setters, Args
  <2>. QED  BY <2>2, <2>3, <2>4, <2>5
<1>6. CASE fn = "angle"
  <2>1. PICK p : p = <<Call("pmw_get_angle", "any"), Say>>
    OBVIOUS
  <2>2. Program(fn) = p
    BY <1>6, <2>1, Names DEF Program, Console
  <2>3. /\ p[1] = Call("pmw_get_angle", "any") /\ p[2] = Say /\ Len(p) = 2
    BY <2>1
  <2>4. \A i \in 1 .. 2 : i = 1 \/ i = 2
    OBVIOUS
  <2>5. /\ Plainly(Call("pmw_get_angle", "any")) /\ Plainly(Say)
    BY PlainOps, Names DEF Setters, Args
  <2>. QED  BY <2>2, <2>3, <2>4, <2>5
<1>7. CASE fn = "angle_N"
  <2>1. PICK p : p = <<Say, Call("pmw_set_angle", "user"), Say>>
    OBVIOUS
  <2>2. Program(fn) = p
    BY <1>7, <2>1, Names DEF Program, Console
  <2>3. /\ p[1] = Say /\ p[2] = Call("pmw_set_angle", "user") /\ p[3] = Say
        /\ Len(p) = 3
    BY <2>1
  <2>4. \A i \in 1 .. 3 : i = 1 \/ i = 2 \/ i = 3
    OBVIOUS
  <2>5. /\ Plainly(Call("pmw_set_angle", "user")) /\ Plainly(Say)
    BY PlainOps, Names DEF Setters, Args
  <2>. QED  BY <2>2, <2>3, <2>4, <2>5
<1>8. CASE fn = "reset"
  <2>1. PICK p : p = <<Op("reset")>>
    OBVIOUS
  <2>2. Program(fn) = p
    BY <1>8, <2>1, Names DEF Program, Console
  <2>3. /\ p[1] = Op("reset") /\ Len(p) = 1
    BY <2>1
  <2>4. \A i \in 1 .. 1 : i = 1
    OBVIOUS
  <2>5. Plainly(Op("reset"))
    BY PlainOps, Names DEF Setters, Args
  <2>. QED  BY <2>2, <2>3, <2>4, <2>5
<1>9. CASE fn = "data"
  <2>1. PICK p : p = <<Say, MayReturn("mount"), Say, Op("line"), Call("pmw_dump_data", "file"), Call("debug_msc_pmw3360_frame", "any"), Call("debug_msc_pmw_stats", "any"), Say>>
    OBVIOUS
  <2>2. Program(fn) = p
    BY <1>9, <2>1, Names DEF Program, Console
  <2>3. /\ p[1] = Say /\ p[2] = MayReturn("mount") /\ p[3] = Say /\ p[4] = Op("line")
        /\ p[5] = Call("pmw_dump_data", "file")
        /\ p[6] = Call("debug_msc_pmw3360_frame", "any")
        /\ p[7] = Call("debug_msc_pmw_stats", "any") /\ p[8] = Say /\ Len(p) = 8
    BY <2>1
  <2>4. \A i \in 1 .. 8 : i = 1 \/ i = 2 \/ i = 3 \/ i = 4 \/ i = 5 \/ i = 6 \/ i = 7 \/ i = 8
    OBVIOUS
  <2>5. /\ Plainly(Call("debug_msc_pmw3360_frame", "any"))
        /\ Plainly(Call("debug_msc_pmw_stats", "any"))
        /\ Plainly(Call("pmw_dump_data", "file")) /\ Plainly(MayReturn("mount"))
        /\ Plainly(Say)
    BY PlainOps, Names DEF Setters, Args
  <2>6. \A i \in 1 .. 8 : i # 4 => Plainly(p[i])
    BY <2>3, <2>4, <2>5
  <2>7. LineAt(fn, 4, p[4])
    BY <1>9, <2>3, Operations DEF LineAt
  <2>. QED  BY <2>2, <2>3, <2>4, <2>6, <2>7
<1>10. CASE fn = "help"
  <2>1. PICK p : p = <<Say>>
    OBVIOUS
  <2>2. Program(fn) = p
    BY <1>10, <2>1, Names DEF Program, Console
  <2>3. /\ p[1] = Say /\ Len(p) = 1
    BY <2>1
  <2>4. \A i \in 1 .. 1 : i = 1
    OBVIOUS
  <2>5. Plainly(Say)
    BY PlainOps, Names DEF Setters, Args
  <2>. QED  BY <2>2, <2>3, <2>4, <2>5
<1>. QED  BY <1>1, <1>2, <1>3, <1>4, <1>5, <1>6, <1>7, <1>8, <1>9, <1>10, Names

(* How many operations each function has. *)
LEMMA Lengths ==
  /\ \A fn \in Command \cup DOMAIN Driver : Len(Program(fn)) \in Nat
  /\ Len(Program("pmw_get_sensitivity")) = 7 /\ Len(Program("pmw_run")) = 4
  /\ Len(Program("main")) = 2 /\ Len(Program("data")) = 8
<1>1. \A fn \in DOMAIN Driver \cup {"pmwf"} : Len(Program(fn)) \in Nat
  BY Names, InSetSensitivityTable, InGetSensitivityTable, InSetAngleTable, InGetAngleTable, InIsAliveTable, InFrameCaptureTable, InDumpDataTable, InInitTable, InRunTable, InBootTable, InDebugFrameTable, InDebugStatsTable, InDebugTable, InPmwfTable
<1>2. Len(Program("data")) = 8
  <2>1. PICK p : p = <<Say, MayReturn("mount"), Say, Op("line"), Call("pmw_dump_data", "file"), Call("debug_msc_pmw3360_frame", "any"), Call("debug_msc_pmw_stats", "any"), Say>>
    OBVIOUS
  <2>2. Program("data") = p
    BY <2>1, Names DEF Program, Console
  <2>3. Len(p) = 8
    BY <2>1
  <2>. QED  BY <2>2, <2>3
<1>. QED  BY <1>1, <1>2, CommandTable, InGetSensitivityTable, InRunTable, InBootTable

\* The operation o of the function fn at i.
Place(fn, i, o) ==
  \/ fn = "pmw_set_sensitivity" /\ InSetSensitivity(i, o)
  \/ fn = "pmw_get_sensitivity" /\ InGetSensitivity(i, o)
  \/ fn = "pmw_set_angle" /\ InSetAngle(i, o)
  \/ fn = "pmw_get_angle" /\ InGetAngle(i, o)
  \/ fn = "pmw_is_alive" /\ InIsAlive(i, o)
  \/ fn = "pmw_frame_capture" /\ InFrameCapture(i, o)
  \/ fn = "pmw_dump_data" /\ InDumpData(i, o)
  \/ fn = "pmw_init" /\ InInit(i, o)
  \/ fn = "pmw_run" /\ InRun(i, o)
  \/ fn = "main" /\ InBoot(i, o)
  \/ fn = "debug_msc_pmw3360_frame" /\ InDebugFrame(i, o)
  \/ fn = "debug_msc_pmw_stats" /\ InDebugStats(i, o)
  \/ fn = "debug" /\ InDebug(i, o)
  \/ fn = "pmwf" /\ InPmwf(i, o)
  \/ fn \in Command \ {"pmwf"} /\ (Plainly(o) \/ LineAt(fn, i, o))

(* Every operation of every function is in its place. *)
LEMMA Places ==
  ASSUME NEW fn \in Command \cup DOMAIN Driver, NEW i \in 1 .. Len(Program(fn))
  PROVE  Place(fn, i, Program(fn)[i])
<1>1. CASE fn = "pmw_set_sensitivity"
  BY <1>1, InSetSensitivityTable DEF Place
<1>2. CASE fn = "pmw_get_sensitivity"
  BY <1>2, InGetSensitivityTable DEF Place
<1>3. CASE fn = "pmw_set_angle"
  BY <1>3, InSetAngleTable DEF Place
<1>4. CASE fn = "pmw_get_angle"
  BY <1>4, InGetAngleTable DEF Place
<1>5. CASE fn = "pmw_is_alive"
  BY <1>5, InIsAliveTable DEF Place
<1>6. CASE fn = "pmw_frame_capture"
  BY <1>6, InFrameCaptureTable DEF Place
<1>7. CASE fn = "pmw_dump_data"
  BY <1>7, InDumpDataTable DEF Place
<1>8. CASE fn = "pmw_init"
  BY <1>8, InInitTable DEF Place
<1>9. CASE fn = "pmw_run"
  BY <1>9, InRunTable DEF Place
<1>10. CASE fn = "main"
  BY <1>10, InBootTable DEF Place
<1>11. CASE fn = "debug_msc_pmw3360_frame"
  BY <1>11, InDebugFrameTable DEF Place
<1>12. CASE fn = "debug_msc_pmw_stats"
  BY <1>12, InDebugStatsTable DEF Place
<1>13. CASE fn = "pmwf"
  BY <1>13, InPmwfTable DEF Place
<1>14. CASE fn \in Command \ {"pmwf"}
  BY <1>14, CommandTable DEF Place
<1>15. CASE fn = "debug"
  BY <1>15, InDebugTable DEF Place
<1>. QED  BY <1>1, <1>2, <1>3, <1>4, <1>5, <1>6, <1>7, <1>8, <1>9, <1>10, <1>11, <1>12, <1>13, <1>14,
             <1>15, Names

\* Where f may be when it switches the interrupt ...
IrqPlace(f, o) ==
  \/ f.fn = "pmw_set_sensitivity" /\ f.at = 1 /\ o.on = FALSE
  \/ f.fn = "pmw_set_sensitivity" /\ f.at = 4 /\ o.on = TRUE
  \/ f.fn = "pmw_get_sensitivity" /\ f.at = 1 /\ o.on = FALSE
  \/ f.fn = "pmw_get_sensitivity" /\ f.at = 7 /\ o.on = TRUE
  \/ f.fn = "pmw_set_angle" /\ f.at = 1 /\ o.on = FALSE
  \/ f.fn = "pmw_set_angle" /\ f.at = 3 /\ o.on = TRUE
  \/ f.fn = "pmw_get_angle" /\ f.at = 1 /\ o.on = FALSE
  \/ f.fn = "pmw_get_angle" /\ f.at = 3 /\ o.on = TRUE
  \/ f.fn = "pmw_is_alive" /\ f.at = 1 /\ o.on = FALSE
  \/ f.fn = "pmw_is_alive" /\ f.at = 4 /\ o.on = TRUE
  \/ f.fn = "pmw_frame_capture" /\ f.at = 1 /\ o.on = FALSE
  \/ f.fn = "pmw_dump_data" /\ f.at = 3 /\ o.on = FALSE
  \/ f.fn = "pmw_dump_data" /\ f.at = 8 /\ o.on = TRUE
  \/ f.fn = "pmw_init" /\ f.at = 1 /\ o.on = FALSE
\* ... reads a register ...
ReadPlace(f, o) ==
  \/ f.fn = "pmw_get_sensitivity" /\ f.at = 2 /\ o.reg = "config1"
  \/ f.fn = "pmw_get_sensitivity" /\ f.at = 3 /\ o.reg = "config5"
  \/ f.fn = "pmw_get_angle" /\ f.at = 2 /\ o.reg = "angle"
  \/ f.fn = "pmw_is_alive" /\ f.at = 2 /\ o.reg = "id"
  \/ f.fn = "pmw_is_alive" /\ f.at = 3 /\ o.reg = "id"
  \/ f.fn = "pmw_frame_capture" /\ f.at = 5 /\ o.reg = "burst"
  \/ f.fn = "pmw_dump_data" /\ f.at = 6 /\ o.reg = "burst"
  \/ f.fn = "pmw_init" /\ f.at = 3 /\ o.reg = "id"
  \/ f.fn = "pmw_init" /\ f.at = 5 /\ o.reg = "id"
  \/ f.fn = "pmw_init" /\ f.at = 9 /\ o.reg = "config2"
\* ... writes one ...
WritePlace(f, o) ==
  \/ f.fn = "pmw_set_sensitivity" /\ f.at = 2 /\ o.reg = "config1" /\ o.val = "arg"
  \/ f.fn = "pmw_set_sensitivity" /\ f.at = 3 /\ o.reg = "config5" /\ o.val = "arg"
  \/ f.fn = "pmw_get_sensitivity" /\ f.at = 6 /\ o.reg = "config5" /\ o.val = "config1"
  \/ f.fn = "pmw_set_angle" /\ f.at = 2 /\ o.reg = "angle" /\ o.val = "arg"
  \/ f.fn = "pmw_frame_capture" /\ f.at = 2 /\ o.reg = "config2" /\ o.val = "off"
  \/ f.fn = "pmw_frame_capture" /\ f.at = 3 /\ o.reg = "frame" /\ o.val = "arg"
  \/ f.fn = "pmw_frame_capture" /\ f.at = 4 /\ o.reg = "frame" /\ o.val = "arg"
  \/ f.fn = "pmw_dump_data" /\ f.at = 5 /\ o.reg = "burst" /\ o.val = "any"
  \/ f.fn = "pmw_init" /\ f.at = 2 /\ o.reg = "power_up" /\ o.val = "any"
  \/ f.fn = "pmw_init" /\ f.at = 4 /\ o.reg = "srom" /\ o.val = "any"
  \/ f.fn = "pmw_init" /\ f.at = 8 /\ o.reg = "config2" /\ o.val = "off"
  \/ f.fn = "pmw_init" /\ f.at = 10 /\ o.reg = "config2" /\ o.val = "config2"
  \/ f.fn = "pmw_init" /\ f.at = 12 /\ o.reg = "lift" /\ o.val = "max"
\* ... prints ...
SayPlace(f) ==
  \/ f.fn = "pmw_get_sensitivity" /\ f.at = 5
  \/ f.fn = "pmw_dump_data" /\ f.at \in {2, 7}
  \/ f.fn = "pmw_init" /\ f.at = 6
  \/ f.fn = "pmw_run" /\ f.at = 3
  \/ f.fn = "debug"
  \/ f.fn = "pmwf" /\ f.at \in {2, 4}
  \/ f.fn \in Command \ {"pmwf"}
\* ... calls ...
CallPlace(f, o) ==
  \/ f.fn = "pmw_init" /\ f.at = 11 /\ o.fn = "pmw_set_sensitivity" /\ o.arg = "default"
  \/ f.fn = "pmw_init" /\ f.at = 13 /\ o.fn = "pmw_set_angle" /\ o.arg = "default"
  \/ f.fn = "pmw_run" /\ f.at = 1 /\ o.fn = "pmw_is_alive" /\ o.arg = "any"
  \/ f.fn = "main" /\ f.at = 1 /\ o.fn = "pmw_init" /\ o.arg = "any"
  \/ f.fn = "debug_msc_pmw3360_frame" /\ f.at = 2 /\ o.fn = "pmw_frame_capture" /\ o.arg = "data"
  \/ f.fn = "debug_msc_pmw_stats" /\ f.at = 2 /\ o.fn = "pmw_is_alive" /\ o.arg = "any"
  \/ f.fn = "pmwf" /\ f.at = 1 /\ o.fn = "pmw_frame_capture" /\ o.arg = "pmwf"
  \/ f.fn = "pmwf" /\ f.at = 3 /\ o.fn = "pmw_init" /\ o.arg = "any"
  \/ /\ f.fn \in Command \ {"pmwf"}
     /\ o.fn \in DOMAIN Driver \ {"main", "pmw_frame_capture"} /\ o.arg \in Args
     /\ o.fn \in Setters => o.arg = "user"
\* ... returns before its end, and the rest.
MayPlace(f, o) ==
  \/ f.fn = "pmw_dump_data" /\ f.at \in {1, 9}
  \/ f.fn = "pmw_init" /\ f.at = 7 /\ o.why = "init"
  \/ f.fn \in {"debug_msc_pmw3360_frame", "debug_msc_pmw_stats"}
  \/ f.fn \in Command \ {"pmwf"}
OtherPlace(f, o) ==
  /\ o.op = "same" => f.fn = "pmw_get_sensitivity" /\ f.at = 4
  /\ o.op = "alive" => f.fn = "pmw_run" /\ f.at = 2
  /\ o.op = "line" => f.fn = "data" /\ f.at = 4
  /\ o.op = "wait" => f.fn = "pmw_dump_data" /\ f.at = 4
  /\ o.op = "irq_init" => f.fn = "pmw_init" /\ f.at = 14
  /\ o.op = "booted" => f.fn = "main" /\ f.at = 2
  /\ o.op = "reset" => f.fn = "pmw_run" \/ f.fn \in Command \ {"pmwf"}

(* The op of an operation tells where it is. *)
LEMMA OpPlaces ==
  ASSUME NEW f, NEW o, Place(f.fn, f.at, o)
  PROVE  /\ o.op = "irq" => IrqPlace(f, o)
         /\ o.op = "read" => ReadPlace(f, o)
         /\ o.op = "write" => WritePlace(f, o)
         /\ o.op = "say" => SayPlace(f)
         /\ o.op = "call" => CallPlace(f, o)
         /\ o.op = "return" => MayPlace(f, o)
         /\ OtherPlace(f, o)
<1>1. CASE f.fn = "pmw_set_sensitivity" /\ InSetSensitivity(f.at, o)
  BY <1>1, Names
     DEF InSetSensitivity, IrqPlace, ReadPlace, WritePlace, SayPlace, CallPlace, MayPlace, OtherPlace,
         IrqAt, ReadAt, WriteAt, CallAt, MayAt
<1>2. CASE f.fn = "pmw_get_sensitivity" /\ InGetSensitivity(f.at, o)
  BY <1>2, Names
     DEF InGetSensitivity, IrqPlace, ReadPlace, WritePlace, SayPlace, CallPlace, MayPlace, OtherPlace,
         IrqAt, ReadAt, WriteAt, CallAt, MayAt
<1>3. CASE f.fn = "pmw_set_angle" /\ InSetAngle(f.at, o)
  BY <1>3, Names
     DEF InSetAngle, IrqPlace, ReadPlace, WritePlace, SayPlace, CallPlace, MayPlace, OtherPlace,
         IrqAt, ReadAt, WriteAt, CallAt, MayAt
<1>4. CASE f.fn = "pmw_get_angle" /\ InGetAngle(f.at, o)
  BY <1>4, Names
     DEF InGetAngle, IrqPlace, ReadPlace, WritePlace, SayPlace, CallPlace, MayPlace, OtherPlace,
         IrqAt, ReadAt, WriteAt, CallAt, MayAt
<1>5. CASE f.fn = "pmw_is_alive" /\ InIsAlive(f.at, o)
  BY <1>5, Names
     DEF InIsAlive, IrqPlace, ReadPlace, WritePlace, SayPlace, CallPlace, MayPlace, OtherPlace,
         IrqAt, ReadAt, WriteAt, CallAt, MayAt
<1>6. CASE f.fn = "pmw_frame_capture" /\ InFrameCapture(f.at, o)
  BY <1>6, Names
     DEF InFrameCapture, IrqPlace, ReadPlace, WritePlace, SayPlace, CallPlace, MayPlace, OtherPlace,
         IrqAt, ReadAt, WriteAt, CallAt, MayAt
<1>7. CASE f.fn = "pmw_dump_data" /\ InDumpData(f.at, o)
  BY <1>7, Names
     DEF InDumpData, IrqPlace, ReadPlace, WritePlace, SayPlace, CallPlace, MayPlace, OtherPlace,
         IrqAt, ReadAt, WriteAt, CallAt, MayAt
<1>8. CASE f.fn = "pmw_init" /\ InInit(f.at, o)
  BY <1>8, Names
     DEF InInit, IrqPlace, ReadPlace, WritePlace, SayPlace, CallPlace, MayPlace, OtherPlace,
         IrqAt, ReadAt, WriteAt, CallAt, MayAt
<1>9. CASE f.fn = "pmw_run" /\ InRun(f.at, o)
  BY <1>9, Names
     DEF InRun, IrqPlace, ReadPlace, WritePlace, SayPlace, CallPlace, MayPlace, OtherPlace,
         IrqAt, ReadAt, WriteAt, CallAt, MayAt
<1>10. CASE f.fn = "main" /\ InBoot(f.at, o)
  BY <1>10, Names
     DEF InBoot, IrqPlace, ReadPlace, WritePlace, SayPlace, CallPlace, MayPlace, OtherPlace,
         IrqAt, ReadAt, WriteAt, CallAt, MayAt
<1>11. CASE f.fn = "debug_msc_pmw3360_frame" /\ InDebugFrame(f.at, o)
  BY <1>11, Names
     DEF InDebugFrame, IrqPlace, ReadPlace, WritePlace, SayPlace, CallPlace, MayPlace, OtherPlace,
         IrqAt, ReadAt, WriteAt, CallAt, MayAt
<1>12. CASE f.fn = "debug_msc_pmw_stats" /\ InDebugStats(f.at, o)
  BY <1>12, Names
     DEF InDebugStats, IrqPlace, ReadPlace, WritePlace, SayPlace, CallPlace, MayPlace, OtherPlace,
         IrqAt, ReadAt, WriteAt, CallAt, MayAt
<1>13. CASE f.fn = "pmwf" /\ InPmwf(f.at, o)
  BY <1>13, Names
     DEF InPmwf, IrqPlace, ReadPlace, WritePlace, SayPlace, CallPlace, MayPlace, OtherPlace,
         IrqAt, ReadAt, WriteAt, CallAt, MayAt
<1>14. CASE f.fn \in Command \ {"pmwf"} /\ (Plainly(o) \/ LineAt(f.fn, f.at, o))
  BY <1>14, Names
     DEF Plainly, LineAt, IrqPlace, ReadPlace, WritePlace, SayPlace, CallPlace, MayPlace, OtherPlace,
         IrqAt, ReadAt, WriteAt, CallAt, MayAt
<1>15. CASE f.fn = "debug" /\ InDebug(f.at, o)
  BY <1>15, Names
     DEF InDebug, IrqPlace, ReadPlace, WritePlace, SayPlace, CallPlace, MayPlace, OtherPlace
<1>. QED  BY <1>1, <1>2, <1>3, <1>4, <1>5, <1>6, <1>7, <1>8, <1>9, <1>10, <1>11, <1>12, <1>13, <1>14,
             <1>15 DEF Place
-----------------------------------------------------------------------------
\* ----- The stack, as the function sees it that runs.
\* The stack t is s with g on top instead.
OnTop(s, t, g) ==
  /\ t \in Seq(Frames) /\ Len(t) = Len(s) /\ t[Len(s)] = g
  /\ \A k \in 1 .. Len(s) - 1 : t[k] = s[k]

(* Replacing the frame that runs leaves the others alone. *)
LEMMA TopReplaced ==
  ASSUME NEW s \in Seq(Frames), s # <<>>, NEW g \in Frames
  PROVE  OnTop(s, Append(Front(s), g), g)
<1>. PICK t : t = Append(Front(s), g)
  OBVIOUS
<1>1. PICK n \in Nat : n = Len(s) /\ n # 0
  OBVIOUS
<1>2. /\ Front(s) \in Seq(Frames) /\ Len(Front(s)) = n - 1
      /\ \A k \in 1 .. n - 1 : Front(s)[k] = s[k]
  BY <1>1 DEF Front
<1>3. t \in Seq(Frames) /\ Len(t) = n /\ t[n] = g /\ \A k \in 1 .. n - 1 : t[k] = s[k]
  <2>1. PICK u \in Seq(Frames) : u = Front(s)
    BY <1>2
  <2>2. Len(u) = n - 1 /\ t = Append(u, g) /\ \A k \in 1 .. n - 1 : u[k] = s[k]
    BY <1>2, <2>1
  <2>3. t \in Seq(Frames) /\ Len(t) = n - 1 + 1 /\ t[n - 1 + 1] = g
        /\ \A k \in 1 .. n - 1 : t[k] = u[k]
    BY <2>2
  <2>. QED  BY <1>1, <2>2, <2>3
<1>. QED  BY <1>1, <1>3 DEF OnTop

(* So does popping it. *)
LEMMA TopPopped ==
  ASSUME NEW s \in Seq(Frames), s # <<>>
  PROVE  /\ Front(s) \in Seq(Frames) /\ Len(Front(s)) = Len(s) - 1
         /\ \A k \in 1 .. Len(s) - 1 : Front(s)[k] = s[k]
<1>1. PICK n \in Nat : n = Len(s) /\ n # 0
  OBVIOUS
<1>2. /\ Front(s) \in Seq(Frames) /\ Len(Front(s)) = n - 1
      /\ \A k \in 1 .. n - 1 : Front(s)[k] = s[k]
  BY <1>1 DEF Front
<1>. QED  BY <1>1, <1>2

\* The stack t is s with f on top instead and g above it.
Above2(s, t, f, g) ==
  /\ t \in Seq(Frames) /\ Len(t) = Len(s) + 1 /\ t[Len(s)] = f /\ t[Len(s) + 1] = g
  /\ \A k \in 1 .. Len(s) - 1 : t[k] = s[k]

(* Calling a function is both replacing and pushing. *)
LEMMA TopCalls ==
  ASSUME NEW s \in Seq(Frames), s # <<>>, NEW f \in Frames, NEW g \in Frames
  PROVE  Above2(s, Append(Append(Front(s), f), g), f, g)
<1>1. PICK n \in Nat : n = Len(s) /\ n # 0
  OBVIOUS
<1>2. PICK u \in Seq(Frames) : u = Append(Front(s), f) /\ OnTop(s, u, f)
  BY TopReplaced DEF OnTop
<1>3. Len(u) = n /\ u[n] = f /\ \A k \in 1 .. n - 1 : u[k] = s[k]
  BY <1>1, <1>2 DEF OnTop
<1>4. PICK t : t = Append(u, g)
  OBVIOUS
<1>5. t \in Seq(Frames) /\ Len(t) = n + 1 /\ t[n + 1] = g /\ \A k \in 1 .. n : t[k] = u[k]
  BY <1>3, <1>4
<1>6. n \in 1 .. n /\ \A k \in 1 .. n - 1 : k \in 1 .. n
  BY <1>1
<1>7. t[n] = f /\ \A k \in 1 .. n - 1 : t[k] = s[k]
  BY <1>3, <1>5, <1>6
<1>. QED  BY <1>1, <1>2, <1>4, <1>5, <1>7 DEF Above2

\* What the frames below the one that runs will do.
Below == 1 .. Len(stack) - 1
InitBelow == \E k \in Below : WillInit(stack[k])
RestoredBelow == \E k \in Below : Restores(stack[k])

\* The invariant, as the function that runs sees it.
Seen ==
  /\ Top \in Frames /\ FrameOK(Top, use_pmw)
  /\ Off(Top) => ~irq
  /\ Knows(Top, regs)
  /\ upsets = 0 => ~Repairs(Top) /\ (~Midway(Top) => regs["config1"] = regs["config5"])
  /\ regs["frame"] = "pmwf" => WillInit(Top) \/ InitBelow
  /\ irq \/ ~ok \/ regs["frame"] = "data" \/ ~use_pmw \/ Restores(Top) \/ RestoredBelow
  /\ Top.fn = "main" => Len(stack) = 1

(* It follows. *)
LEMMA Sees == ASSUME IInv, ~Idle PROVE Seen
<1>1. PICK n \in Nat : n = Len(stack) /\ n # 0
  BY DEF IInv, Typed, Idle
<1>2. Top = stack[n] /\ Top \in Frames /\ n \in 1 .. n
  BY <1>1 DEF IInv, Typed, Idle, Top, Last
<1>3. \A k \in 1 .. n : k = n \/ k \in 1 .. n - 1
  BY <1>1
<1>4. FrameOK(Top, use_pmw)
  BY <1>1, <1>2 DEF IInv, Ordered, Shape
<1>5. (Off(Top) => ~irq) /\ Knows(Top, regs)
  BY DEF IInv, Ordered, Informed
<1>6. upsets = 0 => ~Repairs(Top) /\ (~Midway(Top) => regs["config1"] = regs["config5"])
  BY <1>1, <1>2 DEF IInv, Ordered, Equal
<1>7. regs["frame"] = "pmwf" => WillInit(Top) \/ InitBelow
  BY <1>1, <1>2, <1>3 DEF IInv, Ordered, Captured, InitBelow, Below
<1>8. irq \/ ~ok \/ regs["frame"] = "data" \/ ~use_pmw \/ Restores(Top) \/ RestoredBelow
  BY <1>1, <1>2, <1>3 DEF IInv, Ordered, Resting, RestoredBelow, Below
<1>9. Top.fn = "main" => n = 1
  <2>1. n # 1 => n \in 2 .. n
    BY <1>1
  <2>2. n # 1 => Above(stack[n - 1], Top)
    BY <1>1, <1>2, <2>1 DEF IInv, Ordered, Shape
  <2>. QED  BY <2>2, Names DEF Above
<1>. QED  BY <1>1, <1>2, <1>4, <1>5, <1>6, <1>7, <1>8, <1>9 DEF Seen

(* The operation that comes is in its place. *)
LEMMA Placed ==
  ASSUME Seen, ~Done
  PROVE  Place(Top.fn, Top.at, Now) /\ Top.at \in 1 .. Len(Program(Top.fn))
<1>1. Top.at \in 1 .. Len(Program(Top.fn)) + 1 /\ ~(Top.at > Len(Program(Top.fn)))
      /\ Top.fn \in Command \cup DOMAIN Driver
  BY DEF Seen, FrameOK, Done, Code, Frames
<1>2. Len(Program(Top.fn)) \in Nat
  BY <1>1, Lengths
<1>3. Top.at \in 1 .. Len(Program(Top.fn))
  BY <1>1, <1>2
<1>. QED  BY <1>1, <1>3, Places DEF Now, Code

(* What an action sees that runs the function on top. *)
LEMMA Running ==
  ASSUME IInv, NEW op, Doing(op)
  PROVE  /\ ~Idle /\ ~Done /\ Now.op = op /\ Seen /\ Top \in Frames /\ FrameOK(Top, use_pmw)
         /\ Top.at \in Nat /\ Top.at \in 1 .. Len(Program(Top.fn)) /\ Place(Top.fn, Top.at, Now)
<1>1. ~Idle /\ ~Done /\ Now.op = op
  BY DEF Doing, Now
<1>2. Seen
  BY <1>1, Sees
<1>3. Top \in Frames /\ FrameOK(Top, use_pmw) /\ Top.at \in Nat
  BY <1>2 DEF Seen, Frames
<1>4. Place(Top.fn, Top.at, Now) /\ Top.at \in 1 .. Len(Program(Top.fn))
  BY <1>1, <1>2, Placed
<1>. QED  BY <1>1, <1>2, <1>3, <1>4
-----------------------------------------------------------------------------
\* ----- One frame takes the place of another.
\* What the frame g, in the place of Top, has to promise after the step.
Promises(g) ==
  /\ g \in Frames /\ FrameOK(g, use_pmw') /\ g.fn = Top.fn /\ g.arg = Top.arg
  /\ Off(g) => ~irq'
  /\ Knows(g, regs')
  /\ upsets' = 0 => ~Repairs(g) /\ (~Midway(g) => regs'["config1"] = regs'["config5"])
  /\ regs'["frame"] = "pmwf" => WillInit(g) \/ InitBelow
  /\ irq' \/ ~ok' \/ regs'["frame"] = "data" \/ ~use_pmw' \/ Restores(g) \/ RestoredBelow

\* A step of a callee of pmw_init leaves what that knows.
Spares(r) ==
  /\ Top.fn \in Setters => r["frame"] = regs["frame"] /\ r["config2"] = regs["config2"]
  /\ Top.fn = "pmw_set_angle" => r["config1"] = regs["config1"] /\ r["config5"] = regs["config5"]

(* Then the invariant holds again. *)
LEMMA Stepped ==
  ASSUME IInv, ~Idle, NEW g, stack' = SetTop(g), Promises(g), Spares(regs'), upsets' = upsets,
         use_pmw' = use_pmw \/ Top.fn = "main"
  PROVE  stack' \in Seq(Frames) /\ Ordered'
<1>1. PICK n \in Nat : n = Len(stack) /\ n # 0
  BY DEF IInv, Typed, Idle
<1>2. /\ stack' \in Seq(Frames) /\ Len(stack') = n /\ stack'[n] = g
      /\ \A k \in 1 .. n - 1 : stack'[k] = stack[k]
  <2>1. stack \in Seq(Frames) /\ stack # <<>> /\ g \in Frames /\ stack' = Append(Front(stack), g)
    BY DEF IInv, Typed, Idle, Promises, SetTop
  <2>2. OnTop(stack, stack', g)
    BY <2>1, TopReplaced
  <2>. QED  BY <1>1, <2>2 DEF OnTop
<1>3. Top = stack[n] /\ Top' = g /\ ~Idle'
  BY <1>1, <1>2 DEF Top, Last, Idle
<1>4. /\ \A k \in 1 .. n : k = n \/ k \in 1 .. n - 1
      /\ \A k \in 1 .. n - 1 : k \in 1 .. n /\ k < n
      /\ n \in 1 .. n /\ 1 \in 1 .. n
      /\ \A k \in 2 .. n : k \in 1 .. n /\ k - 1 \in 1 .. n - 1
      /\ n >= 2 => n \in 2 .. n /\ n - 1 \in 1 .. n - 1
      /\ n = 1 => 1 .. n - 1 = {}
  BY <1>1
<1>5. g.fn = stack[n].fn /\ g.arg = stack[n].arg
  BY <1>3 DEF Promises
<1>6. \A k \in 1 .. n : stack'[k].fn = stack[k].fn /\ stack'[k].arg = stack[k].arg
  BY <1>2, <1>4, <1>5
<1>7. Seen /\ Shape
  BY Sees DEF IInv, Ordered
<1>8. Shape'
  <2>1. \A k \in 1 .. n : FrameOK(stack'[k], use_pmw')
    <3>1. ASSUME NEW k \in 1 .. n - 1 PROVE FrameOK(stack'[k], use_pmw')
      <4>1. FrameOK(stack[k], use_pmw) /\ n # 1
        BY <1>1, <1>4, <1>7, <3>1 DEF Shape
      <4>2. use_pmw' = use_pmw
        BY <1>1, <1>7, <4>1 DEF Seen
      <4>. QED  BY <1>2, <4>1, <4>2
    <3>2. FrameOK(g, use_pmw')
      BY DEF Promises
    <3>. QED  BY <1>2, <1>4, <3>1, <3>2
  <2>2. stack'[1].fn \in Command \cup {"main", "pmw_run"}
    BY <1>1, <1>4, <1>6, <1>7 DEF Shape
  <2>3. ASSUME NEW k \in 2 .. n
        PROVE  Above(stack'[k - 1], stack'[k])
    <3>1. Above(stack[k - 1], stack[k])
      BY <1>1, <1>7 DEF Shape
    <3>2. /\ stack'[k - 1] = stack[k - 1] /\ stack'[k].fn = stack[k].fn
          /\ stack'[k].arg = stack[k].arg
      BY <1>2, <1>4, <1>6
    <3>. QED  BY <3>1, <3>2 DEF Above
  <2>. QED  BY <1>2, <1>3, <2>1, <2>2, <2>3 DEF Shape
<1>9. Informed'
  <2>1. (Off(g) => ~irq') /\ Knows(g, regs')
    BY DEF Promises
  <2>2. ASSUME n >= 2 PROVE Knew(stack'[n - 1], g, regs')
    <3>1. Knew(stack[n - 1], Top, regs)
      BY <1>1, <2>2 DEF IInv, Ordered, Informed
    <3>2. stack'[n - 1] = stack[n - 1] /\ g.fn = Top.fn
      BY <1>2, <1>4, <2>2 DEF Promises
    <3>. QED  BY <3>1, <3>2 DEF Knew, Spares
  <2>. QED  BY <1>2, <1>3, <2>1, <2>2 DEF Informed
<1>10. Equal'
  <2>. SUFFICES ASSUME upsets' = 0 PROVE Equal'
    BY DEF Equal
  <2>1. ~Repairs(g) /\ (~Midway(g) => regs'["config1"] = regs'["config5"])
    BY DEF Promises
  <2>2. \A k \in 1 .. n : ~Repairs(stack[k])
    BY <1>1 DEF IInv, Ordered, Equal
  <2>3. \A k \in 1 .. n : ~Repairs(stack'[k])
    BY <1>2, <1>4, <2>1, <2>2
  <2>. QED  BY <1>2, <1>3, <2>1, <2>3 DEF Equal
<1>11. Captured'
  <2>1. regs'["frame"] = "pmwf" => WillInit(g) \/ \E k \in 1 .. n - 1 : WillInit(stack[k])
    BY <1>1 DEF Promises, InitBelow, Below
  <2>. QED  BY <1>2, <1>4, <2>1 DEF Captured
<1>12. Resting'
  <2>1. \/ irq' \/ ~ok' \/ regs'["frame"] = "data" \/ ~use_pmw'
        \/ Restores(g) \/ \E k \in 1 .. n - 1 : Restores(stack[k])
    BY <1>1 DEF Promises, RestoredBelow, Below
  <2>. QED  BY <1>2, <1>4, <2>1 DEF Resting
<1>. QED  BY <1>2, <1>8, <1>9, <1>10, <1>11, <1>12 DEF Ordered
-----------------------------------------------------------------------------
\* ----- One frame returns to the one below it.
(* The functions that leave the bus to others have nothing to know.          *)
LEMMA PlainKnows ==
  ASSUME NEW f, f.fn \in Plain, NEW r
  PROVE  /\ ~Off(f) /\ Knows(f, r) /\ ~Midway(f) /\ f.fn \notin Setters /\ f.fn # "pmw_init"
         /\ ~Repairs(f)
<1>1. f.fn \notin {"pmw_set_sensitivity", "pmw_get_sensitivity", "pmw_set_angle", "pmw_get_angle",
                   "pmw_is_alive", "pmw_frame_capture", "pmw_dump_data", "pmw_init"}
  BY Names DEF Plain
<1>. QED  BY <1>1 DEF Off, Knows, Midway, Setters, Repairs

(* A function that is returned to has the bus only where it had it before,   *)
(* and what it knows from before the call still holds.                       *)
LEMMA Revealed ==
  ASSUME NEW f, NEW g, NEW r, Above(f, g), Knows(g, r), Knew(f, g, r),
         g.fn = "pmw_set_sensitivity" => g.at = 5, g.fn = "pmw_set_angle" => g.at = 4
  PROVE  ~Off(f) /\ Knows(f, r) /\ ~Midway(f) /\ f.fn \notin Setters
<1>1. CASE f.fn \in Plain
  BY <1>1, PlainKnows
<1>2. CASE f.nested /\ f.fn = "pmw_get_sensitivity" /\ f.at = 5
  BY <1>2 DEF Off, Knows, Midway, Setters
<1>3. CASE f.nested /\ f.fn = "pmw_init" /\ f.at = 6
  BY <1>3 DEF Off, Knows, Midway, Setters
<1>4. CASE f.nested /\ f.fn = "pmw_dump_data" /\ f.at \in {2, 7}
  BY <1>4 DEF Off, Knows, Midway, Setters
<1>5. CASE g.fn = "pmw_set_sensitivity" /\ g.arg = "default" /\ f.fn = "pmw_init" /\ f.at = 12
  <2>1. r["config1"] = "default" /\ r["config5"] = "default"
    BY <1>5 DEF Knows
  <2>2. ~f.nested => r["frame"] = "none" /\ r["config2"] = "split"
    BY <1>5 DEF Knew, Setters
  <2>3. ~Off(f) /\ ~Midway(f) /\ f.fn \notin Setters
    BY <1>5 DEF Off, Midway, Setters
  <2>4. Knows(f, r)
    BY <1>5, <2>1, <2>2 DEF Knows
  <2>. QED  BY <2>3, <2>4
<1>6. CASE g.fn = "pmw_set_angle" /\ g.arg = "default" /\ f.fn = "pmw_init" /\ f.at = 14
  <2>1. r["angle"] = "default"
    BY <1>6 DEF Knows
  <2>2. /\ ~f.nested => r["frame"] = "none" /\ r["config2"] = "split"
        /\ r["config1"] = "default" /\ r["config5"] = "default"
    BY <1>6 DEF Knew, Setters
  <2>3. ~Off(f) /\ ~Midway(f) /\ f.fn \notin Setters
    BY <1>6 DEF Off, Midway, Setters
  <2>4. Knows(f, r)
    BY <1>6, <2>1, <2>2 DEF Knows
  <2>. QED  BY <2>3, <2>4
<1>7. f.fn \in {"pmwf", "debug_msc_pmw3360_frame"} => f.fn \in Plain
  BY Names DEF Plain
<1>8. CASE f.fn = "pmw_init" /\ f.at = 15
  BY <1>8 DEF Off, Knows, Midway, Setters
<1>9. CASE f.fn = "pmw_dump_data" /\ f.at = 10
  BY <1>9 DEF Off, Knows, Midway, Setters
<1>. QED  BY <1>1, <1>2, <1>3, <1>4, <1>5, <1>6, <1>7, <1>8, <1>9 DEF Above

\* Top has done what others may wait for.
Finished ==
  /\ ~Midway(Top) /\ ~WillInit(Top) /\ (~Restores(Top) \/ ~ok')
  /\ Top.fn = "pmw_set_sensitivity" => Top.at = 5
  /\ Top.fn = "pmw_set_angle" => Top.at = 4

(* Then the invariant holds again. *)
LEMMA Popped ==
  ASSUME IInv, ~Idle, stack' = Front(stack), Finished, UNCHANGED <<regs, irq, use_pmw, upsets>>,
         ok' = ok \/ ~ok'
  PROVE  stack' \in Seq(Frames) /\ Ordered'
<1>1. PICK n \in Nat : n = Len(stack) /\ n # 0
  BY DEF IInv, Typed, Idle
<1>2. /\ stack' \in Seq(Frames) /\ Len(stack') = n - 1
      /\ \A k \in 1 .. n - 1 : stack'[k] = stack[k]
  BY <1>1, TopPopped DEF IInv, Typed, Idle
<1>3. Top = stack[n]
  BY <1>1 DEF Top, Last
<1>4. /\ \A k \in 1 .. n : k = n \/ k \in 1 .. n - 1
      /\ \A k \in 1 .. n - 1 : k \in 1 .. n
      /\ n # 1 => 1 \in 1 .. n - 1 /\ n - 1 \in 1 .. n - 1 /\ n \in 2 .. n
      /\ \A k \in 2 .. n - 1 : k \in 2 .. n /\ k \in 1 .. n - 1 /\ k - 1 \in 1 .. n - 1
      /\ n = 1 => n - 1 = 0 /\ 1 .. n - 1 = {}
  BY <1>1
<1>5. Seen /\ Shape
  BY Sees DEF IInv, Ordered
<1>6. Idle' <=> n = 1
  BY <1>1, <1>2 DEF Idle
<1>7. ~Idle' => Top' = stack[n - 1] /\ n # 1 /\ n - 1 \in 1 .. n - 1
  BY <1>1, <1>2, <1>4, <1>6 DEF Top, Last
<1>8. Shape'
  <2>1. \A k \in 1 .. n - 1 : FrameOK(stack'[k], use_pmw')
    BY <1>1, <1>2, <1>4, <1>5 DEF Shape
  <2>2. ~Idle' => stack'[1].fn \in Command \cup {"main", "pmw_run"}
    BY <1>2, <1>4, <1>5, <1>6 DEF Shape
  <2>3. \A k \in 2 .. n - 1 : Above(stack'[k - 1], stack'[k])
    BY <1>1, <1>2, <1>4, <1>5 DEF Shape
  <2>. QED  BY <1>2, <2>1, <2>2, <2>3 DEF Shape
<1>9. ~Idle' => ~Off(Top') /\ Knows(Top', regs') /\ ~Midway(Top') /\ Top'.fn \notin Setters
  <2>. SUFFICES ASSUME n # 1
                PROVE  ~Off(stack[n - 1]) /\ Knows(stack[n - 1], regs) /\ ~Midway(stack[n - 1])
                       /\ stack[n - 1].fn \notin Setters
    BY <1>6, <1>7
  <2>1. Above(stack[n - 1], Top)
    BY <1>1, <1>3, <1>4, <1>5 DEF Shape
  <2>2. Knows(Top, regs)
    BY <1>5 DEF Seen
  <2>3. Knew(stack[n - 1], Top, regs)
    <3>1. n >= 2
      BY <1>1
    <3>. QED  BY <1>1, <3>1 DEF IInv, Ordered, Informed
  <2>. QED  BY <2>1, <2>2, <2>3, Revealed DEF Finished
<1>10. Informed'
  <2>1. ASSUME n - 1 >= 2 PROVE Knew(stack'[n - 2], Top', regs')
    BY <1>2, <1>6, <1>9, <2>1 DEF Knew
  <2>2. n - 1 >= 2 => Knew(stack'[n - 1 - 1], Top', regs')
    <3>1. n - 1 - 1 = n - 2
      BY <1>1
    <3>. QED  BY <2>1, <3>1
  <2>. QED  BY <1>2, <1>9, <2>2 DEF Informed
<1>11. Equal'
  <2>. SUFFICES ASSUME upsets = 0 PROVE Equal'
    BY DEF Equal
  <2>1. regs["config1"] = regs["config5"] /\ \A k \in 1 .. n : ~Repairs(stack[k])
    BY <1>1, <1>5 DEF Seen, Finished, IInv, Ordered, Equal
  <2>2. \A k \in 1 .. n - 1 : ~Repairs(stack'[k])
    BY <1>2, <1>4, <2>1
  <2>. QED  BY <1>2, <2>1, <2>2 DEF Equal
<1>12. Captured'
  <2>1. regs["frame"] = "pmwf" => \E k \in 1 .. n - 1 : WillInit(stack[k])
    BY <1>1, <1>5 DEF Seen, Finished, InitBelow, Below
  <2>. QED  BY <1>2, <2>1 DEF Captured
<1>13. Resting'
  <2>1. \/ irq' \/ ~ok' \/ regs'["frame"] = "data" \/ ~use_pmw'
        \/ \E k \in 1 .. n - 1 : Restores(stack[k])
    BY <1>1, <1>5 DEF Seen, Finished, RestoredBelow, Below
  <2>. QED  BY <1>2, <2>1 DEF Resting
<1>. QED  BY <1>2, <1>8, <1>10, <1>11, <1>12, <1>13 DEF Ordered
-----------------------------------------------------------------------------
\* ----- One frame calls another, or a command runs in its output.
\* What f, in the place of Top, and g, above it, have to promise.
Agree(f, g) ==
  /\ f \in Frames /\ f.fn = Top.fn /\ f.arg = Top.arg /\ FrameOK(f, use_pmw)
  /\ g \in Frames /\ g.at = 1 /\ FrameOK(g, use_pmw)
  /\ Above(f, g) /\ Knew(f, g, regs)
  /\ ~Midway(Top) /\ (Repairs(f) => Repairs(Top))
  /\ WillInit(Top) => WillInit(f) \/ WillInit(g)
  /\ Restores(Top) => Restores(f) \/ Restores(g) \/ ~ok'

(* Then the invariant holds again. *)
LEMMA Called ==
  ASSUME IInv, ~Idle, NEW f, NEW g, stack' = Append(SetTop(f), g), Agree(f, g),
         UNCHANGED <<regs, irq, use_pmw, upsets>>, ok' = ok \/ ~ok'
  PROVE  stack' \in Seq(Frames) /\ Ordered'
<1>1. PICK n \in Nat : n = Len(stack) /\ n # 0
  BY DEF IInv, Typed, Idle
<1>2. /\ stack' \in Seq(Frames) /\ Len(stack') = n + 1 /\ stack'[n] = f /\ stack'[n + 1] = g
      /\ \A k \in 1 .. n - 1 : stack'[k] = stack[k]
  <2>1. stack \in Seq(Frames) /\ stack # <<>> /\ f \in Frames /\ g \in Frames
        /\ stack' = Append(Append(Front(stack), f), g)
    BY DEF IInv, Typed, Idle, Agree, SetTop
  <2>2. Above2(stack, stack', f, g)
    BY <2>1, TopCalls
  <2>. QED  BY <1>1, <2>2 DEF Above2
<1>3. Top = stack[n] /\ Top' = g /\ ~Idle'
  BY <1>1, <1>2 DEF Top, Last, Idle
<1>4. /\ \A k \in 1 .. n + 1 : k = n + 1 \/ k = n \/ k \in 1 .. n - 1
      /\ \A k \in 1 .. n - 1 : k \in 1 .. n /\ k \in 1 .. n + 1
      /\ n \in 1 .. n /\ 1 \in 1 .. n /\ n \in 1 .. n + 1 /\ n + 1 \in 1 .. n + 1
      /\ \A k \in 1 .. n : k \in 1 .. n + 1 /\ (k = n \/ k \in 1 .. n - 1)
      /\ \A k \in 2 .. n : k \in 1 .. n /\ k - 1 \in 1 .. n - 1
      /\ \A k \in 2 .. n + 1 : (k = n + 1 /\ k - 1 = n) \/ k \in 2 .. n
  BY <1>1
<1>5. \A k \in 1 .. n : stack'[k].fn = stack[k].fn /\ stack'[k].arg = stack[k].arg
  BY <1>2, <1>3, <1>4 DEF Agree
<1>6. Seen /\ Shape
  BY Sees DEF IInv, Ordered
<1>7. Shape'
  <2>1. \A k \in 1 .. n + 1 : FrameOK(stack'[k], use_pmw')
    <3>1. FrameOK(f, use_pmw) /\ FrameOK(g, use_pmw)
      BY DEF Agree
    <3>2. \A k \in 1 .. n - 1 : FrameOK(stack'[k], use_pmw)
      BY <1>1, <1>2, <1>4, <1>6 DEF Shape
    <3>. QED  BY <1>2, <1>4, <3>1, <3>2
  <2>2. stack'[1].fn \in Command \cup {"main", "pmw_run"}
    BY <1>1, <1>4, <1>5, <1>6 DEF Shape
  <2>3. ASSUME NEW k \in 2 .. n + 1
        PROVE  Above(stack'[k - 1], stack'[k])
    <3>1. CASE k = n + 1
      <4>1. k - 1 = n
        BY <1>1, <3>1
      <4>. QED  BY <1>2, <3>1, <4>1 DEF Agree
    <3>2. CASE k \in 2 .. n
      <4>1. Above(stack[k - 1], stack[k])
        BY <1>1, <1>6, <3>2 DEF Shape
      <4>2. /\ stack'[k - 1] = stack[k - 1] /\ stack'[k].fn = stack[k].fn
            /\ stack'[k].arg = stack[k].arg
        BY <1>2, <1>4, <1>5, <3>2
      <4>. QED  BY <4>1, <4>2 DEF Above
    <3>. QED  BY <1>4, <3>1, <3>2
  <2>. QED  BY <1>2, <1>3, <2>1, <2>2, <2>3 DEF Shape
<1>8. ~Off(g) /\ Knows(g, regs') /\ ~Midway(g) /\ ~Repairs(g)
  <2>1. g.at = 1
    BY DEF Agree
  <2>. QED  BY <2>1 DEF Off, Knows, Midway, Repairs
<1>9. Informed'
  <2>1. Knew(f, g, regs')
    BY DEF Agree
  <2>2. n + 1 - 1 = n
    BY <1>1
  <2>. QED  BY <1>2, <1>3, <1>8, <2>1, <2>2 DEF Informed
<1>10. Equal'
  <2>. SUFFICES ASSUME upsets = 0 PROVE Equal'
    BY DEF Equal
  <2>1. regs["config1"] = regs["config5"] /\ ~Repairs(f)
    BY <1>6 DEF Seen, Agree
  <2>2. \A k \in 1 .. n : ~Repairs(stack[k])
    BY <1>1 DEF IInv, Ordered, Equal
  <2>3. \A k \in 1 .. n + 1 : ~Repairs(stack'[k])
    BY <1>2, <1>4, <1>8, <2>1, <2>2
  <2>. QED  BY <1>2, <2>1, <2>3 DEF Equal
<1>11. Captured'
  <2>1. regs["frame"] = "pmwf"
          => WillInit(f) \/ WillInit(g) \/ \E k \in 1 .. n - 1 : WillInit(stack[k])
    BY <1>1, <1>6 DEF Seen, Agree, InitBelow, Below
  <2>. QED  BY <1>2, <1>4, <2>1 DEF Captured
<1>12. Resting'
  <2>1. \/ irq' \/ ~ok' \/ regs'["frame"] = "data" \/ ~use_pmw'
        \/ Restores(f) \/ Restores(g) \/ \E k \in 1 .. n - 1 : Restores(stack[k])
    BY <1>1, <1>6 DEF Seen, Agree, RestoredBelow, Below
  <2>. QED  BY <1>2, <1>4, <2>1 DEF Resting
<1>. QED  BY <1>2, <1>7, <1>9, <1>10, <1>11, <1>12 DEF Ordered
-----------------------------------------------------------------------------
\* ----- One lemma for each action.
\* The frame g is f, n operations on; up to what it has read.
Advanced(f, g, n) ==
  /\ g \in Frames /\ g.fn = f.fn /\ g.at = f.at + n /\ g.arg = f.arg /\ g.nested = f.nested
Same(f, g) == g.got = f.got

(* Skip makes such a frame. *)
LEMMA GoingOn ==
  ASSUME NEW f \in Frames, NEW n \in Nat, NEW g, g = [f EXCEPT !.at = @ + n]
  PROVE  Advanced(f, g, n) /\ Same(f, g)
<1>1. f.at \in Nat /\ f.at + n \in Nat
  BY DEF Frames
<1>2. g = [f EXCEPT !.at = f.at + n]
  BY DEF Frames
<1>. QED  BY <1>1, <1>2 DEF Advanced, Same, Frames

(* It is all right if it is not past the end of its function. *)
LEMMA StaysOK ==
  ASSUME NEW f \in Frames, NEW g, NEW n \in Nat, NEW used, FrameOK(f, used), Advanced(f, g, n),
         f.at + n <= Len(Program(f.fn)) + 1, g.got["config1"] \in Setting
  PROVE  FrameOK(g, used)
<1>1. PICK l : l = Len(Program(f.fn))
  OBVIOUS
<1>2. l \in Nat
  BY <1>1, Lengths DEF Frames
<1>3. f.at \in 1 .. l + 1 /\ f.at + n <= l + 1
  BY <1>1 DEF FrameOK
<1>4. g.at \in 1 .. l + 1
  BY <1>2, <1>3 DEF Advanced
<1>5. g.fn = "main" /\ g.at <= 2 => used
  <2>1. g.at <= 2 => f.at <= 2
    BY <1>2, <1>3 DEF Advanced
  <2>. QED  BY <2>1 DEF Advanced, FrameOK
<1>. QED  BY <1>1, <1>4, <1>5 DEF FrameOK, Advanced

\* The frame after the operation that f is at.
Following(f, g) ==
  /\ g \in Frames /\ g.fn = f.fn /\ g.arg = f.arg /\ g.nested = f.nested
  /\ FrameOK(g, use_pmw) /\ f.at \in Nat /\ g.at = f.at + 1 /\ g.got = f.got

(* Skip(1) puts it on top. *)
LEMMA SkipsOne ==
  ASSUME IInv, NEW op, Doing(op), Skip(1)
  PROVE  \E g : stack' = SetTop(g) /\ Following(Top, g)
<1>1. Top \in Frames /\ FrameOK(Top, use_pmw) /\ Top.at \in 1 .. Len(Program(Top.fn))
  BY Running
<1>2. PICK g : g = [Top EXCEPT !.at = @ + 1]
  OBVIOUS
<1>3. stack' = SetTop(g)
  BY <1>2 DEF Skip
<1>4. Advanced(Top, g, 1) /\ Same(Top, g)
  <2>1. PICK f \in Frames : f = Top
    BY <1>1
  <2>2. g = [f EXCEPT !.at = @ + 1]
    BY <1>2, <2>1
  <2>. QED  BY <2>1, <2>2, GoingOn
<1>5. Top.at \in Nat /\ Top.at + 1 <= Len(Program(Top.fn)) + 1
  <2>1. Len(Program(Top.fn)) \in Nat
    BY <1>1, Lengths DEF Frames
  <2>. QED  BY <1>1, <2>1
<1>6. FrameOK(g, use_pmw)
  BY <1>1, <1>4, <1>5, StaysOK DEF Same, FrameOK
<1>. QED  BY <1>3, <1>4, <1>5, <1>6 DEF Advanced, Same, Following

\* A step that leaves the registers alone, and what f needs of g then.
Unwritten == UNCHANGED <<regs, upsets, ok, use_pmw>>
Quiet(f, g) ==
  /\ Off(g) => ~irq'
  /\ Knows(g, regs)
  /\ upsets = 0 => ~Repairs(g) /\ ~Midway(f)
  /\ WillInit(f) => WillInit(g)
  /\ Restores(f) \/ ~irq' => Restores(g) \/ irq' \/ (irq = irq' /\ ~Restores(f))

(* Then g promises what it has to. *)
LEMMA Quietly ==
  ASSUME IInv, ~Idle, NEW g, stack' = SetTop(g), g \in Frames, g.fn = Top.fn, g.arg = Top.arg,
         FrameOK(g, use_pmw), Quiet(Top, g), Unwritten
  PROVE  stack' \in Seq(Frames) /\ Ordered'
<1>1. Seen
  BY Sees
<1>2. Promises(g)
  <2>1. upsets = 0 => ~Repairs(g) /\ regs["config1"] = regs["config5"]
    BY <1>1 DEF Seen, Quiet
  <2>2. regs["frame"] = "pmwf" => WillInit(g) \/ InitBelow
    BY <1>1 DEF Seen, Quiet
  <2>3. irq' \/ ~ok \/ regs["frame"] = "data" \/ ~use_pmw \/ Restores(g) \/ RestoredBelow
    BY <1>1 DEF Seen, Quiet
  <2>4. (Off(g) => ~irq') /\ Knows(g, regs)
    BY DEF Quiet
  <2>. QED  BY <2>1, <2>2, <2>3, <2>4 DEF Promises, Unwritten
<1>3. Spares(regs')
  BY DEF Spares, Unwritten
<1>. QED  BY <1>2, <1>3, Stepped DEF Unwritten

(* SwitchIrq: nobody turns the interrupt on who still needs the bus.         *)
LEMMA SwitchIrqKeeps == ASSUME IInv, SwitchIrq PROVE stack' \in Seq(Frames) /\ Ordered'
<1>1. Doing("irq")
  BY DEF SwitchIrq
<1>2. ~Idle /\ Now.op = "irq" /\ Seen /\ Place(Top.fn, Top.at, Now)
  BY <1>1, Running
<1>3. PICK f : f = Top
  OBVIOUS
<1>4. IrqPlace(f, Now) /\ irq' = Now.on
  BY <1>2, <1>3, OpPlaces DEF SwitchIrq
<1>5. PICK g : stack' = SetTop(g) /\ Following(f, g)
  BY <1>1, <1>3, SkipsOne DEF SwitchIrq
<1>6. g.fn = f.fn /\ g.arg = f.arg /\ g.nested = f.nested /\ f.at \in Nat /\ g.at = f.at + 1
      /\ g.got = f.got
  BY <1>5 DEF Following
<1>7. Knows(f, regs)
  BY <1>2, <1>3 DEF Seen
<1>8. Quiet(f, g)
  <2>1. Off(g) => ~irq'
    BY <1>4, <1>6 DEF IrqPlace, Off
  <2>2. Knows(g, regs)
    BY <1>4, <1>6, <1>7 DEF IrqPlace, Knows
  <2>3. ~Repairs(g) /\ ~Midway(f)
    BY <1>4, <1>6 DEF IrqPlace, Repairs, Midway
  <2>4. WillInit(f) => WillInit(g)
    BY <1>4, <1>6 DEF IrqPlace, WillInit
  <2>5. Restores(g) \/ irq'
    BY <1>4, <1>6 DEF IrqPlace, Restores
  <2>. QED  BY <2>1, <2>2, <2>3, <2>4, <2>5 DEF Quiet
<1>9. Unwritten
  BY DEF SwitchIrq, Unwritten
<1>. QED  BY <1>2, <1>3, <1>5, <1>8, <1>9, Quietly DEF Following

(* ReadRegister: what pmw_get_sensitivity and pmw_init read is what the      *)
(* sensor has, since nobody else had the bus.                                *)
LEMMA ReadRegisterKeeps == ASSUME IInv, ReadRegister PROVE stack' \in Seq(Frames) /\ Ordered'
<1>1. Doing("read")
  BY DEF ReadRegister
<1>2. /\ ~Idle /\ Now.op = "read" /\ Seen /\ Top \in Frames /\ FrameOK(Top, use_pmw)
      /\ Top.at \in 1 .. Len(Program(Top.fn)) /\ Place(Top.fn, Top.at, Now)
  BY <1>1, Running
<1>3. PICK f \in Frames : f = Top
  BY <1>2
<1>4. ReadPlace(f, Now)
  BY <1>2, <1>3, OpPlaces
<1>5. PICK hit \in (IF Live THEN BOOLEAN ELSE {FALSE}) :
        \E read : /\ read = [reg \in Reg |-> IF reg # Now.reg THEN f.got[reg]
                                              ELSE IF hit THEN "corrupt" ELSE regs[reg]]
                  /\ stack' = SetTop([f EXCEPT !.at = @ + 1, !.got = read])
  BY <1>3 DEF ReadRegister
<1>a. PICK read : /\ read = [reg \in Reg |-> IF reg # Now.reg THEN f.got[reg]
                                             ELSE IF hit THEN "corrupt" ELSE regs[reg]]
                  /\ stack' = SetTop([f EXCEPT !.at = @ + 1, !.got = read])
  BY <1>5
<1>6. PICK g : g = [f EXCEPT !.at = @ + 1, !.got = read]
  OBVIOUS
<1>7. /\ f.got \in [Reg -> UNION {ValueOf[reg] : reg \in Reg}] /\ f.at \in Nat
      /\ regs \in [Reg -> UNION {ValueOf[reg] : reg \in Reg}]
      /\ \A reg \in Reg : regs[reg] \in ValueOf[reg]
  BY DEF Frames, IInv, Typed
<1>8. "corrupt" \in ValueOf["config1"] /\ "config1" \in Reg /\ ValueOf["config1"] = Setting
  BY DEF ValueOf, Reg, Setting
<1>9. read \in [Reg -> UNION {ValueOf[reg] : reg \in Reg}] /\ read["config1"] \in Setting
  <2>1. \A reg \in Reg : read[reg] \in UNION {ValueOf[r] : r \in Reg}
    BY <1>5, <1>a, <1>7, <1>8
  <2>2. read["config1"] \in Setting
    BY <1>2, <1>3, <1>5, <1>a, <1>7, <1>8 DEF FrameOK
  <2>. QED  BY <1>5, <1>a, <2>1, <2>2
<1>10. Advanced(f, g, 1) /\ g.got = read
  <2>1. f.at + 1 \in Nat /\ g = [f EXCEPT !.at = f.at + 1, !.got = read]
    BY <1>6, <1>7 DEF Frames
  <2>. QED  BY <1>9, <2>1 DEF Advanced, Frames
<1>11. FrameOK(g, use_pmw)
  <2>1. f.at + 1 <= Len(Program(f.fn)) + 1
    <3>1. Len(Program(f.fn)) \in Nat
      BY Lengths DEF Frames
    <3>. QED  BY <1>2, <1>3, <3>1
  <2>. QED  BY <1>2, <1>3, <1>9, <1>10, <2>1, StaysOK
<1>12. g.fn = f.fn /\ g.arg = f.arg /\ g.nested = f.nested /\ g.at = f.at + 1 /\ g \in Frames
  BY <1>10 DEF Advanced
<1>13. (Off(f) => ~irq) /\ Knows(f, regs) /\ (Off(f) => ~hit)
  BY <1>2, <1>3, <1>5, <1>a DEF Seen, Live
<1>14. Knows(g, regs)
  <2>1. "config5" \in Reg /\ "config2" \in Reg
    BY DEF Reg
  <2>2. CASE f.fn = "pmw_get_sensitivity" /\ f.at = 2 /\ Now.reg = "config1"
    <3>1. Off(f)
      BY <2>2 DEF Off
    <3>2. g.got["config1"] = regs["config1"]
      BY <1>5, <1>a, <1>8, <1>10, <1>13, <2>2, <3>1
    <3>. QED  BY <1>7, <1>12, <2>2, <3>2 DEF Knows
  <2>3. CASE f.fn = "pmw_get_sensitivity" /\ f.at = 3 /\ Now.reg = "config5"
    <3>1. Off(f) /\ f.got["config1"] = regs["config1"]
      BY <1>13, <2>3 DEF Off, Knows
    <3>2. g.got["config1"] = regs["config1"] /\ g.got["config5"] = regs["config5"]
      BY <1>5, <1>a, <1>8, <1>10, <1>13, <2>1, <2>3, <3>1
    <3>. QED  BY <1>7, <1>12, <2>3, <3>2 DEF Knows
  <2>4. CASE f.fn = "pmw_init" /\ f.at = 9 /\ Now.reg = "config2"
    <3>1. ~f.nested => Off(f) /\ regs["config2"] = "off" /\ regs["frame"] = "none"
      BY <1>13, <2>4 DEF Off, Knows
    <3>2. ~f.nested => g.got["config2"] = "off"
      BY <1>5, <1>a, <1>10, <1>13, <2>1, <2>4, <3>1
    <3>. QED  BY <1>7, <1>12, <2>4, <3>1, <3>2 DEF Knows
  <2>5. CASE f.fn = "pmw_init" /\ f.at \in {3, 5}
    BY <1>7, <1>12, <1>13, <2>5 DEF Knows
  <2>6. CASE f.fn = "pmw_frame_capture" /\ f.at = 5
    BY <1>7, <1>12, <1>13, <2>6 DEF Knows
  <2>7. CASE f.fn \in {"pmw_get_angle", "pmw_is_alive", "pmw_dump_data"}
    BY <1>12, <2>7 DEF Knows
  <2>. QED  BY <1>4, <2>2, <2>3, <2>4, <2>5, <2>6, <2>7 DEF ReadPlace
<1>15. Quiet(f, g)
  <2>1. Off(g) => ~irq'
    BY <1>4, <1>7, <1>12, <1>13 DEF ReadPlace, Off, ReadRegister
  <2>2. ~Repairs(g) /\ ~Midway(f) /\ ~WillInit(f)
    BY <1>4, <1>7, <1>12 DEF ReadPlace, Repairs, Midway, WillInit
  <2>3. Restores(f) => Restores(g)
    BY <1>4, <1>7, <1>12 DEF ReadPlace, Restores
  <2>4. irq' = irq
    BY DEF ReadRegister
  <2>. QED  BY <1>14, <2>1, <2>2, <2>3, <2>4 DEF Quiet
<1>16. Unwritten
  BY DEF ReadRegister, Unwritten
<1>. QED  BY <1>2, <1>3, <1>5, <1>a, <1>6, <1>11, <1>12, <1>15, <1>16, Quietly

(* Functions that leave the bus to others go on quietly, but pmwf and main.  *)
LEMMA PlainQuiet ==
  ASSUME NEW f, NEW g, f.fn \in Plain \ {"pmwf", "main"}, g.fn = f.fn, irq' = irq
  PROVE  Quiet(f, g)
<1>1. ~Off(g) /\ Knows(g, regs) /\ ~Repairs(g) /\ ~Midway(f) /\ f.fn # "pmw_init"
  BY PlainKnows
<1>2. f.fn \notin {"pmw_set_sensitivity", "pmw_get_sensitivity", "pmw_set_angle", "pmw_get_angle",
                   "pmw_is_alive", "pmw_frame_capture", "pmw_dump_data", "pmw_init"}
  BY Names DEF Plain
<1>3. ~WillInit(f) /\ ~Restores(f)
  BY <1>2 DEF WillInit, Restores
<1>. QED  BY <1>1, <1>3 DEF Quiet

(* Said: without a lost setting pmw_get_sensitivity does not come here.      *)
LEMMA SaidKeeps == ASSUME IInv, Said PROVE stack' \in Seq(Frames) /\ Ordered'
<1>1. Doing("say")
  BY DEF Said
<1>2. ~Idle /\ Now.op = "say" /\ Seen /\ Place(Top.fn, Top.at, Now)
  BY <1>1, Running
<1>3. PICK f : f = Top
  OBVIOUS
<1>4. SayPlace(f)
  BY <1>2, <1>3, OpPlaces
<1>5. PICK g : stack' = SetTop(g) /\ Following(f, g)
  BY <1>1, <1>3, SkipsOne DEF Said
<1>6. g.fn = f.fn /\ g.arg = f.arg /\ g.nested = f.nested /\ f.at \in Nat /\ g.at = f.at + 1
      /\ g.got = f.got
  BY <1>5 DEF Following
<1>7. /\ Knows(f, regs) /\ (Off(f) => ~irq) /\ irq' = irq
      /\ upsets = 0 => ~Repairs(f)
  BY <1>2, <1>3 DEF Seen, Said
<1>8. Quiet(f, g)
  <2>1. CASE f.fn = "pmw_get_sensitivity" /\ f.at = 5
    <3>1. Repairs(f) /\ ~WillInit(f) /\ Restores(f) /\ Restores(g)
      BY <1>6, <2>1 DEF Repairs, WillInit, Restores
    <3>2. Knows(g, regs) /\ (Off(g) => ~irq')
      BY <1>6, <1>7, <2>1 DEF Knows, Off
    <3>. QED  BY <1>7, <3>1, <3>2 DEF Quiet
  <2>2. CASE f.fn = "pmw_dump_data" /\ f.at \in {2, 7}
    <3>1. ~Repairs(g) /\ ~Midway(f) /\ ~WillInit(f) /\ (Restores(f) => Restores(g))
      BY <1>6, <2>2 DEF Repairs, Midway, WillInit, Restores
    <3>2. Knows(g, regs) /\ ~Off(g)
      BY <1>6, <2>2 DEF Knows, Off
    <3>. QED  BY <1>7, <3>1, <3>2 DEF Quiet
  <2>3. CASE f.fn = "pmw_init" /\ f.at = 6
    <3>1. ~Repairs(g) /\ ~Midway(f) /\ ~WillInit(f) /\ Restores(f) /\ Restores(g)
      BY <1>6, <2>3 DEF Repairs, Midway, WillInit, Restores
    <3>2. Knows(g, regs) /\ (Off(g) => ~irq')
      BY <1>6, <1>7, <2>3 DEF Knows, Off
    <3>. QED  BY <1>7, <3>1, <3>2 DEF Quiet
  <2>4. CASE f.fn = "pmwf" /\ f.at \in {2, 4}
    <3>1. ~Repairs(g) /\ ~Midway(f) /\ (WillInit(f) => WillInit(g)) /\ (Restores(f) => Restores(g))
      BY <1>6, <2>4 DEF Repairs, Midway, WillInit, Restores
    <3>2. Knows(g, regs) /\ ~Off(g)
      BY <1>6, <2>4 DEF Knows, Off
    <3>. QED  BY <1>7, <3>1, <3>2 DEF Quiet
  <2>5. CASE f.fn \in {"pmw_run", "debug"} \cup (Command \ {"pmwf"})
    <3>1. f.fn \in Plain \ {"pmwf", "main"}
      BY <2>5, Names DEF Plain
    <3>. QED  BY <1>6, <1>7, <3>1, PlainQuiet
  <2>. QED  BY <1>4, <2>1, <2>2, <2>3, <2>4, <2>5 DEF SayPlace
<1>9. Unwritten
  BY DEF Said, Unwritten
<1>. QED  BY <1>2, <1>3, <1>5, <1>8, <1>9, Quietly DEF Following

(* BallMoves *)
LEMMA BallMovesKeeps == ASSUME IInv, BallMoves PROVE stack' \in Seq(Frames) /\ Ordered'
<1>1. Doing("wait")
  BY DEF BallMoves
<1>2. ~Idle /\ Now.op = "wait" /\ Seen /\ Place(Top.fn, Top.at, Now)
  BY <1>1, Running
<1>3. PICK f : f = Top
  OBVIOUS
<1>4. f.fn = "pmw_dump_data" /\ f.at = 4
  BY <1>2, <1>3, OpPlaces DEF OtherPlace
<1>5. PICK g : stack' = SetTop(g) /\ Following(f, g)
  BY <1>1, <1>3, SkipsOne DEF BallMoves
<1>6. g.fn = f.fn /\ g.arg = f.arg /\ g.at = 5
  BY <1>4, <1>5 DEF Following
<1>7. (Off(f) => ~irq) /\ irq' = irq
  BY <1>2, <1>3 DEF Seen, BallMoves
<1>8. Quiet(f, g)
  <2>1. ~Repairs(g) /\ ~Midway(f) /\ ~WillInit(f) /\ Restores(g)
    BY <1>4, <1>6 DEF Repairs, Midway, WillInit, Restores
  <2>2. Knows(g, regs) /\ Off(f)
    BY <1>4, <1>6 DEF Knows, Off
  <2>. QED  BY <1>7, <2>1, <2>2 DEF Quiet
<1>9. Unwritten
  BY DEF BallMoves, Unwritten
<1>. QED  BY <1>2, <1>3, <1>5, <1>8, <1>9, Quietly DEF Following

(* Decide: pmw_get_sensitivity finds the axes equal unless a setting is lost. *)
LEMMA DecideKeeps == ASSUME IInv, Decide PROVE stack' \in Seq(Frames) /\ Ordered'
<1>1. PICK op \in {"same", "alive", "line"}, n \in {1, 3} :
        /\ Doing(op) /\ Skip(n)
        /\ op = "same" => n = IF Top.got["config1"] = Top.got["config5"] THEN 3 ELSE 1
  BY DEF Decide
<1>2. /\ ~Idle /\ Now.op = op /\ Seen /\ Top \in Frames /\ FrameOK(Top, use_pmw)
      /\ Place(Top.fn, Top.at, Now)
  BY <1>1, Running
<1>3. PICK f \in Frames : f = Top
  BY <1>2
<1>4. /\ op = "same" => f.fn = "pmw_get_sensitivity" /\ f.at = 4
      /\ op = "alive" => f.fn = "pmw_run" /\ f.at = 2
      /\ op = "line" => f.fn = "data" /\ f.at = 4
  BY <1>2, <1>3, OpPlaces DEF OtherPlace
<1>5. PICK g : g = [f EXCEPT !.at = @ + n]
  OBVIOUS
<1>6. stack' = SetTop(g)
  BY <1>1, <1>3, <1>5 DEF Skip
<1>7. Advanced(f, g, n) /\ Same(f, g)
  <2>1. n \in Nat
    BY <1>1
  <2>. QED  BY <1>5, <2>1, GoingOn
<1>8. g \in Frames /\ g.fn = f.fn /\ g.arg = f.arg /\ g.nested = f.nested /\ g.at = f.at + n
      /\ g.got = f.got
  BY <1>7 DEF Advanced, Same
<1>9. FrameOK(g, use_pmw)
  <2>1. f.at + n <= Len(Program(f.fn)) + 1
    <3>1. n = 1 \/ n = 3
      BY <1>1
    <3>2. \/ f.at = 4 /\ Len(Program(f.fn)) = 7
          \/ f.at = 2 /\ Len(Program(f.fn)) = 4
          \/ f.at = 4 /\ Len(Program(f.fn)) = 8
      BY <1>1, <1>4, Lengths
    <3>3. /\ 4 + 1 <= 7 + 1 /\ 4 + 3 <= 7 + 1
          /\ 4 + 1 <= 8 + 1 /\ 4 + 3 <= 8 + 1
          /\ 2 + 1 <= 4 + 1 /\ 2 + 3 <= 4 + 1
      OBVIOUS
    <3>. QED  BY <3>1, <3>2, <3>3, Zenon
  <2>2. n \in Nat
    BY <1>1
  <2>. QED  BY <1>2, <1>3, <1>7, <2>1, <2>2, StaysOK DEF Same, FrameOK
<1>10. irq' = irq /\ Unwritten
  BY DEF Decide, Unwritten
<1>11. /\ Knows(f, regs) /\ (Off(f) => ~irq)
       /\ upsets = 0 => (~Midway(f) => regs["config1"] = regs["config5"])
  BY <1>2, <1>3 DEF Seen
<1>12. Quiet(f, g)
  <2>1. CASE op = "same"
    <3>1. /\ f.fn = "pmw_get_sensitivity" /\ f.at = 4
          /\ n = IF f.got["config1"] = f.got["config5"] THEN 3 ELSE 1
      BY <1>1, <1>3, <1>4, <2>1
    <3>2. f.got["config1"] = regs["config1"] /\ f.got["config5"] = regs["config5"]
      BY <1>11, <3>1 DEF Knows
    <3>3. ~Midway(f) /\ ~WillInit(f) /\ Off(f)
      BY <3>1 DEF Midway, WillInit, Off
    <3>4. CASE f.got["config1"] = f.got["config5"]
      <4>1. g.at = 7
        BY <1>8, <3>1, <3>4
      <4>2. ~Repairs(g) /\ Restores(g) /\ Knows(g, regs)
        BY <1>8, <3>1, <3>2, <3>4, <4>1 DEF Repairs, Restores, Knows
      <4>. QED  BY <1>10, <1>11, <3>3, <4>2 DEF Quiet
    <3>5. CASE f.got["config1"] # f.got["config5"]
      <4>1. g.at = 5
        BY <1>8, <3>1, <3>5
      <4>2. Restores(g) /\ Knows(g, regs)
        BY <1>8, <3>1, <3>2, <4>1 DEF Restores, Knows
      <4>3. upsets # 0
        BY <1>11, <3>2, <3>3, <3>5
      <4>. QED  BY <1>10, <1>11, <3>3, <4>2, <4>3 DEF Quiet
    <3>. QED  BY <3>4, <3>5
  <2>2. CASE op \in {"alive", "line"}
    <3>1. f.fn \in Plain \ {"pmwf", "main"}
      BY <1>4, <2>2, Names DEF Plain
    <3>. QED  BY <1>8, <1>10, <3>1, PlainQuiet
  <2>. QED  BY <1>1, <2>1, <2>2
<1>. QED  BY <1>2, <1>3, <1>6, <1>8, <1>9, <1>10, <1>12, Quietly

(* Who is at its end has finished. *)
LEMMA DoneFinished == ASSUME IInv, ~Idle, Done PROVE Finished
<1>1. PICK f : f = Top
  OBVIOUS
<1>2. PICK l : l = Len(Program(f.fn))
  OBVIOUS
<1>3. f.at \in 1 .. l + 1 /\ f.at > l /\ f.fn \in Command \cup DOMAIN Driver
  BY <1>1, <1>2, Sees DEF Seen, FrameOK, Frames, Done, Code
<1>4. l \in Nat
  BY <1>2, <1>3, Lengths
<1>5. f.at = l + 1
  BY <1>3, <1>4
<1>6. /\ f.fn = "pmw_set_sensitivity" => f.at = 5
      /\ f.fn = "pmw_get_sensitivity" => f.at = 8
      /\ f.fn \in {"pmw_set_angle", "pmw_get_angle"} => f.at = 4
      /\ f.fn = "pmw_is_alive" => f.at = 5
      /\ f.fn = "pmw_frame_capture" => f.at = 6
      /\ f.fn = "pmw_dump_data" => f.at = 10
      /\ f.fn = "pmw_init" => f.at = 15
      /\ f.fn = "pmwf" => f.at = 5
      /\ f.fn = "main" => f.at = 3
  <2>1. /\ f.fn = "pmw_set_sensitivity" => l = 4
        /\ f.fn = "pmw_get_sensitivity" => l = 7
        /\ f.fn \in {"pmw_set_angle", "pmw_get_angle"} => l = 3
    BY <1>2, InSetSensitivityTable, InGetSensitivityTable, InSetAngleTable, InGetAngleTable
  <2>2. /\ f.fn = "pmw_is_alive" => l = 4
        /\ f.fn = "pmw_frame_capture" => l = 5
        /\ f.fn = "pmw_dump_data" => l = 9
    BY <1>2, InIsAliveTable, InFrameCaptureTable, InDumpDataTable
  <2>3. /\ f.fn = "pmw_init" => l = 14
        /\ f.fn = "pmwf" => l = 4
        /\ f.fn = "main" => l = 2
    BY <1>2, InInitTable, InPmwfTable, InBootTable
  <2>. QED  BY <1>5, <2>1, <2>2, <2>3
<1>7. ~Midway(f)
  BY <1>6 DEF Midway
<1>8. ~WillInit(f)
  BY <1>6 DEF WillInit
<1>9. ~Restores(f)
  BY <1>6 DEF Restores
<1>. QED  BY <1>1, <1>6, <1>7, <1>8, <1>9 DEF Finished

(* Return *)
LEMMA ReturnKeeps == ASSUME IInv, Return PROVE stack' \in Seq(Frames) /\ Ordered'
<1>1. ~Idle /\ Done /\ stack' = Front(stack) /\ UNCHANGED <<regs, irq, use_pmw, upsets>> /\ ok' = ok
  BY DEF Return
<1>. QED  BY <1>1, DoneFinished, Popped

(* IrqInit: the end of pmw_init. *)
LEMMA IrqInitKeeps == ASSUME IInv, IrqInit PROVE stack' \in Seq(Frames) /\ Ordered'
<1>1. Doing("irq_init")
  BY DEF IrqInit
<1>2. ~Idle /\ Now.op = "irq_init" /\ Seen /\ Place(Top.fn, Top.at, Now)
  BY <1>1, Running
<1>3. PICK f : f = Top
  OBVIOUS
<1>4. f.fn = "pmw_init" /\ f.at = 14
  BY <1>2, <1>3, OpPlaces DEF OtherPlace
<1>5. PICK g : stack' = SetTop(g) /\ Following(f, g)
  BY <1>1, <1>3, SkipsOne DEF IrqInit
<1>6. g \in Frames /\ g.fn = f.fn /\ g.arg = f.arg /\ g.at = 15 /\ FrameOK(g, use_pmw)
  BY <1>4, <1>5 DEF Following
<1>7. irq' = TRUE /\ regs' = regs /\ upsets' = upsets /\ use_pmw' = use_pmw
  BY DEF IrqInit
<1>8. Promises(g)
  <2>1. ~Off(g) /\ Knows(g, regs) /\ ~Repairs(g)
    BY <1>4, <1>6 DEF Off, Knows, Repairs
  <2>2. ~Midway(f) /\ ~WillInit(f)
    BY <1>4 DEF Midway, WillInit
  <2>3. /\ upsets = 0 => regs["config1"] = regs["config5"]
        /\ regs["frame"] = "pmwf" => InitBelow
    BY <1>2, <1>3, <2>2 DEF Seen
  <2>. QED  BY <1>3, <1>6, <1>7, <2>1, <2>3 DEF Promises
<1>9. Spares(regs')
  BY <1>7 DEF Spares
<1>. QED  BY <1>2, <1>5, <1>7, <1>8, <1>9, Stepped

(* Booted: the health check is used if pmw_init succeeded. *)
LEMMA BootedKeeps == ASSUME IInv, Booted PROVE stack' \in Seq(Frames) /\ Ordered'
<1>1. Doing("booted")
  BY DEF Booted
<1>2. ~Idle /\ Now.op = "booted" /\ Seen /\ Place(Top.fn, Top.at, Now)
  BY <1>1, Running
<1>3. PICK f : f = Top
  OBVIOUS
<1>4. f.fn = "main" /\ f.at = 2
  BY <1>2, <1>3, OpPlaces DEF OtherPlace
<1>5. PICK g : stack' = SetTop(g) /\ Following(f, g)
  BY <1>1, <1>3, SkipsOne DEF Booted
<1>6. g \in Frames /\ g.fn = "main" /\ g.arg = f.arg /\ g.at = 3 /\ FrameOK(g, use_pmw)
  BY <1>4, <1>5 DEF Following
<1>7. FrameOK(g, use_pmw')
  BY <1>6 DEF FrameOK
<1>8. irq' = irq /\ regs' = regs /\ upsets' = upsets /\ use_pmw' = ok /\ ok' = ok
  BY DEF Booted
<1>9. Promises(g)
  <2>1. ~Off(g) /\ Knows(g, regs) /\ ~Repairs(g)
    BY <1>6 DEF Off, Knows, Repairs
  <2>2. ~Midway(f) /\ ~WillInit(f) /\ ~Restores(f)
    BY <1>4 DEF Midway, WillInit, Restores
  <2>3. /\ upsets = 0 => regs["config1"] = regs["config5"]
        /\ regs["frame"] = "pmwf" => InitBelow
        /\ irq \/ ~ok \/ regs["frame"] = "data" \/ ~use_pmw \/ RestoredBelow
    BY <1>2, <1>3, <2>2 DEF Seen
  <2>4. use_pmw
    BY <1>2, <1>3, <1>4 DEF Seen, FrameOK
  <2>. QED  BY <1>3, <1>4, <1>6, <1>7, <1>8, <2>1, <2>3, <2>4 DEF Promises
<1>10. Spares(regs')
  BY <1>8 DEF Spares
<1>. QED  BY <1>2, <1>3, <1>4, <1>5, <1>8, <1>9, <1>10, Stepped

(* A write changes its register only, and as it should if the bus is its own. *)
LEMMA Written ==
  ASSUME IInv, ~Idle, WriteRegister, Now.reg \in Reg
  PROVE  /\ Off(Top) => regs'[Now.reg] = Data
         /\ \A reg \in Reg \ {Now.reg} : regs'[reg] = regs[reg]
<1>1. PICK v \in {Data} \cup (IF Live THEN {regs[Now.reg], "corrupt"} ELSE {}) :
        regs' = [regs EXCEPT ![Now.reg] = v]
  BY DEF WriteRegister
<1>2. DOMAIN regs = Reg
  BY DEF IInv, Typed
<1>3. regs'[Now.reg] = v /\ \A reg \in Reg \ {Now.reg} : regs'[reg] = regs[reg]
  BY <1>1, <1>2
<1>4. Off(Top) => ~Live
  BY Sees DEF Seen, Live
<1>. QED  BY <1>1, <1>3, <1>4

(* The registers have their names. *)
LEMMA RegNames ==
  /\ Reg = {"config1", "config2", "config5", "lift", "angle", "frame"}
  /\ "id" \notin Reg /\ "burst" \notin Reg /\ "power_up" \notin Reg /\ "srom" \notin Reg
BY DEF Reg

(* pmw_frame_capture for pmwf has that below it. *)
LEMMA CapturesFor ==
  ASSUME IInv, ~Idle, Top.fn = "pmw_frame_capture", Top.arg = "pmwf"
  PROVE  InitBelow /\ RestoredBelow
<1>1. PICK n \in Nat : n = Len(stack) /\ n # 0
  BY DEF IInv, Typed, Idle
<1>2. Top = stack[n]
  BY <1>1 DEF Top, Last
<1>3. n # 1
  BY <1>2, Names DEF IInv, Ordered, Shape
<1>4. n \in 2 .. n /\ n - 1 \in Below
  BY <1>1, <1>3 DEF Below
<1>5. PICK f : f = stack[n - 1]
  OBVIOUS
<1>6. Above(f, Top)
  BY <1>1, <1>2, <1>4, <1>5 DEF IInv, Ordered, Shape
<1>7. f.fn = "pmwf" /\ f.at = 2
  <2>1. Top.fn \notin Command /\ Top.fn \notin Setters
    BY Names DEF Setters
  <2>. QED  BY <1>6, <2>1 DEF Above, Setters
<1>8. WillInit(f) /\ Restores(f)
  BY <1>7 DEF WillInit, Restores
<1>. QED  BY <1>4, <1>5, <1>8 DEF InitBelow, RestoredBelow

\* What is left to say about g when its function has written a register.
Writes(g) ==
  /\ Off(g) => ~irq
  /\ Knows(g, regs')
  /\ upsets = 0 => ~Repairs(g) /\ (~Midway(g) => regs'["config1"] = regs'["config5"])
  /\ regs'["frame"] = "pmwf" => (regs["frame"] = "pmwf" /\ ~WillInit(Top)) \/ InitBelow
  /\ regs'["frame"] = "data" \/ Restores(g) \/ RestoredBelow
  /\ Spares(regs')

(* pmw_set_sensitivity writes one axis after the other. *)
LEMMA WritesSensitivity ==
  ASSUME IInv, ~Idle, WriteRegister, Seen, WritePlace(Top, Now),
         Top.fn = "pmw_set_sensitivity", NEW g, Following(Top, g)
  PROVE  Writes(g)
<1>1. PICK f : f = Top
  OBVIOUS
<1>2. g.fn = f.fn /\ g.arg = f.arg /\ f.at \in Nat /\ g.at = f.at + 1
  BY <1>1 DEF Following
<1>3. Knows(f, regs) /\ (Off(f) => ~irq) /\ f.fn = "pmw_set_sensitivity" /\ WritePlace(f, Now)
  BY <1>1 DEF Seen
<1>4. ~WillInit(f) /\ ~Repairs(g)
  BY <1>2, <1>3 DEF WillInit, Repairs
<1>5. CASE f.at = 2 /\ Now.reg = "config1" /\ Now.val = "arg"
  <2>1. Off(f) /\ g.at = 3 /\ Off(g) /\ Midway(g) /\ Restores(g)
    BY <1>2, <1>3, <1>5 DEF Off, Midway, Restores
  <2>2. regs'["config1"] = f.arg /\ regs'["frame"] = regs["frame"] /\ regs'["config2"] = regs["config2"]
    BY <1>1, <1>5, <2>1, Written, RegNames DEF Data
  <2>3. Knows(g, regs')
    BY <1>2, <1>3, <2>1, <2>2 DEF Knows
  <2>4. Spares(regs')
    BY <1>1, <1>3, <2>2 DEF Spares
  <2>. QED  BY <1>1, <1>3, <1>4, <2>1, <2>2, <2>3, <2>4 DEF Writes
<1>6. CASE f.at = 3 /\ Now.reg = "config5" /\ Now.val = "arg"
  <2>1. Off(f) /\ g.at = 4 /\ Off(g) /\ Restores(g)
    BY <1>2, <1>3, <1>6 DEF Off, Restores
  <2>2. /\ regs'["config5"] = f.arg /\ regs'["config1"] = regs["config1"]
        /\ regs'["frame"] = regs["frame"] /\ regs'["config2"] = regs["config2"]
    BY <1>1, <1>6, <2>1, Written, RegNames DEF Data
  <2>3. regs'["config1"] = f.arg
    BY <1>3, <1>6, <2>2 DEF Knows
  <2>4. Knows(g, regs')
    BY <1>2, <1>3, <2>1, <2>2, <2>3 DEF Knows
  <2>5. Spares(regs')
    BY <1>1, <1>3, <2>2 DEF Spares
  <2>. QED  BY <1>1, <1>3, <1>4, <2>1, <2>2, <2>3, <2>4, <2>5 DEF Writes
<1>. QED  BY <1>3, <1>5, <1>6 DEF WritePlace

(* pmw_get_sensitivity writes if a setting was lost; pmw_set_angle.          *)
LEMMA WritesOthers ==
  ASSUME IInv, ~Idle, WriteRegister, Seen, WritePlace(Top, Now),
         Top.fn \in {"pmw_get_sensitivity", "pmw_set_angle", "pmw_dump_data"},
         NEW g, Following(Top, g)
  PROVE  Writes(g)
<1>1. PICK f : f = Top
  OBVIOUS
<1>2. g.fn = f.fn /\ g.arg = f.arg /\ f.at \in Nat /\ g.at = f.at + 1 /\ g.nested = f.nested
  BY <1>1 DEF Following
<1>3. /\ Knows(f, regs) /\ (Off(f) => ~irq) /\ WritePlace(f, Now)
      /\ f.fn \in {"pmw_get_sensitivity", "pmw_set_angle", "pmw_dump_data"}
      /\ upsets = 0 => ~Repairs(f) /\ (~Midway(f) => regs["config1"] = regs["config5"])
  BY <1>1 DEF Seen
<1>4. ~WillInit(f) /\ ~Midway(f)
  BY <1>3 DEF WillInit, Midway
<1>5. CASE f.fn = "pmw_get_sensitivity" /\ f.at = 6 /\ Now.reg = "config5" /\ Now.val = "config1"
  <2>1. g.at = 7 /\ upsets # 0 /\ Restores(g) /\ (Off(g) => Off(f)) /\ (~f.nested => Off(f))
    BY <1>2, <1>3, <1>5 DEF Repairs, Restores, Off
  <2>2. /\ ~f.nested => regs'["config5"] = f.got["config1"]
        /\ regs'["config1"] = regs["config1"] /\ regs'["frame"] = regs["frame"]
    BY <1>1, <1>5, <2>1, Written, RegNames DEF Data
  <2>3. ~f.nested => f.got["config1"] = regs["config1"]
    BY <1>3, <1>5 DEF Knows
  <2>4. Knows(g, regs')
    BY <1>2, <1>5, <2>1, <2>2, <2>3 DEF Knows
  <2>5. Spares(regs')
    BY <1>1, <1>5 DEF Spares, Setters
  <2>. QED  BY <1>1, <1>3, <1>4, <2>1, <2>2, <2>4, <2>5 DEF Writes
<1>6. CASE f.fn = "pmw_set_angle" /\ f.at = 2 /\ Now.reg = "angle" /\ Now.val = "arg"
  <2>1. Off(f) /\ g.at = 3 /\ Off(g) /\ Restores(g) /\ ~Repairs(g)
    BY <1>2, <1>3, <1>6 DEF Off, Restores, Repairs
  <2>2. /\ regs'["angle"] = f.arg /\ \A reg \in Reg \ {"angle"} : regs'[reg] = regs[reg]
    BY <1>1, <1>6, <2>1, Written, RegNames DEF Data
  <2>3. Knows(g, regs')
    BY <1>2, <1>6, <2>1, <2>2 DEF Knows
  <2>4. Spares(regs')
    BY <1>1, <1>6, <2>2, RegNames DEF Spares
  <2>. QED  BY <1>1, <1>3, <1>4, <2>1, <2>2, <2>3, <2>4, RegNames DEF Writes
<1>7. CASE f.fn = "pmw_dump_data" /\ f.at = 5 /\ Now.reg = "burst"
  <2>1. Off(f) /\ g.at = 6 /\ Off(g) /\ Restores(g) /\ ~Repairs(g)
    BY <1>2, <1>3, <1>7 DEF Off, Restores, Repairs
  <2>2. regs' = regs
    BY <1>7, RegNames DEF WriteRegister
  <2>3. Knows(g, regs')
    BY <1>2, <1>7 DEF Knows
  <2>4. Spares(regs')
    BY <2>2 DEF Spares
  <2>. QED  BY <1>1, <1>3, <1>4, <2>1, <2>2, <2>3, <2>4 DEF Writes
<1>. QED  BY <1>3, <1>5, <1>6, <1>7 DEF WritePlace

(* pmw_frame_capture puts the sensor into frame capture. *)
LEMMA WritesFrame ==
  ASSUME IInv, ~Idle, WriteRegister, Seen, WritePlace(Top, Now),
         Top.fn = "pmw_frame_capture", NEW g, Following(Top, g)
  PROVE  Writes(g)
<1>1. PICK f : f = Top
  OBVIOUS
<1>2. g.fn = f.fn /\ g.arg = f.arg /\ f.at \in Nat /\ g.at = f.at + 1
  BY <1>1 DEF Following
<1>3. /\ Knows(f, regs) /\ (Off(f) => ~irq) /\ WritePlace(f, Now) /\ f.fn = "pmw_frame_capture"
      /\ f.arg \in {"pmwf", "data"}
      /\ upsets = 0 => (~Midway(f) => regs["config1"] = regs["config5"])
  BY <1>1 DEF Seen, FrameOK
<1>4. ~WillInit(f) /\ ~Midway(f) /\ ~Repairs(g) /\ Spares(regs')
  BY <1>1, <1>2, <1>3 DEF WillInit, Midway, Repairs, Spares, Setters
<1>5. CASE f.at = 2 /\ Now.reg = "config2"
  <2>1. Off(f) /\ g.at = 3 /\ Off(g) /\ Restores(g)
    BY <1>2, <1>3, <1>5 DEF Off, Restores
  <2>2. \A reg \in Reg \ {"config2"} : regs'[reg] = regs[reg]
    BY <1>5, Written, RegNames
  <2>3. Knows(g, regs')
    BY <1>2, <1>3, <2>1 DEF Knows
  <2>. QED  BY <1>1, <1>3, <1>4, <2>1, <2>2, <2>3, RegNames DEF Writes
<1>6. CASE f.at \in {3, 4} /\ Now.reg = "frame" /\ Now.val = "arg"
  <2>1. Off(f) /\ g.at \in {4, 5} /\ Off(g)
    BY <1>2, <1>3, <1>6 DEF Off
  <2>2. regs'["frame"] = f.arg /\ \A reg \in Reg \ {"frame"} : regs'[reg] = regs[reg]
    BY <1>1, <1>6, <2>1, Written, RegNames DEF Data
  <2>3. Knows(g, regs')
    BY <1>2, <1>3, <2>1, <2>2 DEF Knows
  <2>4. f.arg = "pmwf" => InitBelow /\ RestoredBelow
    BY <1>1, <1>3, CapturesFor
  <2>. QED  BY <1>1, <1>3, <1>4, <2>1, <2>2, <2>3, <2>4, RegNames DEF Writes
<1>. QED  BY <1>3, <1>5, <1>6 DEF WritePlace

(* pmw_init resets the sensor and configures it. *)
LEMMA WritesInit ==
  ASSUME IInv, ~Idle, WriteRegister, Seen, WritePlace(Top, Now),
         Top.fn = "pmw_init", NEW g, Following(Top, g)
  PROVE  Writes(g)
<1>1. PICK f : f = Top
  OBVIOUS
<1>2. /\ g.fn = f.fn /\ g.arg = f.arg /\ f.at \in Nat /\ g.at = f.at + 1 /\ g.nested = f.nested
      /\ g.got = f.got
  BY <1>1 DEF Following
<1>3. /\ Knows(f, regs) /\ (Off(f) => ~irq) /\ WritePlace(f, Now) /\ f.fn = "pmw_init"
      /\ upsets = 0 => (~Midway(f) => regs["config1"] = regs["config5"])
  BY <1>1 DEF Seen
<1>4. ~Midway(f) /\ ~Repairs(g) /\ Spares(regs')
  BY <1>1, <1>2, <1>3 DEF Midway, Repairs, Spares, Setters
<1>5. CASE f.at = 2 /\ Now.reg = "power_up"
  <2>1. Off(f) /\ g.at = 3 /\ Off(g) /\ Restores(g)
    BY <1>2, <1>3, <1>5 DEF Off, Restores
  <2>2. regs' = Fresh
    BY <1>5, RegNames DEF WriteRegister
  <2>3. regs'["frame"] = "none" /\ regs'["config1"] = "reset" /\ regs'["config5"] = "reset"
    BY <2>2, RegNames DEF Fresh
  <2>4. Knows(g, regs')
    BY <1>2, <1>3, <2>1, <2>3 DEF Knows
  <2>. QED  BY <1>1, <1>3, <1>4, <2>1, <2>3, <2>4 DEF Writes
<1>6. CASE f.at = 4 /\ Now.reg = "srom"
  <2>1. Off(f) /\ g.at = 5 /\ Off(g) /\ Restores(g) /\ ~WillInit(f)
    BY <1>2, <1>3, <1>6 DEF Off, Restores, WillInit
  <2>2. regs' = regs
    BY <1>6, RegNames DEF WriteRegister
  <2>3. Knows(g, regs')
    BY <1>2, <1>3, <1>6, <2>1, <2>2 DEF Knows
  <2>. QED  BY <1>1, <1>3, <1>4, <2>1, <2>2, <2>3 DEF Writes
<1>7. CASE f.at = 8 /\ Now.reg = "config2" /\ Now.val = "off"
  <2>1. /\ g.at = 9 /\ Restores(g) /\ ~WillInit(f) /\ (Off(g) => Off(f)) /\ (~f.nested => Off(f))
    BY <1>2, <1>3, <1>7 DEF Off, Restores, WillInit
  <2>2. /\ ~f.nested => regs'["config2"] = "off"
        /\ \A reg \in Reg \ {"config2"} : regs'[reg] = regs[reg]
    BY <1>1, <1>7, <2>1, Written, RegNames DEF Data
  <2>3. ~f.nested => regs["frame"] = "none"
    BY <1>3, <1>7 DEF Knows
  <2>4. Knows(g, regs')
    BY <1>2, <1>3, <2>1, <2>2, <2>3, RegNames DEF Knows
  <2>. QED  BY <1>1, <1>3, <1>4, <2>1, <2>2, <2>4, RegNames DEF Writes
<1>8. CASE f.at = 10 /\ Now.reg = "config2" /\ Now.val = "config2"
  <2>1. /\ g.at = 11 /\ Restores(g) /\ ~WillInit(f) /\ ~Off(g) /\ (~f.nested => Off(f))
    BY <1>2, <1>3, <1>8 DEF Off, Restores, WillInit
  <2>2. ~f.nested => regs["frame"] = "none" /\ f.got["config2"] = "off"
    BY <1>3, <1>8 DEF Knows
  <2>3. /\ ~f.nested => regs'["config2"] = "split"
        /\ \A reg \in Reg \ {"config2"} : regs'[reg] = regs[reg]
    BY <1>1, <1>8, <2>1, <2>2, Written, RegNames DEF Data
  <2>4. Knows(g, regs')
    BY <1>2, <1>3, <2>1, <2>2, <2>3, RegNames DEF Knows
  <2>. QED  BY <1>1, <1>3, <1>4, <2>1, <2>3, <2>4, RegNames DEF Writes
<1>9. CASE f.at = 12 /\ Now.reg = "lift"
  <2>1. /\ g.at = 13 /\ Restores(g) /\ ~WillInit(f) /\ ~Off(g)
    BY <1>2, <1>3, <1>9 DEF Off, Restores, WillInit
  <2>2. /\ ~f.nested => regs["frame"] = "none" /\ regs["config2"] = "split"
        /\ regs["config1"] = "default" /\ regs["config5"] = "default"
    BY <1>3, <1>9 DEF Knows
  <2>3. \A reg \in Reg \ {"lift"} : regs'[reg] = regs[reg]
    BY <1>9, Written, RegNames
  <2>4. Knows(g, regs')
    BY <1>2, <1>3, <2>1, <2>2, <2>3, RegNames DEF Knows
  <2>. QED  BY <1>1, <1>3, <1>4, <2>1, <2>3, <2>4, RegNames DEF Writes
<1>. QED  BY <1>3, <1>5, <1>6, <1>7, <1>8, <1>9 DEF WritePlace

(* WriteRegister *)
LEMMA WriteRegisterKeeps == ASSUME IInv, WriteRegister PROVE stack' \in Seq(Frames) /\ Ordered'
<1>1. Doing("write")
  BY DEF WriteRegister
<1>2. ~Idle /\ Now.op = "write" /\ Seen /\ Place(Top.fn, Top.at, Now)
  BY <1>1, Running
<1>3. WritePlace(Top, Now)
  <2>1. PICK f : f = Top
    OBVIOUS
  <2>. QED  BY <1>2, <2>1, OpPlaces
<1>4. PICK g : stack' = SetTop(g) /\ Following(Top, g)
  BY <1>1, SkipsOne DEF WriteRegister
<1>5. Writes(g)
  BY <1>2, <1>3, <1>4, WritesSensitivity, WritesOthers, WritesFrame, WritesInit DEF WritePlace
<1>6. irq' = irq /\ ok' = ok /\ use_pmw' = use_pmw /\ upsets' = upsets
  BY DEF WriteRegister
<1>7. Promises(g)
  <2>1. regs'["frame"] = "pmwf" => WillInit(g) \/ InitBelow
    BY <1>2, <1>5 DEF Writes, Seen
  <2>. QED  BY <1>4, <1>5, <1>6, <2>1 DEF Writes, Promises, Following
<1>. QED  BY <1>2, <1>4, <1>5, <1>6, <1>7, Stepped DEF Writes

(* A function that starts. *)
LEMMA Starting ==
  ASSUME NEW fn \in (Command \cup DOMAIN Driver) \ {"main"}, NEW arg \in Argument, NEW used,
         fn \in Setters => arg \in {"default", "user"},
         fn = "pmw_frame_capture" => arg \in {"pmwf", "data"}
  PROVE  /\ Frame(fn, arg) \in Frames /\ FrameOK(Frame(fn, arg), used)
         /\ Frame(fn, arg).fn = fn /\ Frame(fn, arg).arg = arg /\ Frame(fn, arg).at = 1
<1>1. PICK g : g = Frame(fn, arg)
  OBVIOUS
<1>2. g.fn = fn /\ g.arg = arg /\ g.at = 1 /\ g.got = Unread /\ g.nested = FALSE
  BY <1>1 DEF Frame
<1>3. "reset" \in Setting /\ "reset" \in UNION {ValueOf[reg] : reg \in Reg}
  BY DEF Setting, ValueOf, Reg
<1>4. Unread \in [Reg -> UNION {ValueOf[reg] : reg \in Reg}] /\ Unread["config1"] \in Setting
  BY <1>3, RegNames DEF Unread
<1>5. g \in Frames
  BY <1>1, <1>4 DEF Frame, Frames
<1>6. PICK l : l = Len(Program(fn)) /\ l \in Nat
  BY Lengths
<1>7. g.at \in 1 .. l + 1
  BY <1>2, <1>6
<1>8. FrameOK(g, used)
  BY <1>2, <1>4, <1>6, <1>7 DEF FrameOK
<1>. QED  BY <1>1, <1>2, <1>5, <1>8

(* A caller has the callee above it. *)
LEMMA Calls ==
  ASSUME NEW f, NEW o, CallPlace(f, o), NEW h, h.fn = f.fn, h.at = f.at + 1, f.at \in Nat,
         NEW g, g.fn = o.fn, g.arg = o.arg
  PROVE  /\ Above(h, g)
         /\ g.fn \in DOMAIN Driver \ {"main"} /\ g.arg \in Argument
         /\ g.fn \in Setters => g.arg \in {"default", "user"}
         /\ g.fn = "pmw_frame_capture" => g.arg \in {"pmwf", "data"}
         /\ ~Midway(f) /\ ~Repairs(h)
<1>1. CASE f.fn = "pmw_init"
  <2>1. \/ h.at = 12 /\ g.fn = "pmw_set_sensitivity" /\ g.arg = "default"
        \/ h.at = 14 /\ g.fn = "pmw_set_angle" /\ g.arg = "default"
    BY <1>1, Names DEF CallPlace
  <2>2. Above(h, g)
    BY <1>1, <2>1 DEF Above
  <2>. QED  BY <1>1, <2>1, <2>2, Names DEF Setters, Argument, Midway, Repairs
<1>2. CASE f.fn = "pmwf"
  <2>1. \/ h.at = 2 /\ g.fn = "pmw_frame_capture" /\ g.arg = "pmwf"
        \/ g.fn = "pmw_init" /\ g.arg = "any"
    BY <1>2, Names DEF CallPlace
  <2>2. Above(h, g)
    <3>1. h.fn \in Plain
      BY <1>2, Names DEF Plain
    <3>. QED  BY <1>2, <2>1, <3>1, Names DEF Above
  <2>. QED  BY <1>2, <2>1, <2>2, Names DEF Setters, Argument, Midway, Repairs
<1>3. CASE f.fn = "debug_msc_pmw3360_frame"
  <2>1. g.fn = "pmw_frame_capture" /\ g.arg = "data"
    BY <1>3, Names DEF CallPlace
  <2>2. Above(h, g)
    BY <1>3, <2>1 DEF Above
  <2>. QED  BY <1>3, <2>1, <2>2, Names DEF Setters, Argument, Midway, Repairs
<1>4. CASE f.fn \in {"pmw_run", "main", "debug_msc_pmw_stats"}
  <2>1. g.fn \in {"pmw_is_alive", "pmw_init"} /\ g.arg = "any"
    BY <1>4, Names DEF CallPlace
  <2>2. Above(h, g)
    <3>1. h.fn \in Plain
      BY <1>4 DEF Plain
    <3>2. g.fn \in DOMAIN Driver \ {"main", "pmw_frame_capture"}
      BY <2>1, Names
    <3>. QED  BY <3>1, <3>2 DEF Above
  <2>. QED  BY <1>4, <2>1, <2>2, Names DEF Setters, Argument, Midway, Repairs
<1>5. CASE f.fn \in Command \ {"pmwf"}
  <2>1. /\ g.fn \in DOMAIN Driver \ {"main", "pmw_frame_capture"} /\ g.arg \in Args
        /\ g.fn \in Setters => g.arg = "user"
    BY <1>5, Names DEF CallPlace
  <2>2. h.fn \in Plain
    BY <1>5 DEF Plain
  <2>3. Above(h, g)
    BY <2>1, <2>2 DEF Above
  <2>4. ~Midway(f) /\ ~Repairs(h)
    BY <1>5, Names DEF Midway, Repairs
  <2>. QED  BY <2>1, <2>3, <2>4 DEF Args, Argument
<1>. QED  BY <1>1, <1>2, <1>3, <1>4, <1>5 DEF CallPlace

(* CallFunction: pmw_init knows what its callees have to leave.              *)
LEMMA CallFunctionKeeps == ASSUME IInv, CallFunction PROVE stack' \in Seq(Frames) /\ Ordered'
<1>1. Doing("call")
  BY DEF CallFunction
<1>2. /\ ~Idle /\ Now.op = "call" /\ Seen /\ Place(Top.fn, Top.at, Now) /\ Top \in Frames
      /\ FrameOK(Top, use_pmw) /\ Top.at \in 1 .. Len(Program(Top.fn))
  BY <1>1, Running
<1>3. PICK f \in Frames : f = Top
  BY <1>2
<1>4. CallPlace(f, Now)
  BY <1>2, <1>3, OpPlaces
<1>5. PICK h : h = [f EXCEPT !.at = @ + 1]
  OBVIOUS
<1>6. PICK g : g = Frame(Now.fn, Now.arg)
  OBVIOUS
<1>7. stack' = Append(SetTop(h), g)
  BY <1>3, <1>5, <1>6 DEF CallFunction
<1>8. Advanced(f, h, 1) /\ Same(f, h)
  BY <1>5, GoingOn
<1>9. FrameOK(h, use_pmw)
  <2>1. f.at + 1 <= Len(Program(f.fn)) + 1
    <3>1. Len(Program(f.fn)) \in Nat
      BY Lengths DEF Frames
    <3>. QED  BY <1>2, <1>3, <3>1
  <2>. QED  BY <1>2, <1>3, <1>8, <2>1, StaysOK DEF Same, FrameOK
<1>10. h \in Frames /\ h.fn = f.fn /\ h.arg = f.arg /\ h.nested = f.nested /\ h.at = f.at + 1
       /\ f.at \in Nat
  BY <1>8 DEF Advanced, Frames
<1>11. g.fn = Now.fn /\ g.arg = Now.arg /\ g.at = 1
  BY <1>6 DEF Frame
<1>12. /\ Above(h, g) /\ g.fn \in DOMAIN Driver \ {"main"} /\ g.arg \in Argument
       /\ g.fn \in Setters => g.arg \in {"default", "user"}
       /\ g.fn = "pmw_frame_capture" => g.arg \in {"pmwf", "data"}
       /\ ~Midway(f) /\ ~Repairs(h)
  BY <1>4, <1>10, <1>11, Calls
<1>13. g \in Frames /\ FrameOK(g, use_pmw)
  BY <1>6, <1>11, <1>12, Starting
<1>14. Knew(h, g, regs)
  <2>. SUFFICES ASSUME h.fn = "pmw_init" PROVE Knew(h, g, regs)
    BY DEF Knew
  <2>1. Knows(f, regs)
    BY <1>2, <1>3 DEF Seen
  <2>2. (f.at = 11 /\ g.fn = "pmw_set_sensitivity") \/ (f.at = 13 /\ g.fn = "pmw_set_angle")
    BY <1>4, <1>10, <1>11, Names DEF CallPlace
  <2>. QED  BY <1>10, <2>1, <2>2 DEF Knows, Knew
<1>15. WillInit(f) => WillInit(h) \/ WillInit(g)
  BY <1>4, <1>10, <1>11, Names DEF CallPlace, WillInit
<1>16. Restores(f) => Restores(h) \/ Restores(g)
  BY <1>4, <1>10, <1>11, Names DEF CallPlace, Restores
<1>17. Agree(h, g)
  BY <1>3, <1>9, <1>10, <1>11, <1>12, <1>13, <1>14, <1>15, <1>16 DEF Agree
<1>. QED  BY <1>2, <1>7, <1>17, Called DEF CallFunction

(* MayFail: pmw_init notes its failure, the others have not stopped the      *)
(* interrupt, or have started it again.                                      *)
LEMMA MayFailKeeps == ASSUME IInv, MayFail PROVE stack' \in Seq(Frames) /\ Ordered'
<1>1. Doing("return")
  BY DEF MayFail
<1>2. ~Idle /\ Now.op = "return" /\ Seen /\ Place(Top.fn, Top.at, Now)
  BY <1>1, Running
<1>3. PICK f : f = Top
  OBVIOUS
<1>4. MayPlace(f, Now)
  BY <1>2, <1>3, OpPlaces
<1>5. /\ \/ f.fn = "pmw_dump_data" /\ f.at \in {1, 9}
         \/ f.fn = "pmw_init" /\ f.at = 7 /\ Now.why = "init"
         \/ f.fn \in Plain \ {"pmwf", "main"}
      /\ irq' = irq
  <2>1. \A fn \in Command \ {"pmwf"} : fn \in Plain \ {"pmwf", "main"}
    BY Names DEF Plain
  <2>2. \A fn \in {"debug_msc_pmw3360_frame", "debug_msc_pmw_stats"} : fn \in Plain \ {"pmwf", "main"}
    BY DEF Plain
  <2>3. irq' = irq
    BY DEF MayFail
  <2>. QED  BY <1>4, <2>1, <2>2, <2>3 DEF MayPlace
<1>6. CASE Skip(1) /\ ok' = ok
  <2>1. PICK g : stack' = SetTop(g) /\ Following(f, g)
    BY <1>1, <1>3, <1>6, SkipsOne
  <2>2. g.fn = f.fn /\ g.arg = f.arg /\ g.nested = f.nested /\ f.at \in Nat /\ g.at = f.at + 1
        /\ g.got = f.got
    BY <2>1 DEF Following
  <2>3. Knows(f, regs) /\ (Off(f) => ~irq)
    BY <1>2, <1>3 DEF Seen
  <2>4. Quiet(f, g)
    <3>1. CASE f.fn = "pmw_dump_data" /\ f.at \in {1, 9}
      <4>1. ~Repairs(g) /\ ~Midway(f) /\ ~WillInit(f) /\ ~Restores(f)
        BY <2>2, <3>1 DEF Repairs, Midway, WillInit, Restores
      <4>2. Knows(g, regs) /\ ~Off(g)
        BY <2>2, <3>1 DEF Knows, Off
      <4>. QED  BY <1>5, <4>1, <4>2 DEF Quiet
    <3>2. CASE f.fn = "pmw_init" /\ f.at = 7
      <4>1. ~Repairs(g) /\ ~Midway(f) /\ ~WillInit(f) /\ Restores(g)
        BY <2>2, <3>2 DEF Repairs, Midway, WillInit, Restores
      <4>2. Knows(g, regs) /\ (Off(g) => ~irq')
        BY <1>5, <2>2, <2>3, <3>2 DEF Knows, Off
      <4>. QED  BY <1>5, <4>1, <4>2 DEF Quiet
    <3>3. CASE f.fn \in Plain \ {"pmwf", "main"}
      BY <1>5, <2>2, <3>3, PlainQuiet
    <3>. QED  BY <1>5, <3>1, <3>2, <3>3
  <2>5. Unwritten
    BY <1>6 DEF MayFail, Unwritten
  <2>. QED  BY <1>2, <1>3, <2>1, <2>4, <2>5, Quietly DEF Following
<1>7. CASE /\ stack' = Append(SetTop([Top EXCEPT !.at = Len(Code) + 1]), Frame("debug", "any"))
           /\ ok' = IF Now.why = "init" THEN FALSE ELSE ok
  <2>1. PICK l : l = Len(Program(f.fn)) /\ l \in Nat
    BY <1>2, <1>3, Lengths DEF Seen, Frames
  <2>2. PICK h : h = [f EXCEPT !.at = l + 1]
    OBVIOUS
  <2>3. PICK g : g = Frame("debug", "any")
    OBVIOUS
  <2>4. stack' = Append(SetTop(h), g)
    BY <1>3, <1>7, <2>1, <2>2, <2>3 DEF Code
  <2>5. /\ h \in Frames /\ h.fn = f.fn /\ h.arg = f.arg /\ h.at = l + 1 /\ h.got = f.got
        /\ FrameOK(f, use_pmw)
    BY <1>2, <1>3, <2>1, <2>2 DEF Seen, Frames
  <2>6. f.fn # "main"
    BY <1>5 DEF Plain
  <2>7. FrameOK(h, use_pmw)
    <3>1. l + 1 \in 1 .. l + 1
      BY <2>1
    <3>. QED  BY <2>1, <2>5, <2>6, <3>1 DEF FrameOK
  <2>8. g \in Frames /\ FrameOK(g, use_pmw) /\ g.fn = "debug" /\ g.at = 1
    <3>1. "debug" \in (Command \cup DOMAIN Driver) \ {"main"} /\ "any" \in Argument
          /\ "debug" \notin Setters
      BY Names DEF Argument, Setters
    <3>. QED  BY <2>3, <3>1, Starting
  <2>9. Above(h, g) /\ ~Midway(f) /\ ~Repairs(h) /\ ~WillInit(f) /\ (Restores(f) => ~ok')
    <3>1. CASE f.fn = "pmw_dump_data" /\ f.at \in {1, 9}
      <4>1. h.at = 10
        <5>1. l = 9
          BY <2>1, <3>1, InDumpDataTable
        <5>. QED  BY <2>5, <5>1
      <4>. QED  BY <2>5, <2>8, <3>1, <4>1 DEF Above, Midway, Repairs, WillInit, Restores
    <3>2. CASE f.fn = "pmw_init" /\ f.at = 7 /\ Now.why = "init"
      <4>1. h.at = 15
        <5>1. l = 14
          BY <2>1, <3>2, InInitTable
        <5>. QED  BY <2>5, <5>1
      <4>. QED  BY <1>7, <2>5, <2>8, <3>2, <4>1 DEF Above, Midway, Repairs, WillInit
    <3>3. CASE f.fn \in Plain \ {"pmwf", "main"}
      <4>1. f.fn \notin {"pmw_set_sensitivity", "pmw_get_sensitivity", "pmw_set_angle",
                         "pmw_get_angle", "pmw_is_alive", "pmw_frame_capture", "pmw_dump_data",
                         "pmw_init", "pmwf", "main"}
        BY <3>3, Names DEF Plain
      <4>2. "debug" \in DOMAIN Driver \ {"main", "pmw_frame_capture"}
        BY Names
      <4>3. Above(h, g)
        BY <2>5, <2>8, <3>3, <4>2 DEF Above
      <4>. QED  BY <2>5, <4>1, <4>3 DEF Midway, Repairs, WillInit, Restores
    <3>. QED  BY <1>5, <3>1, <3>2, <3>3
  <2>10. Knew(h, g, regs)
    BY <2>8 DEF Knew, Setters
  <2>11. Agree(h, g)
    BY <1>3, <2>5, <2>7, <2>8, <2>9, <2>10 DEF Agree
  <2>12. UNCHANGED <<regs, irq, use_pmw, upsets>> /\ (ok' = ok \/ ~ok')
    BY <1>7 DEF MayFail
  <2>. QED  BY <1>2, <2>4, <2>11, <2>12, Called
<1>. QED  BY <1>6, <1>7 DEF MayFail

(* NestedCommand: whose output it runs in will not rely on having the bus.   *)
LEMMA NestedCommandKeeps ==
  ASSUME IInv, NEW cmd \in Command, NestedCommand(cmd)
  PROVE  stack' \in Seq(Frames) /\ Ordered'
<1>1. Doing("say")
  BY DEF NestedCommand
<1>2. /\ ~Idle /\ Now.op = "say" /\ Seen /\ Place(Top.fn, Top.at, Now) /\ Top \in Frames
      /\ FrameOK(Top, use_pmw)
  BY <1>1, Running
<1>3. PICK f \in Frames : f = Top
  BY <1>2
<1>4. SayPlace(f)
  BY <1>2, <1>3, OpPlaces
<1>5. PICK h : h = [f EXCEPT !.nested = TRUE]
  OBVIOUS
<1>6. PICK g : g = Frame(cmd, "any")
  OBVIOUS
<1>7. stack' = Append(SetTop(h), g)
  BY <1>3, <1>5, <1>6 DEF NestedCommand
<1>8. /\ h \in Frames /\ h.fn = f.fn /\ h.arg = f.arg /\ h.nested /\ h.at = f.at /\ h.got = f.got
  BY <1>5 DEF Frames
<1>9. FrameOK(h, use_pmw)
  BY <1>2, <1>3, <1>8 DEF FrameOK
<1>10. cmd # "main" /\ cmd \notin Setters /\ cmd # "pmw_frame_capture" /\ "any" \in Argument
  BY Names DEF Setters, Argument
<1>11. g \in Frames /\ FrameOK(g, use_pmw) /\ g.fn = cmd /\ g.at = 1
  BY <1>6, <1>10, Starting
<1>12. Above(h, g)
  <2>1. \A fn \in Command \cup {"pmw_run", "debug"} : fn \in Plain \ {"main"}
    BY Names DEF Plain
  <2>2. \/ h.fn \in Plain \ {"main"}
        \/ h.fn = "pmw_get_sensitivity" /\ h.at = 5
        \/ h.fn = "pmw_init" /\ h.at = 6
        \/ h.fn = "pmw_dump_data" /\ h.at \in {2, 7}
    BY <1>4, <1>8, <2>1, Names DEF SayPlace
  <2>. QED  BY <1>8, <1>11, <2>2 DEF Above
<1>13. Knew(h, g, regs)
  BY <1>10, <1>11 DEF Knew
<1>14. ~Midway(f)
  BY <1>4, Names DEF SayPlace, Midway
<1>15. (Repairs(h) => Repairs(f)) /\ (WillInit(f) => WillInit(h)) /\ (Restores(f) => Restores(h))
  BY <1>8 DEF Repairs, WillInit, Restores
<1>16. Agree(h, g)
  BY <1>3, <1>8, <1>9, <1>11, <1>12, <1>13, <1>14, <1>15 DEF Agree
<1>. QED  BY <1>2, <1>7, <1>16, Called DEF NestedCommand
-----------------------------------------------------------------------------
\* ----- From the main loop, from the reset, and from boot.
(* A stack of one. *)
LEMMA Alone ==
  ASSUME NEW g \in Frames, stack' = <<g>>
  PROVE  stack' \in Seq(Frames) /\ Len(stack') = 1 /\ stack'[1] = g /\ ~Idle' /\ Top' = g
BY DEF Idle, Top, Last

(* What a stack of one that has just started makes of the invariant.         *)
LEMMA StartsAlone ==
  ASSUME NEW g \in Frames, stack' = <<g>>, FrameOK(g, use_pmw'), g.at = 1,
         g.fn \in Command \cup {"main", "pmw_run"},
         upsets' = 0 => regs'["config1"] = regs'["config5"],
         regs'["frame"] = "pmwf" => g.fn = "main",
         irq' \/ ~ok' \/ regs'["frame"] = "data" \/ ~use_pmw'
  PROVE  stack' \in Seq(Frames) /\ Ordered'
<1>1. stack' \in Seq(Frames) /\ Len(stack') = 1 /\ stack'[1] = g /\ ~Idle' /\ Top' = g
  BY Alone
<1>2. 1 .. 1 = {1} /\ 2 .. 1 = {} /\ ~(1 >= 2)
  OBVIOUS
<1>3. Shape'
  BY <1>1, <1>2 DEF Shape
<1>4. g.fn \in Plain
  BY DEF Plain
<1>5. ~Off(g) /\ Knows(g, regs') /\ ~Midway(g) /\ ~Repairs(g)
  BY <1>4, PlainKnows
<1>6. Informed'
  BY <1>1, <1>2, <1>5 DEF Informed
<1>7. Equal'
  BY <1>1, <1>2, <1>5 DEF Equal
<1>8. Captured'
  BY <1>1, <1>2 DEF Captured, WillInit
<1>9. Resting'
  BY DEF Resting
<1>. QED  BY <1>1, <1>3, <1>6, <1>7, <1>8, <1>9 DEF Ordered

(* What the main loop sees. *)
LEMMA IdleFacts ==
  ASSUME IInv, Idle
  PROVE  /\ upsets = 0 => regs["config1"] = regs["config5"]
         /\ regs["frame"] # "pmwf"
         /\ irq \/ ~ok \/ regs["frame"] = "data" \/ ~use_pmw
<1>1. Len(stack) = 0 /\ 1 .. 0 = {}
  BY DEF Idle
<1>. QED  BY <1>1 DEF IInv, Ordered, Equal, Captured, Resting

(* A command, or the health check, starts from the main loop. *)
LEMMA MainCommandKeeps ==
  ASSUME IInv, NEW cmd \in Command, MainCommand(cmd)
  PROVE  stack' \in Seq(Frames) /\ Ordered'
<1>1. cmd # "main" /\ cmd \notin Setters /\ cmd # "pmw_frame_capture" /\ "any" \in Argument
  BY Names DEF Setters, Argument
<1>2. PICK g : g = Frame(cmd, "any")
  OBVIOUS
<1>3. g \in Frames /\ FrameOK(g, use_pmw) /\ g.fn = cmd /\ g.at = 1
  BY <1>1, <1>2, Starting
<1>4. stack' = <<g>> /\ Idle /\ UNCHANGED <<regs, irq, ok, use_pmw, upsets>>
  BY <1>2 DEF MainCommand
<1>. QED  BY <1>3, <1>4, IdleFacts, StartsAlone

(* HealthCheck *)
LEMMA HealthCheckKeeps == ASSUME IInv, HealthCheck PROVE stack' \in Seq(Frames) /\ Ordered'
<1>1. "pmw_run" \in DOMAIN Driver \ {"main"} /\ "pmw_run" \notin Setters /\ "any" \in Argument
  BY Names DEF Setters, Argument
<1>2. PICK g : g = Frame("pmw_run", "any")
  OBVIOUS
<1>3. g \in Frames /\ FrameOK(g, use_pmw) /\ g.fn = "pmw_run" /\ g.at = 1
  BY <1>1, <1>2, Starting
<1>4. stack' = <<g>> /\ Idle /\ UNCHANGED <<regs, irq, ok, use_pmw, upsets>>
  BY <1>2 DEF HealthCheck
<1>. QED  BY <1>3, <1>4, IdleFacts, StartsAlone

(* main starts. *)
LEMMA MainStarts ==
  /\ Frame("main", "any") \in Frames /\ FrameOK(Frame("main", "any"), TRUE)
  /\ Frame("main", "any").fn = "main" /\ Frame("main", "any").at = 1
<1>1. PICK g : g = Frame("main", "any")
  OBVIOUS
<1>2. g.fn = "main" /\ g.arg = "any" /\ g.at = 1 /\ g.got = Unread /\ g.nested = FALSE
  BY <1>1 DEF Frame
<1>3. "reset" \in Setting /\ "reset" \in UNION {ValueOf[reg] : reg \in Reg}
  BY DEF Setting, ValueOf, Reg
<1>4. Unread \in [Reg -> UNION {ValueOf[reg] : reg \in Reg}] /\ Unread["config1"] \in Setting
  BY <1>3, RegNames DEF Unread
<1>5. g \in Frames
  BY <1>1, <1>4, Names DEF Frame, Frames, Argument
<1>6. g.at \in 1 .. Len(Program(g.fn)) + 1
  BY <1>2, Lengths
<1>7. FrameOK(g, TRUE)
  BY <1>2, <1>4, <1>6 DEF FrameOK, Setters
<1>. QED  BY <1>1, <1>2, <1>5, <1>7

(* The restart finds the axes equal: nobody restarts between the two.        *)
LEMMA RestartKeeps ==
  ASSUME IInv, ~Idle, ~Midway(Top), Restart
  PROVE  stack' \in Seq(Frames) /\ Ordered'
<1>1. PICK g : g = Frame("main", "any")
  OBVIOUS
<1>2. g \in Frames /\ FrameOK(g, TRUE) /\ g.fn = "main" /\ g.at = 1
  BY <1>1, MainStarts
<1>3. stack' = <<g>> /\ ok' = FALSE /\ use_pmw' = TRUE /\ regs' = regs /\ upsets' = upsets
  BY <1>1 DEF Restart
<1>4. upsets = 0 => regs["config1"] = regs["config5"]
  BY Sees DEF Seen
<1>. QED  BY <1>2, <1>3, <1>4, StartsAlone

(* ResetToMain, Watchdog *)
LEMMA ResetsKeep ==
  ASSUME IInv, ResetToMain \/ Watchdog
  PROVE  stack' \in Seq(Frames) /\ Ordered'
<1>1. PICK op \in {"reset", "say"} : Doing(op) /\ Restart
  BY DEF ResetToMain, Watchdog
<1>2. ~Idle /\ Now.op = op /\ Place(Top.fn, Top.at, Now)
  BY <1>1, Running
<1>3. PICK f : f = Top
  OBVIOUS
<1>4. /\ op = "reset" => f.fn = "pmw_run" \/ f.fn \in Command \ {"pmwf"}
      /\ op = "say" => SayPlace(f)
  BY <1>2, <1>3, OpPlaces DEF OtherPlace
<1>5. ~Midway(f)
  BY <1>1, <1>4, Names DEF SayPlace, Midway
<1>. QED  BY <1>1, <1>2, <1>3, <1>5, RestartKeeps

(* An idle main loop. *)
LEMMA StaysIdle ==
  ASSUME IInv, Idle, stack' = stack,
         upsets' = 0 => regs'["config1"] = regs'["config5"],
         regs'["frame"] # "pmwf",
         irq' \/ ~ok' \/ regs'["frame"] = "data" \/ ~use_pmw'
  PROVE  stack' \in Seq(Frames) /\ Ordered'
<1>1. stack' = <<>> /\ Idle' /\ Len(stack') = 0 /\ 1 .. 0 = {} /\ 2 .. 0 = {} /\ ~(0 >= 2)
  BY DEF Idle
<1>2. stack' \in Seq(Frames)
  BY DEF IInv, Typed
<1>. QED  BY <1>1, <1>2 DEF Ordered, Shape, Informed, Equal, Captured, Resting

(* HidTask, Upset *)
LEMMA IdleKeeps == ASSUME IInv, HidTask \/ Upset PROVE stack' \in Seq(Frames) /\ Ordered'
<1>1. Idle /\ stack' = stack /\ ok' = ok /\ use_pmw' = use_pmw
  BY DEF HidTask, Upset
<1>2. CASE HidTask
  BY <1>1, <1>2, IdleFacts, StaysIdle DEF HidTask
<1>3. CASE Upset
  <2>1. irq' = irq /\ upsets' = upsets + 1
    BY <1>3 DEF Upset
  <2>a. PICK lost \in {"config1", "config5"} : regs' = [regs EXCEPT ![lost] = "corrupt"]
    BY <1>3 DEF Upset
  <2>2. regs'["frame"] = regs["frame"]
    BY <2>a, RegNames DEF IInv, Typed
  <2>3. upsets' # 0
    BY <2>1 DEF IInv, Typed
  <2>. QED  BY <1>1, <2>1, <2>2, <2>3, IdleFacts, StaysIdle
<1>. QED  BY <1>2, <1>3

(* Nothing happens. *)
LEMMA StandsStill == ASSUME IInv, UNCHANGED vars PROVE stack' \in Seq(Frames) /\ Ordered'
BY DEF IInv, Typed, Ordered, Shape, Informed, Equal, Captured, Resting, vars, Idle, Top

(* Every step. *)
LEMMA OrderedKeeps == ASSUME IInv, [Next]_vars PROVE stack' \in Seq(Frames) /\ Ordered'
<1>1. CASE Execute
  BY <1>1, SwitchIrqKeeps, ReadRegisterKeeps, WriteRegisterKeeps, CallFunctionKeeps, ReturnKeeps,
     MayFailKeeps, DecideKeeps, IrqInitKeeps, BootedKeeps, SaidKeeps, ResetsKeep DEF Execute
<1>2. CASE Watchdog \/ HealthCheck \/ HidTask \/ BallMoves \/ Upset
  BY <1>2, ResetsKeep, HealthCheckKeeps, IdleKeeps, BallMovesKeeps
<1>3. ASSUME NEW cmd \in Command, NestedCommand(cmd) \/ MainCommand(cmd)
      PROVE  stack' \in Seq(Frames) /\ Ordered'
  BY <1>3, NestedCommandKeeps, MainCommandKeeps
<1>4. CASE UNCHANGED vars
  BY <1>4, StandsStill
<1>. QED  BY <1>1, <1>2, <1>3, <1>4 DEF Next

(* The invariant holds at boot. *)
LEMMA Boots == Init => IInv
<1>. SUFFICES ASSUME Init PROVE IInv
  OBVIOUS
<1>1. PICK g : g = Frame("main", "any")
  OBVIOUS
<1>2. g \in Frames /\ FrameOK(g, TRUE) /\ g.fn = "main" /\ g.at = 1
  BY <1>1, MainStarts
<1>3. stack = <<g>> /\ regs = Fresh /\ use_pmw = TRUE /\ ok = FALSE
  BY <1>1 DEF Init
<1>4. stack \in Seq(Frames) /\ Len(stack) = 1 /\ stack[1] = g /\ ~Idle /\ Top = g
  BY <1>2, <1>3 DEF Idle, Top, Last
<1>5. 1 .. 1 = {1} /\ 2 .. 1 = {} /\ ~(1 >= 2)
  OBVIOUS
<1>6. Typed
  <2>1. \A reg \in Reg : Fresh[reg] \in ValueOf[reg]
    BY DEF Fresh, Reg, ValueOf, Setting
  <2>2. Fresh \in [Reg -> UNION {ValueOf[reg] : reg \in Reg}]
    BY <2>1 DEF Fresh
  <2>3. 0 \in 0 .. MaxCommands /\ 0 \in 0 .. MaxUpsets
    BY DriverAssumption
  <2>. QED  BY <1>3, <1>4, <2>1, <2>2, <2>3 DEF Init, Typed
<1>7. g.fn \in Plain
  BY <1>2 DEF Plain
<1>8. ~Off(g) /\ Knows(g, regs) /\ ~Midway(g) /\ ~Repairs(g)
  BY <1>7, PlainKnows
<1>9. regs["config1"] = regs["config5"] /\ regs["frame"] # "pmwf"
  BY <1>3, RegNames DEF Fresh
<1>10. Ordered
  BY <1>2, <1>3, <1>4, <1>5, <1>8, <1>9
     DEF Ordered, Shape, Informed, Equal, Captured, Resting
<1>. QED  BY <1>6, <1>10 DEF IInv

(* A write leaves a register a value it may have.                            *)
LEMMA WritesValues ==
  ASSUME IInv, WriteRegister
  PROVE  /\ regs' \in [Reg -> UNION {ValueOf[reg] : reg \in Reg}]
         /\ \A reg \in Reg : regs'[reg] \in ValueOf[reg]
<1>1. Doing("write")
  BY DEF WriteRegister
<1>2. ~Idle /\ Now.op = "write" /\ Seen /\ Place(Top.fn, Top.at, Now)
  BY <1>1, Running
<1>3. PICK f : f = Top
  OBVIOUS
<1>4. WritePlace(f, Now)
  BY <1>2, <1>3, OpPlaces
<1>5. /\ f.fn \in Setters => f.arg \in {"default", "user"}
      /\ f.fn = "pmw_frame_capture" => f.arg \in {"pmwf", "data"}
      /\ f.got["config1"] \in Setting
  BY <1>2, <1>3 DEF Seen, FrameOK
<1>6. Typed
  BY DEF IInv
<1>7. CASE Now.reg \notin Reg
  <2>1. \A reg \in Reg : Fresh[reg] \in ValueOf[reg]
    BY DEF Fresh, Reg, ValueOf, Setting
  <2>2. Fresh \in [Reg -> UNION {ValueOf[reg] : reg \in Reg}]
    BY <2>1 DEF Fresh
  <2>3. regs' = Fresh \/ regs' = regs
    BY <1>7 DEF WriteRegister
  <2>. QED  BY <1>6, <2>1, <2>2, <2>3 DEF Typed
<1>8. CASE Now.reg \in Reg
  <2>1. PICK v \in {Data} \cup (IF Live THEN {regs[Now.reg], "corrupt"} ELSE {}) :
          regs' = [regs EXCEPT ![Now.reg] = v]
    BY <1>8 DEF WriteRegister
  <2>2. Data \in ValueOf[Now.reg]
    <3>1. CASE Now.val = "arg"
      <4>1. Data = f.arg
        BY <1>3, <3>1 DEF Data
      <4>2. \/ f.fn \in Setters /\ Now.reg \in {"config1", "config5", "angle"}
            \/ f.fn = "pmw_frame_capture" /\ Now.reg = "frame"
        BY <1>4, <3>1 DEF WritePlace, Setters
      <4>. QED  BY <1>5, <4>1, <4>2 DEF ValueOf, Setting
    <3>2. CASE Now.val = "config1"
      <4>1. Data = f.got["config1"]
        BY <1>3, <3>2 DEF Data
      <4>2. Now.reg = "config5"
        BY <1>4, <3>2 DEF WritePlace
      <4>. QED  BY <1>5, <4>1, <4>2 DEF ValueOf
    <3>3. CASE Now.val = "config2"
      <4>1. Data \in {"split", "corrupt"} /\ Now.reg = "config2"
        BY <1>4, <3>3 DEF Data, WritePlace
      <4>. QED  BY <4>1 DEF ValueOf
    <3>4. CASE Now.val = "off" \/ Now.val = "max"
      <4>1. /\ Data = Now.val
            /\ (Now.val = "off" /\ Now.reg = "config2") \/ (Now.val = "max" /\ Now.reg = "lift")
        BY <1>4, <3>4 DEF Data, WritePlace
      <4>. QED  BY <4>1 DEF ValueOf
    <3>5. Now.val \in {"arg", "config1", "config2", "off", "max"}
      BY <1>4, <1>8, RegNames DEF WritePlace
    <3>. QED  BY <3>1, <3>2, <3>3, <3>4, <3>5
  <2>3. \A reg \in Reg : "corrupt" \in ValueOf[reg]
    BY DEF Reg, ValueOf, Setting
  <2>4. v \in ValueOf[Now.reg]
    BY <1>6, <1>8, <2>1, <2>2, <2>3 DEF Typed
  <2>5. \A reg \in Reg : regs'[reg] \in ValueOf[reg]
    BY <1>6, <1>8, <2>1, <2>4 DEF Typed
  <2>6. v \in UNION {ValueOf[reg] : reg \in Reg}
    BY <1>8, <2>4
  <2>. QED  BY <1>6, <1>8, <2>1, <2>5, <2>6 DEF Typed
<1>. QED  BY <1>7, <1>8

(* Every step keeps the types. *)
LEMMA TypedKeeps == ASSUME IInv, [Next]_vars PROVE Typed'
<1>1. Typed /\ stack' \in Seq(Frames)
  BY OrderedKeeps DEF IInv
<1>2. CASE ReadRegister \/ CallFunction \/ Return \/ Decide \/ Said \/ HealthCheck \/ BallMoves
           \/ UNCHANGED vars
  BY <1>1, <1>2 DEF Typed, ReadRegister, CallFunction, Return, Decide, Said, HealthCheck,
                    BallMoves, vars
<1>3. CASE SwitchIrq
  <2>1. Now.on \in BOOLEAN
    <3>1. Doing("irq")
      BY <1>3 DEF SwitchIrq
    <3>2. PICK f : f = Top
      OBVIOUS
    <3>3. IrqPlace(f, Now)
      BY <3>1, <3>2, Running, OpPlaces
    <3>. QED  BY <3>3 DEF IrqPlace
  <2>2. irq' \in BOOLEAN /\ UNCHANGED <<regs, handler, ok, use_pmw, commands, upsets>>
    BY <1>3, <2>1 DEF SwitchIrq
  <2>. QED  BY <1>1, <2>2 DEF Typed
<1>4. CASE WriteRegister
  BY <1>1, <1>4, WritesValues DEF Typed, WriteRegister
<1>5. CASE MayFail
  <2>1. ok' \in BOOLEAN /\ UNCHANGED <<regs, irq, handler, use_pmw, commands, upsets>>
    BY <1>1, <1>5 DEF Typed, MayFail
  <2>. QED  BY <1>1, <2>1 DEF Typed
<1>6. CASE IrqInit
  BY <1>1, <1>6 DEF Typed, IrqInit
<1>7. CASE Booted
  BY <1>1, <1>7 DEF Typed, Booted
<1>8. CASE ResetToMain \/ Watchdog
  BY <1>1, <1>8 DEF Typed, ResetToMain, Watchdog, Restart
<1>9. CASE HidTask
  <2>1. irq' \in BOOLEAN /\ UNCHANGED <<regs, handler, ok, use_pmw, commands, upsets>>
    BY <1>1, <1>9 DEF Typed, HidTask
  <2>. QED  BY <1>1, <2>1 DEF Typed
<1>10. CASE Upset
  <2>1. /\ upsets < MaxUpsets /\ upsets' = upsets + 1
        /\ UNCHANGED <<irq, handler, ok, use_pmw, commands>>
    BY <1>10 DEF Upset
  <2>a. PICK lost \in {"config1", "config5"} : regs' = [regs EXCEPT ![lost] = "corrupt"]
    BY <1>10 DEF Upset
  <2>2. lost \in Reg /\ "corrupt" \in ValueOf[lost]
    BY <2>a DEF Reg, ValueOf, Setting
  <2>3. /\ regs' \in [Reg -> UNION {ValueOf[reg] : reg \in Reg}]
        /\ \A reg \in Reg : regs'[reg] \in ValueOf[reg]
    BY <1>1, <2>a, <2>2 DEF Typed
  <2>4. upsets' \in 0 .. MaxUpsets
    BY <1>1, <2>1, DriverAssumption DEF Typed
  <2>. QED  BY <1>1, <2>1, <2>3, <2>4 DEF Typed
<1>11. ASSUME NEW cmd \in Command, NestedCommand(cmd) \/ MainCommand(cmd)
       PROVE  Typed'
  <2>1. /\ commands < MaxCommands /\ commands' = commands + 1
        /\ UNCHANGED <<regs, irq, handler, ok, use_pmw, upsets>>
    BY <1>11 DEF NestedCommand, MainCommand
  <2>2. commands' \in 0 .. MaxCommands
    BY <1>1, <2>1, DriverAssumption DEF Typed
  <2>. QED  BY <1>1, <2>1, <2>2 DEF Typed
<1>. QED  BY <1>2, <1>3, <1>4, <1>5, <1>6, <1>7, <1>8, <1>9, <1>10, <1>11 DEF Next, Execute
-----------------------------------------------------------------------------
\* ----- The theorems.
(* The inductive invariant holds from boot on. *)
THEOREM Invariance == Spec => []IInv
<1>1. Init => IInv
  BY Boots
<1>2. IInv /\ [Next]_vars => IInv'
  BY OrderedKeeps, TypedKeeps DEF IInv
<1>. QED  BY <1>1, <1>2, PTL DEF Spec

(* Every variable keeps its type: no branch leads out of its function, and   *)
(* every write sends a value that its register has a meaning for.            *)
THEOREM TypeCorrect == Spec => []TypeOK
<1>1. IInv => TypeOK
  <2>. SUFFICES ASSUME IInv PROVE TypeOK
    OBVIOUS
  <2>1. Typed /\ Shape
    BY DEF IInv, Ordered
  <2>2. \A k \in DOMAIN stack : stack[k].at \in 1 .. Len(Program(stack[k].fn)) + 1
    <3>1. DOMAIN stack = 1 .. Len(stack)
      BY <2>1 DEF Typed
    <3>. QED  BY <2>1, <3>1 DEF Shape, FrameOK
  <2>. QED  BY <2>1, <2>2 DEF TypeOK, Typed
<1>. QED  BY <1>1, Invariance, PTL

(* The MOTION interrupt shares the bus with no transaction of the driver but *)
(* the two that the property names (pmw3360.c:533-570 and 355-356).          *)
THEOREM BusIsUnshared == Spec => []BusUnshared
<1>1. IInv => BusUnshared
  <2>. SUFFICES ASSUME IInv, ~Idle, Live, Doing("read") \/ Doing("write")
                PROVE  \/ Now.reg = "lift"
                       \/ Top.nested /\ Now.reg \in {"config2", "config5"}
    BY DEF BusUnshared
  <2>1. PICK f : f = Top
    OBVIOUS
  <2>2. ReadPlace(f, Now) \/ WritePlace(f, Now)
    BY <2>1, Running, OpPlaces
  <2>3. ~Off(f)
    BY <2>1, Sees DEF Seen, Live
  <2>4. CASE ReadPlace(f, Now)
    <3>1. f.nested /\ Now.reg = "config2"
      BY <2>3, <2>4 DEF ReadPlace, Off
    <3>. QED  BY <2>1, <3>1
  <2>5. CASE WritePlace(f, Now)
    <3>1. Now.reg = "lift" \/ (f.nested /\ Now.reg \in {"config2", "config5"})
      BY <2>3, <2>5 DEF WritePlace, Off
    <3>. QED  BY <2>1, <3>1
  <2>. QED  BY <2>2, <2>4, <2>5
<1>. QED  BY <1>1, Invariance, PTL

(* At every output, and in the main loop, both axes have the same            *)
(* sensitivity, if the sensor lost none.                                     *)
THEOREM AxesStayEqual == Spec => []AxesAgree
<1>1. IInv => AxesAgree
  <2>. SUFFICES ASSUME IInv, upsets = 0, Idle \/ Doing("say")
                PROVE  regs["config1"] = regs["config5"]
    BY DEF AxesAgree
  <2>1. CASE Idle
    BY <2>1, IdleFacts
  <2>2. CASE Doing("say")
    <3>1. PICK f : f = Top
      OBVIOUS
    <3>2. SayPlace(f) /\ Seen
      BY <2>2, <3>1, Running, OpPlaces
    <3>3. ~Midway(f)
      BY <3>2, Names DEF SayPlace, Midway
    <3>. QED  BY <3>1, <3>2, <3>3 DEF Seen
  <2>. QED  BY <2>1, <2>2
<1>. QED  BY <1>1, Invariance, PTL

(* pmw_get_sensitivity leaves them equal even if it did, unless a command    *)
(* ran in its output (pmw3360.c:346-358).                                    *)
THEOREM RepairsAxes == Spec => []AxesRepaired
<1>1. IInv => AxesRepaired
  <2>. SUFFICES ASSUME IInv, ~Idle, Top.fn = "pmw_get_sensitivity", Done, ~Top.nested
                PROVE  regs["config1"] = regs["config5"]
    BY DEF AxesRepaired
  <2>1. Knows(Top, regs) /\ Top.at \in 1 .. 7 + 1 /\ Top.at > 7
    BY Sees, Lengths DEF Seen, FrameOK, Done, Code
  <2>2. Top.at = 8
    BY <2>1
  <2>. QED  BY <2>1, <2>2 DEF Knows
<1>. QED  BY <1>1, Invariance, PTL

(* A pmw_init that succeeds has configured the sensor, whatever ran in its   *)
(* output (pmw3360.c:533-577).                                               *)
THEOREM InitLeavesDefaults == Spec => []InitConfigures
<1>1. IInv => InitConfigures
  <2>. SUFFICES ASSUME IInv, Doing("irq_init")
                PROVE  /\ \A reg \in {"config1", "config5", "angle"} : regs[reg] = "default"
                       /\ ~Top.nested => regs["config2"] = "split" /\ regs["frame"] = "none"
    BY DEF InitConfigures
  <2>1. PICK f : f = Top
    OBVIOUS
  <2>2. f.fn = "pmw_init" /\ f.at = 14 /\ Knows(f, regs)
    BY <2>1, Running, OpPlaces DEF OtherPlace, Seen
  <2>. QED  BY <2>1, <2>2 DEF Knows
<1>. QED  BY <1>1, Invariance, PTL

(* pmwf ends the frame capture it starts (console.c). *)
THEOREM CaptureEnds == Spec => []FrameCaptureEnds
<1>1. IInv => FrameCaptureEnds
  BY IdleFacts DEF FrameCaptureEnds
<1>. QED  BY <1>1, Invariance, PTL

(* In the main loop the interrupt is on, unless pmw_init failed or data      *)
(* captured a frame.                                                         *)
THEOREM InterruptAtRest == Spec => []IrqOnAtRest
<1>1. IInv => IrqOnAtRest
  BY IdleFacts DEF IrqOnAtRest
<1>. QED  BY <1>1, Invariance, PTL
=============================================================================
