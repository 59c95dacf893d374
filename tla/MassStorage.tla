----------------------------- MODULE MassStorage -----------------------------
(* Two file systems on one disk: the RAM disk of src/firmware/src/fat_disk.c *)
(* is written by the firmware itself, through FatFS and the functions of     *)
(* debug.c, log.c and pmw3360.c, and by the USB host, through the SCSI       *)
(* callbacks of usb_msc.c.  Each keeps what it has read of the file system   *)
(* in memory, so neither may go on with it once the other has written.       *)
(* The console commands of console.c hand the disk over by telling the host, *)
(* when it asks, that there is no medium.                                    *)
(*                                                                           *)
(* A function is a sequence of operations in Program; the C stack is stack,  *)
(* whose last frame runs.  Every output runs the USB stack and so callbacks: *)
(* the host's SCSI commands, of which it has one under way at a time, and    *)
(* console commands.                                                         *)
EXTENDS Naturals, Sequences, FiniteSets, SequencesExt

CONSTANTS MaxNest,  \* bound: how many console commands are under way at once
          MaxFaults \* bound: how many of the faults happen between two boots

ASSUME StorageAssumption == {MaxNest, MaxFaults} \subseteq Nat

VARIABLES stack,            \* the functions under way, the innermost last
          medium_available, \* usb_msc.c
          mounted,          \* debug.c
          result,           \* what the last function returned: 0 or -1
          fs,               \* what FatFS has in memory of the file system
          host,             \* what the host has in memory of it
          ready,            \* when the host last asked there was a medium
          taken,            \* history: stats or data has unplugged it
          faults            \* history: what has happened since boot that
                            \* the code has no answer to

vars == <<stack, medium_available, mounted, result, fs, host, ready, taken, faults>>
plug == <<medium_available, taken>>
firmware == <<mounted, result, fs>>
hosts == <<host, ready>>
-----------------------------------------------------------------------------
\* What a function does.  If(c, n) goes on if c holds and skips n operations
\* if not; an operation on the file system that succeeds skips the report
\* of its failure, of which there are n operations.
Say == [op |-> "say"]                          \* print, println, debug
If(cond, n) == [op |-> "if", cond |-> cond, skip |-> n]
Return(ok) == [op |-> "return", ok |-> ok]
Call(fn) == [op |-> "call", fn |-> fn]
Plug(in) == [op |-> "plug", in |-> in]         \* medium_available = in
Fs(do, n) == [op |-> "fs", do |-> do, skip |-> n]
Compare(n) == [op |-> "compare", skip |-> n]   \* is the line data?
Op(name) == [op |-> name]

\* ----- debug.c, mounted and f_mount
DebugMscMount_Zero ==
  <<If("mounted", 2), Say, Return(TRUE),
    Fs("mount", 3), Say, Op("not mounted"), Return(TRUE), Return(TRUE)>>
DebugMscMount ==
  <<If("mounted", 2), Say, Return(TRUE),
    Fs("mount", 3), Say, Op("not mounted"), Return(FALSE), Return(TRUE)>>

DebugMscUnmount ==
  <<If("unmounted", 2), Say, Return(TRUE),
    Fs("unmount", 2), Say, Return(FALSE), Return(TRUE)>>

\* ----- debug.c and log.c: the files.  A file is opened, written and closed;
\* the sensor and the log are read in between, without output.
PmwStats == <<Fs("open", 2), Say, Return(TRUE), Fs("write", 1), Say, Fs("close", 1), Say>>
LogDumpToDisk == PmwStats
Pmw3360Frame == PmwStats

\* ----- pmw3360.c, into a file.  Nobody looks at what f_write returns.
PmwDumpData ==
  <<Fs("open", 2), Say, Return(TRUE), Say, Op("wait"), Say,
    Fs("write", 0), Fs("close", 1), Say>>

\* ----- fat_disk.c
FatDiskInit ==
  <<Fs("mkfs", 2), Say, Return(FALSE),
    Call("debug_msc_mount"), If("failed", 2), Say, Return(FALSE),
    Fs("open", 2), Say, If("never", 4), Fs("write", 1), Say, Fs("close", 1), Say,
    Call("debug_msc_unmount"), If("failed", 1), Say>>

\* ----- console.c: stats and data, which hand the disk over and back; data
\* has two more files.
HandOver_StayPlugged ==
  <<Call("debug_msc_mount"), If("failed", 2), Say, Return(FALSE), Say,
    Compare(2), Call("pmw_dump_data"), Call("debug_msc_pmw3360_frame"),
    Call("debug_msc_pmw_stats"), Call("log_dump_to_disk"),
    Call("debug_msc_unmount"), If("failed", 1), Say,
    Say, Plug(TRUE), Say>>
HandOver_EarlyPlug ==
  <<If("plugged", 2), Say, Plug(FALSE),
    Call("debug_msc_mount"), If("failed", 2), Say, Return(FALSE), Say,
    Compare(2), Call("pmw_dump_data"), Call("debug_msc_pmw3360_frame"),
    Call("debug_msc_pmw_stats"), Call("log_dump_to_disk"), Say, Plug(TRUE),
    Call("debug_msc_unmount"), If("failed", 1), Say, Say>>
HandOver_NoUnmount ==
  <<If("plugged", 2), Say, Plug(FALSE),
    Call("debug_msc_mount"), If("failed", 2), Say, Return(FALSE), Say,
    Compare(2), Call("pmw_dump_data"), Call("debug_msc_pmw3360_frame"),
    Call("debug_msc_pmw_stats"), Call("log_dump_to_disk"), Say, Plug(TRUE), Say>>
HandOver ==
  <<If("plugged", 2), Say, Plug(FALSE),
    Call("debug_msc_mount"), If("failed", 2), Say, Return(FALSE), Say,
    Compare(2), Call("pmw_dump_data"), Call("debug_msc_pmw3360_frame"),
    Call("debug_msc_pmw_stats"), Call("log_dump_to_disk"),
    Call("debug_msc_unmount"), If("failed", 1), Say,
    Say, Plug(TRUE), Say>>

\* mount reads the state before it prints it.
Mount == <<Op("state"), Say, Op("toggle"), Say>>

\* ----- usb_msc.c: the callbacks that print.
StartStop == <<Say>>                           \* without load_eject, or start,
PreventRemoval == StartStop                    \* or a lock
StartStopEject == <<Say, Plug(FALSE)>>
AllowRemoval == <<If("plugged", 3), Say, Plug(FALSE), Return(TRUE), Say>>

Function ==
  [debug_msc_mount |-> DebugMscMount, debug_msc_unmount |-> DebugMscUnmount,
   debug_msc_pmw_stats |-> PmwStats, log_dump_to_disk |-> LogDumpToDisk,
   debug_msc_pmw3360_frame |-> Pmw3360Frame, pmw_dump_data |-> PmwDumpData,
   main |-> FatDiskInit]
Console == [stats |-> HandOver, data |-> HandOver, mount |-> Mount]
Scsi == [prevent |-> PreventRemoval, eject |-> StartStopEject, allow |-> AllowRemoval]

Command == DOMAIN Console
ScsiCommand == DOMAIN Scsi
Program(fn) == IF fn \in Command THEN Console[fn]
               ELSE IF fn \in ScsiCommand THEN Scsi[fn] ELSE Function[fn]
-----------------------------------------------------------------------------
\* A frame of the stack: the function, the operation it is at, the local
\* variables state (of mount) and file, and whether the output it is at has
\* run a callback that prints (bound: one in every output).
Frame(fn) == [fn |-> fn, at |-> 1, state |-> FALSE, file |-> "none", heard |-> FALSE]

Idle == stack = <<>>
Top == Last(stack)
Code == Program(Top.fn)
Done == Top.at > Len(Code)
Now == Code[Top.at]
Doing(op) == ~Idle /\ ~Done /\ Now.op = op
DoingFs(do) == Doing("fs") /\ Now.do = do

SetTop(frame) == Append(Front(stack), frame)
Skip(n) == stack' = SetTop([Top EXCEPT !.at = @ + n])
UnderWay(fns) == \E k \in DOMAIN stack : stack[k].fn \in fns

\* No host before the end of boot.
Connected == ~UnderWay({"main"})

Holds(cond) ==
  CASE cond = "mounted" -> mounted
    [] cond = "unmounted" -> ~mounted
    [] cond = "plugged" -> medium_available
    [] cond = "failed" -> ~result
    [] cond = "never" -> FALSE

\* The disk changes under whoever has read it.
Outdated(cache) == IF cache = "valid" THEN "stale" ELSE cache

\* A fault that is somebody's choice.
Happens(fault) ==
  /\ fault = {} \/ Cardinality(faults) < MaxFaults
  /\ faults' = faults \cup fault

\* main starts again: the disk is zero, and the host has lost the device.
Restart ==
  /\ stack' = <<Frame("main")>>
  /\ medium_available' = FALSE
  /\ mounted' = FALSE
  /\ result' = TRUE
  /\ fs' = "none"
  /\ host' = "none"
  /\ ready' = FALSE
  /\ taken' = FALSE
  /\ faults' = {}

\* ----- one operation of the function that runs
Said ==
  /\ Doing("say")
  /\ stack' = SetTop([Top EXCEPT !.at = @ + 1, !.heard = FALSE])
  /\ UNCHANGED <<plug, firmware, hosts, faults>>

Branch ==
  /\ Doing("if")
  /\ Skip(IF Holds(Now.cond) THEN 1 ELSE Now.skip + 1)
  /\ UNCHANGED <<plug, firmware, hosts, faults>>

CallFunction ==
  /\ Doing("call")
  /\ stack' = Append(SetTop([Top EXCEPT !.at = @ + 1]), Frame(Now.fn))
  /\ UNCHANGED <<plug, firmware, hosts, faults>>

ReturnFrom ==
  /\ ~Idle
  /\ Done \/ Doing("return")
  /\ stack' = Front(stack)
  /\ result' = IF Done THEN result ELSE Now.ok
  /\ UNCHANGED <<plug, mounted, fs, hosts, faults>>

\* msc_set_medium_available.  A host that still knows the old medium has not
\* noticed that it was gone.
SetMedium(in) ==
  /\ medium_available' = in
  /\ taken' = (~in /\ (taken \/ Top.fn \in {"stats", "data"}))
  /\ faults' = faults \cup
       (IF in /\ ~medium_available /\ ready THEN {"unplugging missed"} ELSE {})

PlugMedium ==
  /\ \/ Doing("plug") /\ SetMedium(Now.in)
     \/ Doing("toggle") /\ SetMedium(~Top.state)
  /\ Skip(1)
  /\ UNCHANGED <<firmware, hosts>>

ReadState ==
  /\ Doing("state")
  /\ stack' = SetTop([Top EXCEPT !.at = @ + 1, !.state = medium_available])
  /\ UNCHANGED <<plug, firmware, hosts, faults>>

\* console.c:156 looks at the line once more, after output in which input that
\* came may have changed the buffer it is in.  A line may thus become another
\* one: either outcome is taken to be possible for stats and for data.
CompareLine ==
  /\ Doing("compare")
  /\ \E n \in {0, Now.skip} : Skip(n + 1)
  /\ UNCHANGED <<plug, firmware, hosts, faults>>

\* pmw_dump_data waits for the MOTION pin.
BallMoves ==
  /\ Doing("wait")
  /\ Skip(1)
  /\ UNCHANGED <<plug, firmware, hosts, faults>>

\* ----- FatFS
Fails ==
  /\ Doing("fs")
  /\ Skip(1)
  /\ Happens(CASE Now.do = "mount" -> {"mount failed"}
               [] Now.do = "unmount" -> {"unmount failed"}
               [] OTHER -> {})
  /\ UNCHANGED <<plug, firmware, hosts>>

\* debug_msc_mount, after it has reported that f_mount failed
NotMounted ==
  /\ Doing("not mounted")
  /\ Skip(1)
  /\ mounted' = FALSE
  /\ UNCHANGED <<plug, result, fs, hosts, faults>>

FMkfs ==
  /\ DoingFs("mkfs")
  /\ Skip(Now.skip + 1)
  /\ UNCHANGED <<plug, firmware, hosts, faults>>

\* The disk is read only when it is used.
FMount ==
  /\ DoingFs("mount")
  /\ mounted' = TRUE
  /\ fs' = "none"
  /\ Skip(Now.skip + 1)
  /\ UNCHANGED <<plug, result, hosts, faults>>

\* f_mount(0): the files that are open can no longer be written.
FUnmount ==
  /\ DoingFs("unmount")
  /\ mounted' = FALSE
  /\ fs' = "none"
  /\ stack' = [k \in DOMAIN stack |->
                 [stack[k] EXCEPT !.file = IF @ = "open" THEN "dead" ELSE @,
                                  !.at = IF k = Len(stack) THEN @ + Now.skip + 1 ELSE @]]
  /\ UNCHANGED <<plug, result, hosts, faults>>

\* FA_CREATE_ALWAYS: already opening writes.
FOpen ==
  /\ DoingFs("open")
  /\ mounted
  /\ fs' = IF fs = "none" THEN "valid" ELSE fs
  /\ host' = Outdated(host)
  /\ stack' = SetTop([Top EXCEPT !.at = @ + Now.skip + 1, !.file = "open"])
  /\ UNCHANGED <<plug, mounted, result, ready, faults>>

FWriteOrClose ==
  /\ DoingFs("write") \/ DoingFs("close")
  /\ Top.file = "open"
  /\ host' = Outdated(host)
  /\ stack' = SetTop([Top EXCEPT !.at = @ + Now.skip + 1,
                                 !.file = IF Now.do = "close" THEN "none" ELSE @])
  /\ UNCHANGED <<plug, firmware, ready, faults>>
-----------------------------------------------------------------------------
\* ----- usb_msc.c.  The host asks for something in the main loop or in an
\* output, and waits for the answer before it asks for more.
Serving ==
  /\ Connected
  /\ Idle \/ Doing("say")
  /\ ~UnderWay(ScsiCommand)

\* tud_msc_test_unit_ready_cb, tud_msc_capacity_cb: without a medium the host
\* forgets what it has read.
TestUnitReady ==
  /\ Serving
  /\ ready' = medium_available
  /\ host' = IF medium_available THEN host ELSE "none"
  /\ UNCHANGED <<stack, plug, firmware, faults>>

\* tud_msc_read10_cb, tud_msc_write10_cb: no look at medium_available.
Read10 ==
  /\ Serving
  /\ ready
  /\ host = "none"
  /\ host' = "valid"
  /\ UNCHANGED <<stack, plug, firmware, ready, faults>>

Write10 ==
  /\ Serving
  /\ ready
  /\ host # "none"
  /\ fs' = Outdated(fs)
  /\ Happens(IF medium_available THEN {} ELSE {"written unplugged"})
  /\ UNCHANGED <<stack, plug, mounted, result, hosts>>

Push(fn) == stack' = Append(IF Idle THEN <<>> ELSE SetTop([Top EXCEPT !.heard = TRUE]),
                            Frame(fn))
MayPush == Idle \/ (Doing("say") /\ ~Top.heard)

\* tud_msc_start_stop_cb, tud_msc_scsi_cb.  A host that gives up the medium
\* has forgotten what it has read.
ScsiWithOutput(fn) ==
  /\ Serving
  /\ MayPush
  /\ Push(fn)
  /\ IF fn \in {"eject", "allow"} THEN host' = "none" /\ ready' = FALSE
     ELSE UNCHANGED hosts
  /\ UNCHANGED <<plug, firmware, faults>>

\* A line comes, or is repeated.
RunCommand(cmd) ==
  /\ Connected
  /\ MayPush
  /\ Cardinality({k \in DOMAIN stack : stack[k].fn \in Command}) < MaxNest
  /\ Push(cmd)
  /\ Happens(IF ~Idle /\ mounted THEN {"command nested"} ELSE {})
  /\ UNCHANGED <<plug, firmware, hosts>>

\* The command reset, or the watchdog, as nobody takes the output.
Reset ==
  /\ Connected
  /\ Idle \/ Doing("say")
  /\ Restart

Init ==
  /\ stack = <<Frame("main")>>
  /\ medium_available = FALSE
  /\ mounted = FALSE
  /\ result = TRUE
  /\ fs = "none"
  /\ host = "none"
  /\ ready = FALSE
  /\ taken = FALSE
  /\ faults = {}

Execute ==
  \/ Said \/ Branch \/ CallFunction \/ ReturnFrom \/ PlugMedium \/ ReadState \/ CompareLine
  \/ Fails \/ NotMounted \/ FMkfs \/ FMount \/ FUnmount \/ FOpen \/ FWriteOrClose

Next ==
  \/ Execute \/ BallMoves \/ Reset
  \/ TestUnitReady \/ Read10 \/ Write10
  \/ \E fn \in ScsiCommand : ScsiWithOutput(fn)
  \/ \E cmd \in Command : RunCommand(cmd)

Spec == Init /\ [][Next]_vars
-----------------------------------------------------------------------------
Frames ==
  [fn : Command \cup ScsiCommand \cup DOMAIN Function, at : Nat, state : BOOLEAN,
   file : {"none", "open", "dead"}, heard : BOOLEAN]

\* The stack holds functions of Program at one of their operations.
TypeOK ==
  /\ stack \in Seq(Frames)
  /\ \A k \in DOMAIN stack : stack[k].at \in 1 .. Len(Program(stack[k].fn)) + 1
  /\ {medium_available, mounted, result, ready, taken} \subseteq BOOLEAN
  /\ {fs, host} \subseteq {"none", "valid", "stale"}
  /\ faults \subseteq {"mount failed", "unmount failed", "command nested",
                       "unplugging missed", "written unplugged"}

\* The firmware has the file system mounted only while the host is told that
\* there is no medium (console.c:144-166), unless unmounting failed, which
\* plugs the medium in all the same (console.c:162-166), or another command
\* ran in the output of the one that had it mounted.
Exclusive ==
  mounted /\ medium_available
     => faults \cap {"unmount failed", "command nested"} # {}

\* A host that may use the disk knows what is on it: whatever the firmware has
\* written since the host read the file system, the host has been told in
\* between that the medium was gone, unless it asked too seldom to notice, or a
\* second command plugged the medium in while the first went on writing.
HostUpToDate ==
  medium_available /\ host = "stale"
     => faults \cap {"unplugging missed", "command nested"} # {}

\* The firmware never writes with an outdated picture of the file system, unless
\* the host has written although it was unplugged, which nothing prevents
\* (usb_msc.c:141-155), or the two had it mounted together.
FirmwareUpToDate ==
  fs = "stale"
     => faults \cap {"written unplugged", "unmount failed", "command nested"} # {}

\* Whatever stats and data write goes to a mounted file system and a file that
\* is still open, unless another command unmounted it in their output; the
\* errors of f_write that pmw_dump_data ignores cannot have this cause.
FilesReachable ==
  Doing("fs") /\ Now.do \in {"open", "write", "close"}
     => (mounted /\ Top.file # "dead") \/ "command nested" \in faults

\* Back in the main loop the file system is unmounted and, if stats or data had
\* unplugged the medium, it is plugged in again, but for the early return when
\* f_mount fails (console.c:148-152), which leaves the host without it.
HandedBack ==
  Idle => /\ mounted => "unmount failed" \in faults
          /\ taken => "mount failed" \in faults
=============================================================================
