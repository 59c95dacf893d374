--------------------------- MODULE MassStorageProofs ---------------------------
(* Proofs about MassStorage: the disk has one user at a time, whatever the  *)
(* host asks for and whatever prints in between, for any number of nested   *)
(* commands and of faults, but for the faults that the properties name.     *)
EXTENDS MassStorage, SequenceTheorems, TLAPS

-----------------------------------------------------------------------------
\* Who mounts and unmounts, and where it calls debug_msc_unmount; who writes.
Callers == {"main", "stats", "data"}
Unmounting == [main |-> 15, stats |-> 14, data |-> 14]
Files == {"debug_msc_pmw_stats", "log_dump_to_disk", "debug_msc_pmw3360_frame", "pmw_dump_data"}

\* What the operation o of a function is.
IfAt(o, cond, n) == o.op = "if" /\ o.cond = cond /\ o.skip = n
ReturnAt(o, ok) == o.op = "return" /\ o.ok = ok
CallAt(o, fns) == o.op = "call" /\ o.fn \in fns
PlugAt(o, in) == o.op = "plug" /\ o.in = in
FsAt(o, does, n) == o.op = "fs" /\ o.do \in does /\ o.skip = n

(* The operations are known by their op. *)
LEMMA Operations ==
  /\ Say.op = "say"
  /\ \A cond, n : IfAt(If(cond, n), cond, n)
  /\ \A ok : ReturnAt(Return(ok), ok)
  /\ \A fn : CallAt(Call(fn), {fn})
  /\ \A in : PlugAt(Plug(in), in)
  /\ \A do, n : FsAt(Fs(do, n), {do}, n)
  /\ \A n : Compare(n).op = "compare" /\ Compare(n).skip = n
  /\ \A name : Op(name).op = name
BY DEF Say, Compare, If, Return, Call, Plug, Fs, Op, IfAt, ReturnAt, CallAt, PlugAt, FsAt

(* debug_msc_mount, operation by operation. *)
LEMMA MountTable ==
  /\ Len(DebugMscMount) = 8
  /\ \A i \in 1 .. 8 :
     LET o == DebugMscMount[i]
     IN  \/ i = 1 /\ IfAt(o, "mounted", 2)
         \/ i \in {2, 5} /\ o.op = "say"
         \/ i \in {3, 8} /\ ReturnAt(o, TRUE)
         \/ i = 4 /\ FsAt(o, {"mount"}, 3)
         \/ i = 6 /\ o.op = "not mounted"
         \/ i = 7 /\ ReturnAt(o, FALSE)
<1>1. /\ DebugMscMount[1] = If("mounted", 2) /\ DebugMscMount[2] = Say
      /\ DebugMscMount[3] = Return(TRUE) /\ DebugMscMount[4] = Fs("mount", 3)
      /\ DebugMscMount[5] = Say /\ DebugMscMount[6] = Op("not mounted")
      /\ DebugMscMount[7] = Return(FALSE) /\ DebugMscMount[8] = Return(TRUE)
      /\ Len(DebugMscMount) = 8
  BY DEF DebugMscMount
<1>2. \A i \in 1 .. 8 : i = 1 \/ i = 2 \/ i = 3 \/ i = 4 \/ i = 5 \/ i = 6 \/ i = 7 \/ i = 8
  OBVIOUS
<1>3. /\ IfAt(DebugMscMount[1], "mounted", 2) /\ DebugMscMount[2].op = "say"
      /\ ReturnAt(DebugMscMount[3], TRUE) /\ FsAt(DebugMscMount[4], {"mount"}, 3)
      /\ DebugMscMount[5].op = "say" /\ DebugMscMount[6].op = "not mounted"
      /\ ReturnAt(DebugMscMount[7], FALSE) /\ ReturnAt(DebugMscMount[8], TRUE)
  BY <1>1, Operations
<1>. QED  BY <1>1, <1>2, <1>3

(* debug_msc_unmount *)
LEMMA UnmountTable ==
  /\ Len(DebugMscUnmount) = 7
  /\ \A i \in 1 .. 7 :
     LET o == DebugMscUnmount[i]
     IN  \/ i = 1 /\ IfAt(o, "unmounted", 2)
         \/ i \in {2, 5} /\ o.op = "say"
         \/ i \in {3, 7} /\ ReturnAt(o, TRUE)
         \/ i = 4 /\ FsAt(o, {"unmount"}, 2)
         \/ i = 6 /\ ReturnAt(o, FALSE)
<1>1. /\ DebugMscUnmount[1] = If("unmounted", 2) /\ DebugMscUnmount[2] = Say
      /\ DebugMscUnmount[3] = Return(TRUE) /\ DebugMscUnmount[4] = Fs("unmount", 2)
      /\ DebugMscUnmount[5] = Say /\ DebugMscUnmount[6] = Return(FALSE)
      /\ DebugMscUnmount[7] = Return(TRUE) /\ Len(DebugMscUnmount) = 7
  BY DEF DebugMscUnmount
<1>2. \A i \in 1 .. 7 : i = 1 \/ i = 2 \/ i = 3 \/ i = 4 \/ i = 5 \/ i = 6 \/ i = 7
  OBVIOUS
<1>3. /\ IfAt(DebugMscUnmount[1], "unmounted", 2) /\ DebugMscUnmount[2].op = "say"
      /\ ReturnAt(DebugMscUnmount[3], TRUE) /\ FsAt(DebugMscUnmount[4], {"unmount"}, 2)
      /\ DebugMscUnmount[5].op = "say" /\ ReturnAt(DebugMscUnmount[6], FALSE)
      /\ ReturnAt(DebugMscUnmount[7], TRUE)
  BY <1>1, Operations
<1>. QED  BY <1>1, <1>2, <1>3

(* The functions that write a file: all of it happens in its own frame. *)
LEMMA FileTable ==
  /\ Len(PmwStats) = 7
  /\ \A i \in 1 .. 7 :
     LET o == PmwStats[i]
     IN  \/ i = 1 /\ FsAt(o, {"open"}, 2)
         \/ i \in {2, 5, 7} /\ o.op = "say"
         \/ i = 3 /\ ReturnAt(o, TRUE)
         \/ i \in {4, 6} /\ FsAt(o, {"write", "close"}, 1)
<1>1. /\ PmwStats[1] = Fs("open", 2) /\ PmwStats[2] = Say /\ PmwStats[3] = Return(TRUE)
      /\ PmwStats[4] = Fs("write", 1) /\ PmwStats[5] = Say /\ PmwStats[6] = Fs("close", 1)
      /\ PmwStats[7] = Say /\ Len(PmwStats) = 7
  BY DEF PmwStats
<1>2. \A i \in 1 .. 7 : i = 1 \/ i = 2 \/ i = 3 \/ i = 4 \/ i = 5 \/ i = 6 \/ i = 7
  OBVIOUS
<1>3. /\ FsAt(PmwStats[1], {"open"}, 2) /\ PmwStats[2].op = "say" /\ ReturnAt(PmwStats[3], TRUE)
      /\ FsAt(PmwStats[4], {"write"}, 1) /\ PmwStats[5].op = "say"
      /\ FsAt(PmwStats[6], {"close"}, 1) /\ PmwStats[7].op = "say"
  BY <1>1, Operations
<1>4. FsAt(PmwStats[4], {"write", "close"}, 1) /\ FsAt(PmwStats[6], {"write", "close"}, 1)
  BY <1>3 DEF FsAt
<1>. QED  BY <1>1, <1>2, <1>3, <1>4

(* pmw_dump_data, which waits in between and ignores what f_write returns *)
LEMMA DumpTable ==
  /\ Len(PmwDumpData) = 9
  /\ \A i \in 1 .. 9 :
     LET o == PmwDumpData[i]
     IN  \/ i = 1 /\ FsAt(o, {"open"}, 2)
         \/ i \in {2, 4, 6, 9} /\ o.op = "say"
         \/ i = 3 /\ ReturnAt(o, TRUE)
         \/ i = 5 /\ o.op = "wait"
         \/ i = 7 /\ FsAt(o, {"write", "close"}, 0)
         \/ i = 8 /\ FsAt(o, {"write", "close"}, 1)
<1>1. /\ PmwDumpData[1] = Fs("open", 2) /\ PmwDumpData[2] = Say
      /\ PmwDumpData[3] = Return(TRUE) /\ PmwDumpData[4] = Say /\ PmwDumpData[5] = Op("wait")
      /\ PmwDumpData[6] = Say /\ PmwDumpData[7] = Fs("write", 0)
      /\ PmwDumpData[8] = Fs("close", 1) /\ PmwDumpData[9] = Say /\ Len(PmwDumpData) = 9
  BY DEF PmwDumpData
<1>2. \A i \in 1 .. 9 : i = 1 \/ i = 2 \/ i = 3 \/ i = 4 \/ i = 5 \/ i = 6 \/ i = 7 \/ i = 8 \/ i = 9
  OBVIOUS
<1>3. /\ FsAt(PmwDumpData[1], {"open"}, 2) /\ PmwDumpData[2].op = "say"
      /\ ReturnAt(PmwDumpData[3], TRUE) /\ PmwDumpData[4].op = "say"
      /\ PmwDumpData[5].op = "wait" /\ PmwDumpData[6].op = "say"
      /\ FsAt(PmwDumpData[7], {"write"}, 0) /\ FsAt(PmwDumpData[8], {"close"}, 1)
      /\ PmwDumpData[9].op = "say"
  BY <1>1, Operations
<1>4. FsAt(PmwDumpData[7], {"write", "close"}, 0) /\ FsAt(PmwDumpData[8], {"write", "close"}, 1)
  BY <1>3 DEF FsAt
<1>. QED  BY <1>1, <1>2, <1>3, <1>4

\* fat_disk_init at its operation i
InMain(i, o) ==
  \/ i = 1 /\ FsAt(o, {"mkfs"}, 2)
  \/ i \in {2, 6, 9, 12, 14, 17} /\ o.op = "say"
  \/ i \in {3, 7} /\ ReturnAt(o, FALSE)
  \/ i = 4 /\ CallAt(o, {"debug_msc_mount"})
  \/ i = 5 /\ IfAt(o, "failed", 2)
  \/ i = 8 /\ FsAt(o, {"open"}, 2)
  \/ i = 10 /\ IfAt(o, "never", 4)
  \/ i \in {11, 13} /\ FsAt(o, {"write", "close"}, 1)
  \/ i = 15 /\ CallAt(o, {"debug_msc_unmount"})
  \/ i = 16 /\ IfAt(o, "failed", 1)

(* It is so at each. *)
LEMMA MainTable ==
  Len(FatDiskInit) = 17 /\ \A i \in 1 .. 17 : InMain(i, FatDiskInit[i])
<1>1. /\ FatDiskInit[1] = Fs("mkfs", 2) /\ FatDiskInit[2] = Say /\ FatDiskInit[3] = Return(FALSE)
      /\ FatDiskInit[4] = Call("debug_msc_mount") /\ FatDiskInit[5] = If("failed", 2)
      /\ FatDiskInit[6] = Say /\ FatDiskInit[7] = Return(FALSE)
      /\ FatDiskInit[8] = Fs("open", 2) /\ FatDiskInit[9] = Say /\ FatDiskInit[10] = If("never", 4)
      /\ FatDiskInit[11] = Fs("write", 1) /\ FatDiskInit[12] = Say
      /\ FatDiskInit[13] = Fs("close", 1) /\ FatDiskInit[14] = Say
      /\ FatDiskInit[15] = Call("debug_msc_unmount") /\ FatDiskInit[16] = If("failed", 1)
      /\ FatDiskInit[17] = Say /\ Len(FatDiskInit) = 17
  BY DEF FatDiskInit
<1>2. /\ InMain(1, FatDiskInit[1]) /\ InMain(3, FatDiskInit[3])
      /\ InMain(7, FatDiskInit[7]) /\ InMain(8, FatDiskInit[8])
  BY <1>1, Operations DEF InMain
<1>3. \A i \in {2, 6, 9, 12, 14, 17} : InMain(i, FatDiskInit[i])
  BY <1>1, Operations DEF InMain
<1>4. InMain(4, FatDiskInit[4]) /\ InMain(15, FatDiskInit[15])
  BY <1>1, Operations DEF InMain
<1>5. InMain(5, FatDiskInit[5]) /\ InMain(10, FatDiskInit[10]) /\ InMain(16, FatDiskInit[16])
  BY <1>1, Operations DEF InMain
<1>6. InMain(11, FatDiskInit[11]) /\ InMain(13, FatDiskInit[13])
  <2>1. FsAt(FatDiskInit[11], {"write"}, 1) /\ FsAt(FatDiskInit[13], {"close"}, 1)
    BY <1>1, Operations
  <2>2. FsAt(FatDiskInit[11], {"write", "close"}, 1) /\ FsAt(FatDiskInit[13], {"write", "close"}, 1)
    BY <2>1 DEF FsAt
  <2>. QED  BY <2>2 DEF InMain
<1>7. \A i \in 1 .. 17 :
        i \in {2, 6, 9, 12, 14, 17} \/ i = 1 \/ i = 3 \/ i = 4 \/ i = 5 \/ i = 7 \/ i = 8
        \/ i = 10 \/ i = 11 \/ i = 13 \/ i = 15 \/ i = 16
  OBVIOUS
<1>. QED  BY <1>1, <1>2, <1>3, <1>4, <1>5, <1>6, <1>7

\* The commands stats and data at operation i, where n calls debug_msc_unmount.
InHandOver(i, n, o) ==
  \/ i = 1 /\ IfAt(o, "plugged", 2)
  \/ i \in {2, 6, 8, n + 2, n + 3, n + 5} /\ o.op = "say"
  \/ i = 3 /\ PlugAt(o, FALSE)
  \/ i = 4 /\ CallAt(o, {"debug_msc_mount"})
  \/ i = 5 /\ IfAt(o, "failed", 2)
  \/ i = 7 /\ ReturnAt(o, FALSE)
  \/ i = 9 /\ o.op = "compare" /\ o.skip = 2
  \/ i \in 10 .. n - 1 /\ CallAt(o, Files)
  \/ i = n /\ CallAt(o, {"debug_msc_unmount"})
  \/ i = n + 1 /\ IfAt(o, "failed", 1)
  \/ i = n + 4 /\ PlugAt(o, TRUE)

(* Both commands are one sequence. *)
LEMMA HandOverTable ==
  /\ Len(HandOver) = 19
  /\ \A i \in 1 .. 19 : InHandOver(i, 14, HandOver[i])
<1>1. /\ HandOver[1] = If("plugged", 2) /\ HandOver[2] = Say /\ HandOver[3] = Plug(FALSE)
      /\ HandOver[4] = Call("debug_msc_mount") /\ HandOver[5] = If("failed", 2)
      /\ HandOver[6] = Say /\ HandOver[7] = Return(FALSE) /\ HandOver[8] = Say
      /\ HandOver[9] = Compare(2) /\ HandOver[10] = Call("pmw_dump_data")
      /\ HandOver[11] = Call("debug_msc_pmw3360_frame")
      /\ HandOver[12] = Call("debug_msc_pmw_stats") /\ HandOver[13] = Call("log_dump_to_disk")
      /\ HandOver[14] = Call("debug_msc_unmount") /\ HandOver[15] = If("failed", 1)
      /\ HandOver[16] = Say /\ HandOver[17] = Say /\ HandOver[18] = Plug(TRUE)
      /\ HandOver[19] = Say /\ Len(HandOver) = 19
  BY DEF HandOver
<1>2. InHandOver(1, 14, HandOver[1]) /\ InHandOver(3, 14, HandOver[3]) /\ InHandOver(7, 14, HandOver[7])
  BY <1>1, Operations DEF InHandOver
<1>3. \A i \in {2, 6, 8, 16, 17, 19} : InHandOver(i, 14, HandOver[i])
  <2>1. \A i \in {2, 6, 8, 16, 17, 19} : HandOver[i] = Say
    BY <1>1
  <2>2. \A i \in {2, 6, 8, 16, 17, 19} : i \in {2, 6, 8, 14 + 2, 14 + 3, 14 + 5}
    OBVIOUS
  <2>. QED  BY <2>1, <2>2, Operations DEF InHandOver
<1>4. InHandOver(4, 14, HandOver[4]) /\ InHandOver(5, 14, HandOver[5])
  BY <1>1, Operations DEF InHandOver
<1>5. InHandOver(9, 14, HandOver[9])
  BY <1>1, Operations DEF InHandOver
<1>6. \A i \in {10, 11, 12, 13} : InHandOver(i, 14, HandOver[i])
  <2>1. /\ CallAt(HandOver[10], {"pmw_dump_data"})
        /\ CallAt(HandOver[11], {"debug_msc_pmw3360_frame"})
        /\ CallAt(HandOver[12], {"debug_msc_pmw_stats"})
        /\ CallAt(HandOver[13], {"log_dump_to_disk"})
    BY <1>1, Operations
  <2>2. \A i \in {10, 11, 12, 13} : CallAt(HandOver[i], Files)
    BY <2>1 DEF CallAt, Files
  <2>3. \A i \in {10, 11, 12, 13} : i \in 10 .. 14 - 1
    OBVIOUS
  <2>. QED  BY <2>2, <2>3 DEF InHandOver
<1>7. InHandOver(14, 14, HandOver[14]) /\ InHandOver(15, 14, HandOver[15]) /\ InHandOver(18, 14, HandOver[18])
  <2>1. InHandOver(14, 14, HandOver[14])
    BY <1>1, Operations DEF InHandOver
  <2>2. 15 = 14 + 1 /\ 18 = 14 + 4
    OBVIOUS
  <2>3. InHandOver(15, 14, HandOver[15])
    BY <1>1, <2>2, Operations DEF InHandOver
  <2>4. InHandOver(18, 14, HandOver[18])
    BY <1>1, <2>2, Operations DEF InHandOver
  <2>. QED  BY <2>1, <2>3, <2>4
<1>8. \A i \in 1 .. 19 :
        \/ i = 1 \/ i = 3 \/ i = 7 \/ i \in {2, 6, 8, 16, 17, 19} \/ i = 4 \/ i = 5 \/ i = 9
        \/ i \in {10, 11, 12, 13} \/ i = 14 \/ i = 15 \/ i = 18
  OBVIOUS
<1>. QED  BY <1>1, <1>2, <1>3, <1>4, <1>5, <1>6, <1>7, <1>8

(* It is what stats and data run. *)
LEMMA CommandTable ==
  ASSUME NEW fn \in {"stats", "data"}
  PROVE  /\ Unmounting[fn] = 14 /\ Len(Program(fn)) = Unmounting[fn] + 5
         /\ \A i \in 1 .. Unmounting[fn] + 5 : InHandOver(i, Unmounting[fn], Program(fn)[i])
<1>1. Program(fn) = HandOver
  BY DEF Program, Command, Console
<1>2. Unmounting[fn] = 14 /\ 14 + 5 = 19
  BY DEF Unmounting
<1>. QED  BY <1>1, <1>2, HandOverTable
-----------------------------------------------------------------------------
\* The console command mount, the callbacks of usb_msc.c, and the functions
\* that write a file, at operation i of l.
InToggle(i, o) ==
  (i = 1 /\ o.op = "state") \/ (i \in {2, 4} /\ o.op = "say") \/ (i = 3 /\ o.op = "toggle")
InScsi(fn, i, o) ==
  \/ fn \in {"prevent", "eject"} /\ i = 1 /\ o.op = "say"
  \/ fn = "eject" /\ i = 2 /\ PlugAt(o, FALSE)
  \/ fn = "allow" /\ i = 1 /\ IfAt(o, "plugged", 3)
  \/ fn = "allow" /\ i \in {2, 5} /\ o.op = "say"
  \/ fn = "allow" /\ i = 3 /\ PlugAt(o, FALSE)
  \/ fn = "allow" /\ i = 4 /\ ReturnAt(o, TRUE)
InFile(i, l, o) ==
  \/ i = 1 /\ FsAt(o, {"open"}, 2)
  \/ i \in 1 .. l /\ o.op \in {"say", "wait"}
  \/ i = 3 /\ ReturnAt(o, TRUE)
  \/ i \in 1 .. l - 1 /\ FsAt(o, {"write", "close"}, 1)
  \/ i \in 1 .. l - 1 /\ FsAt(o, {"write", "close"}, 0)
InMount(i, o) ==
  \/ i = 1 /\ IfAt(o, "mounted", 2)
  \/ i \in {2, 5} /\ o.op = "say"
  \/ i \in {3, 8} /\ ReturnAt(o, TRUE)
  \/ i = 4 /\ FsAt(o, {"mount"}, 3)
  \/ i = 6 /\ o.op = "not mounted"
  \/ i = 7 /\ ReturnAt(o, FALSE)
InUnmount(i, o) ==
  \/ i = 1 /\ IfAt(o, "unmounted", 2)
  \/ i \in {2, 5} /\ o.op = "say"
  \/ i \in {3, 7} /\ ReturnAt(o, TRUE)
  \/ i = 4 /\ FsAt(o, {"unmount"}, 2)
  \/ i = 6 /\ ReturnAt(o, FALSE)

\* The operation o of the function fn at i.
Place(fn, i, o) ==
  \/ fn = "main" /\ InMain(i, o)
  \/ fn \in {"stats", "data"} /\ InHandOver(i, Unmounting[fn], o)
  \/ fn = "mount" /\ InToggle(i, o)
  \/ fn \in ScsiCommand /\ InScsi(fn, i, o)
  \/ fn = "debug_msc_mount" /\ InMount(i, o)
  \/ fn = "debug_msc_unmount" /\ InUnmount(i, o)
  \/ fn \in Files /\ InFile(i, Len(Program(fn)), o)

(* What the functions are called. *)
LEMMA Names ==
  /\ Command = {"stats", "data", "mount"} /\ ScsiCommand = {"prevent", "eject", "allow"}
  /\ DOMAIN Function = Files \cup {"debug_msc_mount", "debug_msc_unmount", "main"}
BY DEF Command, ScsiCommand, Console, Scsi, Function, Files

(* How many operations each has. *)
LEMMA Lengths ==
  /\ Len(Program("main")) = 17 /\ Len(Program("mount")) = 4
  /\ \A fn \in {"stats", "data"} :
       Unmounting[fn] = 14 /\ Len(Program(fn)) = Unmounting[fn] + 5
  /\ Unmounting["main"] = 15
  /\ Len(Program("prevent")) = 1 /\ Len(Program("eject")) = 2 /\ Len(Program("allow")) = 5
  /\ Len(Program("debug_msc_mount")) = 8 /\ Len(Program("debug_msc_unmount")) = 7
  /\ \A fn \in Files : Len(Program(fn)) \in {7, 9}
<1>1. Program("main") = FatDiskInit
  BY Names DEF Program, Function
<1>2. Program("mount") = Mount /\ Len(Mount) = 4
  BY Names DEF Program, Console, Mount
<1>3. Program("prevent") = <<Say>> /\ Program("eject") = StartStopEject /\ Program("allow") = AllowRemoval
  BY Names DEF Program, Scsi, PreventRemoval, StartStop
<1>4. Len(<<Say>>) = 1 /\ Len(StartStopEject) = 2 /\ Len(AllowRemoval) = 5
  BY DEF StartStopEject, AllowRemoval
<1>5. Program("debug_msc_mount") = DebugMscMount /\ Program("debug_msc_unmount") = DebugMscUnmount
  BY Names DEF Program, Function
<1>6. /\ Program("debug_msc_pmw_stats") = PmwStats /\ Program("log_dump_to_disk") = PmwStats
      /\ Program("debug_msc_pmw3360_frame") = PmwStats /\ Program("pmw_dump_data") = PmwDumpData
  BY Names DEF Program, Function, LogDumpToDisk, Pmw3360Frame
<1>7. Unmounting["main"] = 15
  BY DEF Unmounting
<1>8. \A fn \in Files : Len(Program(fn)) \in {7, 9}
  BY <1>6, FileTable, DumpTable DEF Files
<1>. QED  BY <1>1, <1>2, <1>3, <1>4, <1>5, <1>7, <1>8, MainTable, MountTable, UnmountTable, CommandTable

(* Every operation of every function is in its place. *)
LEMMA Places ==
  ASSUME NEW fn \in Command \cup ScsiCommand \cup DOMAIN Function, NEW i \in 1 .. Len(Program(fn))
  PROVE  Place(fn, i, Program(fn)[i])
<1>1. CASE fn = "main"
  <2>1. Program(fn) = FatDiskInit
    BY <1>1, Names DEF Program, Function
  <2>. QED  BY <1>1, <2>1, MainTable DEF Place
<1>2. CASE fn \in {"stats", "data"}
  <2>1. i \in 1 .. Unmounting[fn] + 5 /\ InHandOver(i, Unmounting[fn], Program(fn)[i])
    BY <1>2, CommandTable
  <2>. QED  BY <1>2, <2>1 DEF Place
<1>3. CASE fn = "mount"
  <2>1. Program(fn) = Mount /\ Len(Mount) = 4
    BY <1>3, Names DEF Program, Console, Mount
  <2>2. /\ Mount[1] = Op("state") /\ Mount[2] = Say /\ Mount[3] = Op("toggle") /\ Mount[4] = Say
    BY DEF Mount
  <2>3. i = 1 \/ i = 2 \/ i = 3 \/ i = 4
    BY <2>1
  <2>4. InToggle(i, Program(fn)[i])
    BY <2>1, <2>2, <2>3, Operations DEF InToggle
  <2>. QED  BY <1>3, <2>4 DEF Place
<1>4. CASE fn \in ScsiCommand
  <2>1. CASE fn = "prevent"
    <3>1. Program(fn) = <<Say>>
      BY <2>1, Names DEF Program, Scsi, PreventRemoval, StartStop
    <3>2. i = 1 /\ Program(fn)[i] = Say
      BY <3>1
    <3>3. InScsi(fn, i, Program(fn)[i])
      BY <2>1, <3>2, Operations DEF InScsi
    <3>. QED  BY <1>4, <3>3 DEF Place
  <2>2. CASE fn = "eject"
    <3>1. Program(fn) = <<Say, Plug(FALSE)>>
      BY <2>2, Names DEF Program, Scsi, StartStopEject
    <3>a. /\ Len(<<Say, Plug(FALSE)>>) = 2 /\ <<Say, Plug(FALSE)>>[1] = Say
          /\ <<Say, Plug(FALSE)>>[2] = Plug(FALSE)
      OBVIOUS
    <3>b. i = 1 \/ i = 2
      BY <3>1, <3>a
    <3>2. (i = 1 /\ Program(fn)[i] = Say) \/ (i = 2 /\ Program(fn)[i] = Plug(FALSE))
      BY <3>1, <3>a, <3>b
    <3>3. InScsi(fn, i, Program(fn)[i])
      BY <2>2, <3>2, Operations DEF InScsi
    <3>. QED  BY <1>4, <3>3 DEF Place
  <2>3. CASE fn = "allow"
    <3>1. Program(fn) = AllowRemoval
      BY <2>3, Names DEF Program, Scsi
    <3>2. /\ Len(AllowRemoval) = 5 /\ AllowRemoval[1] = If("plugged", 3) /\ AllowRemoval[2] = Say
          /\ AllowRemoval[3] = Plug(FALSE) /\ AllowRemoval[4] = Return(TRUE) /\ AllowRemoval[5] = Say
      BY DEF AllowRemoval
    <3>3. i = 1 \/ i = 2 \/ i = 3 \/ i = 4 \/ i = 5
      BY <3>1, <3>2
    <3>4. InScsi(fn, i, AllowRemoval[i])
      BY <2>3, <3>2, <3>3, Operations DEF InScsi
    <3>. QED  BY <1>4, <3>1, <3>4 DEF Place
  <2>. QED  BY <1>4, <2>1, <2>2, <2>3, Names
<1>5. CASE fn = "debug_msc_mount"
  <2>1. Program(fn) = DebugMscMount
    BY <1>5, Names DEF Program, Function
  <2>2. InMount(i, Program(fn)[i])
    BY <2>1, MountTable DEF InMount
  <2>. QED  BY <1>5, <2>2 DEF Place
<1>6. CASE fn = "debug_msc_unmount"
  <2>1. Program(fn) = DebugMscUnmount
    BY <1>6, Names DEF Program, Function
  <2>2. InUnmount(i, Program(fn)[i])
    BY <2>1, UnmountTable DEF InUnmount
  <2>. QED  BY <1>6, <2>2 DEF Place
<1>7. CASE fn \in Files
  <2>1. CASE fn = "pmw_dump_data"
    <3>1. Program(fn) = PmwDumpData
      BY <2>1, Names DEF Program, Function
    <3>2. i \in 1 .. 9
      BY <3>1, DumpTable
    <3>3. PICK o : o = PmwDumpData[i]
      OBVIOUS
    <3>a. \/ i = 1 /\ FsAt(o, {"open"}, 2)
          \/ i \in {2, 4, 6, 9} /\ o.op = "say"
          \/ i = 3 /\ ReturnAt(o, TRUE)
          \/ i = 5 /\ o.op = "wait"
          \/ i = 7 /\ FsAt(o, {"write", "close"}, 0)
          \/ i = 8 /\ FsAt(o, {"write", "close"}, 1)
      BY <3>2, <3>3, DumpTable
    <3>b. /\ i \in {2, 4, 6, 9} \/ i = 5 => i \in 1 .. 9
          /\ i \in {7, 8} => i \in 1 .. 9 - 1
      OBVIOUS
    <3>4. InFile(i, 9, o)
      BY <3>a, <3>b, Zenon DEF InFile
    <3>. QED  BY <1>7, <3>1, <3>3, <3>4, DumpTable DEF Place
  <2>2. CASE fn # "pmw_dump_data"
    <3>1. Program(fn) = PmwStats
      BY <1>7, <2>2, Names DEF Program, Function, LogDumpToDisk, Pmw3360Frame, Files
    <3>2. i \in 1 .. 7
      BY <3>1, FileTable
    <3>3. PICK o : o = PmwStats[i]
      OBVIOUS
    <3>a. \/ i = 1 /\ FsAt(o, {"open"}, 2)
          \/ i \in {2, 5, 7} /\ o.op = "say"
          \/ i = 3 /\ ReturnAt(o, TRUE)
          \/ i \in {4, 6} /\ FsAt(o, {"write", "close"}, 1)
      BY <3>2, <3>3, FileTable
    <3>b. /\ i \in {2, 5, 7} => i \in 1 .. 7
          /\ i \in {4, 6} => i \in 1 .. 7 - 1
      OBVIOUS
    <3>4. InFile(i, 7, o)
      BY <3>a, <3>b, Zenon DEF InFile
    <3>. QED  BY <1>7, <3>1, <3>3, <3>4, FileTable DEF Place
  <2>. QED  BY <2>1, <2>2
<1>. QED  BY <1>1, <1>2, <1>3, <1>4, <1>5, <1>6, <1>7, Names
-----------------------------------------------------------------------------
\* ----- The inductive invariant, in which frames of the stack promise things.
\* In f the file system is mounted and stays so; f needs it mounted.
Keeps(f) ==
  \/ f.fn \in Callers /\ f.at \in 8 .. Unmounting[f.fn]
  \/ f.fn = "debug_msc_mount" /\ f.at \in {2, 3, 8}
  \/ f.fn = "debug_msc_unmount" /\ f.at \in {1, 4}
Needs(f) == Keeps(f) \/ f.fn \in Files
\* f looks at what debug_msc_mount returned; is on its way to f_mount; saw it
\* fail; has unplugged the medium and will plug it in.
Judges(f) == f.fn \in Callers /\ f.at = 5
Mounts(f) ==
  \/ f.fn \in Callers /\ f.at = 4
  \/ f.fn = "debug_msc_mount" /\ f.at \in {1, 4}
Failed(f) == f.fn = "debug_msc_mount" /\ f.at \in 5 .. 7
Takes(f) == f.fn \in {"stats", "data"} /\ f.at \in {4, 5} \cup 8 .. Unmounting[f.fn] + 4

\* What may run in the output of a function or be called by it: g above f.
Outside == Command \cup ScsiCommand
Above(f, g) ==
  \/ g.fn \in Outside /\ ~Judges(f) /\ ~Mounts(f) /\ f.fn # "main"
  \/ g.fn = "debug_msc_mount" /\ f.fn \in Callers /\ f.at = 5
  \/ g.fn = "debug_msc_unmount" /\ f.fn \in Callers /\ f.at = Unmounting[f.fn] + 1
  \/ g.fn \in Files /\ f.fn \in {"stats", "data"} /\ f.at \in 9 .. Unmounting[f.fn]

FrameOK(f) ==
  /\ f.at \in 1 .. Len(Program(f.fn)) + 1
  /\ f.fn = "debug_msc_mount" => f.at <= 8
  /\ f.file # "none" => f.fn \in Files \/ (f.fn = "main" /\ f.at >= 11)

\* The stack of a main loop, or of main alone.
Booting == ~Idle /\ stack[1].fn = "main"
Shape ==
  /\ \A k \in 1 .. Len(stack) : FrameOK(stack[k])
  /\ ~Idle => stack[1].fn \in Outside \cup {"main"}
  /\ \A k \in 2 .. Len(stack) : Above(stack[k - 1], stack[k]) /\ stack[k].fn # "main"
  /\ \A k \in 1 .. Len(stack) : stack[k].fn \in Outside => ~Booting
  /\ Booting => ~medium_available

\* With no command nested: who needs the file system has it, for itself.
Alone == "command nested" \notin faults
Owned ==
  /\ \A k \in 1 .. Len(stack) : Needs(stack[k]) => mounted /\ ~medium_available
  /\ \A j, k \in 1 .. Len(stack) : j < k /\ stack[k].fn \in Command => ~Needs(stack[j])
  /\ ~Idle /\ Judges(Top) /\ result => mounted /\ ~medium_available
  /\ \A k \in 1 .. Len(stack) :
       stack[k].file = "dead" => stack[k].fn = "main" /\ stack[k].at >= 16

\* Whatever is mounted is somebody's, and so is the medium that is out.
Held ==
  /\ ~Idle /\ Mounts(Top) => ~medium_available
  /\ mounted /\ "unmount failed" \notin faults =>
       \/ ~Idle /\ Judges(Top) /\ result
       \/ \E k \in 1 .. Len(stack) : Keeps(stack[k])
Accounted ==
  "mount failed" \notin faults =>
     /\ \A k \in 1 .. Len(stack) : ~Failed(stack[k])
     /\ ~Idle /\ Judges(Top) => result
     /\ taken => \E k \in 1 .. Len(stack) : Takes(stack[k])

Ordered == Shape /\ (Alone => Owned) /\ Held /\ Accounted

\* What FatFS and the host have in memory.
Cached ==
  /\ fs # "none" /\ faults \cap {"unmount failed", "command nested"} = {} => mounted
  /\ host # "none" => ready
  /\ HostUpToDate
  /\ FirmwareUpToDate

Faults == {"mount failed", "unmount failed", "command nested", "unplugging missed",
           "written unplugged"}
Typed ==
  /\ stack \in Seq(Frames)
  /\ medium_available \in BOOLEAN /\ mounted \in BOOLEAN /\ result \in BOOLEAN
  /\ ready \in BOOLEAN /\ taken \in BOOLEAN
  /\ fs \in {"none", "valid", "stale"} /\ host \in {"none", "valid", "stale"}
  /\ faults \subseteq Faults

IInv == Typed /\ Ordered /\ Cached

\* The stack t is s with g on top instead.
OnTop(s, t, g) ==
  /\ t \in Seq(Frames) /\ Len(t) = Len(s) /\ t[Len(s)] = g
  /\ \A k \in 1 .. Len(s) - 1 : t[k] = s[k]

(* Replacing the frame that runs leaves the others alone. *)
LEMMA TopReplaced ==
  ASSUME NEW s \in Seq(Frames), s # <<>>, NEW g \in Frames
  PROVE  OnTop(s, Append(Front(s), g), g)
<1>. PICK t : t = Append(Front(s), g)
  OBVIOUS
<1>1. PICK n \in Nat : n = Len(s) /\ n # 0
  OBVIOUS
<1>2. /\ Front(s) \in Seq(Frames) /\ Len(Front(s)) = n - 1
      /\ \A k \in 1 .. n - 1 : Front(s)[k] = s[k]
  BY <1>1 DEF Front
<1>4. t \in Seq(Frames) /\ Len(t) = n /\ t[n] = g /\ \A k \in 1 .. n - 1 : t[k] = s[k]
  <2>1. PICK u \in Seq(Frames) : u = Front(s)
    BY <1>2
  <2>2. Len(u) = n - 1 /\ t = Append(u, g) /\ \A k \in 1 .. n - 1 : u[k] = s[k]
    BY <1>2, <2>1
  <2>3. t \in Seq(Frames) /\ Len(t) = n - 1 + 1 /\ t[n - 1 + 1] = g
        /\ \A k \in 1 .. n - 1 : t[k] = u[k]
    BY <2>2
  <2>. QED  BY <1>1, <2>2, <2>3
<1>. QED  BY <1>1, <1>4 DEF OnTop

\* What the frames below the one that runs do.
Below == 1 .. Len(stack) - 1
NeededBelow == \E k \in Below : Needs(stack[k])
KeptBelow == \E k \in Below : Keeps(stack[k])
TakenBelow == \E k \in Below : Takes(stack[k])

\* The invariant, as the function that runs sees it.
Seen ==
  /\ Top \in Frames /\ FrameOK(Top)
  /\ Booting => ~medium_available
  /\ Top.fn \in Outside => ~Booting
  /\ Top.fn = "main" => Booting
  /\ Alone /\ (Needs(Top) \/ NeededBelow \/ (Judges(Top) /\ result))
       => mounted /\ ~medium_available
  /\ Alone /\ Top.fn \in Command => ~NeededBelow
  /\ Alone /\ Top.file = "dead" => Top.fn = "main" /\ Top.at >= 16
  /\ Mounts(Top) => ~medium_available
  /\ mounted /\ "unmount failed" \notin faults =>
       (Judges(Top) /\ result) \/ Keeps(Top) \/ KeptBelow
  /\ "mount failed" \notin faults =>
       ~Failed(Top) /\ (Judges(Top) => result) /\ (taken => Takes(Top) \/ TakenBelow)

(* It follows. *)
LEMMA Sees == ASSUME IInv, ~Idle PROVE Seen
<1>1. PICK n \in Nat : n = Len(stack) /\ n # 0
  BY DEF IInv, Typed, Idle
<1>2. Top = stack[n] /\ Top \in Frames /\ n \in 1 .. n
  BY <1>1 DEF IInv, Typed, Idle, Top, Last
<1>3. \A k \in 1 .. n : k = n \/ k \in 1 .. n - 1
  BY <1>1
<1>4. \A k \in 1 .. n - 1 : k \in 1 .. n /\ k < n
  BY <1>1
<1>5. FrameOK(Top) /\ (Booting => ~medium_available) /\ (Top.fn \in Outside => ~Booting)
  BY <1>1, <1>2 DEF IInv, Ordered, Shape
<1>6. Top.fn = "main" => Booting
  <2>1. n # 1 => n \in 2 .. n
    BY <1>1
  <2>. QED  BY <1>1, <1>2, <2>1 DEF IInv, Ordered, Shape, Booting
<1>7. Alone /\ (Needs(Top) \/ NeededBelow \/ (Judges(Top) /\ result))
        => mounted /\ ~medium_available
  BY <1>1, <1>2, <1>4 DEF IInv, Ordered, Owned, NeededBelow, Below
<1>8. Alone /\ Top.fn \in Command => ~NeededBelow
  BY <1>1, <1>2, <1>4 DEF IInv, Ordered, Owned, NeededBelow, Below
<1>9. Alone /\ Top.file = "dead" => Top.fn = "main" /\ Top.at >= 16
  BY <1>1, <1>2 DEF IInv, Ordered, Owned
<1>10. Mounts(Top) => ~medium_available
  BY DEF IInv, Ordered, Held
<1>11. mounted /\ "unmount failed" \notin faults =>
         (Judges(Top) /\ result) \/ Keeps(Top) \/ KeptBelow
  BY <1>1, <1>2, <1>3 DEF IInv, Ordered, Held, KeptBelow, Below
<1>12. "mount failed" \notin faults =>
         ~Failed(Top) /\ (Judges(Top) => result) /\ (taken => Takes(Top) \/ TakenBelow)
  BY <1>1, <1>2, <1>3 DEF IInv, Ordered, Accounted, TakenBelow, Below
<1>. QED  BY <1>2, <1>5, <1>6, <1>7, <1>8, <1>9, <1>10, <1>11, <1>12 DEF Seen

\* What the frame g, in the place of Top, has to promise after the step.
Promises(g) ==
  /\ g \in Frames /\ FrameOK(g) /\ g.fn = Top.fn /\ ~Judges(g)
  /\ Booting => ~medium_available'
  /\ Alone' /\ (Needs(g) \/ NeededBelow) => mounted' /\ ~medium_available'
  /\ Alone' /\ g.file = "dead" => g.fn = "main" /\ g.at >= 16
  /\ Mounts(g) => ~medium_available'
  /\ mounted' /\ "unmount failed" \notin faults' => Keeps(g) \/ KeptBelow
  /\ "mount failed" \notin faults' => ~Failed(g) /\ (taken' => Takes(g) \/ TakenBelow)

(* Then the invariant holds again. *)
LEMMA Stepped ==
  ASSUME IInv, ~Idle, NEW g, stack' = SetTop(g), Promises(g), faults \subseteq faults'
  PROVE  stack' \in Seq(Frames) /\ Ordered'
<1>1. PICK n \in Nat : n = Len(stack) /\ n # 0
  BY DEF IInv, Typed, Idle
<1>2. /\ stack' \in Seq(Frames) /\ Len(stack') = n /\ stack'[n] = g
      /\ \A k \in 1 .. n - 1 : stack'[k] = stack[k]
  <2>1. stack \in Seq(Frames) /\ stack # <<>> /\ g \in Frames /\ stack' = Append(Front(stack), g)
    BY DEF IInv, Typed, Idle, Promises, SetTop
  <2>2. OnTop(stack, stack', g)
    BY <2>1, TopReplaced
  <2>. QED  BY <1>1, <2>2 DEF OnTop
<1>3. Top = stack[n] /\ Top' = g /\ ~Idle'
  BY <1>1, <1>2 DEF Top, Last, Idle
<1>4. /\ \A k \in 1 .. n : k = n \/ k \in 1 .. n - 1
      /\ \A k \in 1 .. n - 1 : k \in 1 .. n /\ k < n
      /\ n \in 1 .. n /\ 1 \in 1 .. n
      /\ \A k \in 2 .. n : k \in 1 .. n /\ k - 1 \in 1 .. n - 1
  BY <1>1
<1>5. g.fn = stack[n].fn
  BY <1>3 DEF Promises
<1>6. \A k \in 1 .. n : stack'[k].fn = stack[k].fn
  BY <1>2, <1>4, <1>5
<1>7. Booting' <=> Booting
  BY <1>3, <1>4, <1>6 DEF Booting
<1>8. Shape'
  <2>1. \A k \in 1 .. n : FrameOK(stack'[k])
    BY <1>1, <1>2, <1>4 DEF Promises, IInv, Ordered, Shape
  <2>2. stack'[1].fn \in Outside \cup {"main"}
    BY <1>1, <1>4, <1>6 DEF IInv, Ordered, Shape
  <2>3. ASSUME NEW k \in 2 .. n
        PROVE  Above(stack'[k - 1], stack'[k]) /\ stack'[k].fn # "main"
    <3>1. Above(stack[k - 1], stack[k]) /\ stack[k].fn # "main"
      BY <1>1 DEF IInv, Ordered, Shape
    <3>2. stack'[k - 1] = stack[k - 1] /\ stack'[k].fn = stack[k].fn
      BY <1>2, <1>4, <1>6
    <3>. QED  BY <3>1, <3>2 DEF Above
  <2>4. \A k \in 1 .. n : stack'[k].fn \in Outside => ~Booting'
    BY <1>1, <1>6, <1>7 DEF IInv, Ordered, Shape
  <2>5. Booting' => ~medium_available'
    BY <1>7 DEF Promises
  <2>. QED  BY <1>2, <2>1, <2>2, <2>3, <2>4, <2>5 DEF Shape
<1>9. Alone' => Owned'
  <2>. SUFFICES ASSUME Alone' PROVE Owned'
    OBVIOUS
  <2>1. Owned
    BY DEF Alone, IInv, Ordered
  <2>2. (Needs(g) \/ \E k \in 1 .. n - 1 : Needs(stack[k])) => mounted' /\ ~medium_available'
    BY <1>1 DEF Promises, NeededBelow, Below
  <2>3. \A k \in 1 .. n : Needs(stack'[k]) => mounted' /\ ~medium_available'
    BY <1>2, <1>4, <2>2
  <2>4. ASSUME NEW j \in 1 .. n, NEW k \in 1 .. n, j < k, stack'[k].fn \in Command
        PROVE  ~Needs(stack'[j])
    <3>1. j \in 1 .. n - 1 /\ stack[k].fn \in Command
      BY <1>6, <2>4
    <3>2. ~Needs(stack[j])
      BY <1>1, <2>1, <2>4, <3>1 DEF Owned
    <3>. QED  BY <1>2, <3>1, <3>2
  <2>5. ~Judges(Top')
    BY <1>3 DEF Promises
  <2>6. \A k \in 1 .. n :
          stack'[k].file = "dead" => stack'[k].fn = "main" /\ stack'[k].at >= 16
    BY <1>1, <1>2, <1>4, <2>1 DEF Owned, Promises
  <2>. QED  BY <1>2, <2>3, <2>4, <2>5, <2>6 DEF Owned
<1>10. Held'
  <2>1. Mounts(Top') => ~medium_available'
    BY <1>3 DEF Promises
  <2>2. ASSUME mounted', "unmount failed" \notin faults'
        PROVE  \E k \in 1 .. n : Keeps(stack'[k])
    <3>1. Keeps(g) \/ \E k \in 1 .. n - 1 : Keeps(stack[k])
      BY <1>1, <2>2 DEF Promises, KeptBelow, Below
    <3>. QED  BY <1>2, <1>4, <3>1
  <2>. QED  BY <1>2, <2>1, <2>2 DEF Held
<1>11. Accounted'
  <2>. SUFFICES ASSUME "mount failed" \notin faults' PROVE Accounted'
    BY DEF Accounted
  <2>1. \A k \in 1 .. n : ~Failed(stack[k])
    BY <1>1 DEF IInv, Ordered, Accounted
  <2>2. \A k \in 1 .. n : ~Failed(stack'[k])
    BY <1>2, <1>4, <2>1 DEF Promises
  <2>3. ~Judges(Top')
    BY <1>3 DEF Promises
  <2>4. taken' => \E k \in 1 .. n : Takes(stack'[k])
    <3>1. taken' => Takes(g) \/ \E k \in 1 .. n - 1 : Takes(stack[k])
      BY <1>1 DEF Promises, TakenBelow, Below
    <3>. QED  BY <1>2, <1>4, <3>1
  <2>. QED  BY <1>2, <2>2, <2>3, <2>4 DEF Accounted
<1>. QED  BY <1>2, <1>8, <1>9, <1>10, <1>11 DEF Ordered
-----------------------------------------------------------------------------
(* The operation that comes is in its place. *)
LEMMA Placed ==
  ASSUME Seen, ~Done
  PROVE  Place(Top.fn, Top.at, Now) /\ Top.at \in 1 .. Len(Program(Top.fn))
<1>1. Top.at \in 1 .. Len(Program(Top.fn)) + 1 /\ ~(Top.at > Len(Program(Top.fn)))
      /\ Top.fn \in Command \cup ScsiCommand \cup DOMAIN Function
  BY DEF Seen, FrameOK, Done, Code, Frames
<1>2. Len(Program(Top.fn)) \in Nat
  <2>1. PICK fn : fn = Top.fn
    OBVIOUS
  <2>2. \/ fn = "main" \/ fn \in {"stats", "data"} \/ fn = "mount" \/ fn = "prevent"
        \/ fn = "eject" \/ fn = "allow" \/ fn = "debug_msc_mount" \/ fn = "debug_msc_unmount"
        \/ fn \in Files
    BY <1>1, <2>1, Names
  <2>3. Len(Program(fn)) \in Nat
    BY <2>2, Lengths
  <2>. QED  BY <2>1, <2>3
<1>3. Top.at \in 1 .. Len(Program(Top.fn))
  BY <1>1, <1>2
<1>. QED  BY <1>1, <1>3, Places DEF Now, Code

\* Where f may be when it prints ...
SayPlace(f) ==
  \/ f.fn = "main" /\ f.at \in {2, 6, 9, 12, 14, 17}
  \/ /\ f.fn \in {"stats", "data"}
     /\ f.at \in {2, 6, 8, Unmounting[f.fn] + 2, Unmounting[f.fn] + 3, Unmounting[f.fn] + 5}
  \/ f.fn = "mount" /\ f.at \in {2, 4}
  \/ f.fn \in {"prevent", "eject"} /\ f.at = 1
  \/ f.fn = "allow" /\ f.at \in {2, 5}
  \/ f.fn \in {"debug_msc_mount", "debug_msc_unmount"} /\ f.at \in {2, 5}
  \/ f.fn \in Files /\ f.at \in 1 .. Len(Program(f.fn))
\* ... when it decides ...
IfPlace(f, o) ==
  \/ f.fn = "main" /\ f.at = 5 /\ IfAt(o, "failed", 2)
  \/ f.fn = "main" /\ f.at = 10 /\ IfAt(o, "never", 4)
  \/ f.fn = "main" /\ f.at = 16 /\ IfAt(o, "failed", 1)
  \/ f.fn \in {"stats", "data"} /\ f.at = 1 /\ IfAt(o, "plugged", 2)
  \/ f.fn \in {"stats", "data"} /\ f.at = 5 /\ IfAt(o, "failed", 2)
  \/ f.fn \in {"stats", "data"} /\ f.at = Unmounting[f.fn] + 1 /\ IfAt(o, "failed", 1)
  \/ f.fn = "allow" /\ f.at = 1 /\ IfAt(o, "plugged", 3)
  \/ f.fn = "debug_msc_mount" /\ f.at = 1 /\ IfAt(o, "mounted", 2)
  \/ f.fn = "debug_msc_unmount" /\ f.at = 1 /\ IfAt(o, "unmounted", 2)
\* ... calls ...
CallPlace(f, o) ==
  \/ f.fn = "main" /\ f.at = 4 /\ o.fn = "debug_msc_mount"
  \/ f.fn = "main" /\ f.at = 15 /\ o.fn = "debug_msc_unmount"
  \/ f.fn \in {"stats", "data"} /\ f.at = 4 /\ o.fn = "debug_msc_mount"
  \/ f.fn \in {"stats", "data"} /\ f.at \in 10 .. Unmounting[f.fn] - 1 /\ o.fn \in Files
  \/ f.fn \in {"stats", "data"} /\ f.at = Unmounting[f.fn] /\ o.fn = "debug_msc_unmount"
\* ... returns before its end ...
ReturnPlace(f, o) ==
  \/ f.fn = "main" /\ f.at \in {3, 7}
  \/ f.fn \in {"stats", "data"} /\ f.at = 7
  \/ f.fn = "allow" /\ f.at = 4
  \/ f.fn = "debug_msc_mount" /\ f.at \in {3, 8} /\ o.ok = TRUE
  \/ f.fn = "debug_msc_mount" /\ f.at = 7 /\ o.ok = FALSE
  \/ f.fn = "debug_msc_unmount" /\ f.at \in {3, 6, 7}
  \/ f.fn \in Files /\ f.at = 3
\* ... plugs the medium in or out ...
PlugPlace(f, o) ==
  \/ f.fn \in {"stats", "data"} /\ f.at = 3 /\ o.op = "plug" /\ o.in = FALSE
  \/ f.fn \in {"stats", "data"} /\ f.at = Unmounting[f.fn] + 4 /\ o.op = "plug" /\ o.in = TRUE
  \/ f.fn = "eject" /\ f.at = 2 /\ o.op = "plug" /\ o.in = FALSE
  \/ f.fn = "allow" /\ f.at = 3 /\ o.op = "plug" /\ o.in = FALSE
  \/ f.fn = "mount" /\ f.at = 3 /\ o.op = "toggle"
\* ... and uses the file system.
FsPlace(f, o) ==
  \/ f.fn = "main" /\ f.at = 1 /\ FsAt(o, {"mkfs"}, 2)
  \/ f.fn = "main" /\ f.at = 8 /\ FsAt(o, {"open"}, 2)
  \/ f.fn = "main" /\ f.at \in {11, 13} /\ FsAt(o, {"write", "close"}, 1)
  \/ f.fn = "debug_msc_mount" /\ f.at = 4 /\ FsAt(o, {"mount"}, 3)
  \/ f.fn = "debug_msc_unmount" /\ f.at = 4 /\ FsAt(o, {"unmount"}, 2)
  \/ f.fn \in Files /\ f.at = 1 /\ FsAt(o, {"open"}, 2)
  \/ f.fn \in Files /\ f.at \in 1 .. Len(Program(f.fn)) - 1 /\ FsAt(o, {"write", "close"}, 1)
  \/ f.fn \in Files /\ f.at \in 1 .. Len(Program(f.fn)) - 1 /\ FsAt(o, {"write", "close"}, 0)

(* The op of an operation tells where it is. *)
LEMMA OpPlaces ==
  ASSUME NEW f, NEW o, Place(f.fn, f.at, o)
  PROVE  /\ o.op = "say" => SayPlace(f)
         /\ o.op = "if" => IfPlace(f, o)
         /\ o.op = "call" => CallPlace(f, o)
         /\ o.op = "return" => ReturnPlace(f, o)
         /\ o.op \in {"plug", "toggle"} => PlugPlace(f, o)
         /\ o.op = "fs" => FsPlace(f, o)
         /\ o.op = "state" => f.fn = "mount" /\ f.at = 1
         /\ o.op = "compare" => f.fn \in {"stats", "data"} /\ f.at = 9 /\ o.skip = 2
         /\ o.op = "wait" => f.fn \in Files /\ f.at \in 1 .. Len(Program(f.fn))
         /\ o.op = "not mounted" => f.fn = "debug_msc_mount" /\ f.at = 6
<1>1. CASE f.fn = "main" /\ InMain(f.at, o)
  BY <1>1, Names DEF InMain, SayPlace, IfPlace, CallPlace, ReturnPlace, PlugPlace, FsPlace,
                     IfAt, ReturnAt, CallAt, PlugAt, FsAt
<1>2. CASE f.fn \in {"stats", "data"} /\ InHandOver(f.at, Unmounting[f.fn], o)
  BY <1>2, Names DEF InHandOver, SayPlace, IfPlace, CallPlace, ReturnPlace, PlugPlace, FsPlace,
                     IfAt, ReturnAt, CallAt, PlugAt, FsAt
<1>3. CASE f.fn = "mount" /\ InToggle(f.at, o)
  BY <1>3, Names DEF InToggle, SayPlace, IfPlace, CallPlace, ReturnPlace, PlugPlace, FsPlace
<1>4. CASE f.fn \in ScsiCommand /\ InScsi(f.fn, f.at, o)
  BY <1>4, Names DEF InScsi, SayPlace, IfPlace, CallPlace, ReturnPlace, PlugPlace, FsPlace,
                     IfAt, ReturnAt, CallAt, PlugAt, FsAt
<1>5. CASE f.fn = "debug_msc_mount" /\ InMount(f.at, o)
  BY <1>5, Names DEF InMount, SayPlace, IfPlace, CallPlace, ReturnPlace, PlugPlace, FsPlace,
                     IfAt, ReturnAt, CallAt, PlugAt, FsAt
<1>6. CASE f.fn = "debug_msc_unmount" /\ InUnmount(f.at, o)
  BY <1>6, Names DEF InUnmount, SayPlace, IfPlace, CallPlace, ReturnPlace, PlugPlace, FsPlace,
                     IfAt, ReturnAt, CallAt, PlugAt, FsAt
<1>7. CASE f.fn \in Files /\ InFile(f.at, Len(Program(f.fn)), o)
  BY <1>7, Names DEF InFile, SayPlace, IfPlace, CallPlace, ReturnPlace, PlugPlace, FsPlace,
                     IfAt, ReturnAt, CallAt, PlugAt, FsAt
<1>. QED  BY <1>1, <1>2, <1>3, <1>4, <1>5, <1>6, <1>7 DEF Place
-----------------------------------------------------------------------------
\* g is f, gone on to a.
GoneOn(f, g, a) == g \in Frames /\ g.fn = f.fn /\ g.at = a /\ g.file = f.file

(* Going on leaves the rest of a frame alone. *)
LEMMA GoingOn ==
  ASSUME NEW f \in Frames, NEW a \in Nat
  PROVE  /\ GoneOn(f, [f EXCEPT !.at = a], a)
         /\ GoneOn(f, [f EXCEPT !.at = a, !.heard = FALSE], a)
         /\ \A b \in BOOLEAN : GoneOn(f, [f EXCEPT !.at = a, !.state = b], a)
BY DEF GoneOn, Frames

\* Or to a, with another file.
Filed(f, g, a, x) == g \in Frames /\ g.fn = f.fn /\ g.at = a /\ g.file = x

(* That leaves the rest alone, too. *)
LEMMA Filing ==
  ASSUME NEW f \in Frames, NEW a \in Nat, NEW x \in {"none", "open", "dead"}
  PROVE  Filed(f, [f EXCEPT !.at = a, !.file = x], a, x)
BY DEF Filed, Frames

\* From f to g nothing changes for the others.
Quiet(f, g) ==
  /\ g \in Frames /\ FrameOK(g) /\ g.fn = f.fn /\ ~Judges(f) /\ ~Judges(g)
  /\ (Needs(g) => Needs(f)) /\ (Keeps(f) => Keeps(g)) /\ (Mounts(g) => Mounts(f))
  /\ (Failed(g) => Failed(f)) /\ (Takes(f) => Takes(g))
  /\ (g.file = "dead" => f.file = "dead") /\ (f.fn = "main" => g.at >= f.at)

(* Quiet steps keep the promises. *)
LEMMA Quietly ==
  ASSUME Seen, NEW g, Quiet(Top, g), faults \subseteq faults',
         mounted' = mounted, medium_available' = medium_available, taken' = taken
  PROVE  Promises(g)
<1>1. g \in Frames /\ FrameOK(g) /\ g.fn = Top.fn /\ ~Judges(g)
  BY DEF Quiet
<1>2. Booting => ~medium_available'
  BY DEF Seen
<1>3. Alone' => Alone
  BY DEF Alone
<1>4. Alone' /\ (Needs(g) \/ NeededBelow) => mounted' /\ ~medium_available'
  BY <1>3 DEF Seen, Quiet
<1>5. Alone' /\ g.file = "dead" => g.fn = "main" /\ g.at >= 16
  <2>1. Top.at \in Nat /\ g.at \in Nat
    BY DEF Seen, Quiet, Frames
  <2>2. /\ g.file = "dead" => Top.file = "dead"
        /\ Top.fn = "main" => g.at >= Top.at
        /\ g.fn = Top.fn
    BY DEF Quiet
  <2>3. Alone /\ Top.file = "dead" => Top.fn = "main" /\ Top.at >= 16
    BY DEF Seen
  <2>. QED  BY <1>3, <2>1, <2>2, <2>3
<1>6. Mounts(g) => ~medium_available'
  BY DEF Seen, Quiet
<1>7. mounted' /\ "unmount failed" \notin faults' => Keeps(g) \/ KeptBelow
  BY DEF Seen, Quiet
<1>8. "mount failed" \notin faults' => ~Failed(g) /\ (taken' => Takes(g) \/ TakenBelow)
  BY DEF Seen, Quiet
<1>. QED  BY <1>1, <1>2, <1>4, <1>5, <1>6, <1>7, <1>8 DEF Promises

(* A frame that goes on is one of the stack's. *)
LEMMA StaysOK ==
  ASSUME NEW f \in Frames, FrameOK(f), NEW a \in Nat, NEW g, GoneOn(f, g, a),
         f.at <= a, a <= Len(Program(f.fn)) + 1, f.fn = "debug_msc_mount" => a <= 8
  PROVE  FrameOK(g)
<1>1. f.at \in Nat /\ g.fn = f.fn /\ g.at = a /\ g.file = f.file /\ g \in Frames
  BY DEF GoneOn, Frames
<1>2. g.at \in 1 .. Len(Program(g.fn)) + 1
  <2>1. Len(Program(f.fn)) + 1 \in Int /\ f.at >= 1
    <3>1. f.at \in 1 .. Len(Program(f.fn)) + 1
      BY DEF FrameOK
    <3>2. Len(Program(f.fn)) \in Nat
      <4>1. PICK fn : fn = f.fn
        OBVIOUS
      <4>2. \/ fn = "main" \/ fn \in {"stats", "data"} \/ fn = "mount" \/ fn = "prevent"
            \/ fn = "eject" \/ fn = "allow" \/ fn = "debug_msc_mount"
            \/ fn = "debug_msc_unmount" \/ fn \in Files
        BY <4>1, Names DEF Frames
      <4>3. Len(Program(fn)) \in Nat
        BY <4>2, Lengths
      <4>. QED  BY <4>1, <4>3
    <3>. QED  BY <1>1, <3>1, <3>2
  <2>. QED  BY <1>1, <2>1
<1>3. g.fn = "debug_msc_mount" => g.at <= 8
  BY <1>1
<1>4. g.file # "none" => g.fn \in Files \/ (g.fn = "main" /\ g.at >= 11)
  BY <1>1 DEF FrameOK
<1>. QED  BY <1>2, <1>3, <1>4 DEF FrameOK

(* Whoever prints goes on quietly. *)
LEMMA QuietSay ==
  ASSUME NEW f \in Frames, FrameOK(f), SayPlace(f), NEW g, GoneOn(f, g, f.at + 1)
  PROVE  Quiet(f, g)
<1>1. f.at \in Nat /\ g.fn = f.fn /\ g.at = f.at + 1 /\ g.file = f.file /\ g \in Frames
  BY DEF GoneOn, Frames
<1>2. PICK l : l = Len(Program(f.fn))
  OBVIOUS
<1>3. ASSUME l \in Nat, f.at <= l, f.fn = "debug_msc_mount" => f.at <= 7
      PROVE  FrameOK(g)
  <2>1. PICK a \in Nat : a = f.at + 1 /\ GoneOn(f, g, a)
    BY <1>1
  <2>2. f.at <= a /\ a <= Len(Program(f.fn)) + 1 /\ (f.fn = "debug_msc_mount" => a <= 8)
    BY <1>1, <1>2, <1>3, <2>1
  <2>. QED  BY <2>1, <2>2, StaysOK
<1>4. CASE f.fn = "main"
  <2>1. f.at \in {2, 6, 9, 12, 14, 17}
    BY <1>4, Names DEF SayPlace, Files
  <2>2. l = 17
    BY <1>2, <1>4, Lengths
  <2>3. FrameOK(g)
    BY <1>3, <1>4, <2>1, <2>2
  <2>. QED  BY <1>1, <1>4, <2>1, <2>3, Lengths
            DEF Quiet, Needs, Keeps, Judges, Mounts, Failed, Takes, Callers, Files
<1>5. CASE f.fn \in {"stats", "data"}
  <2>1. PICK u \in {14} : u = Unmounting[f.fn]
    BY <1>5, Lengths
  <2>2. f.at \in {2, 6, 8, u + 2, u + 3, u + 5} /\ l = u + 5
    BY <1>2, <1>5, <2>1, Names, Lengths DEF SayPlace, Files
  <2>3. FrameOK(g)
    BY <1>3, <1>5, <2>1, <2>2
  <2>4. u = Unmounting[g.fn] /\ f.at \in Nat
    BY <1>1, <2>1
  <2>5. (Keeps(g) => Keeps(f)) /\ (Keeps(f) => Keeps(g))
    <3>1. f.at \in 8 .. u <=> g.at \in 8 .. u
      BY <1>1, <2>1, <2>2
    <3>. QED  BY <1>1, <1>5, <2>1, <2>4, <3>1 DEF Keeps, Callers
  <2>6. Takes(f) => Takes(g)
    <3>1. f.at \in {4, 5} \cup 8 .. u + 4 => g.at \in {4, 5} \cup 8 .. u + 4
      BY <1>1, <2>1, <2>2
    <3>. QED  BY <1>1, <1>5, <2>1, <2>4, <3>1 DEF Takes
  <2>7. ~Judges(f) /\ ~Judges(g) /\ ~Mounts(g) /\ ~Failed(g)
    BY <1>1, <1>5, <2>1, <2>2 DEF Judges, Mounts, Failed
  <2>. QED  BY <1>1, <1>5, <2>3, <2>5, <2>6, <2>7 DEF Quiet, Needs, Files
<1>6. CASE f.fn \in {"mount", "prevent", "eject", "allow"}
  <2>1. \/ f.fn = "mount" /\ f.at \in {2, 4}
        \/ f.fn \in {"prevent", "eject"} /\ f.at = 1
        \/ f.fn = "allow" /\ f.at \in {2, 5}
    BY <1>6 DEF SayPlace, Files
  <2>2. /\ f.fn = "mount" => l = 4
        /\ f.fn = "prevent" => l = 1
        /\ f.fn = "eject" => l = 2
        /\ f.fn = "allow" => l = 5
    BY <1>2, Lengths
  <2>3. FrameOK(g)
    BY <1>3, <1>6, <2>1, <2>2
  <2>. QED  BY <1>1, <1>6, <2>3
            DEF Quiet, Needs, Keeps, Judges, Mounts, Failed, Takes, Callers, Files
<1>7. CASE f.fn \in {"debug_msc_mount", "debug_msc_unmount"}
  <2>1. f.at \in {2, 5}
    BY <1>7, Names DEF SayPlace, Files
  <2>2. l = 8 \/ l = 7
    BY <1>2, <1>7, Lengths
  <2>3. FrameOK(g)
    BY <1>3, <2>1, <2>2
  <2>. QED  BY <1>1, <1>7, <2>1, <2>3
            DEF Quiet, Needs, Keeps, Judges, Mounts, Failed, Takes, Callers, Files
<1>8. CASE f.fn \in Files
  <2>1. f.at \in 1 .. l
    BY <1>2, <1>8, Names DEF SayPlace, Files
  <2>2. l \in {7, 9}
    BY <1>2, <1>8, Lengths
  <2>3. FrameOK(g)
    BY <1>3, <1>8, <2>1, <2>2 DEF Files
  <2>. QED  BY <1>1, <1>8, <2>3
            DEF Quiet, Needs, Keeps, Judges, Mounts, Failed, Takes, Callers, Files
<1>. QED  BY <1>4, <1>5, <1>6, <1>7, <1>8 DEF SayPlace

(* Whoever uses a file goes on quietly, whether that fails or not. *)
LEMMA QuietFs ==
  ASSUME NEW f \in Frames, FrameOK(f), NEW o, FsPlace(f, o), o.do \in {"open", "write", "close"},
         NEW g \in Frames, g.fn = f.fn, g.at = f.at + 1 \/ g.at = f.at + o.skip + 1,
         \/ g.file \in {f.file, "none"}
         \/ g.file = "open" /\ o.do = "open" /\ g.at = f.at + o.skip + 1
  PROVE  Quiet(f, g)
<1>1. f.at \in Nat /\ g.at \in Nat
  BY DEF Frames
<1>2. PICK l : l = Len(Program(f.fn))
  OBVIOUS
<1>3. ASSUME l \in Nat, g.at <= l + 1, f.fn # "debug_msc_mount", f.at <= g.at,
             f.fn = "main" /\ o.do = "open" /\ g.at = f.at + o.skip + 1 => g.at >= 11
      PROVE  FrameOK(g)
  <2>1. PICK a \in Nat : a = g.at
    BY <1>1
  <2>2. PICK h : h = [f EXCEPT !.at = a]
    OBVIOUS
  <2>3. GoneOn(f, h, a)
    BY <2>2, GoingOn
  <2>4. FrameOK(h)
    BY <1>2, <1>3, <2>1, <2>3, StaysOK
  <2>5. h.fn = g.fn /\ h.at = g.at /\ h.file = f.file
    BY <2>1, <2>3 DEF GoneOn
  <2>6. g.at \in 1 .. Len(Program(g.fn)) + 1 /\ (g.fn = "debug_msc_mount" => g.at <= 8)
    BY <2>4, <2>5 DEF FrameOK
  <2>7. g.file # "none" => g.fn \in Files \/ (g.fn = "main" /\ g.at >= 11)
    <3>1. CASE g.file \in {f.file, "none"}
      BY <2>4, <2>5, <3>1 DEF FrameOK
    <3>2. CASE g.file = "open" /\ o.do = "open" /\ g.at = f.at + o.skip + 1
      <4>1. f.fn = "main" \/ f.fn \in Files
        BY <3>2 DEF FsPlace, FsAt
      <4>. QED  BY <1>3, <3>2, <4>1
    <3>. QED  BY <3>1, <3>2
  <2>. QED  BY <2>6, <2>7 DEF FrameOK
<1>4. g.file = "dead" => f.file = "dead"
  OBVIOUS
<1>5. CASE f.fn = "main"
  <2>1. \/ f.at = 8 /\ o.skip = 2
        \/ f.at \in {11, 13} /\ o.skip = 1 /\ o.do # "open"
    BY <1>5, Names DEF FsPlace, FsAt, Files
  <2>2. l = 17
    BY <1>2, <1>5, Lengths
  <2>3. FrameOK(g)
    BY <1>1, <1>3, <1>5, <2>1, <2>2
  <2>. QED  BY <1>1, <1>4, <1>5, <2>1, <2>3, Lengths
            DEF Quiet, Needs, Keeps, Judges, Mounts, Failed, Takes, Callers, Files
<1>6. CASE f.fn \in Files
  <2>1. \/ f.at = 1 /\ o.skip = 2
        \/ f.at \in 1 .. l - 1 /\ o.skip \in {0, 1}
    BY <1>2, <1>6, Names DEF FsPlace, FsAt, Files
  <2>2. l \in {7, 9}
    BY <1>2, <1>6, Lengths
  <2>3. FrameOK(g)
    BY <1>1, <1>3, <1>6, <2>1, <2>2 DEF Files
  <2>. QED  BY <1>1, <1>4, <1>6, <2>3
            DEF Quiet, Needs, Keeps, Judges, Mounts, Failed, Takes, Callers, Files
<1>. QED  BY <1>5, <1>6 DEF FsPlace, FsAt

\* A decision that changes nothing for the others.
IfQuiet(f, o) ==
  \/ f.fn = "main" /\ f.at \in {10, 16} /\ IfPlace(f, o)
  \/ f.fn \in {"stats", "data"} /\ f.at = Unmounting[f.fn] + 1 /\ IfPlace(f, o)
  \/ f.fn = "allow" /\ f.at = 1 /\ IfPlace(f, o)

(* Whichever it is. *)
LEMMA QuietIf ==
  ASSUME NEW f \in Frames, FrameOK(f), NEW o, IfQuiet(f, o),
         NEW g, NEW a \in Nat, GoneOn(f, g, a),
         (a = f.at + 1 /\ o.cond # "never") \/ a = f.at + o.skip + 1
  PROVE  Quiet(f, g)
<1>1. f.at \in Nat /\ g.fn = f.fn /\ g.at = a /\ g.file = f.file /\ g \in Frames
  BY DEF GoneOn, Frames
<1>2. PICK l : l = Len(Program(f.fn))
  OBVIOUS
<1>3. ASSUME l \in Nat, a <= l + 1, f.fn # "debug_msc_mount", f.at <= a
      PROVE  FrameOK(g)
  BY <1>2, <1>3, StaysOK
<1>4. CASE f.fn = "main"
  <2>0. \/ f.at = 10 /\ o.cond = "never" /\ o.skip = 4
        \/ f.at = 16 /\ o.skip = 1
    BY <1>4 DEF IfQuiet, IfPlace, IfAt, Files
  <2>1. (f.at = 10 /\ a = 15) \/ (f.at = 16 /\ a \in {17, 18})
    BY <2>0
  <2>2. l = 17
    BY <1>2, <1>4, Lengths
  <2>3. FrameOK(g)
    BY <1>1, <1>3, <1>4, <2>1, <2>2
  <2>. QED  BY <1>1, <1>4, <2>1, <2>3, Lengths
            DEF Quiet, Needs, Keeps, Judges, Mounts, Failed, Takes, Callers, Files
<1>5. CASE f.fn \in {"stats", "data"}
  <2>1. PICK u \in {14} : u = Unmounting[f.fn]
    BY <1>5, Lengths
  <2>2. l = u + 5
    BY <1>2, <1>5, <2>1, Lengths
  <2>3. f.at = u + 1 /\ a \in {u + 2, u + 3}
    BY <1>5, <2>1, Names DEF IfQuiet, IfPlace, IfAt, Files
  <2>4. FrameOK(g)
    BY <1>3, <1>5, <2>1, <2>2, <2>3
  <2>5. u = Unmounting[g.fn]
    BY <1>1, <2>1
  <2>6. ~Keeps(f) /\ ~Keeps(g)
    BY <1>1, <1>5, <2>1, <2>3, <2>5 DEF Keeps, Callers
  <2>7. Takes(g)
    BY <1>1, <1>5, <2>1, <2>3, <2>5 DEF Takes
  <2>8. ~Judges(f) /\ ~Judges(g) /\ ~Mounts(g) /\ ~Failed(g)
    BY <1>1, <1>5, <2>1, <2>3 DEF Judges, Mounts, Failed
  <2>. QED  BY <1>1, <1>5, <2>4, <2>6, <2>7, <2>8 DEF Quiet, Needs, Files
<1>6. CASE f.fn = "allow"
  <2>1. f.at = 1 /\ a \in {2, 5}
    BY <1>6, Names DEF IfQuiet, IfPlace, IfAt, Files
  <2>2. l = 5
    BY <1>2, <1>6, Lengths
  <2>3. FrameOK(g)
    BY <1>3, <1>6, <2>1, <2>2
  <2>. QED  BY <1>1, <1>6, <2>3
            DEF Quiet, Needs, Keeps, Judges, Mounts, Failed, Takes, Callers, Files
<1>. QED  BY <1>4, <1>5, <1>6 DEF IfQuiet
-----------------------------------------------------------------------------
\* ----- One lemma for each action: the stack's part of the invariant.
(* What an action sees that runs the function on top. *)
LEMMA Running ==
  ASSUME IInv, NEW op, Doing(op)
  PROVE  /\ ~Idle /\ ~Done /\ Now.op = op /\ Seen /\ Top \in Frames /\ FrameOK(Top)
         /\ Top.at \in Nat /\ Top.at \in 1 .. Len(Program(Top.fn)) /\ Place(Top.fn, Top.at, Now)
<1>1. ~Idle /\ ~Done /\ Now.op = op
  BY DEF Doing
<1>2. Seen
  BY <1>1, Sees
<1>3. Top \in Frames /\ FrameOK(Top) /\ Top.at \in Nat
  BY <1>2 DEF Seen, Frames
<1>4. Place(Top.fn, Top.at, Now) /\ Top.at \in 1 .. Len(Program(Top.fn))
  BY <1>1, <1>2, Placed
<1>. QED  BY <1>1, <1>2, <1>3, <1>4

(* Said *)
LEMMA SaidKeeps == ASSUME IInv, Said PROVE stack' \in Seq(Frames) /\ Ordered'
<1>1. Doing("say")
  BY DEF Said
<1>2. ~Idle /\ Now.op = "say" /\ Seen /\ Top \in Frames /\ FrameOK(Top) /\ Top.at \in Nat
      /\ Place(Top.fn, Top.at, Now)
  BY <1>1, Running
<1>3. SayPlace(Top)
  BY <1>2, OpPlaces
<1>4. PICK g : g = [Top EXCEPT !.at = @ + 1, !.heard = FALSE]
  OBVIOUS
<1>5. GoneOn(Top, g, Top.at + 1)
  <2>1. PICK f \in Frames, a \in Nat : f = Top /\ a = Top.at + 1
    BY <1>2
  <2>2. g = [f EXCEPT !.at = a, !.heard = FALSE]
    BY <1>4, <2>1
  <2>. QED  BY <2>1, <2>2, GoingOn
<1>6. Quiet(Top, g)
  BY <1>2, <1>3, <1>5, QuietSay
<1>7. /\ stack' = SetTop(g) /\ mounted' = mounted /\ medium_available' = medium_available
      /\ taken' = taken /\ faults \subseteq faults'
  BY <1>4 DEF Said, plug, firmware
<1>8. Promises(g)
  BY <1>2, <1>6, <1>7, Quietly
<1>. QED  BY <1>2, <1>7, <1>8, Stepped

(* ReadState *)
LEMMA ReadStateKeeps == ASSUME IInv, ReadState PROVE stack' \in Seq(Frames) /\ Ordered'
<1>1. Doing("state")
  BY DEF ReadState
<1>2. ~Idle /\ Now.op = "state" /\ Seen /\ Top \in Frames /\ FrameOK(Top) /\ Top.at \in Nat
      /\ Place(Top.fn, Top.at, Now)
  BY <1>1, Running
<1>3. Top.fn = "mount" /\ Top.at = 1
  BY <1>2, OpPlaces
<1>4. PICK g : g = [Top EXCEPT !.at = @ + 1, !.state = medium_available]
  OBVIOUS
<1>5. GoneOn(Top, g, 2)
  <2>1. PICK f \in Frames, b \in BOOLEAN : f = Top /\ b = medium_available
    BY <1>2 DEF IInv, Typed
  <2>2. g = [f EXCEPT !.at = 2, !.state = b]
    BY <1>3, <1>4, <2>1
  <2>. QED  BY <2>1, <2>2, GoingOn
<1>6. Quiet(Top, g)
  <2>1. FrameOK(g)
    <3>1. PICK a \in Nat : a = 2
      OBVIOUS
    <3>0. Len(Program(Top.fn)) = 4
      BY <1>3, Lengths
    <3>2. Top.at <= a /\ a <= Len(Program(Top.fn)) + 1 /\ Top.fn # "debug_msc_mount"
      BY <1>3, <3>0, <3>1
    <3>. QED  BY <1>2, <1>5, <3>1, <3>2, StaysOK
  <2>. QED  BY <1>3, <1>5, <2>1
            DEF GoneOn, Quiet, Needs, Keeps, Judges, Mounts, Failed, Takes, Callers, Files
<1>7. /\ stack' = SetTop(g) /\ mounted' = mounted /\ medium_available' = medium_available
      /\ taken' = taken /\ faults \subseteq faults'
  BY <1>4 DEF ReadState, plug, firmware
<1>8. Promises(g)
  BY <1>2, <1>6, <1>7, Quietly
<1>. QED  BY <1>2, <1>7, <1>8, Stepped

(* CompareLine *)
LEMMA CompareLineKeeps == ASSUME IInv, CompareLine PROVE stack' \in Seq(Frames) /\ Ordered'
<1>1. Doing("compare")
  BY DEF CompareLine
<1>2. ~Idle /\ Now.op = "compare" /\ Seen /\ Top \in Frames /\ FrameOK(Top) /\ Top.at \in Nat
      /\ Place(Top.fn, Top.at, Now)
  BY <1>1, Running
<1>3. Top.fn \in {"stats", "data"} /\ Top.at = 9 /\ Now.skip = 2
  BY <1>2, OpPlaces
<1>4. PICK n \in {0, 2} : Skip(n + 1)
  BY <1>3 DEF CompareLine
<1>5. PICK a \in {10, 12} : a = Top.at + (n + 1)
  BY <1>3, <1>4
<1>6. PICK g : g = [Top EXCEPT !.at = @ + (n + 1)]
  OBVIOUS
<1>7. GoneOn(Top, g, a)
  <2>1. PICK f \in Frames : f = Top
    BY <1>2
  <2>2. g = [f EXCEPT !.at = a] /\ a \in Nat
    BY <1>5, <1>6, <2>1
  <2>. QED  BY <2>1, <2>2, GoingOn
<1>8. Quiet(Top, g)
  <2>1. FrameOK(g)
    <3>1. Len(Program(Top.fn)) = 14 + 5
      BY <1>3, Lengths
    <3>2. Top.at <= a /\ a <= Len(Program(Top.fn)) + 1 /\ Top.fn # "debug_msc_mount" /\ a \in Nat
      BY <1>3, <1>5, <3>1
    <3>. QED  BY <1>2, <1>7, <3>2, StaysOK
  <2>2. g.fn = Top.fn /\ g.at = a /\ g.file = Top.file /\ g \in Frames
    BY <1>7 DEF GoneOn
  <2>3. Unmounting[Top.fn] = 14
    BY <1>3, Lengths
  <2>4. Keeps(g) /\ Keeps(Top) /\ Takes(g)
    BY <1>3, <2>2, <2>3 DEF Keeps, Takes, Callers
  <2>5. ~Judges(Top) /\ ~Judges(g) /\ ~Mounts(g) /\ ~Failed(g) /\ Top.fn # "main"
    BY <1>3, <2>2 DEF Judges, Mounts, Failed
  <2>. QED  BY <2>1, <2>2, <2>4, <2>5 DEF Quiet, Needs
<1>9. /\ stack' = SetTop(g) /\ mounted' = mounted /\ medium_available' = medium_available
      /\ taken' = taken /\ faults \subseteq faults'
  BY <1>4, <1>6 DEF CompareLine, Skip, plug, firmware
<1>10. Promises(g)
  BY <1>2, <1>8, <1>9, Quietly
<1>. QED  BY <1>2, <1>9, <1>10, Stepped

(* BallMoves *)
LEMMA BallMovesKeeps == ASSUME IInv, BallMoves PROVE stack' \in Seq(Frames) /\ Ordered'
<1>1. Doing("wait")
  BY DEF BallMoves
<1>2. ~Idle /\ Now.op = "wait" /\ Seen /\ Top \in Frames /\ FrameOK(Top) /\ Top.at \in Nat
      /\ Place(Top.fn, Top.at, Now)
  BY <1>1, Running
<1>3. Top.fn \in Files /\ Top.at \in 1 .. Len(Program(Top.fn))
  BY <1>2, OpPlaces
<1>4. SayPlace(Top)
  BY <1>3 DEF SayPlace
<1>5. PICK g : g = [Top EXCEPT !.at = @ + 1]
  OBVIOUS
<1>6. GoneOn(Top, g, Top.at + 1)
  <2>1. PICK f \in Frames, a \in Nat : f = Top /\ a = Top.at + 1
    BY <1>2
  <2>2. g = [f EXCEPT !.at = a]
    BY <1>5, <2>1
  <2>. QED  BY <2>1, <2>2, GoingOn
<1>7. Quiet(Top, g)
  BY <1>2, <1>4, <1>6, QuietSay
<1>8. /\ stack' = SetTop(g) /\ mounted' = mounted /\ medium_available' = medium_available
      /\ taken' = taken /\ faults \subseteq faults'
  BY <1>5 DEF BallMoves, Skip, plug, firmware
<1>9. Promises(g)
  BY <1>2, <1>7, <1>8, Quietly
<1>. QED  BY <1>2, <1>8, <1>9, Stepped

(* FOpen *)
LEMMA FOpenKeeps == ASSUME IInv, FOpen PROVE stack' \in Seq(Frames) /\ Ordered'
<1>1. Doing("fs") /\ Now.do = "open"
  BY DEF FOpen, DoingFs
<1>2. ~Idle /\ Now.op = "fs" /\ Seen /\ Top \in Frames /\ FrameOK(Top) /\ Top.at \in Nat
      /\ Place(Top.fn, Top.at, Now)
  BY <1>1, Running
<1>3. FsPlace(Top, Now)
  BY <1>2, OpPlaces
<1>4. PICK g : g = [Top EXCEPT !.at = @ + Now.skip + 1, !.file = "open"]
  OBVIOUS
<1>5. g \in Frames /\ g.fn = Top.fn /\ g.at = Top.at + Now.skip + 1 /\ g.file = "open"
  <2>1. Now.skip \in Nat
    BY <1>3 DEF FsPlace, FsAt
  <2>2. PICK f \in Frames, a \in Nat : f = Top /\ a = Top.at + Now.skip + 1
    BY <1>2, <2>1
  <2>3. g = [f EXCEPT !.at = a, !.file = "open"]
    BY <1>4, <2>2
  <2>4. Filed(f, g, a, "open")
    BY <2>3, Filing
  <2>. QED  BY <2>2, <2>4 DEF Filed
<1>6. Quiet(Top, g)
  BY <1>1, <1>2, <1>3, <1>5, QuietFs
<1>7. /\ stack' = SetTop(g) /\ mounted' = mounted /\ medium_available' = medium_available
      /\ taken' = taken /\ faults \subseteq faults'
  BY <1>4 DEF FOpen, plug
<1>8. Promises(g)
  BY <1>2, <1>6, <1>7, Quietly
<1>. QED  BY <1>2, <1>7, <1>8, Stepped

(* FWriteOrClose *)
LEMMA FWriteOrCloseKeeps == ASSUME IInv, FWriteOrClose PROVE stack' \in Seq(Frames) /\ Ordered'
<1>1. Doing("fs") /\ Now.do \in {"write", "close"}
  BY DEF FWriteOrClose, DoingFs
<1>2. ~Idle /\ Now.op = "fs" /\ Seen /\ Top \in Frames /\ FrameOK(Top) /\ Top.at \in Nat
      /\ Place(Top.fn, Top.at, Now)
  BY <1>1, Running
<1>3. FsPlace(Top, Now)
  BY <1>2, OpPlaces
<1>4. PICK g : g = [Top EXCEPT !.at = @ + Now.skip + 1,
                               !.file = IF Now.do = "close" THEN "none" ELSE @]
  OBVIOUS
<1>5. g \in Frames /\ g.fn = Top.fn /\ g.at = Top.at + Now.skip + 1 /\ g.file \in {Top.file, "none"}
  <2>1. Now.skip \in Nat
    BY <1>3 DEF FsPlace, FsAt
  <2>2. PICK f \in Frames, a \in Nat, x \in {"none", "open", "dead"} :
          f = Top /\ a = Top.at + Now.skip + 1 /\ x = IF Now.do = "close" THEN "none" ELSE Top.file
    <3>1. Top.file \in {"none", "open", "dead"}
      BY <1>2 DEF Frames
    <3>. QED  BY <1>2, <2>1, <3>1
  <2>3. g = [f EXCEPT !.at = a, !.file = x]
    BY <1>4, <2>2
  <2>4. Filed(f, g, a, x)
    BY <2>3, Filing
  <2>. QED  BY <2>2, <2>4 DEF Filed
<1>6. Quiet(Top, g)
  BY <1>1, <1>2, <1>3, <1>5, QuietFs
<1>7. /\ stack' = SetTop(g) /\ mounted' = mounted /\ medium_available' = medium_available
      /\ taken' = taken /\ faults \subseteq faults'
  BY <1>4 DEF FWriteOrClose, plug, firmware
<1>8. Promises(g)
  BY <1>2, <1>6, <1>7, Quietly
<1>. QED  BY <1>2, <1>7, <1>8, Stepped

(* What the conditions look at. *)
LEMMA Conditions ==
  /\ Holds("mounted") <=> mounted
  /\ Holds("unmounted") <=> ~mounted
  /\ Holds("plugged") <=> medium_available
  /\ Holds("failed") <=> ~result
  /\ ~Holds("never")
BY DEF Holds

(* Branch: which way a decision goes depends on what the invariant is about. *)
LEMMA BranchKeeps == ASSUME IInv, Branch PROVE stack' \in Seq(Frames) /\ Ordered'
<1>1. Doing("if")
  BY DEF Branch
<1>2. ~Idle /\ Now.op = "if" /\ Seen /\ Top \in Frames /\ FrameOK(Top) /\ Top.at \in Nat
      /\ Place(Top.fn, Top.at, Now)
  BY <1>1, Running
<1>3. IfPlace(Top, Now)
  BY <1>2, OpPlaces
<1>4. PICK a \in Nat : a = Top.at + (IF Holds(Now.cond) THEN 1 ELSE Now.skip + 1) /\ Now.skip \in Nat
  <2>1. Now.skip \in Nat
    BY <1>3 DEF IfPlace, IfAt
  <2>. QED  BY <1>2, <2>1
<1>5. PICK g : g = [Top EXCEPT !.at = a]
  OBVIOUS
<1>6. GoneOn(Top, g, a)
  BY <1>2, <1>5, GoingOn
<1>7. g \in Frames /\ g.fn = Top.fn /\ g.at = a /\ g.file = Top.file
  BY <1>6 DEF GoneOn
<1>8. /\ stack' = SetTop(g) /\ mounted' = mounted /\ medium_available' = medium_available
      /\ taken' = taken /\ faults' = faults
  BY <1>4, <1>5 DEF Branch, Skip, plug, firmware
<1>9. CASE IfQuiet(Top, Now)
  <2>1. (a = Top.at + 1 /\ Now.cond # "never") \/ a = Top.at + Now.skip + 1
    BY <1>2, <1>4, Conditions
  <2>2. Quiet(Top, g)
    BY <1>2, <1>6, <1>9, <2>1, QuietIf
  <2>3. Promises(g)
    BY <1>2, <1>8, <2>2, Quietly
  <2>. QED  BY <1>2, <1>8, <2>3, Stepped
<1>10. CASE Judges(Top)
  <2>0. Top.at = 5 /\ Top.fn \in Callers
    BY <1>10 DEF Judges
  <2>3. PICK u, l : /\ u = Unmounting[Top.fn] /\ l = Len(Program(Top.fn))
                    /\ u \in {14, 15} /\ l \in {17, 19}
    <3>1. CASE Top.fn = "main"
      <4>1. Unmounting[Top.fn] = 15 /\ Len(Program(Top.fn)) = 17
        BY <3>1, Lengths
      <4>. QED  BY <4>1
    <3>2. CASE Top.fn \in {"stats", "data"}
      <4>1. PICK u : u = Unmounting[Top.fn] /\ u = 14 /\ Len(Program(Top.fn)) = u + 5
        BY <3>2, Lengths
      <4>2. Len(Program(Top.fn)) = 19
        BY <4>1
      <4>. QED  BY <4>1, <4>2
    <3>. QED  BY <2>0, <3>1, <3>2 DEF Callers
  <2>1. Now.cond = "failed" /\ Now.skip = 2 /\ Top.at = 5 /\ Top.fn \in Callers
    BY <1>3, <2>0, <2>3 DEF IfPlace, IfAt, Callers
  <2>2. (result /\ a = 8) \/ (~result /\ a = 6)
    BY <1>4, <2>1, Conditions
  <2>4. FrameOK(g)
    <3>1. Top.at <= a /\ a <= 17
      BY <2>0, <2>2
    <3>2. Top.fn # "debug_msc_mount"
      BY <2>0 DEF Callers
    <3>3. a <= l + 1
      <4>1. l \in {17, 19}
        BY <2>3
      <4>. QED  BY <3>1, <4>1
    <3>4. a <= Len(Program(Top.fn)) + 1
      BY <2>3, <3>3
    <3>. QED  BY <1>2, <1>6, <3>1, <3>2, <3>4, StaysOK
  <2>5. ~Judges(g) /\ ~Mounts(g) /\ ~Failed(g) /\ ~Keeps(Top)
    BY <1>7, <2>1, <2>2, <2>3 DEF Judges, Mounts, Failed, Keeps, Callers
  <2>6. (result => Keeps(g)) /\ (~result => ~Needs(g))
    BY <1>7, <2>1, <2>2, <2>3 DEF Keeps, Needs, Callers, Files
  <2>7. result /\ Takes(Top) => Takes(g)
    BY <1>7, <2>1, <2>2, <2>3 DEF Takes
  <2>8. ~(Alone /\ g.file = "dead")
    <3>1. Alone /\ Top.file = "dead" => Top.at >= 16
      BY <1>2 DEF Seen
    <3>. QED  BY <1>7, <2>0, <3>1
  <2>9. Promises(g)
    BY <1>2, <1>7, <1>8, <1>10, <2>4, <2>5, <2>6, <2>7, <2>8 DEF Promises, Seen, Alone
  <2>. QED  BY <1>2, <1>8, <2>9, Stepped
<1>11. CASE Top.fn \in {"stats", "data"} /\ Top.at = 1
  <2>1. Now.cond = "plugged" /\ Now.skip = 2
    BY <1>3, <1>11, Lengths, Names DEF IfPlace, IfAt, Files
  <2>2. (medium_available /\ a = 2) \/ (~medium_available /\ a = 4)
    BY <1>4, <1>11, <2>1, Conditions
  <2>3. PICK u \in {14} : u = Unmounting[Top.fn] /\ Len(Program(Top.fn)) = u + 5
    BY <1>11, Lengths
  <2>4. FrameOK(g)
    <3>1. Top.at <= a /\ Top.fn # "debug_msc_mount" /\ a <= Len(Program(Top.fn)) + 1
      BY <1>11, <2>2, <2>3
    <3>. QED  BY <1>2, <1>6, <3>1, StaysOK
  <2>5. ~Judges(g) /\ ~Failed(g) /\ ~Keeps(Top) /\ ~Judges(Top) /\ ~Takes(Top) /\ ~Needs(g)
    BY <1>7, <1>11, <2>2, <2>3 DEF Judges, Failed, Keeps, Needs, Takes, Callers, Files
  <2>6. Mounts(g) => ~medium_available
    BY <1>7, <1>11, <2>2 DEF Mounts
  <2>7. ~(Alone /\ g.file = "dead")
    BY <1>2, <1>7, <1>11 DEF Seen
  <2>8. Promises(g)
    BY <1>2, <1>7, <1>8, <2>4, <2>5, <2>6, <2>7 DEF Promises, Seen, Alone
  <2>. QED  BY <1>2, <1>8, <2>8, Stepped
<1>12. CASE Top.fn = "debug_msc_mount"
  <2>1. Now.cond = "mounted" /\ Now.skip = 2 /\ Top.at = 1
    BY <1>3, <1>12, Names DEF IfPlace, IfAt, Files
  <2>2. (mounted /\ a = 2) \/ (~mounted /\ a = 4)
    BY <1>4, <2>1, Conditions
  <2>3. FrameOK(g)
    <3>1. Len(Program(Top.fn)) = 8
      BY <1>12, Lengths
    <3>2. Top.at <= a /\ a <= Len(Program(Top.fn)) + 1 /\ a <= 8
      BY <2>1, <2>2, <3>1
    <3>. QED  BY <1>2, <1>6, <3>2, StaysOK
  <2>4. ~Judges(g) /\ ~Failed(g) /\ ~Keeps(Top) /\ ~Judges(Top) /\ ~Takes(Top) /\ Mounts(Top)
    BY <1>7, <1>12, <2>1, <2>2 DEF Judges, Failed, Keeps, Needs, Takes, Mounts, Callers, Files
  <2>5. Needs(g) => mounted
    BY <1>7, <1>12, <2>2 DEF Needs, Keeps, Callers, Files
  <2>6. ~(Alone /\ g.file = "dead")
    BY <1>2, <1>7, <1>12 DEF Seen
  <2>7. Promises(g)
    BY <1>2, <1>7, <1>8, <2>3, <2>4, <2>5, <2>6 DEF Promises, Seen, Alone
  <2>. QED  BY <1>2, <1>8, <2>7, Stepped
<1>13. CASE Top.fn = "debug_msc_unmount"
  <2>1. Now.cond = "unmounted" /\ Now.skip = 2 /\ Top.at = 1
    BY <1>3, <1>13, Names DEF IfPlace, IfAt, Files
  <2>2. (~mounted /\ a = 2) \/ (mounted /\ a = 4)
    BY <1>4, <2>1, Conditions
  <2>3. FrameOK(g)
    <3>1. Len(Program(Top.fn)) = 7
      BY <1>13, Lengths
    <3>2. Top.at <= a /\ a <= Len(Program(Top.fn)) + 1
      BY <2>1, <2>2, <3>1
    <3>. QED  BY <1>2, <1>6, <1>13, <3>2, StaysOK
  <2>4. ~Judges(g) /\ ~Failed(g) /\ ~Judges(Top) /\ ~Takes(Top) /\ ~Mounts(g) /\ Needs(Top)
    BY <1>7, <1>13, <2>1, <2>2 DEF Judges, Failed, Keeps, Needs, Takes, Mounts, Callers, Files
  <2>5. mounted => Keeps(g)
    BY <1>7, <1>13, <2>2 DEF Keeps
  <2>6. ~(Alone /\ g.file = "dead")
    BY <1>2, <1>7, <1>13 DEF Seen
  <2>7. Promises(g)
    BY <1>2, <1>7, <1>8, <2>3, <2>4, <2>5, <2>6 DEF Promises, Seen, Alone
  <2>. QED  BY <1>2, <1>8, <2>7, Stepped
<1>. QED  BY <1>3, <1>9, <1>10, <1>11, <1>12, <1>13 DEF IfPlace, IfQuiet, Judges, Callers

(* Below debug_msc_mount and debug_msc_unmount nobody needs the file system: *)
(* their caller does not, and it is a command, or nothing is below it.       *)
LEMMA NoneBelow ==
  ASSUME IInv, ~Idle, Alone, Top.fn \in {"debug_msc_mount", "debug_msc_unmount"}
  PROVE  ~NeededBelow
<1>1. PICK n \in Nat : n = Len(stack) /\ n # 0
  BY DEF IInv, Typed, Idle
<1>2. Top = stack[n]
  BY <1>1 DEF Top, Last
<1>3. Shape /\ Owned
  BY DEF IInv, Ordered
<1>4. n # 1
  <2>1. stack[1].fn \in Outside \cup {"main"}
    BY <1>3 DEF Shape
  <2>. QED  BY <1>2, <2>1, Names DEF Outside
<1>5. n \in 2 .. n /\ n - 1 \in 1 .. n /\ n - 1 \in 1 .. n - 1
  BY <1>1, <1>4
<1>6. Above(stack[n - 1], Top)
  BY <1>1, <1>2, <1>3, <1>5 DEF Shape
<1>7. PICK f : f = stack[n - 1]
  OBVIOUS
<1>8. f.fn \in Callers /\ (f.at = 5 \/ f.at = Unmounting[f.fn] + 1)
  BY <1>6, <1>7, Names DEF Above, Outside, Files
<1>9. ~Needs(f)
  <2>1. PICK u : u = Unmounting[f.fn] /\ u \in {14, 15}
    <3>1. CASE f.fn = "main"
      BY <3>1, Lengths
    <3>2. CASE f.fn \in {"stats", "data"}
      <4>1. Unmounting[f.fn] = 14
        BY <3>2, Lengths
      <4>. QED  BY <4>1
    <3>. QED  BY <1>8, <3>1, <3>2 DEF Callers
  <2>2. ~(f.at \in 8 .. u)
    BY <1>8, <2>1
  <2>. QED  BY <1>8, <2>1, <2>2 DEF Needs, Keeps, Callers, Files
<1>10. ASSUME NEW j \in 1 .. n - 1
       PROVE  ~Needs(stack[j])
  <2>1. CASE j = n - 1
    BY <1>7, <1>9, <2>1
  <2>2. CASE j # n - 1
    <3>1. j \in 1 .. n /\ j < n - 1 /\ n - 1 \in 2 .. n
      BY <1>1, <2>2
    <3>2. f.fn # "main"
      BY <1>1, <1>3, <1>7, <3>1 DEF Shape
    <3>3. f.fn \in Command
      BY <1>8, <3>2, Names DEF Callers
    <3>. QED  BY <1>1, <1>3, <1>5, <1>7, <3>1, <3>3 DEF Owned
  <2>. QED  BY <2>1, <2>2
<1>. QED  BY <1>1, <1>10 DEF NeededBelow, Below

(* NotMounted: below it nobody needs what it takes away. *)
LEMMA NotMountedKeeps == ASSUME IInv, NotMounted PROVE stack' \in Seq(Frames) /\ Ordered'
<1>1. Doing("not mounted")
  BY DEF NotMounted
<1>2. ~Idle /\ Now.op = "not mounted" /\ Seen /\ Top \in Frames /\ FrameOK(Top) /\ Top.at \in Nat
      /\ Place(Top.fn, Top.at, Now)
  BY <1>1, Running
<1>3. Top.fn = "debug_msc_mount" /\ Top.at = 6
  BY <1>2, OpPlaces
<1>4. PICK g : g = [Top EXCEPT !.at = 7]
  OBVIOUS
<1>5. GoneOn(Top, g, 7)
  BY <1>2, <1>4, GoingOn
<1>6. g \in Frames /\ g.fn = Top.fn /\ g.at = 7 /\ g.file = Top.file
  BY <1>5 DEF GoneOn
<1>7. FrameOK(g)
  <2>1. PICK a \in Nat : a = 7
    OBVIOUS
  <2>2. Len(Program(Top.fn)) = 8
    BY <1>3, Lengths
  <2>3. Top.at <= a /\ a <= 8
    BY <1>3, <2>1
  <2>4. a <= Len(Program(Top.fn)) + 1
    BY <2>1, <2>2
  <2>. QED  BY <1>2, <1>5, <2>1, <2>3, <2>4, StaysOK
<1>8. /\ stack' = SetTop(g) /\ mounted' = FALSE /\ medium_available' = medium_available
      /\ taken' = taken /\ faults' = faults
  <2>1. Top.at + 1 = 7
    BY <1>3
  <2>. QED  BY <1>4, <2>1 DEF NotMounted, Skip, plug
<1>9. ~Judges(g) /\ ~Mounts(g) /\ ~Needs(g) /\ Failed(Top) /\ ~Takes(Top)
  BY <1>3, <1>6 DEF Judges, Mounts, Needs, Keeps, Failed, Takes, Callers, Files
<1>10. Alone => ~NeededBelow
  BY <1>2, <1>3, NoneBelow
<1>11. ~(Alone /\ g.file = "dead")
  BY <1>2, <1>3, <1>6 DEF Seen
<1>12. Promises(g)
  BY <1>2, <1>6, <1>7, <1>8, <1>9, <1>10, <1>11 DEF Promises, Seen, Alone
<1>. QED  BY <1>2, <1>8, <1>12, Stepped

(* FMount: the medium is out by then. *)
LEMMA FMountKeeps == ASSUME IInv, FMount PROVE stack' \in Seq(Frames) /\ Ordered'
<1>1. Doing("fs") /\ Now.do = "mount"
  BY DEF FMount, DoingFs
<1>2. ~Idle /\ Now.op = "fs" /\ Seen /\ Top \in Frames /\ FrameOK(Top) /\ Top.at \in Nat
      /\ Place(Top.fn, Top.at, Now)
  BY <1>1, Running
<1>3. Top.fn = "debug_msc_mount" /\ Top.at = 4 /\ Now.skip = 3
  <2>1. FsPlace(Top, Now)
    BY <1>2, OpPlaces
  <2>. QED  BY <1>1, <2>1 DEF FsPlace, FsAt
<1>4. PICK g : g = [Top EXCEPT !.at = 8]
  OBVIOUS
<1>5. GoneOn(Top, g, 8)
  BY <1>2, <1>4, GoingOn
<1>6. g \in Frames /\ g.fn = Top.fn /\ g.at = 8 /\ g.file = Top.file
  BY <1>5 DEF GoneOn
<1>7. FrameOK(g)
  <2>1. PICK a \in Nat : a = 8
    OBVIOUS
  <2>2. Len(Program(Top.fn)) = 8
    BY <1>3, Lengths
  <2>3. Top.at <= a /\ a <= 8
    BY <1>3, <2>1
  <2>4. a <= Len(Program(Top.fn)) + 1
    BY <2>1, <2>2
  <2>. QED  BY <1>2, <1>5, <2>1, <2>3, <2>4, StaysOK
<1>8. /\ stack' = SetTop(g) /\ mounted' = TRUE /\ medium_available' = medium_available
      /\ taken' = taken /\ faults' = faults
  BY <1>3, <1>4 DEF FMount, Skip, plug
<1>9. ~Judges(g) /\ ~Mounts(g) /\ Keeps(g) /\ Mounts(Top) /\ ~Failed(g) /\ ~Takes(Top)
  BY <1>3, <1>6 DEF Judges, Mounts, Keeps, Failed, Takes, Callers
<1>10. ~(Alone /\ g.file = "dead")
  BY <1>2, <1>3, <1>6 DEF Seen
<1>11. Promises(g)
  BY <1>2, <1>6, <1>7, <1>8, <1>9, <1>10 DEF Promises, Seen, Alone
<1>. QED  BY <1>2, <1>8, <1>11, Stepped

(* FMkfs: main goes on to mount; there is no host yet. *)
LEMMA FMkfsKeeps == ASSUME IInv, FMkfs PROVE stack' \in Seq(Frames) /\ Ordered'
<1>1. Doing("fs") /\ Now.do = "mkfs"
  BY DEF FMkfs, DoingFs
<1>2. ~Idle /\ Now.op = "fs" /\ Seen /\ Top \in Frames /\ FrameOK(Top) /\ Top.at \in Nat
      /\ Place(Top.fn, Top.at, Now)
  BY <1>1, Running
<1>3. Top.fn = "main" /\ Top.at = 1 /\ Now.skip = 2
  <2>1. FsPlace(Top, Now)
    BY <1>2, OpPlaces
  <2>. QED  BY <1>1, <2>1 DEF FsPlace, FsAt
<1>4. PICK g : g = [Top EXCEPT !.at = 4]
  OBVIOUS
<1>5. GoneOn(Top, g, 4)
  BY <1>2, <1>4, GoingOn
<1>6. g \in Frames /\ g.fn = Top.fn /\ g.at = 4 /\ g.file = Top.file
  BY <1>5 DEF GoneOn
<1>7. FrameOK(g)
  <2>1. PICK a \in Nat : a = 4
    OBVIOUS
  <2>2. Len(Program(Top.fn)) = 17
    BY <1>3, Lengths
  <2>3. Top.at <= a /\ Top.fn # "debug_msc_mount"
    BY <1>3, <2>1
  <2>4. a <= Len(Program(Top.fn)) + 1
    BY <2>1, <2>2
  <2>. QED  BY <1>2, <1>5, <2>1, <2>3, <2>4, StaysOK
<1>8. /\ stack' = SetTop(g) /\ mounted' = mounted /\ medium_available' = medium_available
      /\ taken' = taken /\ faults' = faults
  BY <1>3, <1>4 DEF FMkfs, Skip, plug, firmware
<1>9. ~Judges(g) /\ ~Needs(g) /\ ~Failed(g) /\ ~Takes(Top) /\ ~Judges(Top) /\ ~Keeps(Top)
  BY <1>3, <1>6, Lengths DEF Judges, Needs, Keeps, Failed, Takes, Callers, Files
<1>10. ~(Alone /\ g.file = "dead")
  <2>1. Alone /\ Top.file = "dead" => Top.at >= 16
    BY <1>2 DEF Seen
  <2>. QED  BY <1>3, <1>6, <2>1
<1>11. ~medium_available
  BY <1>2, <1>3 DEF Seen
<1>12. Promises(g)
  BY <1>2, <1>6, <1>7, <1>8, <1>9, <1>10, <1>11 DEF Promises, Seen, Alone
<1>. QED  BY <1>2, <1>8, <1>12, Stepped

(* PlugMedium: nobody below a command that plugs the medium in needs it out. *)
LEMMA PlugMediumKeeps == ASSUME IInv, PlugMedium PROVE stack' \in Seq(Frames) /\ Ordered'
<1>1. PICK op \in {"plug", "toggle"} : Doing(op)
  BY DEF PlugMedium
<1>2. ~Idle /\ Now.op = op /\ Seen /\ Top \in Frames /\ FrameOK(Top) /\ Top.at \in Nat
      /\ Place(Top.fn, Top.at, Now)
  BY <1>1, Running
<1>3. PlugPlace(Top, Now)
  BY <1>2, OpPlaces
<1>4. PICK a \in Nat : a = Top.at + 1
  BY <1>2
<1>5. PICK g : g = [Top EXCEPT !.at = a]
  OBVIOUS
<1>6. GoneOn(Top, g, a)
  BY <1>2, <1>5, GoingOn
<1>7. g \in Frames /\ g.fn = Top.fn /\ g.at = a /\ g.file = Top.file
  BY <1>6 DEF GoneOn
<1>8. stack' = SetTop(g) /\ mounted' = mounted /\ faults \subseteq faults'
  BY <1>4, <1>5 DEF PlugMedium, SetMedium, Skip, firmware
<1>9. Top.fn \in {"stats", "data", "eject", "allow", "mount"} /\ Top.at <= a
  BY <1>2, <1>3, <1>4 DEF PlugPlace
<1>10. FrameOK(g)
  <2>1. Top.fn # "debug_msc_mount"
    BY <1>9
  <2>2. a <= Len(Program(Top.fn)) + 1
    <3>1. PICK l : l = Len(Program(Top.fn))
      OBVIOUS
    <3>2. CASE Top.fn \in {"stats", "data"}
      <4>1. PICK u : u = Unmounting[Top.fn] /\ u = 14 /\ Len(Program(Top.fn)) = u + 5
        BY <3>2, Lengths
      <4>2. Top.at = 3 \/ Top.at = u + 4
        BY <1>3, <3>2, <4>1 DEF PlugPlace
      <4>3. a <= u + 5 + 1
        BY <1>4, <4>1, <4>2
      <4>. QED  BY <4>1, <4>3
    <3>3. CASE Top.fn = "eject"
      <4>1. Top.at = 2
        BY <1>3, <3>3 DEF PlugPlace
      <4>2. l = 2
        BY <3>1, <3>3, Lengths
      <4>3. a <= l + 1
        BY <1>4, <4>1, <4>2
      <4>. QED  BY <3>1, <4>3
    <3>4. CASE Top.fn = "allow"
      <4>1. Top.at = 3
        BY <1>3, <3>4 DEF PlugPlace
      <4>2. l = 5
        BY <3>1, <3>4, Lengths
      <4>3. a <= l + 1
        BY <1>4, <4>1, <4>2
      <4>. QED  BY <3>1, <4>3
    <3>5. CASE Top.fn = "mount"
      <4>1. Top.at = 3
        BY <1>3, <3>5 DEF PlugPlace
      <4>2. l = 4
        BY <3>1, <3>5, Lengths
      <4>3. a <= l + 1
        BY <1>4, <4>1, <4>2
      <4>. QED  BY <3>1, <4>3
    <3>. QED  BY <1>9, <3>2, <3>3, <3>4, <3>5
  <2>. QED  BY <1>2, <1>6, <1>9, <2>1, <2>2, StaysOK
<1>11. /\ ~Judges(Top) /\ ~Keeps(Top) /\ ~Judges(g) /\ ~Needs(g) /\ ~Failed(g)
  <2>1. CASE Top.fn \in {"stats", "data"}
    <3>1. PICK u : u = Unmounting[Top.fn] /\ u = 14 /\ Len(Program(Top.fn)) = u + 5
      BY <2>1, Lengths
    <3>2. Top.at = 3 \/ Top.at = u + 4
      BY <1>3, <2>1, <3>1 DEF PlugPlace
    <3>3. u = Unmounting[g.fn] /\ g.at # 5 /\ ~(g.at \in 8 .. u) /\ Top.at # 5 /\ ~(Top.at \in 8 .. u)
      BY <1>4, <1>7, <3>1, <3>2
    <3>. QED  BY <1>7, <2>1, <3>1, <3>3 DEF Judges, Keeps, Needs, Failed, Callers, Files
  <2>2. CASE Top.fn \in {"eject", "allow", "mount"}
    BY <1>7, <2>2 DEF Judges, Keeps, Needs, Failed, Callers, Files
  <2>. QED  BY <1>9, <2>1, <2>2
<1>12. ~(Alone /\ g.file = "dead")
  <2>1. Top.fn # "main"
    BY <1>9
  <2>. QED  BY <1>2, <1>7, <2>1 DEF Seen
<1>13. Alone' => Alone
  BY <1>8 DEF Alone
<1>14. mounted /\ "unmount failed" \notin faults => KeptBelow
  BY <1>2, <1>11 DEF Seen
<1>15. Alone /\ NeededBelow => mounted
  BY <1>2 DEF Seen
<1>16. CASE ~medium_available'
  <2>1. "mount failed" \notin faults' => (taken' => Takes(g) \/ TakenBelow)
    <3>1. CASE Top.fn \in {"stats", "data"} /\ Top.at = 3
      <4>1. Takes(g)
        BY <1>4, <1>7, <3>1 DEF Takes
      <4>. QED  BY <4>1
    <3>2. CASE ~Takes(Top) /\ ~(Top.fn \in {"stats", "data"})
      <4>1. taken' => taken
        BY <3>2 DEF PlugMedium, SetMedium
      <4>2. "mount failed" \notin faults' => "mount failed" \notin faults
        BY <1>8
      <4>. QED  BY <1>2, <3>2, <4>1, <4>2 DEF Seen
    <3>3. CASE Top.fn \in {"stats", "data"} /\ Top.at # 3
      <4>1. Now.op = "plug" /\ Now.in = TRUE
        BY <1>3, <3>3 DEF PlugPlace
      <4>2. medium_available' = TRUE
        BY <4>1 DEF PlugMedium, SetMedium, Doing
      <4>. QED  BY <1>16, <4>2
    <3>4. ~(Top.fn \in {"stats", "data"}) => ~Takes(Top)
      BY DEF Takes
    <3>. QED  BY <3>1, <3>2, <3>3, <3>4
  <2>. QED  BY <1>2, <1>7, <1>8, <1>10, <1>11, <1>12, <1>13, <1>14, <1>15, <1>16, <2>1, Stepped
            DEF Promises
<1>17. CASE medium_available'
  <2>1. Top.fn \in Command
    <3>1. CASE Now.op = "plug" /\ Now.in = FALSE
      <4>1. medium_available' = FALSE
        BY <3>1 DEF PlugMedium, SetMedium, Doing
      <4>. QED  BY <1>17, <4>1
    <3>2. CASE ~(Now.op = "plug" /\ Now.in = FALSE)
      BY <1>3, <3>2, Names DEF PlugPlace
    <3>. QED  BY <3>1, <3>2
  <2>2. ~Booting
    BY <1>2, <2>1 DEF Seen, Outside
  <2>3. Alone => ~NeededBelow
    BY <1>2, <2>1 DEF Seen
  <2>4. ~taken'
    BY <1>17 DEF PlugMedium, SetMedium
  <2>5. ~Mounts(g)
    <3>1. CASE Top.fn \in {"stats", "data"}
      <4>1. Top.at # 3
        <5>1. Top.at = 3 => Now.op = "plug" /\ Now.in = FALSE
          <6>1. Unmounting[Top.fn] = 14
            BY <3>1, Lengths
          <6>. QED  BY <1>3, <3>1, <6>1 DEF PlugPlace
        <5>2. Now.op = "plug" /\ Now.in = FALSE => medium_available' = FALSE
          BY DEF PlugMedium, SetMedium, Doing
        <5>. QED  BY <1>17, <5>1, <5>2
      <4>2. g.at # 4
        BY <1>2, <1>4, <1>7, <4>1
      <4>. QED  BY <1>7, <3>1, <4>2 DEF Mounts
    <3>2. CASE Top.fn = "mount"
      BY <1>7, <3>2 DEF Mounts, Callers
    <3>. QED  BY <2>1, <3>1, <3>2, Names
  <2>. QED  BY <1>2, <1>7, <1>8, <1>10, <1>11, <1>12, <1>13, <1>14, <2>2, <2>3, <2>4, <2>5, Stepped
            DEF Promises
<1>. QED  BY <1>16, <1>17

(* Fails: what fails is a fault, or changes nothing for the others. *)
LEMMA FailsKeeps == ASSUME IInv, Fails PROVE stack' \in Seq(Frames) /\ Ordered'
<1>1. Doing("fs")
  BY DEF Fails
<1>2. ~Idle /\ Now.op = "fs" /\ Seen /\ Top \in Frames /\ FrameOK(Top) /\ Top.at \in Nat
      /\ Place(Top.fn, Top.at, Now)
  BY <1>1, Running
<1>3. FsPlace(Top, Now)
  BY <1>2, OpPlaces
<1>4. PICK a \in Nat : a = Top.at + 1
  BY <1>2
<1>5. PICK g : g = [Top EXCEPT !.at = a]
  OBVIOUS
<1>6. GoneOn(Top, g, a)
  BY <1>2, <1>5, GoingOn
<1>7. g \in Frames /\ g.fn = Top.fn /\ g.at = a /\ g.file = Top.file
  BY <1>6 DEF GoneOn
<1>8. /\ stack' = SetTop(g) /\ mounted' = mounted /\ medium_available' = medium_available
      /\ taken' = taken /\ faults \subseteq faults'
  BY <1>4, <1>5 DEF Fails, Skip, Happens, plug, firmware
<1>9. CASE Now.do \in {"open", "write", "close"}
  <2>1. Quiet(Top, g)
    BY <1>2, <1>3, <1>4, <1>7, <1>9, QuietFs
  <2>2. Promises(g)
    BY <1>2, <1>8, <2>1, Quietly
  <2>. QED  BY <1>2, <1>8, <2>2, Stepped
<1>10. CASE Now.do = "mkfs"
  <2>1. Top.fn = "main" /\ Top.at = 1
    BY <1>3, <1>10 DEF FsPlace, FsAt
  <2>2. a = 2
    BY <1>4, <2>1
  <2>3. FrameOK(g)
    <3>1. Len(Program(Top.fn)) = 17
      BY <2>1, Lengths
    <3>2. Top.at <= a /\ Top.fn # "debug_msc_mount"
      BY <2>1, <2>2
    <3>3. a <= Len(Program(Top.fn)) + 1
      BY <2>2, <3>1
    <3>. QED  BY <1>2, <1>6, <3>2, <3>3, StaysOK
  <2>4. Quiet(Top, g)
    BY <1>7, <2>1, <2>2, <2>3, Lengths
       DEF Quiet, Needs, Keeps, Judges, Mounts, Failed, Takes, Callers, Files
  <2>5. Promises(g)
    BY <1>2, <1>8, <2>4, Quietly
  <2>. QED  BY <1>2, <1>8, <2>5, Stepped
<1>11. CASE Now.do = "mount"
  <2>1. Top.fn = "debug_msc_mount" /\ Top.at = 4
    BY <1>3, <1>11 DEF FsPlace, FsAt
  <2>2. a = 5
    BY <1>4, <2>1
  <2>3. FrameOK(g)
    <3>1. Len(Program(Top.fn)) = 8
      BY <2>1, Lengths
    <3>2. Top.at <= a /\ a <= 8
      BY <2>1, <2>2
    <3>3. a <= Len(Program(Top.fn)) + 1
      BY <2>2, <3>1
    <3>. QED  BY <1>2, <1>6, <3>2, <3>3, StaysOK
  <2>4. "mount failed" \in faults'
    BY <1>11 DEF Fails, Happens
  <2>5. ~Judges(Top) /\ ~Keeps(Top) /\ ~Judges(g) /\ ~Needs(g) /\ ~Mounts(g)
    BY <1>7, <2>1, <2>2 DEF Needs, Keeps, Judges, Mounts, Callers, Files
  <2>6. ~(Alone /\ g.file = "dead")
    BY <1>2, <1>7, <2>1 DEF Seen
  <2>7. Alone' => Alone
    BY <1>8 DEF Alone
  <2>8. mounted /\ "unmount failed" \notin faults' => KeptBelow
    BY <1>2, <1>8, <2>5 DEF Seen
  <2>9. Alone /\ NeededBelow => mounted /\ ~medium_available
    BY <1>2 DEF Seen
  <2>10. Booting => ~medium_available
    BY <1>2 DEF Seen
  <2>11. Promises(g)
    BY <1>7, <1>8, <2>3, <2>4, <2>5, <2>6, <2>7, <2>8, <2>9, <2>10 DEF Promises
  <2>. QED  BY <1>2, <1>8, <2>11, Stepped
<1>12. CASE Now.do = "unmount"
  <2>1. Top.fn = "debug_msc_unmount" /\ Top.at = 4
    BY <1>3, <1>12 DEF FsPlace, FsAt
  <2>2. a = 5
    BY <1>4, <2>1
  <2>3. FrameOK(g)
    <3>1. Len(Program(Top.fn)) = 7
      BY <2>1, Lengths
    <3>2. Top.at <= a /\ Top.fn # "debug_msc_mount"
      BY <2>1, <2>2
    <3>3. a <= Len(Program(Top.fn)) + 1
      BY <2>2, <3>1
    <3>. QED  BY <1>2, <1>6, <3>2, <3>3, StaysOK
  <2>4. "unmount failed" \in faults'
    BY <1>12 DEF Fails, Happens
  <2>5. ~Judges(Top) /\ ~Judges(g) /\ ~Needs(g) /\ ~Mounts(g) /\ ~Failed(g) /\ ~Takes(Top)
    BY <1>7, <2>1, <2>2 DEF Needs, Keeps, Judges, Mounts, Failed, Takes, Callers, Files
  <2>6. ~(Alone /\ g.file = "dead")
    BY <1>2, <1>7, <2>1 DEF Seen
  <2>7. Alone' => Alone
    BY <1>8 DEF Alone
  <2>8. Alone /\ NeededBelow => mounted /\ ~medium_available
    BY <1>2 DEF Seen
  <2>9. Booting => ~medium_available
    BY <1>2 DEF Seen
  <2>10. "mount failed" \notin faults' => (taken => TakenBelow)
    BY <1>2, <1>8, <2>5 DEF Seen
  <2>11. Promises(g)
    BY <1>7, <1>8, <2>3, <2>4, <2>5, <2>6, <2>7, <2>8, <2>9, <2>10 DEF Promises
  <2>. QED  BY <1>2, <1>8, <2>11, Stepped
<1>. QED  BY <1>3, <1>9, <1>10, <1>11, <1>12 DEF FsPlace, FsAt

(* Popping the frame that runs leaves the others alone. *)
LEMMA TopPopped ==
  ASSUME NEW s \in Seq(Frames), s # <<>>
  PROVE  /\ Front(s) \in Seq(Frames) /\ Len(Front(s)) = Len(s) - 1
         /\ \A k \in 1 .. Len(s) - 1 : Front(s)[k] = s[k]
<1>1. PICK n \in Nat : n = Len(s) /\ n # 0
  OBVIOUS
<1>2. /\ Front(s) \in Seq(Frames) /\ Len(Front(s)) = n - 1
      /\ \A k \in 1 .. n - 1 : Front(s)[k] = s[k]
  BY <1>1 DEF Front
<1>. QED  BY <1>1, <1>2

(* Who returns holds nothing, but for a debug_msc_mount that has mounted. *)
LEMMA Returning ==
  ASSUME IInv, ReturnFrom
  PROVE  /\ ~Takes(Top) /\ ~Judges(Top)
         /\ Keeps(Top) => Top.fn = "debug_msc_mount" /\ result'
         /\ Top.fn = "debug_msc_mount" => (Keeps(Top) /\ result') \/ (Failed(Top) /\ ~result')
<1>1. ~Idle /\ Seen /\ Top \in Frames /\ FrameOK(Top) /\ Top.at \in Nat
  BY Sees DEF ReturnFrom, Seen, Frames
<1>2. PICK l : l = Len(Program(Top.fn))
  OBVIOUS
<1>3. PICK f : f = Top
  OBVIOUS
<1>4. CASE Done
  <2>1. f.at \in 1 .. l + 1 /\ f.at > l
    BY <1>1, <1>2, <1>3, <1>4 DEF Done, Code, FrameOK
  <2>2. CASE f.fn = "main"
    <3>1. l = 17
      BY <1>2, <1>3, <2>2, Lengths
    <3>2. f.at = 18
      BY <2>1, <3>1
    <3>. QED  BY <1>3, <2>2, <3>2, Lengths DEF Takes, Judges, Keeps, Callers
  <2>3. CASE f.fn \in {"stats", "data"}
    <3>1. PICK u : u = Unmounting[f.fn] /\ u = 14 /\ Len(Program(f.fn)) = u + 5
      BY <2>3, Lengths
    <3>2. l = u + 5
      BY <1>2, <1>3, <3>1
    <3>3. f.at = u + 6
      BY <2>1, <3>1, <3>2
    <3>4. f.at # 5 /\ ~(f.at \in 8 .. u) /\ ~(f.at \in {4, 5} \cup 8 .. u + 4)
      BY <3>1, <3>3
    <3>. QED  BY <1>3, <2>3, <3>1, <3>4 DEF Takes, Judges, Keeps, Callers
  <2>4. CASE f.fn = "debug_msc_mount"
    <3>1. l = 8
      BY <1>2, <1>3, <2>4, Lengths
    <3>2. f.at <= 8
      BY <1>1, <1>3, <2>4 DEF FrameOK
    <3>. QED  BY <2>1, <3>1, <3>2
  <2>5. CASE f.fn = "debug_msc_unmount"
    <3>1. l = 7
      BY <1>2, <1>3, <2>5, Lengths
    <3>2. f.at = 8
      BY <2>1, <3>1
    <3>. QED  BY <1>3, <2>5, <3>2 DEF Takes, Judges, Keeps, Callers
  <2>6. CASE f.fn \in Files \cup {"mount", "prevent", "eject", "allow"}
    BY <1>3, <2>6 DEF Takes, Judges, Keeps, Callers, Files
  <2>7. f.fn \in Command \cup ScsiCommand \cup DOMAIN Function
    BY <1>1, <1>3 DEF Frames
  <2>. QED  BY <2>2, <2>3, <2>4, <2>5, <2>6, <2>7, Names
<1>5. CASE ~Done
  <2>1. Doing("return")
    BY <1>5 DEF ReturnFrom
  <2>2. Place(Top.fn, Top.at, Now) /\ Now.op = "return"
    BY <2>1, Running
  <2>3. ReturnPlace(f, Now)
    BY <1>3, <2>2, OpPlaces
  <2>4. result' = Now.ok
    BY <1>5 DEF ReturnFrom
  <2>5. CASE f.fn = "main"
    <3>1. f.at \in {3, 7}
      BY <2>3, <2>5 DEF ReturnPlace, Files
    <3>. QED  BY <1>3, <2>5, <3>1, Lengths DEF Takes, Judges, Keeps, Callers
  <2>6. CASE f.fn \in {"stats", "data"}
    <3>1. f.at = 7
      BY <2>3, <2>6 DEF ReturnPlace, Files
    <3>2. PICK u : u = Unmounting[f.fn] /\ u = 14
      BY <2>6, Lengths
    <3>3. f.at # 5 /\ ~(f.at \in 8 .. u) /\ ~(f.at \in {4, 5} \cup 8 .. u + 4)
      BY <3>1, <3>2
    <3>. QED  BY <1>3, <2>6, <3>2, <3>3 DEF Takes, Judges, Keeps, Callers
  <2>7. CASE f.fn = "debug_msc_mount"
    <3>1. (f.at \in {3, 8} /\ Now.ok = TRUE) \/ (f.at = 7 /\ Now.ok = FALSE)
      BY <2>3, <2>7 DEF ReturnPlace, Files
    <3>. QED  BY <1>3, <2>4, <2>7, <3>1 DEF Takes, Judges, Keeps, Failed, Callers
  <2>8. CASE f.fn = "debug_msc_unmount"
    <3>1. f.at \in {3, 6, 7}
      BY <2>3, <2>8 DEF ReturnPlace, Files
    <3>. QED  BY <1>3, <2>8, <3>1 DEF Takes, Judges, Keeps, Callers
  <2>9. CASE f.fn \in Files \cup {"allow"}
    BY <1>3, <2>9 DEF Takes, Judges, Keeps, Callers, Files
  <2>. QED  BY <2>3, <2>5, <2>6, <2>7, <2>8, <2>9 DEF ReturnPlace
<1>. QED  BY <1>4, <1>5

(* A caller is not itself on its way to f_mount, and looks at the result of *)
(* debug_msc_mount only.                                                    *)
LEMMA Callees ==
  ASSUME NEW f, NEW g, Above(f, g)
  PROVE  ~Mounts(f) /\ (Judges(f) => g.fn = "debug_msc_mount")
<1>1. CASE g.fn \in Outside /\ ~Judges(f) /\ ~Mounts(f)
  BY <1>1
<1>2. CASE g.fn = "debug_msc_mount" /\ f.fn \in Callers /\ f.at = 5
  BY <1>2 DEF Mounts, Callers
<1>3. CASE f.fn \in Callers /\ f.at = Unmounting[f.fn] + 1
  <2>1. PICK u : u = Unmounting[f.fn] /\ u \in {14, 15}
    <3>1. CASE f.fn = "main"
      BY <3>1, Lengths
    <3>2. CASE f.fn \in {"stats", "data"}
      <4>1. Unmounting[f.fn] = 14
        BY <3>2, Lengths
      <4>. QED  BY <4>1
    <3>. QED  BY <1>3, <3>1, <3>2 DEF Callers
  <2>2. f.at # 4 /\ f.at # 5
    BY <1>3, <2>1
  <2>. QED  BY <1>3, <2>2 DEF Mounts, Judges, Callers
<1>4. CASE f.fn \in {"stats", "data"} /\ f.at \in 9 .. Unmounting[f.fn]
  BY <1>4 DEF Mounts, Judges, Callers
<1>. QED  BY <1>1, <1>2, <1>3, <1>4 DEF Above

(* ReturnFrom: what the caller hears is what it needs to know. *)
LEMMA ReturnFromKeeps == ASSUME IInv, ReturnFrom PROVE stack' \in Seq(Frames) /\ Ordered'
<1>1. ~Idle /\ Seen
  BY Sees DEF ReturnFrom
<1>2. PICK n \in Nat : n = Len(stack) /\ n # 0
  BY DEF IInv, Typed, ReturnFrom, Idle
<1>3. /\ stack' \in Seq(Frames) /\ Len(stack') = n - 1
      /\ \A k \in 1 .. n - 1 : stack'[k] = stack[k]
  <2>1. stack \in Seq(Frames) /\ stack # <<>> /\ stack' = Front(stack)
    BY DEF IInv, Typed, ReturnFrom, Idle
  <2>. QED  BY <1>2, <2>1, TopPopped
<1>4. Top = stack[n] /\ Shape /\ (Alone => Owned) /\ Held /\ Accounted
  BY <1>2 DEF Top, Last, IInv, Ordered
<1>5. /\ medium_available' = medium_available /\ taken' = taken /\ mounted' = mounted
      /\ faults' = faults
  BY DEF ReturnFrom, plug
<1>6. CASE n = 1
  <2>1. stack' = <<>> /\ Idle' /\ Len(stack') = 0
    BY <1>3, <1>6 DEF Idle
  <2>2. ~Keeps(Top)
    <3>1. Top.fn # "debug_msc_mount"
      BY <1>1, <1>2, <1>4, <1>6, Names DEF Shape, Outside
    <3>. QED  BY <3>1, Returning
  <2>a. \A k \in 1 .. Len(stack) : stack[k] = Top
    BY <1>2, <1>4, <1>6
  <2>3. ~(mounted /\ "unmount failed" \notin faults)
    <3>1. ~Judges(Top)
      BY Returning
    <3>. QED  BY <1>4, <2>2, <2>a, <3>1 DEF Held
  <2>4. "mount failed" \notin faults => ~taken
    <3>1. ~Takes(Top)
      BY Returning
    <3>. QED  BY <1>4, <2>a, <3>1 DEF Accounted
  <2>5. Shape'
    BY <2>1 DEF Shape, Booting
  <2>6. Owned'
    BY <2>1 DEF Owned
  <2>7. Held'
    BY <1>5, <2>1, <2>3 DEF Held
  <2>8. Accounted'
    <3>1. \A k \in 1 .. Len(stack') : FALSE
      BY <2>1
    <3>. QED  BY <1>5, <2>1, <2>4, <3>1 DEF Accounted
  <2>. QED  BY <1>3, <2>5, <2>6, <2>7, <2>8 DEF Ordered
<1>7. CASE n # 1
  <2>1. /\ n - 1 \in 1 .. n - 1 /\ 1 \in 1 .. n - 1 /\ n \in 2 .. n /\ n - 1 # 0
        /\ n \in 1 .. n
        /\ \A k \in 1 .. n - 1 : k \in 1 .. n
        /\ \A k \in 2 .. n - 1 : k \in 2 .. n /\ k \in 1 .. n - 1 /\ k - 1 \in 1 .. n - 1
        /\ \A k \in 1 .. n : k = n \/ k \in 1 .. n - 1
    BY <1>2, <1>7
  <2>2. ~Idle' /\ Top' = stack[n - 1]
    BY <1>3, <2>1 DEF Idle, Top, Last
  <2>3. Above(Top', Top)
    BY <1>2, <1>4, <2>1, <2>2 DEF Shape
  <2>4. ~Mounts(Top') /\ (Judges(Top') => Top.fn = "debug_msc_mount")
    BY <2>3, Callees
  <2>5. Booting' <=> Booting
    BY <1>1, <1>3, <2>1, <2>2 DEF Booting
  <2>6. Shape'
    <3>1. \A k \in 1 .. n - 1 : FrameOK(stack'[k])
      BY <1>2, <1>3, <1>4, <2>1 DEF Shape
    <3>2. stack'[1].fn \in Outside \cup {"main"}
      BY <1>1, <1>3, <1>4, <2>1 DEF Shape
    <3>3. \A k \in 2 .. n - 1 : Above(stack'[k - 1], stack'[k]) /\ stack'[k].fn # "main"
      BY <1>2, <1>3, <1>4, <2>1 DEF Shape
    <3>4. \A k \in 1 .. n - 1 : stack'[k].fn \in Outside => ~Booting'
      BY <1>2, <1>3, <1>4, <2>1, <2>5 DEF Shape
    <3>5. Booting' => ~medium_available'
      BY <1>4, <1>5, <2>5 DEF Shape
    <3>. QED  BY <1>3, <3>1, <3>2, <3>3, <3>4, <3>5 DEF Shape
  <2>7. Alone' => Owned'
    <3>. SUFFICES ASSUME Alone' PROVE Owned'
      OBVIOUS
    <3>1. Owned
      BY <1>4, <1>5 DEF Alone
    <3>2. \A k \in 1 .. n - 1 : Needs(stack'[k]) => mounted' /\ ~medium_available'
      BY <1>2, <1>3, <1>5, <2>1, <3>1 DEF Owned
    <3>3. \A j, k \in 1 .. n - 1 : j < k /\ stack'[k].fn \in Command => ~Needs(stack'[j])
      BY <1>2, <1>3, <2>1, <3>1 DEF Owned
    <3>4. Judges(Top') /\ result' => mounted' /\ ~medium_available'
      <4>1. Judges(Top') /\ result' => Keeps(Top)
        BY <2>4, Returning
      <4>2. Keeps(Top) => mounted /\ ~medium_available
        <5>1. n \in 1 .. n
          BY <2>1
        <5>. QED  BY <1>2, <1>4, <3>1, <5>1 DEF Owned, Needs
      <4>. QED  BY <1>5, <4>1, <4>2
    <3>5. \A k \in 1 .. n - 1 :
            stack'[k].file = "dead" => stack'[k].fn = "main" /\ stack'[k].at >= 16
      BY <1>2, <1>3, <2>1, <3>1 DEF Owned
    <3>. QED  BY <1>3, <3>2, <3>3, <3>4, <3>5 DEF Owned
  <2>8. Held'
    <3>1. ASSUME mounted', "unmount failed" \notin faults'
          PROVE  (Judges(Top') /\ result') \/ \E k \in 1 .. n - 1 : Keeps(stack'[k])
      <4>1. \E k \in 1 .. n : Keeps(stack[k])
        BY <1>2, <1>4, <1>5, <3>1, Returning DEF Held
      <4>2. CASE Keeps(Top)
        <5>1. result' /\ Top.fn = "debug_msc_mount"
          BY <4>2, Returning
        <5>2. Judges(Top')
          BY <2>3, <5>1, Names DEF Above, Judges, Outside, Files
        <5>. QED  BY <5>1, <5>2
      <4>3. CASE ~Keeps(Top)
        BY <1>3, <1>4, <2>1, <4>1, <4>3
      <4>. QED  BY <4>2, <4>3
    <3>. QED  BY <1>3, <2>2, <2>4, <3>1 DEF Held
  <2>9. Accounted'
    <3>. SUFFICES ASSUME "mount failed" \notin faults' PROVE Accounted'
      BY DEF Accounted
    <3>1. \A k \in 1 .. n : ~Failed(stack[k])
      BY <1>2, <1>4, <1>5 DEF Accounted
    <3>2. \A k \in 1 .. n - 1 : ~Failed(stack'[k])
      BY <1>3, <2>1, <3>1
    <3>3. Judges(Top') => result'
      <4>1. ~Failed(Top)
        <5>1. n \in 1 .. n
          BY <2>1
        <5>. QED  BY <1>4, <3>1, <5>1
      <4>. QED  BY <2>4, <4>1, Returning
    <3>4. taken' => \E k \in 1 .. n - 1 : Takes(stack'[k])
      <4>1. taken => \E k \in 1 .. n : Takes(stack[k])
        BY <1>2, <1>4, <1>5 DEF Accounted
      <4>2. ~Takes(Top)
        BY Returning
      <4>. QED  BY <1>3, <1>4, <1>5, <2>1, <4>1, <4>2
    <3>. QED  BY <1>3, <3>2, <3>3, <3>4 DEF Accounted
  <2>. QED  BY <1>3, <2>6, <2>7, <2>8, <2>9 DEF Ordered
<1>. QED  BY <1>6, <1>7

(* A function that starts holds nothing yet. *)
LEMMA Starting ==
  ASSUME NEW fn \in Command \cup ScsiCommand \cup DOMAIN Function
  PROVE  /\ Frame(fn) \in Frames /\ Frame(fn).fn = fn /\ Frame(fn).at = 1
         /\ Frame(fn).file = "none" /\ FrameOK(Frame(fn)) /\ ~Judges(Frame(fn))
<1>1. Frame(fn) \in Frames /\ Frame(fn).fn = fn /\ Frame(fn).at = 1 /\ Frame(fn).file = "none"
  BY DEF Frame, Frames
<1>2. PICK g : g = Frame(fn)
  OBVIOUS
<1>3. PICK l : l = Len(Program(g.fn))
  OBVIOUS
<1>4. l \in Nat
  <2>1. \/ fn = "main" \/ fn \in {"stats", "data"} \/ fn = "mount" \/ fn = "prevent"
        \/ fn = "eject" \/ fn = "allow" \/ fn = "debug_msc_mount" \/ fn = "debug_msc_unmount"
        \/ fn \in Files
    BY Names
  <2>2. Len(Program(fn)) \in Nat
    BY <2>1, Lengths
  <2>. QED  BY <1>1, <1>2, <1>3, <2>2
<1>5. g.at \in 1 .. l + 1
  BY <1>1, <1>2, <1>4
<1>6. FrameOK(g)
  BY <1>1, <1>2, <1>3, <1>5 DEF FrameOK
<1>7. ~Judges(g)
  BY <1>1, <1>2 DEF Judges
<1>. QED  BY <1>1, <1>2, <1>6, <1>7

\* The stack t is s with f on top instead and g above it.
Above2(s, t, f, g) ==
  /\ t \in Seq(Frames) /\ Len(t) = Len(s) + 1 /\ t[Len(s)] = f /\ t[Len(s) + 1] = g
  /\ \A k \in 1 .. Len(s) - 1 : t[k] = s[k]

(* Calling a function is both. *)
LEMMA TopCalls ==
  ASSUME NEW s \in Seq(Frames), s # <<>>, NEW f \in Frames, NEW g \in Frames
  PROVE  Above2(s, Append(Append(Front(s), f), g), f, g)
<1>1. PICK n \in Nat : n = Len(s) /\ n # 0
  OBVIOUS
<1>2. PICK u \in Seq(Frames) : u = Append(Front(s), f) /\ OnTop(s, u, f)
  BY TopReplaced DEF OnTop
<1>3. Len(u) = n /\ u[n] = f /\ \A k \in 1 .. n - 1 : u[k] = s[k]
  BY <1>1, <1>2 DEF OnTop
<1>4. PICK t : t = Append(u, g)
  OBVIOUS
<1>5. t \in Seq(Frames) /\ Len(t) = n + 1 /\ t[n + 1] = g /\ \A k \in 1 .. n : t[k] = u[k]
  BY <1>3, <1>4
<1>6. n \in 1 .. n /\ \A k \in 1 .. n - 1 : k \in 1 .. n
  BY <1>1
<1>7. t[n] = f /\ \A k \in 1 .. n - 1 : t[k] = s[k]
  BY <1>3, <1>5, <1>6
<1>. QED  BY <1>1, <1>2, <1>4, <1>5, <1>7 DEF Above2

\* What f, that calls g, and g have to promise.
Agree(f, g) ==
  /\ f \in Frames /\ FrameOK(f) /\ f.fn = Top.fn /\ g \in Frames /\ FrameOK(g)
  /\ Above(f, g) /\ g.fn # "main" /\ ~Judges(g) /\ g.file = "none"
  /\ g.fn \in Outside => ~Booting
  /\ Alone' /\ (Needs(f) \/ Needs(g)) => mounted' /\ ~medium_available'
  /\ Alone' /\ g.fn \in Command => ~Needs(f) /\ ~NeededBelow
  /\ f.file = Top.file /\ f.at >= Top.at
  /\ Mounts(g) => ~medium_available'
  /\ mounted' /\ "unmount failed" \notin faults' => Keeps(f) \/ Keeps(g) \/ KeptBelow
  /\ ~Failed(g) /\ (Failed(f) => Failed(Top)) /\ (Takes(Top) => Takes(f))

(* Then the invariant holds again. *)
LEMMA Called ==
  ASSUME IInv, ~Idle, NEW f, NEW g, stack' = Append(SetTop(f), g), Agree(f, g),
         mounted' = mounted, medium_available' = medium_available, taken' = taken,
         faults \subseteq faults'
  PROVE  stack' \in Seq(Frames) /\ Ordered'
<1>1. PICK n \in Nat : n = Len(stack) /\ n # 0
  BY DEF IInv, Typed, Idle
<1>2. /\ stack' \in Seq(Frames) /\ Len(stack') = n + 1 /\ stack'[n] = f /\ stack'[n + 1] = g
      /\ \A k \in 1 .. n - 1 : stack'[k] = stack[k]
  <2>1. stack \in Seq(Frames) /\ stack # <<>> /\ f \in Frames /\ g \in Frames
        /\ stack' = Append(Append(Front(stack), f), g)
    BY DEF IInv, Typed, Idle, Agree, SetTop
  <2>2. Above2(stack, stack', f, g)
    BY <2>1, TopCalls
  <2>. QED  BY <1>1, <2>2 DEF Above2
<1>3. Top = stack[n] /\ Top' = g /\ ~Idle'
  BY <1>1, <1>2 DEF Top, Last, Idle
<1>4. /\ \A k \in 1 .. n + 1 : k = n + 1 \/ k = n \/ k \in 1 .. n - 1
      /\ \A k \in 1 .. n - 1 : k \in 1 .. n /\ k \in 1 .. n + 1 /\ k < n
      /\ n \in 1 .. n /\ 1 \in 1 .. n /\ n \in 1 .. n + 1 /\ n + 1 \in 1 .. n + 1
      /\ \A k \in 1 .. n : k \in 1 .. n + 1 /\ (k = n \/ k \in 1 .. n - 1)
      /\ \A k \in 2 .. n : k \in 1 .. n /\ k - 1 \in 1 .. n - 1
      /\ \A k \in 2 .. n + 1 : (k = n + 1 /\ k - 1 = n) \/ k \in 2 .. n
  BY <1>1
<1>5. \A k \in 1 .. n : stack'[k].fn = stack[k].fn
  BY <1>2, <1>3, <1>4 DEF Agree
<1>6. Booting' <=> Booting
  BY <1>3, <1>4, <1>5 DEF Booting
<1>7. Seen /\ Shape /\ Accounted /\ (Alone' => Alone)
  BY Sees DEF IInv, Ordered, Alone
<1>8. Shape'
  <2>1. \A k \in 1 .. n + 1 : FrameOK(stack'[k])
    <3>1. FrameOK(f) /\ FrameOK(g)
      BY DEF Agree
    <3>2. \A k \in 1 .. n - 1 : FrameOK(stack'[k])
      BY <1>1, <1>2, <1>4, <1>7 DEF Shape
    <3>. QED  BY <1>2, <1>4, <3>1, <3>2
  <2>2. stack'[1].fn \in Outside \cup {"main"}
    BY <1>1, <1>4, <1>5, <1>7 DEF Shape
  <2>3. ASSUME NEW k \in 2 .. n + 1
        PROVE  Above(stack'[k - 1], stack'[k]) /\ stack'[k].fn # "main"
    <3>1. CASE k = n + 1
      <4>1. k - 1 = n
        BY <1>1, <3>1
      <4>. QED  BY <1>2, <3>1, <4>1 DEF Agree
    <3>2. CASE k \in 2 .. n
      <4>1. Above(stack[k - 1], stack[k]) /\ stack[k].fn # "main"
        BY <1>1, <1>7, <3>2 DEF Shape
      <4>2. stack'[k - 1] = stack[k - 1] /\ stack'[k].fn = stack[k].fn
        BY <1>2, <1>4, <1>5, <3>2
      <4>. QED  BY <4>1, <4>2 DEF Above
    <3>. QED  BY <1>4, <3>1, <3>2
  <2>4. \A k \in 1 .. n + 1 : stack'[k].fn \in Outside => ~Booting'
    <3>1. \A k \in 1 .. n : stack'[k].fn \in Outside => ~Booting'
      BY <1>1, <1>5, <1>6, <1>7 DEF Shape
    <3>2. g.fn \in Outside => ~Booting'
      BY <1>6 DEF Agree
    <3>. QED  BY <1>2, <1>4, <3>1, <3>2
  <2>5. Booting' => ~medium_available'
    BY <1>6, <1>7 DEF Shape
  <2>. QED  BY <1>2, <2>1, <2>2, <2>3, <2>4, <2>5 DEF Shape
<1>9. Alone' => Owned'
  <2>. SUFFICES ASSUME Alone' PROVE Owned'
    OBVIOUS
  <2>1. Owned
    BY <1>7 DEF IInv, Ordered
  <2>2. \A k \in 1 .. n + 1 : Needs(stack'[k]) => mounted' /\ ~medium_available'
    <3>1. \A k \in 1 .. n - 1 : Needs(stack'[k]) => mounted' /\ ~medium_available'
      BY <1>1, <1>2, <1>4, <2>1 DEF Owned
    <3>2. Needs(f) \/ Needs(g) => mounted' /\ ~medium_available'
      BY DEF Agree
    <3>. QED  BY <1>2, <1>4, <3>1, <3>2
  <2>3. ASSUME NEW j \in 1 .. n + 1, NEW k \in 1 .. n + 1, j < k, stack'[k].fn \in Command
        PROVE  ~Needs(stack'[j])
    <3>1. CASE k = n + 1
      <4>1. ~Needs(f) /\ \A i \in 1 .. n - 1 : ~Needs(stack[i])
        BY <1>1, <1>2, <2>3, <3>1 DEF Agree, NeededBelow, Below
      <4>2. j = n \/ j \in 1 .. n - 1
        BY <1>1, <2>3, <3>1
      <4>. QED  BY <1>2, <4>1, <4>2
    <3>2. CASE k \in 1 .. n
      <4>0. j \in 1 .. n - 1 /\ j \in 1 .. n
        BY <1>1, <2>3, <3>2
      <4>1. j \in 1 .. n - 1 /\ j \in 1 .. n /\ stack[k].fn \in Command
        BY <1>5, <2>3, <3>2, <4>0
      <4>2. ~Needs(stack[j])
        BY <1>1, <2>1, <2>3, <3>2, <4>1 DEF Owned
      <4>. QED  BY <1>2, <4>1, <4>2
    <3>3. k = n + 1 \/ k \in 1 .. n
      BY <1>1
    <3>. QED  BY <3>1, <3>2, <3>3
  <2>4. ~Judges(Top')
    BY <1>3 DEF Agree
  <2>5. \A k \in 1 .. n + 1 :
          stack'[k].file = "dead" => stack'[k].fn = "main" /\ stack'[k].at >= 16
    <3>1. \A k \in 1 .. n - 1 :
            stack'[k].file = "dead" => stack'[k].fn = "main" /\ stack'[k].at >= 16
      BY <1>1, <1>2, <1>4, <2>1 DEF Owned
    <3>2. f.file = "dead" => f.fn = "main" /\ f.at >= 16
      <4>1. Top.file = "dead" => Top.fn = "main" /\ Top.at >= 16
        BY <1>7 DEF Seen
      <4>2. f.at \in Nat /\ Top.at \in Nat
        BY <1>7 DEF Agree, Seen, Frames
      <4>3. f.file = Top.file /\ f.at >= Top.at /\ f.fn = Top.fn
        BY DEF Agree
      <4>. QED  BY <4>1, <4>2, <4>3
    <3>3. g.file # "dead"
      BY DEF Agree
    <3>. QED  BY <1>2, <1>4, <3>1, <3>2, <3>3
  <2>. QED  BY <1>2, <2>2, <2>3, <2>4, <2>5 DEF Owned
<1>10. Held'
  <2>1. Mounts(Top') => ~medium_available'
    BY <1>3 DEF Agree
  <2>2. ASSUME mounted', "unmount failed" \notin faults'
        PROVE  \E k \in 1 .. n + 1 : Keeps(stack'[k])
    <3>1. Keeps(f) \/ Keeps(g) \/ \E k \in 1 .. n - 1 : Keeps(stack[k])
      BY <1>1, <2>2 DEF Agree, KeptBelow, Below
    <3>. QED  BY <1>2, <1>4, <3>1
  <2>. QED  BY <1>2, <2>1, <2>2 DEF Held
<1>11. Accounted'
  <2>. SUFFICES ASSUME "mount failed" \notin faults' PROVE Accounted'
    BY DEF Accounted
  <2>1. \A k \in 1 .. n : ~Failed(stack[k])
    BY <1>1, <1>7 DEF Accounted
  <2>2. \A k \in 1 .. n + 1 : ~Failed(stack'[k])
    <3>1. ~Failed(f) /\ ~Failed(g)
      BY <1>3, <1>4, <2>1 DEF Agree
    <3>. QED  BY <1>2, <1>4, <2>1, <3>1
  <2>3. ~Judges(Top')
    BY <1>3 DEF Agree
  <2>4. taken' => \E k \in 1 .. n + 1 : Takes(stack'[k])
    <3>1. taken => Takes(Top) \/ \E k \in 1 .. n - 1 : Takes(stack[k])
      BY <1>1, <1>7 DEF Seen, TakenBelow, Below
    <3>2. Takes(Top) => Takes(f)
      BY DEF Agree
    <3>. QED  BY <1>2, <1>4, <3>1, <3>2
  <2>. QED  BY <1>2, <2>2, <2>3, <2>4 DEF Accounted
<1>. QED  BY <1>2, <1>8, <1>9, <1>10, <1>11 DEF Ordered

(* CallFunction *)
LEMMA CallFunctionKeeps == ASSUME IInv, CallFunction PROVE stack' \in Seq(Frames) /\ Ordered'
<1>1. Doing("call")
  BY DEF CallFunction
<1>2. ~Idle /\ Now.op = "call" /\ Seen /\ Top \in Frames /\ FrameOK(Top) /\ Top.at \in Nat
      /\ Place(Top.fn, Top.at, Now)
  BY <1>1, Running
<1>3. CallPlace(Top, Now)
  BY <1>2, OpPlaces
<1>4. PICK a \in Nat : a = Top.at + 1
  BY <1>2
<1>5. PICK f : f = [Top EXCEPT !.at = a]
  OBVIOUS
<1>6. GoneOn(Top, f, a)
  BY <1>2, <1>5, GoingOn
<1>7. f \in Frames /\ f.fn = Top.fn /\ f.at = a /\ f.file = Top.file
  BY <1>6 DEF GoneOn
<1>8. PICK g : g = Frame(Now.fn)
  OBVIOUS
<1>9. /\ stack' = Append(SetTop(f), g) /\ mounted' = mounted
      /\ medium_available' = medium_available /\ taken' = taken /\ faults' = faults
  BY <1>4, <1>5, <1>8 DEF CallFunction, plug, firmware
<1>10. Now.fn \in Files \cup {"debug_msc_mount", "debug_msc_unmount"}
  BY <1>3 DEF CallPlace
<1>11. g \in Frames /\ g.fn = Now.fn /\ g.at = 1 /\ g.file = "none" /\ FrameOK(g) /\ ~Judges(g)
  BY <1>8, <1>10, Names, Starting
<1>12. g.fn # "main" /\ g.fn \notin Outside
  BY <1>10, <1>11, Names DEF Outside, Files
<1>13. PICK u, l : /\ u = Unmounting[Top.fn] /\ l = Len(Program(Top.fn))
                   /\ \/ Top.fn = "main" /\ u = 15 /\ l = 17
                      \/ Top.fn \in {"stats", "data"} /\ u = 14 /\ l = u + 5
  <2>1. CASE Top.fn = "main"
    <3>1. Unmounting[Top.fn] = 15 /\ Len(Program(Top.fn)) = 17
      BY <2>1, Lengths
    <3>. QED  BY <2>1, <3>1
  <2>2. CASE Top.fn \in {"stats", "data"}
    <3>1. Unmounting[Top.fn] = 14 /\ Len(Program(Top.fn)) = Unmounting[Top.fn] + 5
      BY <2>2, Lengths
    <3>. QED  BY <2>2, <3>1
  <2>. QED  BY <1>3, <2>1, <2>2 DEF CallPlace
<1>14. Top.fn \in Callers /\ Top.fn # "debug_msc_mount"
  BY <1>13 DEF Callers
<1>15. /\ u \in {14, 15} /\ u = Unmounting[f.fn] /\ u + 1 <= l /\ l \in Nat
  <2>1. (u = 15 /\ l = 17) \/ (u = 14 /\ l = u + 5)
    BY <1>13
  <2>2. u \in {14, 15} /\ u + 1 <= l /\ l \in Nat
    BY <2>1
  <2>3. u = Unmounting[f.fn]
    BY <1>7, <1>13
  <2>. QED  BY <2>2, <2>3
<1>16. \/ Top.at = 4 /\ g.fn = "debug_msc_mount"
       \/ Top.at = u /\ g.fn = "debug_msc_unmount"
       \/ Top.at \in 9 .. u - 1 /\ g.fn \in Files /\ Top.fn \in {"stats", "data"}
  BY <1>3, <1>11, <1>13 DEF CallPlace
<1>17. FrameOK(f)
  <2>1. Top.at <= a /\ Top.at <= u
    BY <1>4, <1>15, <1>16
  <2>2. a <= u + 1
    BY <1>2, <1>4, <1>15, <2>1
  <2>4. u \in Nat /\ l \in Nat /\ u + 1 <= l
    BY <1>15
  <2>5. a <= l + 1
    BY <2>2, <2>4
  <2>3. a <= Len(Program(Top.fn)) + 1
    BY <1>13, <2>5
  <2>. QED  BY <1>2, <1>6, <1>14, <2>1, <2>3, StaysOK
<1>18. Alone' => Alone
  BY <1>9 DEF Alone
<1>19. f.file = Top.file /\ f.at >= Top.at /\ ~Failed(g) /\ (Failed(f) => Failed(Top))
  BY <1>2, <1>4, <1>7, <1>11, <1>14 DEF Failed
<1>20. CASE Top.at = 4 /\ g.fn = "debug_msc_mount"
  <2>1. f.at = 5
    BY <1>4, <1>7, <1>20
  <2>2. Above(f, g)
    BY <1>7, <1>14, <1>20, <2>1 DEF Above
  <2>3. ~Needs(f) /\ ~Needs(g) /\ Mounts(Top) /\ ~Keeps(Top) /\ ~Judges(Top)
    BY <1>7, <1>11, <1>13, <1>14, <1>15, <1>20, <2>1 DEF Needs, Keeps, Mounts, Judges, Callers, Files
  <2>4. Takes(Top) => Takes(f)
    BY <1>7, <2>1 DEF Takes
  <2>5. Agree(f, g)
    BY <1>2, <1>7, <1>9, <1>11, <1>12, <1>17, <1>18, <1>19, <2>2, <2>3, <2>4, Names
       DEF Agree, Seen, Outside
  <2>. QED  BY <1>2, <1>9, <2>5, Called
<1>21. CASE Top.at = u /\ g.fn = "debug_msc_unmount"
  <2>1. f.at = u + 1
    BY <1>4, <1>7, <1>21
  <2>2. Above(f, g)
    BY <1>7, <1>14, <1>15, <1>21, <2>1 DEF Above
  <2>3. ~Mounts(g) /\ Keeps(Top) /\ Keeps(g) /\ ~Judges(Top)
    <3>1. Top.at \in 8 .. u /\ Top.at # 5
      BY <1>15, <1>21
    <3>. QED  BY <1>11, <1>13, <1>14, <1>21, <3>1 DEF Keeps, Mounts, Judges, Callers
  <2>4. Needs(Top)
    BY <2>3 DEF Needs
  <2>5. Takes(Top) => Takes(f)
    <3>1. f.at \in {4, 5} \cup 8 .. u + 4
      BY <1>15, <2>1
    <3>. QED  BY <1>7, <1>15, <3>1 DEF Takes
  <2>6. Agree(f, g)
    BY <1>2, <1>7, <1>9, <1>11, <1>12, <1>17, <1>18, <1>19, <2>2, <2>3, <2>4, <2>5, Names
       DEF Agree, Seen, Outside
  <2>. QED  BY <1>2, <1>9, <2>6, Called
<1>22. CASE Top.at \in 9 .. u - 1 /\ g.fn \in Files /\ Top.fn \in {"stats", "data"}
  <2>1. f.at \in 9 .. u /\ f.at \in 8 .. u /\ Top.at \in 8 .. u /\ f.at \in {4, 5} \cup 8 .. u + 4
        /\ Top.at # 5
    BY <1>4, <1>7, <1>15, <1>22
  <2>2. Above(f, g)
    BY <1>7, <1>15, <1>22, <2>1 DEF Above
  <2>3. ~Mounts(g) /\ Keeps(Top) /\ Keeps(f) /\ ~Judges(Top)
    BY <1>7, <1>11, <1>13, <1>14, <1>15, <1>22, <2>1 DEF Keeps, Mounts, Judges, Callers, Files
  <2>4. Needs(Top)
    BY <2>3 DEF Needs
  <2>5. Takes(Top) => Takes(f)
    BY <1>7, <1>15, <2>1 DEF Takes
  <2>6. Agree(f, g)
    BY <1>2, <1>7, <1>9, <1>11, <1>12, <1>17, <1>18, <1>19, <2>2, <2>3, <2>4, <2>5, Names
       DEF Agree, Seen, Outside
  <2>. QED  BY <1>2, <1>9, <2>6, Called
<1>. QED  BY <1>16, <1>20, <1>21, <1>22

(* The main loop has nothing to lose. *)
LEMMA IdleFacts ==
  ASSUME IInv, Idle
  PROVE  /\ ~(mounted /\ "unmount failed" \notin faults)
         /\ taken => "mount failed" \in faults
<1>1. Len(stack) = 0
  BY DEF Idle
<1>2. \A k \in 1 .. Len(stack) : FALSE
  BY <1>1
<1>. QED  BY <1>2 DEF IInv, Ordered, Held, Accounted

(* What runs in the main loop is alone on the stack. *)
LEMMA FirstKeeps ==
  ASSUME IInv, Idle, NEW fn \in Outside, stack' = <<Frame(fn)>>,
         mounted' = mounted, medium_available' = medium_available, taken' = taken,
         faults \subseteq faults'
  PROVE  stack' \in Seq(Frames) /\ Ordered'
<1>1. PICK g : g = Frame(fn)
  OBVIOUS
<1>2. g \in Frames /\ g.fn = fn /\ g.at = 1 /\ g.file = "none" /\ FrameOK(g) /\ ~Judges(g)
  BY <1>1, Starting DEF Outside
<1>3. g.fn \in {"stats", "data", "mount", "prevent", "eject", "allow"}
  BY <1>2, Names DEF Outside
<1>4. stack' \in Seq(Frames) /\ Len(stack') = 1 /\ stack'[1] = g
  BY <1>1, <1>2
<1>5. ~Idle' /\ Top' = g /\ \A k \in 1 .. 1 : k = 1
  BY <1>4 DEF Idle, Top, Last
<1>6. ~Booting'
  BY <1>3, <1>4 DEF Booting
<1>7. Shape'
  <2>1. \A k \in 2 .. 1 : FALSE
    OBVIOUS
  <2>2. \A k \in 1 .. 1 : FrameOK(stack'[k])
    BY <1>2, <1>4, <1>5
  <2>3. stack'[1].fn \in Outside \cup {"main"}
    BY <1>2, <1>4
  <2>. QED  BY <1>4, <1>6, <2>1, <2>2, <2>3 DEF Shape
<1>8. ~Needs(g) /\ ~Mounts(g) /\ ~Failed(g)
  <2>1. CASE g.fn \in {"stats", "data"}
    <3>1. PICK u : u = Unmounting[g.fn] /\ u = 14
      BY <2>1, Lengths
    <3>2. ~(g.at \in 8 .. u)
      BY <1>2, <3>1
    <3>. QED  BY <1>2, <2>1, <3>1, <3>2 DEF Needs, Keeps, Mounts, Failed, Callers, Files
  <2>2. CASE g.fn \in {"mount", "prevent", "eject", "allow"}
    BY <2>2 DEF Needs, Keeps, Mounts, Failed, Callers, Files
  <2>. QED  BY <1>3, <2>1, <2>2
<1>9. Owned'
  <2>1. \A j, k \in 1 .. 1 : ~(j < k)
    OBVIOUS
  <2>2. g.file # "dead"
    BY <1>2
  <2>3. \A k \in 1 .. 1 : ~Needs(stack'[k]) /\ stack'[k].file # "dead"
    BY <1>4, <1>5, <1>8, <2>2
  <2>. QED  BY <1>2, <1>4, <1>5, <2>1, <2>3 DEF Owned
<1>10. Held'
  <2>1. ~(mounted' /\ "unmount failed" \notin faults')
    BY IdleFacts
  <2>. QED  BY <1>5, <1>8, <2>1 DEF Held
<1>11. Accounted'
  <2>1. taken' => "mount failed" \in faults'
    BY IdleFacts
  <2>2. \A k \in 1 .. 1 : ~Failed(stack'[k])
    BY <1>4, <1>5, <1>8
  <2>. QED  BY <1>2, <1>4, <1>5, <2>1, <2>2 DEF Accounted
<1>. QED  BY <1>4, <1>7, <1>9, <1>10, <1>11 DEF Ordered

\* A command that finds the file system mounted is a fault.
FaultOf(fn) == fn \in Command /\ ~Idle /\ mounted => "command nested" \in faults'

(* A command or a callback runs in an output, in which nobody is about to   *)
(* mount.                                                                   *)
LEMMA PushKeeps ==
  ASSUME IInv, NEW fn \in Outside, Connected, MayPush, Push(fn),
         mounted' = mounted, medium_available' = medium_available, taken' = taken,
         faults \subseteq faults', FaultOf(fn)
  PROVE  stack' \in Seq(Frames) /\ Ordered'
<1>1. CASE Idle
  <2>1. stack' = <<Frame(fn)>>
    BY <1>1 DEF Push
  <2>. QED  BY <1>1, <2>1, FirstKeeps
<1>2. CASE ~Idle
  <2>1. Doing("say")
    BY <1>2 DEF MayPush
  <2>2. Now.op = "say" /\ Seen /\ Top \in Frames /\ FrameOK(Top) /\ Top.at \in Nat
        /\ Place(Top.fn, Top.at, Now)
    BY <2>1, Running
  <2>3. SayPlace(Top)
    BY <2>2, OpPlaces
  <2>4. ~Booting
    <3>1. PICK n \in Nat : n = Len(stack) /\ n # 0
      BY <1>2 DEF IInv, Typed, Idle
    <3>2. DOMAIN stack = 1 .. n /\ 1 \in 1 .. n
      BY <3>1 DEF IInv, Typed
    <3>3. stack[1].fn \notin {"main"}
      BY <3>2 DEF Connected, UnderWay
    <3>. QED  BY <3>3 DEF Booting
  <2>5. Top.fn # "main"
    BY <2>2, <2>4 DEF Seen
  <2>6. ~Judges(Top) /\ ~Mounts(Top)
    <3>1. CASE Top.fn \in {"stats", "data"}
      <4>1. PICK u : u = Unmounting[Top.fn] /\ u = 14
        BY <3>1, Lengths
      <4>2. Top.at \in {2, 6, 8, u + 2, u + 3, u + 5}
        BY <2>3, <3>1, <4>1 DEF SayPlace, Files
      <4>3. PICK a \in Nat : a = Top.at
        BY <2>2
      <4>4. a \in {2, 6, 8, u + 2, u + 3, u + 5}
        BY <4>2, <4>3
      <4>5. a # 5 /\ a # 4
        <5>1. u = 14
          BY <4>1
        <5>. QED  BY <4>4, <5>1
      <4>. QED  BY <3>1, <4>3, <4>5 DEF Judges, Mounts
    <3>2. CASE Top.fn = "debug_msc_mount"
      <4>1. Top.at \in {2, 5}
        BY <2>3, <3>2 DEF SayPlace, Files
      <4>2. ~Judges(Top)
        BY <3>2 DEF Judges, Callers
      <4>3. Top.at \notin {1, 4}
        BY <4>1
      <4>4. ~Mounts(Top)
        BY <3>2, <4>3 DEF Mounts, Callers
      <4>. QED  BY <4>2, <4>4
    <3>3. CASE Top.fn \notin {"stats", "data", "main", "debug_msc_mount"}
      BY <3>3 DEF Judges, Mounts, Callers
    <3>. QED  BY <2>5, <3>1, <3>2, <3>3
  <2>7. PICK f : f = [Top EXCEPT !.heard = TRUE]
    OBVIOUS
  <2>8. f \in Frames /\ f.fn = Top.fn /\ f.at = Top.at /\ f.file = Top.file
    <3>1. \A h \in Frames : LET e == [h EXCEPT !.heard = TRUE]
                            IN  e \in Frames /\ e.fn = h.fn /\ e.at = h.at /\ e.file = h.file
      BY DEF Frames
    <3>. QED  BY <2>2, <2>7, <3>1
  <2>9. /\ FrameOK(f) /\ ~Judges(f) /\ ~Mounts(f) /\ (Needs(f) <=> Needs(Top))
        /\ (Keeps(f) <=> Keeps(Top)) /\ (Failed(f) <=> Failed(Top)) /\ (Takes(f) <=> Takes(Top))
    BY <2>2, <2>6, <2>8 DEF FrameOK, Judges, Mounts, Needs, Keeps, Failed, Takes
  <2>10. PICK g : g = Frame(fn)
    OBVIOUS
  <2>11. g \in Frames /\ g.fn = fn /\ g.at = 1 /\ g.file = "none" /\ FrameOK(g) /\ ~Judges(g)
    BY <2>10, Starting DEF Outside
  <2>12. ~Needs(g) /\ ~Mounts(g) /\ ~Failed(g) /\ ~Keeps(g) /\ g.fn # "main"
    <3>1. g.fn \in {"stats", "data", "mount", "prevent", "eject", "allow"}
      BY <2>11, Names, Zenon DEF Outside
    <3>2. CASE g.fn \in {"stats", "data"}
      <4>1. PICK u : u = Unmounting[g.fn] /\ u = 14
        BY <3>2, Lengths
      <4>2. g.at = 1
        BY <2>11, Zenon
      <4>3. ~(g.at \in 8 .. u)
        BY <4>1, <4>2
      <4>. QED  BY <3>2, <4>1, <4>2, <4>3 DEF Needs, Keeps, Mounts, Failed, Callers, Files
    <3>3. CASE g.fn \in {"mount", "prevent", "eject", "allow"}
      BY <3>3 DEF Needs, Keeps, Mounts, Failed, Callers, Files
    <3>. QED  BY <3>1, <3>2, <3>3
  <2>13. Above(f, g)
    BY <2>5, <2>8, <2>9, <2>11 DEF Above
  <2>14. Alone' => Alone
    BY DEF Alone
  <2>15. Alone' /\ g.fn \in Command => ~Needs(f) /\ ~NeededBelow
    <3>1. Alone' /\ g.fn \in Command => Alone /\ ~mounted
      BY <1>2, <2>11, <2>14 DEF Alone, FaultOf
    <3>. QED  BY <2>2, <2>9, <3>1 DEF Seen
  <2>16. f.at >= Top.at
    <3>1. f.at = Top.at /\ Top.at \in Nat
      BY <2>2, <2>8, Zenon
    <3>. QED  BY <3>1
  <2>17. Alone' /\ (Needs(f) \/ Needs(g)) => mounted' /\ ~medium_available'
    BY <2>2, <2>9, <2>12, <2>14 DEF Seen
  <2>18. mounted' /\ "unmount failed" \notin faults' => Keeps(f) \/ Keeps(g) \/ KeptBelow
    BY <2>2, <2>6, <2>9 DEF Seen
  <2>19. Agree(f, g)
    BY <2>4, <2>8, <2>9, <2>11, <2>12, <2>13, <2>15, <2>16, <2>17, <2>18 DEF Agree
  <2>20. stack' = Append(SetTop(f), g)
    BY <1>2, <2>7, <2>10 DEF Push
  <2>. QED  BY <1>2, <2>19, <2>20, Called
<1>. QED  BY <1>1, <1>2

(* ScsiWithOutput, RunCommand *)
LEMMA OutsideKeeps ==
  ASSUME IInv, \/ \E fn \in ScsiCommand : ScsiWithOutput(fn)
               \/ \E cmd \in Command : RunCommand(cmd)
  PROVE  stack' \in Seq(Frames) /\ Ordered'
<1>1. ASSUME NEW fn \in ScsiCommand, ScsiWithOutput(fn)
      PROVE  stack' \in Seq(Frames) /\ Ordered'
  <2>1. fn \in Outside /\ fn \notin Command
    BY Names DEF Outside
  <2>2. /\ Connected /\ MayPush /\ Push(fn) /\ mounted' = mounted /\ taken' = taken
        /\ medium_available' = medium_available /\ faults' = faults
    BY <1>1 DEF ScsiWithOutput, Serving, plug, firmware
  <2>3. faults \subseteq faults' /\ FaultOf(fn)
    BY <2>1, <2>2 DEF FaultOf
  <2>. QED  BY <2>1, <2>2, <2>3, PushKeeps
<1>2. ASSUME NEW cmd \in Command, RunCommand(cmd)
      PROVE  stack' \in Seq(Frames) /\ Ordered'
  <2>1. cmd \in Outside
    BY DEF Outside
  <2>2. /\ Connected /\ MayPush /\ Push(cmd) /\ mounted' = mounted /\ taken' = taken
        /\ medium_available' = medium_available
    BY <1>2 DEF RunCommand, plug, firmware
  <2>3. faults \subseteq faults' /\ FaultOf(cmd)
    BY <1>2 DEF RunCommand, Happens, FaultOf
  <2>. QED  BY <2>1, <2>2, <2>3, PushKeeps
<1>. QED  BY <1>1, <1>2

\* Or to a, while the file system is taken away.
Orphaned(f, g, a) ==
  /\ g \in Frames /\ g.fn = f.fn /\ g.at = a
  /\ g.file = "dead" => f.file # "none"
  /\ g.file # "none" => f.file # "none"

(* That leaves the rest alone, too. *)
LEMMA Orphaning ==
  ASSUME NEW f \in Frames, NEW a \in Nat
  PROVE  Orphaned(f, [f EXCEPT !.file = IF @ = "open" THEN "dead" ELSE @, !.at = a], a)
BY DEF Orphaned, Frames

(* FUnmount: only main may still have its file open, and is done with it. *)
LEMMA FUnmountKeeps == ASSUME IInv, FUnmount PROVE stack' \in Seq(Frames) /\ Ordered'
<1>1. Doing("fs") /\ Now.do = "unmount"
  BY DEF FUnmount, DoingFs
<1>2. ~Idle /\ Now.op = "fs" /\ Seen /\ Top \in Frames /\ FrameOK(Top) /\ Top.at \in Nat
      /\ Place(Top.fn, Top.at, Now)
  BY <1>1, Running
<1>3. Top.fn = "debug_msc_unmount" /\ Top.at = 4 /\ Now.skip = 2
  <2>1. FsPlace(Top, Now)
    BY <1>2, OpPlaces
  <2>. QED  BY <1>1, <2>1 DEF FsPlace, FsAt
<1>4. PICK n \in Nat : n = Len(stack) /\ n # 0
  BY <1>2 DEF IInv, Typed, Idle
<1>5. /\ stack \in Seq(Frames) /\ DOMAIN stack = 1 .. n /\ Top = stack[n]
      /\ \A k \in 1 .. n : stack[k] \in Frames /\ stack[k].at \in Nat
  <2>1. stack \in Seq(Frames) /\ DOMAIN stack = 1 .. n /\ Top = stack[n]
    BY <1>4 DEF IInv, Typed, Top, Last
  <2>2. \A k \in 1 .. n : stack[k] \in Frames
    BY <1>4, <2>1
  <2>3. \A f \in Frames : f.at \in Nat
    BY DEF Frames
  <2>. QED  BY <2>1, <2>2, <2>3
<1>6. /\ \A k \in 1 .. n : k = n \/ k \in 1 .. n - 1
      /\ \A k \in 1 .. n - 1 : k \in 1 .. n /\ k < n /\ k # n
      /\ n \in 1 .. n /\ 1 \in 1 .. n
      /\ \A k \in 2 .. n : k \in 1 .. n /\ k - 1 \in 1 .. n - 1
  BY <1>4
<1>7. PICK At : At = [k \in 1 .. n |-> IF k = n THEN 7 ELSE stack[k].at]
  OBVIOUS
<1>8. stack' = [k \in 1 .. n |->
                  [stack[k] EXCEPT !.file = IF @ = "open" THEN "dead" ELSE @, !.at = At[k]]]
  <2>1. stack' = [k \in DOMAIN stack |->
                 [stack[k] EXCEPT !.file = IF @ = "open" THEN "dead" ELSE @,
                                  !.at = IF k = Len(stack) THEN @ + Now.skip + 1 ELSE @]]
    BY DEF FUnmount
  <2>2. stack[n].at + Now.skip + 1 = 7
    BY <1>3, <1>5
  <2>. QED  BY <1>4, <1>5, <1>7, <2>1, <2>2
<1>9. \A k \in 1 .. n : Orphaned(stack[k], stack'[k], At[k])
  <2>. SUFFICES ASSUME NEW k \in 1 .. n
                PROVE  Orphaned(stack[k], stack'[k], At[k])
    OBVIOUS
  <2>1. PICK f \in Frames, a \in Nat : f = stack[k] /\ a = At[k]
    BY <1>5, <1>7
  <2>2. stack'[k] = [f EXCEPT !.file = IF @ = "open" THEN "dead" ELSE @, !.at = a]
    BY <1>8, <2>1
  <2>3. Orphaned(f, stack'[k], a)
    BY <2>2, Orphaning
  <2>. QED  BY <2>1, <2>3
<1>10. stack' \in Seq(Frames) /\ Len(stack') = n
  <2>1. \A k \in 1 .. n : stack'[k] \in Frames
    BY <1>9 DEF Orphaned
  <2>2. stack' \in [1 .. n -> Frames]
    BY <1>8, <2>1
  <2>. QED  BY <1>4, <2>2
<1>11. /\ \A k \in 1 .. n : stack'[k].fn = stack[k].fn
       /\ \A k \in 1 .. n - 1 : stack'[k].at = stack[k].at
       /\ stack'[n].at = 7
  BY <1>6, <1>7, <1>9 DEF Orphaned
<1>12. Shape /\ (Alone => Owned) /\ Held /\ Accounted /\ Top' = stack'[n] /\ ~Idle'
  BY <1>4, <1>10 DEF IInv, Ordered, Top, Last, Idle
<1>13. /\ mounted' = FALSE /\ medium_available' = medium_available /\ taken' = taken
       /\ faults' = faults
  BY DEF FUnmount, plug
<1>14. stack'[n].fn = "debug_msc_unmount" /\ stack[n].fn = "debug_msc_unmount" /\ stack[n].at = 4
  BY <1>3, <1>5, <1>6, <1>11
<1>15. ~Needs(stack'[n]) /\ ~Judges(stack'[n]) /\ ~Mounts(stack'[n]) /\ ~Takes(stack[n])
       /\ ~Failed(stack'[n])
  BY <1>11, <1>14 DEF Needs, Keeps, Judges, Mounts, Takes, Failed, Callers, Files
<1>16. \A k \in 1 .. n - 1 : /\ Needs(stack'[k]) <=> Needs(stack[k])
                             /\ Takes(stack'[k]) <=> Takes(stack[k])
                             /\ Failed(stack'[k]) <=> Failed(stack[k])
  BY <1>6, <1>11 DEF Needs, Keeps, Takes, Failed
<1>17. Booting' <=> Booting
  BY <1>2, <1>6, <1>11, <1>12 DEF Booting
<1>18. Shape'
  <2>1. ASSUME NEW k \in 1 .. n PROVE FrameOK(stack'[k])
    <3>1. FrameOK(stack[k])
      BY <1>4, <1>12 DEF Shape
    <3>2. PICK f, g : f = stack[k] /\ g = stack'[k]
      OBVIOUS
    <3>3. CASE k = n
      <4>1. g.file = "none"
        BY <1>3, <1>5, <1>9, <1>14, <3>1, <3>2, <3>3 DEF FrameOK, Orphaned, Files
      <4>2. Len(Program(g.fn)) = 7 /\ g.at = 7 /\ g.fn # "debug_msc_mount"
        BY <1>11, <1>14, <3>2, <3>3, Lengths
      <4>3. g.at \in 1 .. Len(Program(g.fn)) + 1
        BY <4>2
      <4>. QED  BY <3>2, <4>1, <4>2, <4>3 DEF FrameOK
    <3>4. CASE k \in 1 .. n - 1
      <4>1. g.fn = f.fn /\ g.at = f.at /\ (g.file # "none" => f.file # "none")
        BY <1>9, <1>11, <3>2, <3>4 DEF Orphaned
      <4>. QED  BY <3>1, <3>2, <4>1 DEF FrameOK
    <3>. QED  BY <1>6, <3>3, <3>4
  <2>2. stack'[1].fn \in Outside \cup {"main"}
    BY <1>2, <1>6, <1>11, <1>12 DEF Shape
  <2>3. ASSUME NEW k \in 2 .. n
        PROVE  Above(stack'[k - 1], stack'[k]) /\ stack'[k].fn # "main"
    <3>1. Above(stack[k - 1], stack[k]) /\ stack[k].fn # "main"
      BY <1>4, <1>12 DEF Shape
    <3>2. k \in 1 .. n /\ k - 1 \in 1 .. n - 1 /\ k - 1 \in 1 .. n
      BY <1>6
    <3>3. stack'[k].fn = stack[k].fn /\ stack'[k - 1].fn = stack[k - 1].fn
          /\ stack'[k - 1].at = stack[k - 1].at
      BY <1>11, <3>2
    <3>. QED  BY <3>1, <3>3 DEF Above, Judges, Mounts
  <2>4. \A k \in 1 .. n : stack'[k].fn \in Outside => ~Booting'
    BY <1>4, <1>11, <1>12, <1>17 DEF Shape
  <2>5. Booting' => ~medium_available'
    BY <1>12, <1>13, <1>17 DEF Shape
  <2>. QED  BY <1>10, <2>1, <2>2, <2>3, <2>4, <2>5 DEF Shape
<1>19. Alone' => Owned'
  <2>. SUFFICES ASSUME Alone' PROVE Owned'
    OBVIOUS
  <2>1. Alone /\ Owned
    BY <1>12, <1>13 DEF Alone
  <2>2. \A k \in 1 .. n - 1 : ~Needs(stack[k])
    <3>1. ~NeededBelow
      BY <1>2, <1>3, <2>1, NoneBelow
    <3>. QED  BY <1>4, <3>1 DEF NeededBelow, Below
  <2>3. \A k \in 1 .. n : ~Needs(stack'[k])
    BY <1>6, <1>15, <1>16, <2>2
  <2>4. ASSUME NEW k \in 1 .. n, stack'[k].file = "dead"
        PROVE  stack'[k].fn = "main" /\ stack'[k].at >= 16
    <3>1. PICK f : f = stack[k] /\ FrameOK(f) /\ f.at \in Nat
      BY <1>4, <1>5, <1>12 DEF Shape
    <3>2. f.file # "none"
      BY <1>9, <2>4, <3>1 DEF Orphaned
    <3>3. k \in 1 .. n - 1
      <4>1. stack[n].file = "none"
        <5>1. FrameOK(stack[n])
          BY <1>2, <1>5
        <5>. QED  BY <1>14, <5>1 DEF FrameOK, Files
      <4>. QED  BY <1>6, <3>1, <3>2, <4>1
    <3>4. f.fn = "main" /\ f.at >= 11
      <4>1. f.fn \notin Files
        BY <2>2, <3>1, <3>3 DEF Needs
      <4>. QED  BY <3>1, <3>2, <4>1 DEF FrameOK
    <3>5. k + 1 \in 2 .. n /\ k + 1 - 1 = k
      BY <1>4, <3>3
    <3>6. Above(f, stack[k + 1])
      <4>1. Above(stack[k + 1 - 1], stack[k + 1])
        BY <1>4, <1>12, <3>5 DEF Shape
      <4>. QED  BY <3>1, <3>5, <4>1
    <3>7. f.at = 5 \/ f.at = Unmounting["main"] + 1
      BY <3>4, <3>6 DEF Above
    <3>8. Unmounting["main"] = 15
      BY Lengths
    <3>9. f.at >= 16
      BY <3>1, <3>4, <3>7, <3>8
    <3>. QED  BY <1>6, <1>11, <3>1, <3>3, <3>4, <3>9
  <2>. QED  BY <1>10, <1>12, <1>15, <2>3, <2>4 DEF Owned
<1>20. Held'
  BY <1>12, <1>13, <1>15 DEF Held
<1>21. Accounted'
  <2>. SUFFICES ASSUME "mount failed" \notin faults' PROVE Accounted'
    BY DEF Accounted
  <2>1. (\A k \in 1 .. n : ~Failed(stack[k])) /\ (taken => \E k \in 1 .. n : Takes(stack[k]))
    BY <1>4, <1>12, <1>13 DEF Accounted
  <2>2. \A k \in 1 .. n : ~Failed(stack'[k])
    BY <1>6, <1>15, <1>16, <2>1
  <2>3. taken' => \E k \in 1 .. n : Takes(stack'[k])
    BY <1>6, <1>13, <1>15, <1>16, <2>1
  <2>. QED  BY <1>10, <1>12, <1>15, <2>2, <2>3 DEF Accounted
<1>. QED  BY <1>10, <1>18, <1>19, <1>20, <1>21 DEF Ordered

(* TestUnitReady, Read10, Write10 and a stutter: the stack stays as it is. *)
LEMMA StandsStill ==
  ASSUME IInv, stack' = stack, mounted' = mounted, medium_available' = medium_available,
         result' = result, taken' = taken, faults \subseteq faults'
  PROVE  stack' \in Seq(Frames) /\ Ordered'
<1>1. stack \in Seq(Frames) /\ Shape /\ (Alone => Owned) /\ Held /\ Accounted
  BY DEF IInv, Typed, Ordered
<1>2. (Top' = Top) /\ (Idle' <=> Idle) /\ (Booting' <=> Booting) /\ (Alone' => Alone)
  BY DEF Top, Idle, Booting, Alone
<1>3. Shape'
  BY <1>1, <1>2 DEF Shape
<1>4. Owned => Owned'
  BY <1>2 DEF Owned
<1>5. Held'
  BY <1>1, <1>2 DEF Held
<1>6. Accounted'
  BY <1>1, <1>2 DEF Accounted
<1>. QED  BY <1>1, <1>2, <1>3, <1>4, <1>5, <1>6 DEF Ordered

(* Boot: main is alone, and nothing is mounted or known of the disk. *)
LEMMA Boots == Init => IInv
<1>. SUFFICES ASSUME Init PROVE IInv
  OBVIOUS
<1>1. PICK g : g = Frame("main")
  OBVIOUS
<1>2. g \in Frames /\ g.fn = "main" /\ g.at = 1 /\ g.file = "none" /\ FrameOK(g) /\ ~Judges(g)
  BY <1>1, Starting, Names
<1>3. stack \in Seq(Frames) /\ Len(stack) = 1 /\ stack[1] = g
  BY <1>1, <1>2 DEF Init
<1>4. ~Idle /\ Top = g /\ \A k \in 1 .. 1 : k = 1
  BY <1>3 DEF Idle, Top, Last
<1>5. ~mounted /\ ~medium_available /\ ~taken
  BY DEF Init
<1>6. Typed
  BY <1>3 DEF Typed, Init
<1>7. Shape
  <2>1. \A k \in 2 .. 1 : FALSE
    OBVIOUS
  <2>2. g.fn \notin Outside
    BY <1>2, Names DEF Outside
  <2>3. \A k \in 1 .. 1 : FrameOK(stack[k]) /\ stack[k].fn \notin Outside
    BY <1>2, <1>3, <1>4, <2>2
  <2>. QED  BY <1>2, <1>3, <1>5, <2>1, <2>3 DEF Shape
<1>8. ~Needs(g) /\ ~Failed(g)
  <2>1. Unmounting[g.fn] = 15
    BY <1>2, Lengths
  <2>. QED  BY <1>2, <2>1 DEF Needs, Keeps, Failed, Files
<1>9. Owned
  <2>1. \A j, k \in 1 .. 1 : ~(j < k)
    OBVIOUS
  <2>2. g.file # "dead"
    BY <1>2
  <2>3. \A k \in 1 .. 1 : ~Needs(stack[k]) /\ stack[k].file # "dead"
    BY <1>3, <1>4, <1>8, <2>2
  <2>. QED  BY <1>2, <1>3, <1>4, <2>1, <2>3 DEF Owned
<1>10. Held
  BY <1>5 DEF Held
<1>11. Accounted
  <2>1. \A k \in 1 .. 1 : ~Failed(stack[k])
    BY <1>3, <1>4, <1>8
  <2>. QED  BY <1>2, <1>3, <1>4, <1>5, <2>1 DEF Accounted
<1>12. Cached
  BY DEF Cached, HostUpToDate, FirmwareUpToDate, Init
<1>. QED  BY <1>6, <1>7, <1>9, <1>10, <1>11, <1>12 DEF IInv, Ordered

(* Every step leaves the stack in order. *)
LEMMA OrderedKeeps == ASSUME IInv, [Next]_vars PROVE stack' \in Seq(Frames) /\ Ordered'
<1>1. CASE Execute
  <2>1. CASE Said
    BY <2>1, SaidKeeps
  <2>2. CASE Branch
    BY <2>2, BranchKeeps
  <2>3. CASE CallFunction
    BY <2>3, CallFunctionKeeps
  <2>4. CASE ReturnFrom
    BY <2>4, ReturnFromKeeps
  <2>5. CASE PlugMedium
    BY <2>5, PlugMediumKeeps
  <2>6. CASE ReadState
    BY <2>6, ReadStateKeeps
  <2>7. CASE Fails
    BY <2>7, FailsKeeps
  <2>8. CASE NotMounted
    BY <2>8, NotMountedKeeps
  <2>9. CASE FMkfs
    BY <2>9, FMkfsKeeps
  <2>10. CASE FMount
    BY <2>10, FMountKeeps
  <2>11. CASE FUnmount
    BY <2>11, FUnmountKeeps
  <2>12. CASE FOpen
    BY <2>12, FOpenKeeps
  <2>13. CASE FWriteOrClose
    BY <2>13, FWriteOrCloseKeeps
  <2>14. CASE CompareLine
    BY <2>14, CompareLineKeeps
  <2>. QED  BY <1>1, <2>1, <2>2, <2>3, <2>4, <2>5, <2>6, <2>7, <2>8, <2>9, <2>10, <2>11,
                <2>12, <2>13, <2>14 DEF Execute
<1>2. CASE BallMoves
  BY <1>2, BallMovesKeeps
<1>3. CASE Reset
  <2>1. Init'
    BY <1>3 DEF Reset, Restart, Init
  <2>2. IInv'
    BY <2>1, Boots, PTL
  <2>. QED  BY <2>2 DEF IInv, Typed
<1>4. CASE TestUnitReady
  BY <1>4, StandsStill DEF TestUnitReady, plug, firmware
<1>5. CASE Read10
  BY <1>5, StandsStill DEF Read10, plug, firmware
<1>6. CASE Write10
  BY <1>6, StandsStill DEF Write10, Happens, plug
<1>7. CASE \E fn \in ScsiCommand : ScsiWithOutput(fn)
  BY <1>7, OutsideKeeps
<1>8. CASE \E cmd \in Command : RunCommand(cmd)
  BY <1>8, OutsideKeeps
<1>9. CASE UNCHANGED vars
  BY <1>9, StandsStill DEF vars
<1>. QED  BY <1>1, <1>2, <1>3, <1>4, <1>5, <1>6, <1>7, <1>8, <1>9 DEF Next

(* A function returns true or false, and plugs the medium in or out. *)
LEMMA Outcomes ==
  ASSUME NEW f, NEW o, Place(f.fn, f.at, o)
  PROVE  (o.op = "return" => o.ok \in BOOLEAN) /\ (o.op = "plug" => o.in \in BOOLEAN)
<1>1. o.op = "return" => o.ok \in BOOLEAN
  BY DEF Place, InMain, InHandOver, InToggle, InScsi, InMount, InUnmount, InFile,
         IfAt, ReturnAt, CallAt, PlugAt, FsAt
<1>2. o.op = "plug" => o.in \in BOOLEAN
  BY OpPlaces DEF PlugPlace
<1>. QED  BY <1>1, <1>2

(* Who uses a file needs the file system. *)
LEMMA UsersNeed ==
  ASSUME IInv, Doing("fs"), Now.do \in {"open", "write", "close"}
  PROVE  Needs(Top) /\ Seen /\ (Top.fn = "main" => Top.at \in {8, 11, 13})
<1>1. Now.op = "fs" /\ Seen /\ Place(Top.fn, Top.at, Now)
  BY Running
<1>2. FsPlace(Top, Now)
  BY <1>1, OpPlaces
<1>3. \/ Top.fn = "main" /\ Top.at \in {8, 11, 13}
      \/ Top.fn \in Files
  BY <1>2 DEF FsPlace, FsAt
<1>4. CASE Top.fn = "main" /\ Top.at \in {8, 11, 13}
  <2>1. Unmounting[Top.fn] = 15
    BY <1>4, Lengths
  <2>2. PICK a : a = Top.at /\ a \in {8, 11, 13}
    BY <1>4
  <2>3. a \in 8 .. 15
    BY <2>2
  <2>4. Top.at \in 8 .. Unmounting[Top.fn]
    BY <2>1, <2>2, <2>3
  <2>. QED  BY <1>1, <1>4, <2>4 DEF Needs, Keeps, Callers
<1>5. CASE Top.fn \in Files
  BY <1>1, <1>5 DEF Needs, Files
<1>. QED  BY <1>3, <1>4, <1>5

(* Whoever has the file system mounted has the medium out. *)
LEMMA MountedOut ==
  ASSUME IInv, mounted, faults \cap {"unmount failed", "command nested"} = {}
  PROVE  ~medium_available
<1>1. Alone /\ "unmount failed" \notin faults
  BY DEF Alone
<1>2. Owned /\ Held
  BY <1>1 DEF IInv, Ordered
<1>3. (~Idle /\ Judges(Top) /\ result) \/ \E k \in 1 .. Len(stack) : Keeps(stack[k])
  BY <1>1, <1>2 DEF Held
<1>. QED  BY <1>2, <1>3 DEF Owned, Needs

(* The types of the variables that are not the stack. *)
LEMMA TypedKeeps == ASSUME IInv, [Next]_vars PROVE Typed'
<1>. USE DEF plug, firmware, hosts
<1>1. stack' \in Seq(Frames)
  BY OrderedKeeps
<1>2. Typed
  BY DEF IInv
<1>3. CASE Said \/ Branch \/ CallFunction \/ ReadState \/ FMkfs \/ BallMoves \/ CompareLine \/ UNCHANGED vars
  BY <1>1, <1>2, <1>3 DEF Typed, Said, Branch, CallFunction, ReadState, FMkfs, BallMoves, CompareLine, vars
<1>4. CASE ReturnFrom
  <2>1. result' \in BOOLEAN
    <3>1. CASE Done
      BY <1>2, <1>4, <3>1 DEF ReturnFrom, Typed
    <3>2. CASE ~Done
      <4>1. Doing("return") /\ result' = Now.ok
        BY <1>4, <3>2 DEF ReturnFrom
      <4>2. Now.op = "return" /\ Place(Top.fn, Top.at, Now)
        BY <4>1, Running
      <4>. QED  BY <4>1, <4>2, Outcomes
    <3>. QED  BY <3>1, <3>2
  <2>. QED  BY <1>1, <1>2, <1>4, <2>1 DEF Typed, ReturnFrom
<1>5. CASE PlugMedium
  <2>1. ASSUME NEW in \in BOOLEAN, SetMedium(in)
        PROVE  medium_available' \in BOOLEAN /\ taken' \in BOOLEAN /\ faults' \subseteq Faults
    BY <1>2, <2>1 DEF SetMedium, Typed, Faults
  <2>2. CASE Doing("plug") /\ SetMedium(Now.in)
    <3>1. Now.op = "plug" /\ Place(Top.fn, Top.at, Now)
      BY <2>2, Running
    <3>2. Now.in \in BOOLEAN
      BY <3>1, Outcomes
    <3>. QED  BY <1>1, <1>2, <1>5, <2>1, <2>2, <3>2 DEF Typed, PlugMedium
  <2>3. CASE SetMedium(~Top.state)
    BY <1>1, <1>2, <1>5, <2>1, <2>3 DEF Typed, PlugMedium
  <2>. QED  BY <1>5, <2>2, <2>3 DEF PlugMedium
<1>6. CASE Fails
  <2>1. faults' \subseteq Faults
    BY <1>2, <1>6 DEF Fails, Happens, Typed, Faults
  <2>. QED  BY <1>1, <1>2, <1>6, <2>1 DEF Typed, Fails
<1>7. CASE NotMounted \/ FMount \/ FUnmount
  BY <1>1, <1>2, <1>7 DEF Typed, NotMounted, FMount, FUnmount
<1>8. CASE FOpen \/ FWriteOrClose
  BY <1>1, <1>2, <1>8 DEF Typed, FOpen, FWriteOrClose, Outdated
<1>9. CASE TestUnitReady \/ Read10
  BY <1>1, <1>2, <1>9 DEF Typed, TestUnitReady, Read10
<1>10. CASE Write10
  <2>1. faults' \subseteq Faults
    BY <1>2, <1>10 DEF Write10, Happens, Typed, Faults
  <2>. QED  BY <1>1, <1>2, <1>10, <2>1 DEF Typed, Write10, Outdated
<1>11. ASSUME NEW fn \in ScsiCommand, ScsiWithOutput(fn)
       PROVE  Typed'
  BY <1>1, <1>2, <1>11 DEF Typed, ScsiWithOutput
<1>12. ASSUME NEW cmd \in Command, RunCommand(cmd)
       PROVE  Typed'
  <2>1. faults' \subseteq Faults
    BY <1>2, <1>12 DEF RunCommand, Happens, Typed, Faults
  <2>. QED  BY <1>1, <1>2, <1>12, <2>1 DEF Typed, RunCommand
<1>13. CASE Reset
  <2>1. Init'
    BY <1>13 DEF Reset, Restart, Init
  <2>2. IInv'
    BY <2>1, Boots, PTL
  <2>. QED  BY <2>2 DEF IInv
<1>. QED  BY <1>3, <1>4, <1>5, <1>6, <1>7, <1>8, <1>9, <1>10, <1>11, <1>12, <1>13
          DEF Next, Execute

(* Nothing is forgotten of what the caches may miss. *)
LEMMA OnlyMore ==
  ASSUME Cached, mounted' = mounted, fs' = fs, host' = host, ready' = ready,
         medium_available' = medium_available, faults \subseteq faults'
  PROVE  Cached'
BY DEF Cached, HostUpToDate, FirmwareUpToDate

(* PlugMedium: a host that has a picture of the disk has not missed that the *)
(* medium was out, but if it asked too seldom.                               *)
LEMMA PluggedIn ==
  ASSUME Typed, Cached, NEW in \in BOOLEAN, SetMedium(in),
         mounted' = mounted, fs' = fs, host' = host, ready' = ready
  PROVE  Cached'
<1>1. faults \subseteq faults' /\ medium_available' = in
      /\ (in /\ ~medium_available /\ ready => "unplugging missed" \in faults')
  BY DEF SetMedium
<1>2. medium_available' /\ host' = "stale"
        => faults' \cap {"unplugging missed", "command nested"} # {}
  <2>1. host = "stale" => ready
    BY DEF Cached
  <2>2. medium_available /\ host = "stale"
          => faults \cap {"unplugging missed", "command nested"} # {}
    BY DEF Cached, HostUpToDate
  <2>3. CASE medium_available
    BY <1>1, <2>2, <2>3
  <2>4. CASE ~medium_available
    BY <1>1, <2>1, <2>4
  <2>. QED  BY <2>3, <2>4
<1>. QED  BY <1>1, <1>2 DEF Cached, HostUpToDate, FirmwareUpToDate

(* FOpen, FWriteOrClose: while the medium is out the host cannot be let down. *)
LEMMA FilesWritten ==
  ASSUME IInv, FOpen \/ FWriteOrClose
  PROVE  Cached'
<1>1. /\ mounted' = mounted /\ ready' = ready /\ faults' = faults
      /\ medium_available' = medium_available /\ host' = Outdated(host)
      /\ (fs' = "stale" => fs = "stale")
      /\ (fs' # "none" => fs # "none" \/ mounted)
  BY DEF FOpen, FWriteOrClose, plug, firmware
<1>2. "command nested" \notin faults => ~medium_available
  <2>1. Doing("fs") /\ Now.do \in {"open", "write", "close"}
    BY DEF FOpen, FWriteOrClose, DoingFs
  <2>2. Needs(Top) /\ Seen
    BY <2>1, UsersNeed
  <2>. QED  BY <2>2 DEF Seen, Alone
<1>3. host' # "none" => host # "none"
  BY <1>1 DEF Outdated
<1>. QED  BY <1>1, <1>2, <1>3 DEF IInv, Cached, HostUpToDate, FirmwareUpToDate

(* A debug_msc_mount that reports its failure has nothing mounted. *)
LEMMA Reporting ==
  ASSUME NEW f, f.fn = "debug_msc_mount", f.at = 6
  PROVE  ~Judges(f) /\ ~Keeps(f)
<1>1. f.at \notin {2, 3, 8}
  OBVIOUS
<1>. QED  BY <1>1 DEF Judges, Keeps, Callers

(* NotMounted: FatFS has nothing in memory by then. *)
LEMMA NothingRead ==
  ASSUME IInv, NotMounted, faults \cap {"unmount failed", "command nested"} = {}
  PROVE  fs = "none"
<1>1. Doing("not mounted")
  BY DEF NotMounted
<1>2. ~Idle /\ Now.op = "not mounted" /\ Seen /\ Place(Top.fn, Top.at, Now)
  BY <1>1, Running
<1>3. Top.fn = "debug_msc_mount" /\ Top.at = 6
  BY <1>2, OpPlaces
<1>4. Alone /\ "unmount failed" \notin faults
  BY DEF Alone
<1>5. ~NeededBelow
  BY <1>2, <1>3, <1>4, NoneBelow
<1>6. ~KeptBelow
  BY <1>5 DEF NeededBelow, KeptBelow, Needs
<1>7. ~Judges(Top) /\ ~Keeps(Top)
  BY <1>3, Reporting
<1>8. ~mounted
  BY <1>2, <1>4, <1>6, <1>7 DEF Seen
<1>. QED  BY <1>8 DEF IInv, Cached

(* What FatFS and the host have in memory, through every step. *)
LEMMA CachedKeeps == ASSUME IInv, [Next]_vars PROVE Cached'
<1>. USE DEF plug, firmware, hosts
<1>1. Typed /\ Cached
  BY DEF IInv
<1>2. CASE Said \/ Branch \/ CallFunction \/ ReadState \/ FMkfs \/ BallMoves \/ CompareLine \/ ReturnFrom
           \/ UNCHANGED vars
  BY <1>1, <1>2, OnlyMore
     DEF Said, Branch, CallFunction, ReadState, FMkfs, BallMoves, CompareLine, ReturnFrom, vars
<1>3. CASE PlugMedium
  <2>1. CASE Doing("plug") /\ SetMedium(Now.in)
    <3>1. Now.op = "plug" /\ Place(Top.fn, Top.at, Now)
      BY <2>1, Running
    <3>2. Now.in \in BOOLEAN
      BY <3>1, Outcomes
    <3>. QED  BY <1>1, <1>3, <2>1, <3>2, PluggedIn DEF PlugMedium
  <2>2. CASE SetMedium(~Top.state)
    <3>1. (~Top.state) \in BOOLEAN
      OBVIOUS
    <3>. QED  BY <1>1, <1>3, <2>2, <3>1, PluggedIn DEF PlugMedium
  <2>. QED  BY <1>3, <2>1, <2>2 DEF PlugMedium
<1>4. CASE Fails
  BY <1>1, <1>4, OnlyMore DEF Fails, Happens
<1>5. CASE NotMounted
  <2>1. /\ mounted' = FALSE /\ ready' = ready /\ host' = host /\ faults' = faults
        /\ medium_available' = medium_available /\ fs' = fs
    BY <1>5 DEF NotMounted
  <2>2. faults \cap {"unmount failed", "command nested"} = {} => fs = "none"
    BY <1>5, NothingRead
  <2>. QED  BY <1>1, <2>1, <2>2 DEF Cached, HostUpToDate, FirmwareUpToDate
<1>6. CASE FMount \/ FUnmount
  <2>1. /\ fs' = "none" /\ ready' = ready /\ host' = host /\ faults' = faults
        /\ medium_available' = medium_available
    BY <1>6 DEF FMount, FUnmount
  <2>. QED  BY <1>1, <2>1 DEF Cached, HostUpToDate, FirmwareUpToDate
<1>7. CASE FOpen \/ FWriteOrClose
  BY <1>7, FilesWritten
<1>8. CASE TestUnitReady
  BY <1>1, <1>8 DEF TestUnitReady, Cached, HostUpToDate, FirmwareUpToDate
<1>9. CASE Read10
  BY <1>1, <1>9 DEF Read10, Cached, HostUpToDate, FirmwareUpToDate
<1>10. CASE Write10
  <2>1. /\ mounted' = mounted /\ ready' = ready /\ host' = host /\ faults \subseteq faults'
        /\ medium_available' = medium_available /\ fs' = Outdated(fs)
        /\ (~medium_available => "written unplugged" \in faults')
    BY <1>10 DEF Write10, Happens
  <2>2. fs' # "none" => fs # "none"
    BY <2>1 DEF Outdated
  <2>3. fs' = "stale"
          => faults' \cap {"written unplugged", "unmount failed", "command nested"} # {}
    <3>. SUFFICES ASSUME fs # "none", faults \cap {"unmount failed", "command nested"} = {}
                  PROVE  "written unplugged" \in faults'
      BY <2>1, <2>2
    <3>1. mounted
      BY <1>1 DEF Cached
    <3>2. ~medium_available
      BY <3>1, MountedOut
    <3>. QED  BY <2>1, <3>2
  <2>. QED  BY <1>1, <2>1, <2>2, <2>3 DEF Cached, HostUpToDate, FirmwareUpToDate
<1>11. ASSUME NEW fn \in ScsiCommand, ScsiWithOutput(fn)
       PROVE  Cached'
  BY <1>1, <1>11 DEF ScsiWithOutput, Cached, HostUpToDate, FirmwareUpToDate
<1>12. ASSUME NEW cmd \in Command, RunCommand(cmd)
       PROVE  Cached'
  BY <1>1, <1>12, OnlyMore DEF RunCommand, Happens
<1>13. CASE Reset
  <2>1. Init'
    BY <1>13 DEF Reset, Restart, Init
  <2>2. IInv'
    BY <2>1, Boots, PTL
  <2>. QED  BY <2>2 DEF IInv
<1>. QED  BY <1>2, <1>3, <1>4, <1>5, <1>6, <1>7, <1>8, <1>9, <1>10, <1>11, <1>12, <1>13
          DEF Next, Execute
-----------------------------------------------------------------------------
\* ----- The theorems.
(* The inductive invariant holds from boot on. *)
THEOREM Invariance == Spec => []IInv
<1>1. Init => IInv
  BY Boots
<1>2. IInv /\ [Next]_vars => IInv'
  BY OrderedKeeps, TypedKeeps, CachedKeeps DEF IInv
<1>. QED  BY <1>1, <1>2, PTL DEF Spec

(* Every variable keeps its type, and every function of the stack is at one  *)
(* of its operations: no skip of a branch or of a failed call of the file    *)
(* system (console.c, debug.c, fat_disk.c) leads out of its function.        *)
THEOREM TypeCorrect == Spec => []TypeOK
<1>1. IInv => TypeOK
  <2>. SUFFICES ASSUME IInv PROVE TypeOK
    OBVIOUS
  <2>1. Typed /\ Shape
    BY DEF IInv, Ordered
  <2>2. \A k \in DOMAIN stack : stack[k].at \in 1 .. Len(Program(stack[k].fn)) + 1
    <3>1. DOMAIN stack = 1 .. Len(stack)
      BY <2>1 DEF Typed
    <3>. QED  BY <2>1, <3>1 DEF Shape, FrameOK
  <2>. QED  BY <2>1, <2>2 DEF TypeOK, Typed, Faults
<1>. QED  BY <1>1, Invariance, PTL

(* The firmware and the host have the disk one at a time (console.c:144-166). *)
THEOREM OneUser == Spec => []Exclusive
<1>1. IInv => Exclusive
  BY MountedOut DEF Exclusive
<1>. QED  BY <1>1, Invariance, PTL

(* The host does not go on with an outdated picture of the disk.             *)
THEOREM HostNeverStale == Spec => []HostUpToDate
<1>1. IInv => HostUpToDate
  BY DEF IInv, Cached
<1>. QED  BY <1>1, Invariance, PTL

(* Nor does FatFS, if the host does not write to a medium that is out        *)
(* (usb_msc.c:141-155).                                                      *)
THEOREM FirmwareNeverStale == Spec => []FirmwareUpToDate
<1>1. IInv => FirmwareUpToDate
  BY DEF IInv, Cached
<1>. QED  BY <1>1, Invariance, PTL

(* What stats and data write goes to a mounted file system and an open file, *)
(* unless another command unmounted it in between.                           *)
THEOREM WritesReachFiles == Spec => []FilesReachable
<1>1. IInv => FilesReachable
  <2>. SUFFICES ASSUME IInv, Doing("fs"), Now.do \in {"open", "write", "close"}, Alone
                PROVE  mounted /\ Top.file # "dead"
    BY DEF FilesReachable, Alone
  <2>1. Needs(Top) /\ Seen /\ (Top.fn = "main" => Top.at \in {8, 11, 13})
    BY UsersNeed
  <2>2. mounted
    BY <2>1 DEF Seen
  <2>3. Top.file = "dead" => Top.fn = "main" /\ Top.at >= 16
    BY <2>1 DEF Seen
  <2>4. ~(Top.fn = "main" /\ Top.at >= 16)
    <3>1. CASE Top.fn = "main"
      <4>1. PICK a : a = Top.at /\ a \in {8, 11, 13}
        BY <2>1, <3>1
      <4>2. ~(a >= 16)
        BY <4>1
      <4>. QED  BY <4>1, <4>2
    <3>. QED  BY <3>1
  <2>. QED  BY <2>2, <2>3, <2>4
<1>. QED  BY <1>1, Invariance, PTL

(* Back in the main loop the file system is unmounted and the medium plugged *)
(* in again, but for the two failures the code has no answer to.             *)
THEOREM DiskHandedBack == Spec => []HandedBack
<1>1. IInv => HandedBack
  BY IdleFacts DEF HandedBack
<1>. QED  BY <1>1, Invariance, PTL
=============================================================================
