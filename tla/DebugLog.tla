------------------------------ MODULE DebugLog ------------------------------
(* One message on its way to the terminal and into the log: debug_log of    *)
(* src/firmware/src/log.c, which formats into one static buffer for all of  *)
(* its calls, usb_cdc_write of usb_cdc.c, which empties the buffer through   *)
(* the FIFO of the serial port and runs the USB stack while it does, and    *)
(* tud_cdc_line_state_cb, by which the stack tells that a terminal opens or *)
(* closes the port.  All three can be called again from that stack.  The    *)
(* ring that add_to_log fills, and its replay, is LogBuffer.                *)
EXTENDS Naturals, Sequences, FiniteSets, SequencesExt

CONSTANTS BuffSize,  \* sizeof(line_buff)
          FifoSize,  \* CFG_TUD_CDC_TX_BUFSIZE
          LogSize,   \* sizeof(log_buff)
          Lengths,   \* how long messages are
          NoteLen,   \* how long the message is that replaces one too long
          TitleLen,  \* how long the lines are around the replay of the log
          MaxCalls,  \* bound: calls of debug_log between two boots
          MaxNest    \* bound: how many functions are under way at once

ASSUME DebugLogAssumption ==
  /\ {BuffSize, FifoSize, LogSize, NoteLen, TitleLen} \subseteq Nat \ {0}
  /\ Lengths \subseteq Nat \ {0}
  /\ NoteLen < BuffSize
  /\ {MaxCalls, MaxNest} \subseteq Nat

VARIABLES line_buff, \* of debug_log
          stack,     \* the functions under way, the innermost last
          head, full, \* of the log: until it is full, tail is 0, and then head
          fifo,      \* how many characters wait in the port's FIFO
          opened,    \* a terminal has the port open (DTR)
          suspended, \* the bus sleeps
          last_dtr,  \* of tud_cdc_line_state_cb
          calls,     \* history: the calls of debug_log since boot
          replayed,  \* history: has the open terminal been given the log
          disturbed  \* history: last_dtr did not follow, or a replay was cut off

port == <<fifo, opened, suspended, last_dtr>>
log_buff == <<head, full>>
vars == <<line_buff, stack, log_buff, port, calls, replayed, disturbed>>
-----------------------------------------------------------------------------
\* A character is known by its call and its place; snprintf ends with a NUL.
NUL == <<0, 0>>

\* format_debug_log
Formatted_OffByOne(len) == IF len > BuffSize THEN NoteLen ELSE len
Formatted(len) == IF len >= BuffSize THEN NoteLen ELSE len

\* How far it writes, the NUL included.
Wrote(len) == IF len >= BuffSize THEN BuffSize ELSE len + 1

\* A text that is too long is first cut off, then the note is put over it.
LineBuffAfter(id, len) ==
  [k \in 1 .. BuffSize |->
    IF k > Wrote(len) THEN line_buff[k]
    ELSE IF k \in {Formatted(len) + 1, BuffSize} THEN NUL ELSE <<id, k>>]

\* tud_cdc_connected
Connected == opened /\ ~suspended

\* What is under way: an output, of a debug_log or of a replay (id 0), that has
\* sent some of its l characters and is in usb_cdc_write's loop, in its
\* tud_task, or past it; or the callback.
Output(id, l) == [fn |-> "usb_cdc_write", id |-> id, l |-> l, sent |-> 0,
                  at |-> IF Connected /\ l > 0 THEN "loop" ELSE "end"]
LineState(dtr) == [fn |-> "line_state", dtr |-> dtr, at |-> "start"]

Idle == stack = <<>>
Top == Last(stack)
At(fn, at) == ~Idle /\ Top.fn = fn /\ Top.at = at
SetTop(frame) == Append(Front(stack), frame)
Ids == {stack[k].id : k \in {j \in DOMAIN stack : stack[j].fn = "usb_cdc_write"}} \ {0}

\* The USB stack runs, in the main loop or in an output, and may call back.
InTask == Idle \/ At("usb_cdc_write", "task")
Calls == InTask /\ Len(stack) < MaxNest /\ Len(calls) < MaxCalls

\* debug_log, up to usb_cdc_write, called by what is on top of below.
Begin(log, len, below) ==
  LET id == Len(calls) + 1
      l == Formatted(len)
  IN /\ line_buff' = LineBuffAfter(id, len)
     /\ calls' = Append([c \in DOMAIN calls |->
                   IF c \in Ids THEN [calls[c] EXCEPT !.nested = @ \cup {id}]
                   ELSE calls[c]],
                 [log |-> log, l |-> l, wrote |-> Wrote(len), connected |-> Connected,
                  nested |-> {}, out |-> <<>>, entry |-> <<>>])
     /\ stack' = IF l <= BuffSize THEN Append(below, Output(id, l)) ELSE below

\* Any message of the program, in the main loop or in a callback.
DebugLog(log, len) ==
  /\ Calls
  /\ Begin(log, len, stack)
  /\ UNCHANGED <<log_buff, port, replayed, disturbed>>

\* ----- usb_cdc_write
Available_AllOrNothing(n) == IF n <= FifoSize - fifo THEN n ELSE 0
Available(n) == IF n <= FifoSize - fifo THEN n ELSE FifoSize - fifo

Chunk_FromStart(n) == SubSeq(line_buff, 1, n)
Chunk(n) == SubSeq(line_buff, Top.sent + 1, Top.sent + n)

WriteChunk ==
  /\ At("usb_cdc_write", "loop")
  /\ LET n == Available(Top.l - Top.sent)
     IN /\ fifo' = fifo + n
        /\ stack' = SetTop([Top EXCEPT !.sent = @ + n, !.at = "task"])
        /\ calls' = IF Top.id = 0 THEN calls
                    ELSE [calls EXCEPT ![Top.id].out = @ \o Chunk(n)]
  /\ UNCHANGED <<line_buff, log_buff, opened, suspended, last_dtr, replayed, disturbed>>

TaskDone ==
  /\ At("usb_cdc_write", "task")
  /\ stack' = SetTop([Top EXCEPT !.at = IF Top.sent < Top.l THEN "loop" ELSE "end"])
  /\ UNCHANGED <<line_buff, log_buff, port, calls, replayed, disturbed>>

\* add_to_log, in debug_log; LogBuffer has it character by character.
WriteEnds ==
  /\ At("usb_cdc_write", "end")
  /\ stack' = Front(stack)
  /\ IF Top.id # 0 /\ calls[Top.id].log
     THEN /\ calls' = [calls EXCEPT ![Top.id].entry = SubSeq(line_buff, 1, Top.l)]
          /\ head' = (head + Top.l) % LogSize
          /\ full' = (full \/ head + Top.l >= LogSize)
     ELSE UNCHANGED <<calls, log_buff>>
  /\ UNCHANGED <<line_buff, port, replayed, disturbed>>

\* ----- tud_cdc_line_state_cb: last_dtr follows only after all output.
SetLineState(dtr) ==
  /\ Calls
  /\ ~suspended
  /\ opened' = dtr
  /\ stack' = Append(stack, LineState(dtr))
  /\ replayed' = IF dtr = opened THEN replayed ELSE "no"
  /\ UNCHANGED <<line_buff, log_buff, fifo, suspended, last_dtr, calls, disturbed>>

Opening == Top.dtr /\ ~last_dtr
Closing == ~Top.dtr /\ last_dtr

\* log_dump_to_usb writes nothing where head == tail.  There is nothing to show
\* then, or the ring is exactly full.
LogDumpToUsb ==
  /\ At("line_state", "start")
  /\ stack' = IF Opening /\ ~full /\ head > 0
              THEN Append(SetTop([Top EXCEPT !.at = "log"]), Output(0, TitleLen))
              ELSE SetTop([Top EXCEPT !.at = IF Opening \/ Closing THEN "message" ELSE "end"])
  /\ replayed' = IF Opening /\ ~full THEN "begun" ELSE replayed
  /\ UNCHANGED <<line_buff, log_buff, port, calls, disturbed>>

\* Its other writes: the log, in two pieces if it has become full meanwhile, and
\* the title of what follows.  Each looks at the port, and reads head, anew.
Piece(at) ==
  CASE at = "log" -> IF full THEN LogSize - head ELSE head
    [] at = "rest" -> head
    [] at = "live" -> TitleLen
After(at) ==
  CASE at = "log" -> IF full THEN "rest" ELSE "live"
    [] at = "rest" -> "live"
    [] at = "live" -> "message"

LogDumpPiece ==
  \E at \in {"log", "rest", "live"} :
    /\ At("line_state", at)
    /\ stack' = Append(SetTop([Top EXCEPT !.at = After(at)]), Output(0, Piece(at)))
    /\ UNCHANGED <<line_buff, log_buff, port, calls, replayed, disturbed>>

LineStateMessage ==
  /\ At("line_state", "message")
  /\ replayed' = IF replayed = "begun" THEN "yes" ELSE replayed
  /\ \E len \in Lengths : Begin(TRUE, len, SetTop([Top EXCEPT !.at = "end"]))
  /\ UNCHANGED <<log_buff, port, disturbed>>

LastDtr_Sticky == Top.dtr \/ last_dtr
LastDtr == Top.dtr

\* Whatever happened before, the end of an orderly closing mends it.
LineStateEnds ==
  /\ At("line_state", "end")
  /\ last_dtr' = LastDtr
  /\ disturbed' = (Top.dtr # opened \/ (disturbed /\ Top.dtr))
  /\ stack' = Front(stack)
  /\ UNCHANGED <<line_buff, log_buff, fifo, opened, suspended, calls, replayed>>

\* ----- the host takes what waits, as long as a terminal reads.
HostReads ==
  /\ InTask
  /\ Connected
  /\ fifo > 0
  /\ fifo' = 0
  /\ UNCHANGED <<line_buff, stack, log_buff, opened, suspended, last_dtr, calls,
                 replayed, disturbed>>

\* A reset of the bus, or an unplugging, closes the port without the callback.
BusReset ==
  /\ InTask
  /\ opened \/ suspended
  /\ opened' = FALSE
  /\ suspended' = FALSE
  /\ fifo' = 0
  /\ replayed' = "no"
  /\ disturbed' = (disturbed \/ opened)
  /\ UNCHANGED <<line_buff, stack, log_buff, last_dtr, calls>>

\* It sleeps: what is printed meanwhile is not sent, a replay neither.
Suspend ==
  /\ InTask
  /\ ~suspended
  /\ suspended' = TRUE
  /\ disturbed' = (disturbed \/ (opened /\ replayed # "yes"))
  /\ UNCHANGED <<line_buff, stack, log_buff, fifo, opened, last_dtr, calls, replayed>>

Resume ==
  /\ InTask
  /\ suspended
  /\ suspended' = FALSE
  /\ UNCHANGED <<line_buff, stack, log_buff, fifo, opened, last_dtr, calls, replayed, disturbed>>

Init ==
  /\ line_buff = [k \in 1 .. BuffSize |-> NUL]
  /\ stack = <<>>
  /\ head = 0
  /\ full = FALSE
  /\ fifo = 0
  /\ opened = FALSE
  /\ suspended = FALSE
  /\ last_dtr = FALSE
  /\ calls = <<>>
  /\ replayed = "no"
  /\ disturbed = FALSE

\* The command reset, or the watchdog: it ends a loop nobody reads from.
Reset ==
  /\ line_buff' = [k \in 1 .. BuffSize |-> NUL]
  /\ stack' = <<>>
  /\ head' = 0
  /\ full' = FALSE
  /\ fifo' = 0
  /\ opened' = FALSE
  /\ suspended' = FALSE
  /\ last_dtr' = FALSE
  /\ calls' = <<>>
  /\ replayed' = "no"
  /\ disturbed' = FALSE

Execute ==
  \/ WriteChunk \/ TaskDone \/ WriteEnds
  \/ LogDumpToUsb \/ LogDumpPiece \/ LineStateMessage \/ LineStateEnds

Next ==
  \/ Execute \/ HostReads \/ BusReset \/ Suspend \/ Resume \/ Reset
  \/ \E dtr \in BOOLEAN : SetLineState(dtr)
  \/ \E log \in BOOLEAN, len \in Lengths : DebugLog(log, len)

Spec == Init /\ [][Next]_vars

\* The processor does not stop, tud_task returns when it has emptied its queue,
\* and a host that has the port open reads.
FairSpec == Spec /\ WF_vars(Execute) /\ SF_vars(TaskDone) /\ SF_vars(HostReads)
-----------------------------------------------------------------------------
Character == Nat \X Nat
Frame ==
  [fn : {"usb_cdc_write"}, id : Nat, l : Nat, sent : Nat, at : {"loop", "task", "end"}]
  \cup [fn : {"line_state"}, dtr : BOOLEAN,
        at : {"start", "log", "rest", "live", "message", "end"}]
Call ==
  [log : BOOLEAN, l : Nat, wrote : Nat, connected : BOOLEAN, nested : SUBSET Nat,
   out : Seq(Character), entry : Seq(Character)]

\* The calls under way are known; what is sent is part of the message.
TypeOK ==
  /\ line_buff \in [1 .. BuffSize -> Character]
  /\ stack \in Seq(Frame)
  /\ head \in 0 .. LogSize - 1
  /\ calls \in Seq(Call)
  /\ fifo \in 0 .. FifoSize
  /\ {full, opened, suspended, last_dtr, disturbed} \subseteq BOOLEAN
  /\ replayed \in {"no", "begun", "yes"}
  /\ \A k \in DOMAIN stack : stack[k].fn = "usb_cdc_write" =>
       stack[k].id \in 0 .. Len(calls) /\ stack[k].sent \in 0 .. stack[k].l

Ended(c) == c \in DOMAIN calls \ Ids

\* Which messages went through place k of the buffer while c was printed, and
\* what each of them left there.
Writers(c, k) == {c} \cup {d \in calls[c].nested : calls[d].wrote >= k}
LeftAt(w, k) ==
  IF k > calls[w].l /\ k \in {calls[w].l + 1, BuffSize} THEN NUL ELSE <<w, k>>

\* Once a call has ended, its message, or the note that it was too long, is in
\* the log in full length, if it was a debug, and has gone to the terminal, if
\* one was connected when it began.  The log has at every place what the last
\* message left there that was formatted since: its own text wherever no
\* message in its output reached.  The terminal has been sent, at every place,
\* its own text or that of a message in its output: never an older one
\* (log.c:123-137).
LastTextIsKept ==
  \A c \in DOMAIN calls : Ended(c) =>
    /\ Len(calls[c].entry) = IF calls[c].log THEN calls[c].l ELSE 0
    /\ Len(calls[c].out) = IF calls[c].connected THEN calls[c].l ELSE 0
    /\ \A k \in DOMAIN calls[c].entry :
         \E w \in Writers(c, k) :
           /\ \A v \in Writers(c, k) : v <= w
           /\ calls[c].entry[k] = LeftAt(w, k)
    /\ \A k \in DOMAIN calls[c].out :
         \E w \in Writers(c, k) : calls[c].out[k] = LeftAt(w, k)

\* What the header says of print: its text is not stored (log.h:30), and what is
\* stored is debug output (log.h:22).
PrintIsNotStored ==
  \A c \in DOMAIN calls : \A ch \in ToSet(calls[c].entry) : ch = NUL \/ calls[ch[1]].log

\* A terminal that is open has been given the log, in full (usb_cdc.c:98-107),
\* unless the ring has become full (log.c:53) or its opening was disturbed: the
\* session before it ended without its callback, or while the callback of its
\* own opening still printed, so that last_dtr stayed set; or the bus slept in
\* the middle of the replay.  One closing in good order makes up for all that.
OpenIsReplayed == Idle /\ opened /\ ~disturbed /\ ~full => replayed = "yes"

\* As long as a terminal has the port open, and reads, every output ends.  If it
\* closes the port in the middle nobody empties the FIFO, and only the watchdog
\* ends the loop: usb_cdc.c:44 looks at the port once.
OutputEnds == []<>(Idle \/ ~Connected)
=============================================================================
